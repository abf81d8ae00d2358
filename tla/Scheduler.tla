------------------------------ MODULE Scheduler ------------------------------
(***************************************************************************)
(* The preemptive SMP scheduler of src/exec/scheduler.c (x86_64 build).    *)
(*                                                                         *)
(* A thread_t is named by its address.  The idle thread of CPU c is named  *)
(* c itself.  Every body that runs under scheduler_lock is one step; what  *)
(* happens between two critical sections is a step of its own, so other    *)
(* CPUs interleave there.  System calls run with interrupts off (IA32_FMASK*)
(* clears IF), so only user code and idle threads are interrupted by the   *)
(* timer; a thread that put itself to sleep or exited reaches              *)
(* scheduler_schedule through the software interrupt 0x41.                 *)
(***************************************************************************)
EXTENDS Naturals, Sequences

CONSTANTS
    CPUs,       \* processors that come up
    BSP,        \* the boot processor, which runs kmain
    Threads,    \* addresses malloc can return for a thread_t
    WaitQueues, \* wait_queue_t objects
    None,       \* NULL
    MaxSeq      \* bound on the wake-ups of one queue (seq is 64 bits wide)

ASSUME SchedulerAssumption ==
    /\ BSP \in CPUs
    /\ CPUs \cap Threads = {}
    /\ None \notin CPUs \cup Threads \cup WaitQueues
    /\ MaxSeq \in Nat

VARIABLES
    curr,        \* current_threads[cpu]
    state,       \* t->state, or FREE when the address is not allocated
    ready,       \* ready_queue_head .. ready_queue_tail
    pendPark,    \* pending_park[cpu]
    pendZombie,  \* pending_zombie[cpu]
    zombies,     \* zombie_list
    waitq,       \* wq->head list
    seq,         \* wq->seq
    waitingOn,   \* t->waiting_on
    waitSeq,     \* t->wait_seq
    snap,        \* the seq a thread read with wait_queue_snapshot
    snapq,       \* the queue it read it from
    pc,          \* where the thread is in the code
    newborn,     \* the thread_t this thread allocated and has not enqueued
    reapList,    \* local variable list of scheduler_reap
    leaving,     \* the thread whose kernel stack the CPU is still on
    how,         \* how that thread was left
    initThread,  \* main thread of pid 1
    context_switch_lock

vars == <<curr, state, ready, pendPark, pendZombie, zombies, waitq, seq,
          waitingOn, waitSeq, snap, snapq, pc, newborn, reapList, leaving,
          how, initThread, context_switch_lock>>

\* Groups of variables that steps leave alone together.
queues  == <<ready, pendPark, pendZombie, zombies>>
waiting == <<waitq, seq, waitingOn, waitSeq>>
locals  == <<snap, snapq, newborn, reapList>>
tail    == <<leaving, how>>
boot    == <<initThread, context_switch_lock>>

AllThreads == CPUs \cup Threads

States == {"READY", "RUNNING", "BLOCKED", "TERMINATED", "UNINITIALISED", "FREE"}

\* user        running user code        kernel   inside a system call
\* snapped     has a snapshot           commit   passed the check of scheduler_wait
\* yield       about to take, or back from, interrupt 0x41
\* reap, alloc, enqueue                 inside thread_create / scheduler_enqueue
\* boot, wfi   kmain of the BSP         idle     the loop of ap_main
\* off         an AP before scheduler_ap_init
Locations == {"user", "kernel", "snapped", "commit", "yield", "reap", "alloc",
              "enqueue", "boot", "wfi", "idle", "off"}

Elems(s) == {s[i] : i \in 1..Len(s)}

-----------------------------------------------------------------------------

\* scheduler_init has run on the BSP; the APs have not reached scheduler_ap_init.
Init ==
    /\ curr = [c \in CPUs |-> IF c = BSP THEN BSP ELSE None]
    /\ state = [t \in AllThreads |-> IF t = BSP THEN "RUNNING" ELSE "FREE"]
    /\ ready = <<>>
    /\ pendPark = [c \in CPUs |-> None]
    /\ pendZombie = [c \in CPUs |-> None]
    /\ zombies = {}
    /\ waitq = [w \in WaitQueues |-> <<>>]
    /\ seq = [w \in WaitQueues |-> 0]
    /\ waitingOn = [t \in Threads |-> None]
    /\ waitSeq = [t \in Threads |-> 0]
    /\ snap = [t \in Threads |-> 0]
    /\ snapq = [t \in Threads |-> None]
    /\ pc = [t \in AllThreads |-> IF t = BSP THEN "boot" ELSE "off"]
    /\ newborn = [t \in AllThreads |-> None]
    /\ reapList = [t \in AllThreads |-> {}]
    /\ leaving = [c \in CPUs |-> None]
    /\ how = [c \in CPUs |-> "none"]
    /\ initThread = None
    /\ context_switch_lock = FALSE

\* CPU c executes thread t at location l, and is not in the tail of a switch.
At(c, t, l) == curr[c] = t /\ leaving[c] = None /\ pc[t] = l

\* scheduler_ap_init and register_idle_for_this_cpu.
ApInit(c) ==
    /\ c # BSP /\ curr[c] = None
    /\ curr' = [curr EXCEPT ![c] = c]
    /\ state' = [state EXCEPT ![c] = "RUNNING"]
    /\ pc' = [pc EXCEPT ![c] = "idle"]
    /\ UNCHANGED <<queues, waiting, locals, tail, boot>>

-----------------------------------------------------------------------------
(* The context switch. *)

\* (mutant) the queue's seq is not looked at again before parking
ParkStale_NoRecheck(c) ==
    LET t == pendPark[c] IN t # None /\ waitingOn[t] = None

\* The pending park of c found its queue woken in the meantime.
ParkStale(c) ==
    LET t == pendPark[c] IN
    t # None /\ (waitingOn[t] = None \/ seq[waitingOn[t]] # waitSeq[t])

\* The pending park of c goes to its wait queue.
ParkCommits(c) == pendPark[c] # None /\ ~ParkStale(c)

\* (mutant) the idle thread is enqueued like any other
ReadyAfterEnqueues_Idle(c) ==
    (IF ParkStale(c) THEN Append(ready, pendPark[c]) ELSE ready)
    \o (IF state[curr[c]] = "RUNNING" THEN <<curr[c]>> ELSE <<>>)

\* (mutant) the preempted thread goes to the head of the queue
ReadyAfterEnqueues_Lifo(c) ==
    (IF state[curr[c]] = "RUNNING" /\ curr[c] # c THEN <<curr[c]>> ELSE <<>>)
    \o (IF ParkStale(c) THEN Append(ready, pendPark[c]) ELSE ready)

\* The ready queue after the pending park was settled and the preempted
\* current thread put at its end.
ReadyAfterEnqueues(c) ==
    (IF ParkStale(c) THEN Append(ready, pendPark[c]) ELSE ready)
    \o (IF state[curr[c]] = "RUNNING" /\ curr[c] # c THEN <<curr[c]>> ELSE <<>>)

\* dequeue_locked, or the idle thread.
NextThread(c) ==
    IF ReadyAfterEnqueues(c) = <<>> THEN c ELSE Head(ReadyAfterEnqueues(c))

\* What scheduler_schedule does to the link fields of the pending park.
SettlePark(c) ==
    /\ waitingOn' = [t \in Threads |->
         IF ParkStale(c) /\ t = pendPark[c] THEN None
         ELSE IF t = NextThread(c) /\ t = curr[c] THEN None ELSE waitingOn[t]]
    /\ waitq' = [w \in WaitQueues |->
         IF ParkCommits(c) /\ waitingOn[pendPark[c]] = w
           THEN <<pendPark[c]>> \o waitq[w] ELSE waitq[w]]

\* The timer (0x40) hit user code or an idle thread, or the thread raised
\* 0x41.  In the kernel a process' thread is switched away only when BLOCKED.
MaySchedule(c) ==
    /\ curr[c] # None /\ leaving[c] = None
    /\ ~context_switch_lock
    /\ \/ pc[curr[c]] = "user"
       \/ curr[c] \in CPUs
       \/ pc[curr[c]] = "yield" /\ state[curr[c]] \in {"BLOCKED", "TERMINATED"}

\* (mutant) the thread left for good is never collected
ZombiesAfterSwitch_Forgets(c) == zombies

\* (mutant) the exiting thread is put on the list at once
ZombiesAfterSwitch_Eager(c) ==
    IF state[curr[c]] = "TERMINATED" THEN zombies \cup {curr[c]} ELSE zombies

\* The zombie list gets the thread this CPU left for good at its last switch.
ZombiesAfterSwitch(c) == zombies \cup ({pendZombie[c]} \ {None})

\* States after the switch: the next thread runs, the others wait in the queue.
StateAfterSwitch(c) ==
    [t \in AllThreads |->
        IF t = NextThread(c) THEN "RUNNING"
        ELSE IF t \in Elems(ReadyAfterEnqueues(c)) THEN "READY" ELSE state[t]]

\* scheduler_schedule, its critical section.
Schedule(c) ==
    /\ MaySchedule(c)
    /\ SettlePark(c)
    /\ zombies' = ZombiesAfterSwitch(c)
    /\ ready' = IF ReadyAfterEnqueues(c) = <<>> THEN <<>>
                ELSE Tail(ReadyAfterEnqueues(c))
    /\ state' = StateAfterSwitch(c)
    /\ pendPark' = [pendPark EXCEPT ![c] =
                      IF state[curr[c]] = "BLOCKED" THEN curr[c] ELSE None]
    /\ pendZombie' = [pendZombie EXCEPT ![c] =
                      IF state[curr[c]] = "TERMINATED" THEN curr[c] ELSE None]
    /\ curr' = [curr EXCEPT ![c] = NextThread(c)]
    /\ leaving' = [leaving EXCEPT ![c] =
                      IF NextThread(c) = curr[c] THEN None ELSE curr[c]]
    /\ how' = [how EXCEPT ![c] = IF NextThread(c) = curr[c] THEN "none"
                                 ELSE state[curr[c]]]
    /\ UNCHANGED <<seq, waitSeq, locals, pc, boot>>

\* The rest of scheduler_schedule after the unlock and the exit path of
\* isr_common: page table root written, stack pointer loaded.
LeaveStack(c) ==
    /\ leaving[c] # None
    /\ leaving' = [leaving EXCEPT ![c] = None]
    /\ how' = [how EXCEPT ![c] = "none"]
    /\ UNCHANGED <<curr, state, queues, waiting, locals, pc, boot>>

-----------------------------------------------------------------------------
(* Sleeping and waking. *)

\* A system call is entered: syscall_entry.
SyscallEnter(c, t) ==
    /\ t \in Threads
    /\ At(c, t, "user")
    /\ pc' = [pc EXCEPT ![t] = "kernel"]
    /\ UNCHANGED <<curr, state, queues, waiting, locals, tail, boot>>

\* One that does nothing the scheduler sees returns to user code.
SyscallReturn(c, t) ==
    /\ t \in Threads
    /\ At(c, t, "kernel")
    /\ pc' = [pc EXCEPT ![t] = "user"]
    /\ UNCHANGED <<curr, state, queues, waiting, locals, tail, boot>>

\* wait_queue_snapshot.
Snapshot(c, t, w) ==
    /\ t \in Threads
    /\ At(c, t, "kernel")
    /\ snap' = [snap EXCEPT ![t] = seq[w]]
    /\ snapq' = [snapq EXCEPT ![t] = w]
    /\ pc' = [pc EXCEPT ![t] = "snapped"]
    /\ UNCHANGED <<curr, state, queues, waiting, newborn, reapList, tail, boot>>

\* The caller found what it waits for and returns to user code instead of
\* calling scheduler_wait.
GiveUpWait(c, t) ==
    /\ At(c, t, "snapped")
    /\ pc' = [pc EXCEPT ![t] = "user"]
    /\ UNCHANGED <<curr, state, queues, waiting, locals, tail, boot>>

\* scheduler_wait: the unlocked test of wq->seq.
WaitCheck(c, t) ==
    /\ At(c, t, "snapped")
    /\ pc' = [pc EXCEPT ![t] = IF seq[snapq[t]] # snap[t] THEN "kernel" ELSE "commit"]
    /\ UNCHANGED <<curr, state, queues, waiting, locals, tail, boot>>

\* scheduler_wait: the thread declares itself BLOCKED and raises 0x41.
WaitBlock(c, t) ==
    /\ At(c, t, "commit")
    /\ waitingOn' = [waitingOn EXCEPT ![t] = snapq[t]]
    /\ waitSeq' = [waitSeq EXCEPT ![t] = snap[t]]
    /\ state' = [state EXCEPT ![t] = "BLOCKED"]
    /\ pc' = [pc EXCEPT ![t] = "yield"]
    /\ UNCHANGED <<curr, queues, waitq, seq, locals, tail, boot>>

\* scheduler_wait after 0x41: resumed by another switch, or never switched
\* away because a panic set context_switch_lock.
WaitReturn(c, t) ==
    /\ At(c, t, "yield")
    /\ \/ state[t] = "RUNNING" /\ UNCHANGED <<state, waitingOn>>
       \/ /\ state[t] = "BLOCKED" /\ context_switch_lock
          /\ state' = [state EXCEPT ![t] = "RUNNING"]
          /\ waitingOn' = [waitingOn EXCEPT ![t] = None]
    /\ pc' = [pc EXCEPT ![t] = "kernel"]
    /\ UNCHANGED <<curr, queues, waitq, seq, waitSeq, locals, tail, boot>>

\* CPU c may run scheduler_wake_all: from a system call, or from an interrupt
\* handler that hit user code or an idle thread.
MayWake(c) ==
    /\ curr[c] # None /\ leaving[c] = None
    /\ curr[c] \in CPUs \/ pc[curr[c]] \in {"user", "kernel"}

\* (mutant) wq->head is not cleared
WakeAll_KeepsHead(c, w) ==
    /\ MayWake(c)
    /\ seq[w] < MaxSeq
    /\ seq' = [seq EXCEPT ![w] = @ + 1]
    /\ ready' = ready \o waitq[w]
    /\ waitingOn' = [t \in Threads |->
                       IF t \in Elems(waitq[w]) THEN None ELSE waitingOn[t]]
    /\ state' = [t \in AllThreads |->
                       IF t \in Elems(waitq[w]) THEN "READY" ELSE state[t]]
    /\ UNCHANGED <<waitq, curr, pendPark, pendZombie, zombies, waitSeq, locals, pc,
                   tail, boot>>

\* (mutant) wq->seq is not advanced
WakeAll_NoSeq(c, w) ==
    /\ MayWake(c)
    /\ seq[w] < MaxSeq
    /\ waitq' = [waitq EXCEPT ![w] = <<>>]
    /\ ready' = ready \o waitq[w]
    /\ waitingOn' = [t \in Threads |->
                       IF t \in Elems(waitq[w]) THEN None ELSE waitingOn[t]]
    /\ state' = [t \in AllThreads |->
                       IF t \in Elems(waitq[w]) THEN "READY" ELSE state[t]]
    /\ UNCHANGED <<seq, curr, pendPark, pendZombie, zombies, waitSeq, locals, pc,
                   tail, boot>>

\* scheduler_wake_all.
WakeAll(c, w) ==
    /\ MayWake(c)
    /\ seq[w] < MaxSeq
    /\ seq' = [seq EXCEPT ![w] = @ + 1]
    /\ waitq' = [waitq EXCEPT ![w] = <<>>]
    /\ ready' = ready \o waitq[w]
    /\ waitingOn' = [t \in Threads |->
                       IF t \in Elems(waitq[w]) THEN None ELSE waitingOn[t]]
    /\ state' = [t \in AllThreads |->
                       IF t \in Elems(waitq[w]) THEN "READY" ELSE state[t]]
    /\ UNCHANGED <<curr, pendPark, pendZombie, zombies, waitSeq, locals, pc,
                   tail, boot>>

-----------------------------------------------------------------------------
(* Life and death of a thread. *)

\* thread_exit_status, up to interrupt 0x41; a fault in user code or a system
\* call ends here.  When pid 1 exits the kernel panics instead.
Exit(c, t) ==
    /\ t \in Threads
    /\ At(c, t, "user") \/ At(c, t, "kernel")
    /\ IF t = initThread
         THEN /\ context_switch_lock' = TRUE
              /\ UNCHANGED <<state, pc>>
         ELSE /\ state' = [state EXCEPT ![t] = "TERMINATED"]
              /\ pc' = [pc EXCEPT ![t] = "yield"]
              /\ UNCHANGED context_switch_lock
    /\ UNCHANGED <<curr, queues, waiting, locals, tail, initThread>>

\* scheduler_reap takes the whole zombie list.  The caller is the loop of
\* ap_main, thread_clone_user in a system call, or thread_create during boot.
ReapTake(c, t) ==
    /\ \/ At(c, t, "idle") /\ zombies # {}
       \/ At(c, t, "kernel") /\ t \in Threads
       \/ At(c, t, "boot")
    /\ reapList' = [reapList EXCEPT ![t] = zombies]
    /\ zombies' = {}
    /\ pc' = [pc EXCEPT ![t] = "reap"]
    /\ UNCHANGED <<curr, state, ready, pendPark, pendZombie, waiting, snap,
                   snapq, newborn, tail, boot>>

\* One turn of its loop: stacks, registers and thread_t are freed.
ReapFree(c, t, z) ==
    /\ At(c, t, "reap")
    /\ z \in reapList[t]
    /\ reapList' = [reapList EXCEPT ![t] = @ \ {z}]
    /\ state' = [state EXCEPT ![z] = "FREE"]
    /\ pc' = [pc EXCEPT ![z] = "off"]
    /\ UNCHANGED <<curr, queues, waiting, snap, snapq, newborn, tail, boot>>

ReapDone(c, t) ==
    /\ At(c, t, "reap")
    /\ reapList[t] = {}
    /\ pc' = [pc EXCEPT ![t] = IF t \in CPUs \ {BSP} THEN "idle" ELSE "alloc"]
    /\ UNCHANGED <<curr, state, queues, waiting, locals, tail, boot>>

\* tcb_alloc succeeds with a zeroed thread_t at a free address n.
TcbAlloc(c, t, n) ==
    /\ At(c, t, "alloc")
    /\ n \in Threads /\ state[n] = "FREE"
    /\ state' = [state EXCEPT ![n] = "UNINITIALISED"]
    /\ newborn' = [newborn EXCEPT ![t] = n]
    /\ waitingOn' = [waitingOn EXCEPT ![n] = None]
    /\ waitSeq' = [waitSeq EXCEPT ![n] = 0]
    /\ snap' = [snap EXCEPT ![n] = 0]
    /\ snapq' = [snapq EXCEPT ![n] = None]
    /\ initThread' = IF t = BSP THEN n ELSE initThread
    /\ pc' = [pc EXCEPT ![t] = "enqueue", ![n] = "user"]
    /\ UNCHANGED <<curr, queues, waitq, seq, reapList, tail, context_switch_lock>>

\* An allocation of thread_clone_user fails and clone returns ENOMEM.  (Without
\* init's thread kmain panics.)
TcbAllocFails(c, t) ==
    /\ At(c, t, "alloc")
    /\ t \in Threads
    /\ pc' = [pc EXCEPT ![t] = "user"]
    /\ UNCHANGED <<curr, state, queues, waiting, locals, tail, boot>>

\* scheduler_enqueue.
Enqueue(c, t) ==
    /\ At(c, t, "enqueue")
    /\ ready' = Append(ready, newborn[t])
    /\ state' = [state EXCEPT ![newborn[t]] = "READY"]
    /\ newborn' = [newborn EXCEPT ![t] = None]
    /\ pc' = [pc EXCEPT ![t] = IF t = BSP THEN "wfi" ELSE "user"]
    /\ UNCHANGED <<curr, pendPark, pendZombie, zombies, waiting, snap, snapq,
                   reapList, tail, boot>>

-----------------------------------------------------------------------------

\* One step of the kernel code that the thread on c is executing.
KernelStep(c) ==
    \E t \in AllThreads :
        \/ \E w \in WaitQueues : Snapshot(c, t, w)
        \/ GiveUpWait(c, t)
        \/ WaitCheck(c, t)
        \/ WaitBlock(c, t)
        \/ WaitReturn(c, t)
        \/ ReapTake(c, t)
        \/ \E z \in Threads : ReapFree(c, t, z)
        \/ ReapDone(c, t)
        \/ \E n \in Threads : TcbAlloc(c, t, n)
        \/ TcbAllocFails(c, t)
        \/ Enqueue(c, t)
        \/ SyscallReturn(c, t)

Next ==
    \E c \in CPUs :
        \/ ApInit(c)
        \/ Schedule(c)
        \/ LeaveStack(c)
        \/ KernelStep(c)
        \/ \E t \in Threads : SyscallEnter(c, t) \/ Exit(c, t)
        \/ \E w \in WaitQueues : WakeAll(c, w)

\* The LAPIC timer fires on every CPU; a tick that finds interrupts off stays
\* pending until they are on, so a CPU whose thread comes back to user code
\* again and again is interrupted there (strong fairness).  Kernel code runs on.
Fairness ==
    \A c \in CPUs :
        /\ SF_vars(Schedule(c))
        /\ WF_vars(LeaveStack(c))
        /\ WF_vars(KernelStep(c))

Spec == Init /\ [][Next]_vars

FairSpec == Spec /\ Fairness

-----------------------------------------------------------------------------
(* Properties. *)

Pointer == Threads \cup {None}

\* Every variable holds what its C declaration allows.
TypeOK ==
    /\ curr \in [CPUs -> AllThreads \cup {None}]
    /\ state \in [AllThreads -> States]
    /\ ready \in Seq(Threads)
    /\ pendPark \in [CPUs -> Pointer]
    /\ pendZombie \in [CPUs -> Pointer]
    /\ zombies \subseteq Threads
    /\ waitq \in [WaitQueues -> Seq(Threads)]
    /\ seq \in [WaitQueues -> Nat]
    /\ waitingOn \in [Threads -> WaitQueues \cup {None}]
    /\ waitSeq \in [Threads -> Nat]
    /\ snap \in [Threads -> Nat]
    /\ snapq \in [Threads -> WaitQueues \cup {None}]
    /\ pc \in [AllThreads -> Locations]
    /\ newborn \in [AllThreads -> Pointer]
    /\ reapList \in [AllThreads -> SUBSET Threads]
    /\ leaving \in [CPUs -> AllThreads \cup {None}]
    /\ how \in [CPUs -> {"none", "RUNNING", "BLOCKED", "TERMINATED"}]
    /\ initThread \in Pointer
    /\ context_switch_lock \in BOOLEAN

\* The places a thread_t is linked from.  Ready queue, wait queues, zombie
\* list and the list being reaped all thread through the one field t->next.
Homes(t) ==
    {<<"ready", i>> : i \in {j \in 1..Len(ready) : ready[j] = t}}
    \cup {<<"current", c>> : c \in {d \in CPUs : curr[d] = t}}
    \cup {<<"park", c>> : c \in {d \in CPUs : pendPark[d] = t}}
    \cup {<<"dead", c>> : c \in {d \in CPUs : pendZombie[d] = t}}
    \cup {<<"zombie", z>> : z \in {y \in zombies : y = t}}
    \cup (UNION {{<<"wait", w, i>> : i \in {j \in 1..Len(waitq[w]) : waitq[w][j] = t}}
                  : w \in WaitQueues})
    \cup {<<"reap", r>> : r \in {q \in AllThreads : t \in reapList[q]}}
    \cup {<<"newborn", r>> : r \in {q \in AllThreads : newborn[q] = t}}

\* An allocated thread_t is linked at exactly one place, a freed one nowhere:
\* never twice in the ready queue, never queued while a CPU runs it, never on
\* a wait queue and the zombie list, never reaped by two callers, never lost.
\* Otherwise its next field would splice two lists, the heap would free it
\* twice, or nobody would run it again.
OnePlace ==
    \A t \in Threads :
        /\ \A p, q \in Homes(t) : p = q
        /\ state[t] = "FREE" <=> Homes(t) = {}

\* A thread that put itself to sleep or exited is neither resumed on another
\* CPU nor freed while the CPU that left it still executes on its kernel stack
\* (the reason for pending_park and pending_zombie).
LeftStackUntouched ==
    \A c \in CPUs : how[c] \in {"BLOCKED", "TERMINATED"} =>
        /\ \A d \in CPUs : curr[d] # leaving[c]
        /\ state[leaving[c]] # "FREE"

\* No wake-up is lost between wait_queue_snapshot and the moment the thread is
\* linked into the wait queue: whoever is on the queue saw the current seq.
ParkedSawLastWake ==
    \A w \in WaitQueues : \A t \in Elems(waitq[w]) :
        waitingOn[t] = w /\ waitSeq[t] = seq[w] /\ state[t] = "BLOCKED"

\* t can run: it is in the ready queue, or a wake-up found it before it was
\* parked and its CPU has still to settle that at its next switch.
Runnable(t) ==
    \/ state[t] = "READY"
    \/ state[t] = "BLOCKED" /\ waitingOn[t] # None /\ waitSeq[t] # seq[waitingOn[t]]

\* Whoever is in the ready queue, or was woken anywhere on the way to the wait
\* queue, gets a CPU, unless the kernel panics.
ReadyRuns ==
    \A t \in Threads : Runnable(t) ~> (state[t] = "RUNNING" \/ context_switch_lock)

\* An exited thread reaches the zombie list: pending_zombie does not keep it
\* for ever on a CPU that goes on running other threads.
DeadIsReapable ==
    \A t \in Threads :
        state[t] = "TERMINATED" ~>
            \/ t \in zombies \/ state[t] = "FREE" \/ context_switch_lock
            \/ \E r \in AllThreads : t \in reapList[r]

-----------------------------------------------------------------------------
(* Refinement: seen from its callers, a wait queue wakes everybody at once. *)

\* A thread sleeps when it is BLOCKED and no wake-up came since its snapshot.
Asleep ==
    [t \in Threads |->
        IF /\ state[t] = "BLOCKED" /\ waitingOn[t] # None
           /\ waitSeq[t] = seq[waitingOn[t]]
        THEN waitingOn[t] ELSE None]

WQ == INSTANCE WaitQueue WITH
    asleep <- Asleep, ticketq <- snapq, ticket <- snap,
    stopped <- context_switch_lock

\* The scheduler implements the wait queue its callers rely on (WaitQueue).
WaitQueueSpec == WQ!Spec
=============================================================================
