------------------------------- MODULE Process -------------------------------
(***************************************************************************)
(* Processes: src/exec/process.c with the system calls clone, exit, wait4  *)
(* and spawn that drive it.                                                *)
(*                                                                         *)
(* A process_t is named by its address, which malloc may hand out again.   *)
(* Every process has one thread; pc[p] is where the thread of p is.  The   *)
(* system calls of different processes run on different CPUs, so their     *)
(* steps interleave; process_lock is explicit where it is held across      *)
(* calls into the scheduler.  Sleeping and waking go through WaitQueue     *)
(* (implemented by Scheduler): the child_wq of p is named p.               *)
(***************************************************************************)
EXTENDS Naturals

CONSTANTS
    Procs,   \* addresses malloc can return for a process_t
    Root,    \* the address of the init process
    None,    \* NULL
    MaxPid,  \* bound on next_pid (32 bits wide in the code)
    Wants,   \* pid arguments passed to wait4, 0 standing for any child
    NoHang,  \* whether WNOHANG is passed
    Limits   \* bounds, of which a behaviour keeps to one: the addresses malloc hands
             \* out, the processes that fork, the ones that wait, and the pids

ASSUME ProcessAssumption ==
    /\ Root \in Procs /\ None \notin Procs
    /\ MaxPid \in Nat \ {0}
    /\ Wants \subseteq 0..MaxPid
    /\ NoHang \subseteq BOOLEAN
    /\ Limits \subseteq [procs : SUBSET Procs, forking : SUBSET Procs, waiting : SUBSET Procs,
                    pids : 1..MaxPid]

VARIABLES
    limit,     \* the bounds of this behaviour
    life,      \* FREE memory, NEW, LISTED in process_list, DETACHED from it
    pid, ppid, zombie,
    next_pid,
    process_lock,  \* the process whose thread holds it, or None
    pc,        \* where the thread of the process is
    op,        \* which caller is creating a process: clone or spawn
    ptr,       \* local process_t pointer: child, found, init or parent
    childPid,  \* (history) the pid given to the child being created
    want,      \* wait4: the pid argument, 0 for any child
    nohang,    \* wait4: WNOHANG
    seq, asleep, ticketq, ticket, stopped

WQ == INSTANCE WaitQueue WITH Threads <- Procs, WaitQueues <- Procs

pcb    == <<limit, life, pid, ppid, zombie, next_pid>>
locals == <<op, ptr, childPid, want, nohang>>
waitq  == <<seq, asleep, ticketq, ticket, stopped>>
vars   == <<pcb, process_lock, pc, locals, waitq>>

Locations == {"off", "user", "cloneCopy", "cloneThread", "cloneEnqueue", "cloned",
              "exitLock", "exitWakeInit", "exitNotify", "exitWake", "exitFree",
              "waitScan", "waitFree", "waitSleep", "waitLoop"}

\* kmain has started init: pid 1, nobody's child.
Init ==
    /\ limit \in Limits
    /\ life = [p \in Procs |-> IF p = Root THEN "LISTED" ELSE "FREE"]
    /\ pid = [p \in Procs |-> IF p = Root THEN 1 ELSE 0]
    /\ ppid = [p \in Procs |-> 0]
    /\ zombie = [p \in Procs |-> FALSE]
    /\ next_pid = 2
    /\ process_lock = None
    /\ pc = [p \in Procs |-> IF p = Root THEN "user" ELSE "off"]
    /\ op = [p \in Procs |-> "clone"]
    /\ ptr = [p \in Procs |-> None]
    /\ childPid = [p \in Procs |-> 0]
    /\ want = [p \in Procs |-> 0]
    /\ nohang = [p \in Procs |-> FALSE]
    /\ WQ!Init

\* The thread of p moves from one place in the code to another.
Goto(p, from, to) == pc[p] = from /\ pc' = [pc EXCEPT ![p] = to]

Unlocked == process_lock = None

\* process_list.
Listed == {p \in Procs : life[p] = "LISTED"}

-----------------------------------------------------------------------------
(* Creating a process: process_clone, or process_create under elf_start. *)

\* free(q): the contents of freed memory do not matter any more.
Release(q) ==
    /\ life' = [life EXCEPT ![q] = "FREE"]
    /\ pid' = [pid EXCEPT ![q] = 0]
    /\ ppid' = [ppid EXCEPT ![q] = 0]
    /\ zombie' = [zombie EXCEPT ![q] = FALSE]

\* The local variables of a finished clone or spawn go out of scope.
ForgetClone(p) ==
    /\ op' = [op EXCEPT ![p] = "clone"]
    /\ ptr' = [ptr EXCEPT ![p] = None]
    /\ childPid' = [childPid EXCEPT ![p] = 0]

\* What malloc returns for a process_t depends only on what is free.
Malloc == CHOOSE q \in limit.procs : life[q] = "FREE"

\* The process_t and an address space are allocated; the memory is zeroed, so
\* child_wq is new.
CloneAlloc(p, q, o) ==
    /\ Goto(p, "user", "cloneCopy")
    /\ q \in limit.procs /\ life[q] = "FREE" /\ q = Malloc
    /\ life' = [life EXCEPT ![q] = "NEW"]
    /\ pid' = [pid EXCEPT ![q] = 0]
    /\ ppid' = [ppid EXCEPT ![q] = 0]
    /\ zombie' = [zombie EXCEPT ![q] = FALSE]
    /\ op' = [op EXCEPT ![p] = o]
    /\ ptr' = [ptr EXCEPT ![p] = q]
    /\ WQ!FreshQueue(q)
    /\ UNCHANGED <<limit, next_pid, process_lock, childPid, want, nohang>>

\* The pid is drawn under process_lock; a spawned process has no parent.
ClonePid(p) ==
    /\ Goto(p, "cloneCopy", "cloneThread")
    /\ Unlocked
    /\ next_pid <= limit.pids
    /\ pid' = [pid EXCEPT ![ptr[p]] = next_pid]
    /\ ppid' = [ppid EXCEPT ![ptr[p]] = IF op[p] = "clone" THEN pid[p] ELSE 0]
    /\ childPid' = [childPid EXCEPT ![p] = next_pid]
    /\ next_pid' = next_pid + 1
    /\ UNCHANGED <<limit, life, zombie, process_lock, op, ptr, want, nohang, waitq>>

\* The user stack, its mapping or the thread cannot be allocated: fail_pt.
CloneFails(p) ==
    /\ Goto(p, "cloneCopy", "user") \/ Goto(p, "cloneThread", "user")
    /\ Release(ptr[p])
    /\ ForgetClone(p)
    /\ UNCHANGED <<limit, next_pid, process_lock, want, nohang, waitq>>

\* process_register.
CloneRegister(p) ==
    /\ Goto(p, "cloneThread", "cloneEnqueue")
    /\ Unlocked
    /\ life' = [life EXCEPT ![ptr[p]] = "LISTED"]
    /\ UNCHANGED <<limit, pid, ppid, zombie, next_pid, process_lock, locals, waitq>>

\* scheduler_enqueue: from now on the child runs, perhaps on another CPU.
CloneEnqueue(p) ==
    /\ pc[p] = "cloneEnqueue"
    /\ pc' = [pc EXCEPT ![p] = "cloned", ![ptr[p]] = "user"]
    /\ UNCHANGED <<pcb, process_lock, locals, waitq>>

\* do_clone reads child->main_tid and child->pid and returns; elf_start does
\* not look at the new process again.
CloneReturn(p) ==
    /\ Goto(p, "cloned", "user")
    /\ ForgetClone(p)
    /\ UNCHANGED <<pcb, process_lock, want, nohang, waitq>>

-----------------------------------------------------------------------------
(* process_terminate, called by thread_exit_status on the exiting thread. *)

\* exit or a fault.  Descriptors, page table and owned pages go; they belong to
\* the process alone.  The exit of pid 1 panics.
ExitBegin(p) ==
    /\ pc[p] = "user"
    /\ IF pid[p] = 1 THEN WQ!Stop /\ UNCHANGED pc
                     ELSE pc' = [pc EXCEPT ![p] = "exitLock"] /\ UNCHANGED waitq
    /\ UNCHANGED <<pcb, process_lock, locals>>

\* init, if it is there to inherit.
LiveInit(p) == {i \in Listed \ {p} : pid[i] = 1 /\ ~zombie[i]}

Children(p) == {q \in Listed \ {p} : ppid[q] = pid[p]}

\* (mutant) children of the exiting process keep their ppid
ExitReparent_Forgets(p) ==
    /\ Unlocked
    /\ process_lock' = p
    /\ Goto(p, "exitLock", "exitNotify")
    /\ UNCHANGED <<pcb, locals, waitq>>

\* The children of p go to init, or to nobody.
PpidAfterExit(p) ==
    [q \in Procs |-> IF q \notin Children(p) THEN ppid[q]
                     ELSE IF LiveInit(p) # {} THEN 1 ELSE 0]

\* (mutant) every zombie is freed, not only those nobody can wait for
Orphans_AllZombies(p) == {q \in Listed \ {p} : zombie[q]}

\* Zombies that nobody can wait for.
Orphans(p) == {q \in Listed \ {p} : zombie[q] /\ PpidAfterExit(p)[q] = 0}

\* Children are handed to init, zombies left without a parent are freed.
ExitReparent(p) ==
    /\ Unlocked
    /\ process_lock' = p
    /\ ppid' = PpidAfterExit(p)
    /\ life' = [q \in Procs |-> IF q \in Orphans(p) THEN "FREE" ELSE life[q]]
    /\ \/ /\ \E i \in LiveInit(p) : ptr' = [ptr EXCEPT ![p] = i]
          /\ \E q \in Children(p) : zombie[q]
          /\ Goto(p, "exitLock", "exitWakeInit")
       \/ /\ LiveInit(p) = {} \/ \A q \in Children(p) : ~zombie[q]
          /\ Goto(p, "exitLock", "exitNotify")
          /\ UNCHANGED ptr
    /\ UNCHANGED <<limit, pid, zombie, next_pid, op, childPid, want, nohang, waitq>>

\* (mutant) init is not told that it inherited a zombie
ExitWakeInit_Silent(p) ==
    /\ Goto(p, "exitWakeInit", "exitNotify")
    /\ UNCHANGED <<pcb, process_lock, locals, waitq>>

\* init is woken because it inherited a zombie.
ExitWakeInit(p) ==
    /\ Goto(p, "exitWakeInit", "exitNotify")
    /\ WQ!WakeAll(ptr[p])
    /\ UNCHANGED <<pcb, process_lock, locals>>

LiveParents(p) ==
    {q \in Listed : ppid[p] # 0 /\ pid[q] = ppid[p] /\ ~zombie[q]}

\* With a live parent the process stays as a zombie.
ExitZombie(p) ==
    /\ Goto(p, "exitNotify", "exitWake")
    /\ \E q \in LiveParents(p) : ptr' = [ptr EXCEPT ![p] = q]
    /\ zombie' = [zombie EXCEPT ![p] = TRUE]
    /\ UNCHANGED <<limit, life, pid, ppid, next_pid, process_lock, op, childPid, want,
                   nohang, waitq>>

\* The parent is woken and the lock released.  The thread does not touch the
\* process_t again.
ExitWake(p) ==
    /\ Goto(p, "exitWake", "off")
    /\ WQ!WakeAll(ptr[p])
    /\ process_lock' = None
    /\ ptr' = [ptr EXCEPT ![p] = None]
    /\ UNCHANGED <<pcb, op, childPid, want, nohang>>

\* Without one it unlinks itself, and frees the process_t after unlocking.
ExitUnlink(p) ==
    /\ Goto(p, "exitNotify", "exitFree")
    /\ LiveParents(p) = {}
    /\ life' = [life EXCEPT ![p] = "DETACHED"]
    /\ process_lock' = None
    /\ UNCHANGED <<limit, pid, ppid, zombie, next_pid, locals, waitq>>

ExitFree(p) ==
    /\ Goto(p, "exitFree", "off")
    /\ Release(p)
    /\ ptr' = [ptr EXCEPT ![p] = None]
    /\ UNCHANGED <<limit, next_pid, process_lock, op, childPid, want, nohang, waitq>>

-----------------------------------------------------------------------------
(* wait4 and process_wait_child. *)

\* Children the caller asked for.
Awaited(p) == {q \in Listed : ppid[q] = pid[p] /\ want[p] \in {0, pid[q]}}

\* The local variables of a finished wait4 go out of scope, its ticket with them.
ForgetWait(p) ==
    /\ want' = [want EXCEPT ![p] = 0]
    /\ nohang' = [nohang EXCEPT ![p] = FALSE]
    /\ WQ!Fresh(p)

\* wait4 with its arguments.
WaitEnter(p, w, n) ==
    /\ Goto(p, "user", "waitScan")
    /\ want' = [want EXCEPT ![p] = w]
    /\ nohang' = [nohang EXCEPT ![p] = n]
    /\ WQ!Snapshot(p, p)
    /\ UNCHANGED <<pcb, process_lock, op, ptr, childPid>>

\* (mutant) the found zombie stays on the list
WaitFound_KeepsListed(p, q) ==
    /\ zombie[q]
    /\ Goto(p, "waitScan", "waitFree")
    /\ ptr' = [ptr EXCEPT ![p] = q]
    /\ UNCHANGED <<pcb, process_lock, op, childPid, want, nohang, waitq>>

\* process_wait_child finds a zombie and unlinks it.
WaitFound(p, q) ==
    /\ zombie[q]
    /\ Goto(p, "waitScan", "waitFree")
    /\ life' = [life EXCEPT ![q] = "DETACHED"]
    /\ ptr' = [ptr EXCEPT ![p] = q]
    /\ UNCHANGED <<limit, pid, ppid, zombie, next_pid, process_lock, op, childPid, want,
                   nohang, waitq>>

\* (mutant) the search ends at the first child that is alive
WaitNotFound_FirstChild(p) ==
    /\ Awaited(p) = {} \/ \E q \in Awaited(p) : ~zombie[q]
    /\ IF Awaited(p) = {} \/ nohang[p]
         THEN Goto(p, "waitScan", "user") /\ ForgetWait(p)
         ELSE Goto(p, "waitScan", "waitSleep") /\ UNCHANGED <<want, nohang, waitq>>
    /\ UNCHANGED <<pcb, process_lock, op, ptr, childPid>>

\* It finds none: without a child wait4 fails, with WNOHANG it returns 0, else
\* the caller goes to sleep.
WaitNotFound(p) ==
    /\ \A q \in Awaited(p) : ~zombie[q]
    /\ IF Awaited(p) = {} \/ nohang[p]
         THEN Goto(p, "waitScan", "user") /\ ForgetWait(p)
         ELSE Goto(p, "waitScan", "waitSleep") /\ UNCHANGED <<want, nohang, waitq>>
    /\ UNCHANGED <<pcb, process_lock, op, ptr, childPid>>

WaitScan(p) ==
    /\ Unlocked
    /\ WaitNotFound(p) \/ \E q \in Awaited(p) : WaitFound(p, q)

\* The zombie's process_t is freed after the unlock and wait4 returns its pid.
WaitFree(p) ==
    /\ Goto(p, "waitFree", "user")
    /\ Release(ptr[p])
    /\ ptr' = [ptr EXCEPT ![p] = None]
    /\ ForgetWait(p)
    /\ UNCHANGED <<limit, next_pid, process_lock, op, childPid>>

\* scheduler_wait: sleep, or come straight back with an outdated ticket.
WaitSleep(p) ==
    /\ Goto(p, "waitSleep", "waitLoop")
    /\ WQ!Sleep(p) \/ (~WQ!TicketValid(p) /\ UNCHANGED waitq)
    /\ UNCHANGED <<pcb, process_lock, locals>>

\* Awake again: the next turn of the loop takes a new ticket.
WaitAgain(p) ==
    /\ Goto(p, "waitLoop", "waitScan")
    /\ WQ!Snapshot(p, p)
    /\ UNCHANGED <<pcb, process_lock, locals>>

-----------------------------------------------------------------------------

\* What the thread of p does inside a system call it has begun.
KernelStep(p) ==
    \/ ClonePid(p) \/ CloneFails(p) \/ CloneRegister(p) \/ CloneEnqueue(p)
    \/ CloneReturn(p)
    \/ ExitReparent(p) \/ ExitWakeInit(p) \/ ExitZombie(p) \/ ExitWake(p)
    \/ ExitUnlink(p) \/ ExitFree(p)
    \/ WaitScan(p) \/ WaitFree(p) \/ WaitSleep(p) \/ WaitAgain(p)

\* What it may ask for.
UserStep(p) ==
    \/ p \in limit.forking /\ \E q \in Procs, o \in {"clone", "spawn"} : CloneAlloc(p, q, o)
    \/ ExitBegin(p)
    \/ p \in limit.waiting /\ \E w \in Wants, n \in NoHang : WaitEnter(p, w, n)

Next == \E p \in Procs : KernelStep(p) \/ UserStep(p)

Spec == Init /\ [][Next]_vars

\* A thread inside a system call gets a CPU (Scheduler!ReadyRuns) and is not
\* preempted there.
FairSpec == Spec /\ \A p \in Procs : WF_vars(KernelStep(p))

-----------------------------------------------------------------------------
(* Properties. *)

\* Every variable holds what its C declaration allows.
TypeOK ==
    /\ limit \in Limits
    /\ life \in [Procs -> {"FREE", "NEW", "LISTED", "DETACHED"}]
    /\ pid \in [Procs -> 0..MaxPid]
    /\ ppid \in [Procs -> 0..MaxPid]
    /\ zombie \in [Procs -> BOOLEAN]
    /\ next_pid \in 2..(MaxPid + 1)
    /\ process_lock \in Procs \cup {None}
    /\ pc \in [Procs -> Locations]
    /\ op \in [Procs -> {"clone", "spawn"}]
    /\ ptr \in [Procs -> Procs \cup {None}]
    /\ childPid \in [Procs -> 0..MaxPid]
    /\ want \in [Procs -> 0..MaxPid]
    /\ nohang \in [Procs -> BOOLEAN]
    /\ seq \in [Procs -> Nat]
    /\ asleep \in [Procs -> Procs \cup {None}]
    /\ ticketq \in [Procs -> Procs \cup {None}]
    /\ ticket \in [Procs -> Nat]
    /\ stopped \in BOOLEAN

\* do_clone reads the child's process_t after the child may have run, exited
\* and become a zombie on another CPU: it is still there, and still the same
\* process, because only its parent can reap it.
ForkedChildStays ==
    \A p \in Procs :
        pc[p] \in {"cloneEnqueue", "cloned"} /\ op[p] = "clone" =>
            /\ life[ptr[p]] = "LISTED"
            /\ pid[ptr[p]] = childPid[p]
            /\ ppid[ptr[p]] = pid[p]

\* A process_t taken off the list is freed by exactly one thread: the parent
\* that reaped it in wait4, or the process itself; nobody else frees memory
\* that is on the list or free already.
OneReaper ==
    /\ \A p \in Procs : pc[p] = "waitFree" => life[ptr[p]] = "DETACHED"
    /\ \A p \in Procs : pc[p] = "exitFree" => life[p] = "DETACHED"
    /\ \A p, q \in Procs : pc[p] = "waitFree" /\ pc[q] = "waitFree"
                             /\ ptr[p] = ptr[q] => p = q
    /\ \A p, q \in Procs : pc[p] = "waitFree" /\ ptr[p] = q => pc[q] = "off"
    /\ \A q \in Procs : life[q] = "DETACHED" =>
          pc[q] = "exitFree" \/ \E p \in Procs : pc[p] = "waitFree" /\ ptr[p] = q

\* A zombie always has a live process that can wait for it: when its parent
\* exits it goes to init in the same critical section.
ZombieHasLiveParent ==
    Unlocked => \A z \in Listed : zombie[z] =>
        \E q \in Listed : pid[q] = ppid[z] /\ ~zombie[q]

\* A process asleep in wait4 has a child to wait for and none of those it asked
\* for has exited: no exit, and no zombie inherited from an exiting child,
\* slips between its look at the list and its falling asleep.
SleeperMissedNothing ==
    Unlocked => \A p \in Procs : asleep[p] # None =>
        Awaited(p) # {} /\ \A q \in Awaited(p) : ~zombie[q]

\* p is in the loop of wait4.
Waiting(p) == pc[p] \in {"waitScan", "waitSleep", "waitLoop"}

\* wait4 returns once a child it asked for has exited: the wake-up in
\* process_terminate reaches it wherever it is in its loop.
WaiterReturns ==
    \A p \in Procs :
        (Waiting(p) /\ \E q \in Awaited(p) : zombie[q]) ~> (~Waiting(p) \/ stopped)
=============================================================================
