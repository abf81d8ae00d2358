--------------------------- MODULE SchedulerProofs ---------------------------
(***************************************************************************)
(* Proofs about Scheduler, for any number of CPUs, threads and wait        *)
(* queues.  The inductive invariant says, for each state a thread can be   *)
(* in, where it is linked, and that the links of the different places are  *)
(* disjoint.  The last part shows that Scheduler implements WaitQueue.     *)
(***************************************************************************)
EXTENDS Scheduler, TLAPS

-----------------------------------------------------------------------------
(* Sequences without repetition. *)

NoDup(s) == \A i, j \in 1..Len(s) : s[i] = s[j] => i = j

\* The elements of a queue are threads.
LEMMA ElemsType ==
    ASSUME NEW S, NEW s \in Seq(S)
    PROVE  Elems(s) \subseteq S
BY DEF Elems

\* enqueue_locked adds one element.
LEMMA AppendElems ==
    ASSUME NEW S, NEW s \in Seq(S), NEW e \in S
    PROVE  /\ Append(s, e) \in Seq(S)
           /\ Elems(Append(s, e)) = Elems(s) \cup {e}
           /\ NoDup(s) /\ e \notin Elems(s) => NoDup(Append(s, e))
<1>1. Len(Append(s, e)) = Len(s) + 1 /\ Len(s) \in Nat
  OBVIOUS
<1>2. \A i \in 1..Len(s) : Append(s, e)[i] = s[i]
  OBVIOUS
<1>3. Append(s, e)[Len(s) + 1] = e
  OBVIOUS
<1>4. Elems(Append(s, e)) = Elems(s) \cup {e}
  BY <1>1, <1>2, <1>3 DEF Elems
<1>5. NoDup(s) /\ e \notin Elems(s) => NoDup(Append(s, e))
  BY <1>1, <1>2, <1>3 DEF Elems, NoDup
<1> QED
  BY <1>4, <1>5

\* A list hung behind another one.
LEMMA ConcatElems ==
    ASSUME NEW S, NEW s \in Seq(S), NEW t \in Seq(S)
    PROVE  /\ s \o t \in Seq(S)
           /\ Elems(s \o t) = Elems(s) \cup Elems(t)
           /\ NoDup(s) /\ NoDup(t) /\ Elems(s) \cap Elems(t) = {} => NoDup(s \o t)
<1>1. Len(s \o t) = Len(s) + Len(t) /\ Len(s) \in Nat /\ Len(t) \in Nat
  OBVIOUS
<1>2. \A i \in 1..Len(s) : (s \o t)[i] = s[i]
  OBVIOUS
<1>3. \A i \in 1..Len(t) : (s \o t)[Len(s) + i] = t[i]
  OBVIOUS
<1>4. \A i \in 1..(Len(s) + Len(t)) :
        \/ i \in 1..Len(s)
        \/ i - Len(s) \in 1..Len(t) /\ i = Len(s) + (i - Len(s))
  BY <1>1
<1>5. Elems(s \o t) = Elems(s) \cup Elems(t)
  <2>1. Elems(s \o t) \subseteq Elems(s) \cup Elems(t)
    BY <1>1, <1>2, <1>3, <1>4 DEF Elems
  <2>2. Elems(s) \subseteq Elems(s \o t)
    BY <1>1, <1>2 DEF Elems
  <2>3. Elems(t) \subseteq Elems(s \o t)
    <3>1. \A i \in 1..Len(t) : Len(s) + i \in 1..(Len(s) + Len(t))
      BY <1>1
    <3> QED
      BY <1>1, <1>3, <3>1 DEF Elems
  <2> QED
    BY <2>1, <2>2, <2>3
<1>6. ASSUME NoDup(s), NoDup(t), Elems(s) \cap Elems(t) = {}
      PROVE  NoDup(s \o t)
  <2>1. \A i \in 1..Len(s), j \in 1..Len(t) : s[i] # t[j]
    BY <1>6 DEF Elems
  <2>2. \A i, j \in 1..Len(t) : t[i] = t[j] => i = j
    BY <1>6 DEF NoDup
  <2>3. \A i, j \in 1..Len(s) : s[i] = s[j] => i = j
    BY <1>6 DEF NoDup
  <2>4. SUFFICES ASSUME NEW i \in 1..(Len(s) + Len(t)), NEW j \in 1..(Len(s) + Len(t)),
                        (s \o t)[i] = (s \o t)[j]
                 PROVE  i = j
    BY <1>1 DEF NoDup
  <2>5. CASE i \in 1..Len(s) /\ j \in 1..Len(s)
    BY <2>5, <2>4, <2>3, <1>2
  <2>6. CASE i \in 1..Len(s) /\ j \notin 1..Len(s)
    <3>1. (s \o t)[j] = t[j - Len(s)] /\ j - Len(s) \in 1..Len(t)
      BY <2>6, <1>4, <1>3
    <3> QED
      BY <2>6, <3>1, <2>4, <2>1, <1>2
  <2>7. CASE i \notin 1..Len(s) /\ j \in 1..Len(s)
    <3>1. (s \o t)[i] = t[i - Len(s)] /\ i - Len(s) \in 1..Len(t)
      BY <2>7, <1>4, <1>3
    <3> QED
      BY <2>7, <3>1, <2>4, <2>1, <1>2
  <2>8. CASE i \notin 1..Len(s) /\ j \notin 1..Len(s)
    <3>1. (s \o t)[i] = t[i - Len(s)] /\ i - Len(s) \in 1..Len(t)
      BY <2>8, <1>4, <1>3
    <3>2. (s \o t)[j] = t[j - Len(s)] /\ j - Len(s) \in 1..Len(t)
      BY <2>8, <1>4, <1>3
    <3>3. i - Len(s) = j - Len(s)
      BY <3>1, <3>2, <2>2, <2>4
    <3> QED
      BY <3>3, <1>1
  <2> QED
    BY <2>5, <2>6, <2>7, <2>8
<1> QED
  BY <1>5, <1>6

\* dequeue_locked removes the head, and only the head.
LEMMA HeadTailElems ==
    ASSUME NEW S, NEW s \in Seq(S), s # <<>>
    PROVE  /\ Tail(s) \in Seq(S)
           /\ Head(s) \in Elems(s)
           /\ Elems(s) = Elems(Tail(s)) \cup {Head(s)}
           /\ NoDup(s) => NoDup(Tail(s)) /\ Head(s) \notin Elems(Tail(s))
<1>1. Len(s) \in Nat /\ Len(s) # 0 /\ Len(Tail(s)) = Len(s) - 1
  OBVIOUS
<1>2. \A i \in 1..(Len(s) - 1) : Tail(s)[i] = s[i + 1]
  OBVIOUS
<1>3. Head(s) = s[1]
  OBVIOUS
<1>4. \A i \in 1..Len(s) : i = 1 \/ (i - 1 \in 1..(Len(s) - 1) /\ i = (i - 1) + 1)
  BY <1>1
<1>5. \A i \in 1..(Len(s) - 1) : i + 1 \in 1..Len(s) /\ i + 1 # 1
  BY <1>1
<1>6. 1 \in 1..Len(s)
  BY <1>1
<1>7. Elems(s) \subseteq Elems(Tail(s)) \cup {Head(s)}
  BY <1>1, <1>2, <1>3, <1>4 DEF Elems
<1>8. Elems(Tail(s)) \subseteq Elems(s)
  BY <1>1, <1>2, <1>5 DEF Elems
<1>9. Head(s) \in Elems(s)
  BY <1>3, <1>6 DEF Elems
<1>10. ASSUME NoDup(s) PROVE NoDup(Tail(s)) /\ Head(s) \notin Elems(Tail(s))
  <2>1. \A i, j \in 1..Len(s) : s[i] = s[j] => i = j
    BY <1>10 DEF NoDup
  <2>2. NoDup(Tail(s))
    BY <1>1, <1>2, <1>5, <2>1 DEF NoDup
  <2>3. Head(s) \notin Elems(Tail(s))
    BY <1>1, <1>2, <1>3, <1>5, <1>6, <2>1 DEF Elems
  <2> QED
    BY <2>2, <2>3
<1>11. Tail(s) \in Seq(S)
  OBVIOUS
<1> QED
  BY <1>7, <1>8, <1>9, <1>10, <1>11

\* Short sequences.
LEMMA SmallElems ==
    /\ Elems(<<>>) = {}
    /\ NoDup(<<>>)
    /\ \A e : Elems(<<e>>) = {e} /\ NoDup(<<e>>)
<1>1. Elems(<<>>) = {} /\ NoDup(<<>>)
  BY DEF Elems, NoDup
<1>2. ASSUME NEW e PROVE Elems(<<e>>) = {e} /\ NoDup(<<e>>)
  <2>1. Len(<<e>>) = 1 /\ <<e>>[1] = e
    OBVIOUS
  <2> QED
    BY <2>1 DEF Elems, NoDup
<1> QED
  BY <1>1, <1>2

-----------------------------------------------------------------------------
(* The inductive invariant: for each state of a thread, where it is linked. *)

\* The ready queue holds exactly the READY threads, each once.
ReadyInv ==
    /\ NoDup(ready)
    /\ \A t \in Threads : t \in Elems(ready) <=> state[t] = "READY"

\* A CPU runs its own idle thread or a thread no other CPU runs.
RunInv ==
    /\ \A c \in CPUs : curr[c] \in CPUs => curr[c] = c
    /\ \A c, d \in CPUs : curr[c] = curr[d] /\ curr[c] # None => c = d
    /\ \A c \in CPUs : curr[c] \in Threads =>
          state[curr[c]] \in {"RUNNING", "BLOCKED", "TERMINATED"}

\* The idle threads never sleep or exit.
IdleInv ==
    /\ \A c \in CPUs : state[c] \in {"RUNNING", "FREE"}
    /\ \A c \in CPUs : curr[c] = c => state[c] = "RUNNING"
    /\ \A c \in CPUs : curr[c] = None <=> pc[c] = "off"
    /\ \A c \in CPUs : pc[c] \notin {"user", "kernel", "snapped", "commit", "yield"}
    /\ \A c \in CPUs : pc[c] \in {"boot", "alloc", "enqueue", "wfi"} => c = BSP

\* A thread on its way to a wait queue is BLOCKED and not there yet.
ParkInv ==
    /\ \A c, d \in CPUs : pendPark[c] = pendPark[d] /\ pendPark[c] # None => c = d
    /\ \A c \in CPUs : pendPark[c] # None =>
          /\ state[pendPark[c]] = "BLOCKED"
          /\ \A d \in CPUs : curr[d] # pendPark[c]
          /\ \A w \in WaitQueues : pendPark[c] \notin Elems(waitq[w])

\* A thread on a wait queue is BLOCKED, off the CPUs and on that queue only.
QueueInv ==
    \A w \in WaitQueues :
        /\ NoDup(waitq[w])
        /\ \A t \in Elems(waitq[w]) :
              /\ state[t] = "BLOCKED"
              /\ \A d \in CPUs : curr[d] # t
              /\ \A v \in WaitQueues : t \in Elems(waitq[v]) => v = w

\* A thread left for good is TERMINATED and not in the zombie list yet.
DyingInv ==
    /\ \A c, d \in CPUs : pendZombie[c] = pendZombie[d] /\ pendZombie[c] # None => c = d
    /\ \A c \in CPUs : pendZombie[c] # None =>
          /\ state[pendZombie[c]] = "TERMINATED"
          /\ \A d \in CPUs : curr[d] # pendZombie[c]
          /\ pendZombie[c] \notin zombies
          /\ \A r \in AllThreads : pendZombie[c] \notin reapList[r]

\* A zombie is TERMINATED, off the CPUs and not being reaped.
ZombieInv ==
    \A t \in zombies :
        /\ state[t] = "TERMINATED"
        /\ \A d \in CPUs : curr[d] # t
        /\ \A r \in AllThreads : t \notin reapList[r]

\* A thread being reaped is TERMINATED, off the CPUs and has one reaper.
ReapInv ==
    \A r \in AllThreads : \A t \in reapList[r] :
        /\ state[t] = "TERMINATED"
        /\ \A d \in CPUs : curr[d] # t
        /\ \A q \in AllThreads : t \in reapList[q] => q = r

\* A newborn thread is UNINITIALISED and held by one creator.
BirthInv ==
    \A q \in AllThreads : newborn[q] # None =>
        /\ state[newborn[q]] = "UNINITIALISED"
        /\ \A r \in AllThreads : newborn[r] = newborn[q] => r = q

\* No allocated thread is lost: each state names the places to look for it.
RunHome ==
    \A t \in Threads : state[t] = "RUNNING" => \E c \in CPUs : curr[c] = t

BlockHome ==
    \A t \in Threads : state[t] = "BLOCKED" =>
        \/ \E c \in CPUs : curr[c] = t \/ pendPark[c] = t
        \/ \E w \in WaitQueues : t \in Elems(waitq[w])

DeadHome ==
    \A t \in Threads : state[t] = "TERMINATED" =>
        \/ \E c \in CPUs : curr[c] = t \/ pendZombie[c] = t
        \/ t \in zombies
        \/ \E r \in AllThreads : t \in reapList[r]

BirthHome ==
    \A t \in Threads : state[t] = "UNINITIALISED" => \E q \in AllThreads : newborn[q] = t

\* Where a thread is in the code when it holds something or waits.
LocationInv ==
    /\ \A t \in AllThreads : newborn[t] # None <=> pc[t] = "enqueue"
    /\ \A t \in AllThreads : reapList[t] # {} => pc[t] = "reap"
    /\ \A t \in Threads : state[t] \in {"BLOCKED", "TERMINATED"} => pc[t] = "yield"
    /\ \A t \in Threads : state[t] = "UNINITIALISED" => pc[t] = "user"
    /\ \A t \in Threads : state[t] = "FREE" => pc[t] = "off"
    /\ \A t \in Threads : pc[t] \in {"snapped", "commit"} => snapq[t] # None

\* The thread whose stack is being left is the pending one, if it did not leave
\* as a runnable thread.
TailInv ==
    \A c \in CPUs :
        /\ how[c] = "BLOCKED" => leaving[c] # None /\ leaving[c] = pendPark[c]
        /\ how[c] = "TERMINATED" => leaving[c] # None /\ leaving[c] = pendZombie[c]

\* A parked thread saw the current sequence number.
SeqInv ==
    \A w \in WaitQueues : \A t \in Elems(waitq[w]) :
        waitingOn[t] = w /\ waitSeq[t] = seq[w]

IInv ==
    /\ TypeOK /\ ReadyInv /\ RunInv /\ IdleInv /\ ParkInv /\ QueueInv
    /\ DyingInv /\ ZombieInv /\ ReapInv /\ BirthInv
    /\ RunHome /\ BlockHome /\ DeadHome /\ BirthHome
    /\ LocationInv /\ TailInv /\ SeqInv

\* The queues hold threads only.
LEMMA QueuedAreThreads ==
    ASSUME TypeOK
    PROVE  /\ Elems(ready) \subseteq Threads
           /\ \A w \in WaitQueues : Elems(waitq[w]) \subseteq Threads
<1>1. ready \in Seq(Threads) /\ \A w \in WaitQueues : waitq[w] \in Seq(Threads)
  BY DEF TypeOK
<1> QED
  BY <1>1, ElemsType

-----------------------------------------------------------------------------
(* The initial state. *)

\* scheduler_init establishes the invariant.
LEMMA InitIInv == Init => IInv
<1> SUFFICES ASSUME Init PROVE IInv
  OBVIOUS
<1> USE SchedulerAssumption, SmallElems DEF Init, AllThreads, Pointer
<1>1. TypeOK
  <2>1. <<>> \in Seq(Threads) /\ {} \in SUBSET Threads
    OBVIOUS
  <2>2. waitq \in [WaitQueues -> Seq(Threads)] /\ reapList \in [AllThreads -> SUBSET Threads]
    BY <2>1
  <2> QED
    BY <2>1, <2>2 DEF TypeOK, States, Locations
<1>2. ReadyInv /\ ParkInv /\ QueueInv /\ DyingInv /\ ZombieInv /\ ReapInv /\ BirthInv
  BY DEF ReadyInv, ParkInv, QueueInv, DyingInv, ZombieInv, ReapInv, BirthInv
<1>3. RunInv /\ IdleInv /\ RunHome /\ BlockHome /\ DeadHome /\ BirthHome /\ LocationInv /\ TailInv /\ SeqInv
  BY DEF RunInv, IdleInv, RunHome, BlockHome, DeadHome, BirthHome, LocationInv, TailInv, SeqInv
<1> QED
  BY <1>1, <1>2, <1>3 DEF IInv

-----------------------------------------------------------------------------
(* Every step preserves the invariant. *)

\* Steps that only move a running thread along in the code.
LEMMA MoveStep ==
    ASSUME IInv, NEW c \in CPUs, NEW t \in AllThreads,
           \/ SyscallEnter(c, t) \/ SyscallReturn(c, t) \/ GiveUpWait(c, t)
           \/ WaitCheck(c, t) \/ TcbAllocFails(c, t)
    PROVE  IInv'
<1> USE SchedulerAssumption DEF AllThreads, Pointer, queues, waiting, locals, tail, boot
<1>0. /\ TypeOK /\ ReadyInv /\ RunInv /\ IdleInv /\ ParkInv /\ QueueInv /\ DyingInv
      /\ ZombieInv /\ ReapInv /\ BirthInv /\ LocationInv /\ TailInv /\ SeqInv
      /\ RunHome /\ BlockHome /\ DeadHome /\ BirthHome
  BY DEF IInv
<1>1. curr[c] = t /\ pc[t] \in {"user", "kernel", "snapped", "alloc"} /\ (pc[t] = "alloc" => t \in Threads)
  BY DEF SyscallEnter, SyscallReturn, GiveUpWait, WaitCheck, TcbAllocFails, At
<1>2. t \in Threads /\ state[t] = "RUNNING"
  BY <1>0, <1>1 DEF RunInv, IdleInv, LocationInv
<1>3. UNCHANGED <<curr, state, queues, waiting, locals, tail, boot>>
  BY DEF SyscallEnter, SyscallReturn, GiveUpWait, WaitCheck, TcbAllocFails
<1>4. PICK l \in {"user", "kernel", "commit"} :
         pc' = [pc EXCEPT ![t] = l] /\ (l = "commit" => pc[t] = "snapped")
  BY DEF SyscallEnter, SyscallReturn, GiveUpWait, WaitCheck, TcbAllocFails, At
<1>5. TypeOK'
  BY <1>0, <1>3, <1>4 DEF TypeOK, Locations
<1>6. IdleInv'
  BY <1>0, <1>2, <1>3, <1>4 DEF TypeOK, IdleInv
<1>7. LocationInv'
  BY <1>0, <1>1, <1>2, <1>3, <1>4 DEF TypeOK, LocationInv
<1>8. ReadyInv' /\ RunInv' /\ ParkInv' /\ QueueInv' /\ DyingInv' /\ ZombieInv' /\ ReapInv' /\ BirthInv'
  BY <1>0, <1>3 DEF ReadyInv, RunInv, ParkInv, QueueInv, DyingInv, ZombieInv, ReapInv, BirthInv
<1>9. TailInv' /\ SeqInv' /\ RunHome' /\ BlockHome' /\ DeadHome' /\ BirthHome'
  BY <1>0, <1>3 DEF TailInv, SeqInv, RunHome, BlockHome, DeadHome, BirthHome
<1> QED
  BY <1>5, <1>6, <1>7, <1>8, <1>9 DEF IInv

\* scheduler_ap_init: an idle thread starts.
LEMMA ApInitStep ==
    ASSUME IInv, NEW c \in CPUs, ApInit(c)
    PROVE  IInv'
<1> USE SchedulerAssumption DEF AllThreads, Pointer, At, queues, waiting, locals, tail, boot
<1>0. /\ TypeOK /\ ReadyInv /\ RunInv /\ IdleInv /\ ParkInv /\ QueueInv /\ DyingInv
      /\ ZombieInv /\ ReapInv /\ BirthInv /\ LocationInv /\ TailInv /\ SeqInv
      /\ RunHome /\ BlockHome /\ DeadHome /\ BirthHome
  BY DEF IInv
<1>q. Elems(ready) \subseteq Threads /\ \A q \in WaitQueues : Elems(waitq[q]) \subseteq Threads
  BY <1>0, QueuedAreThreads
<1>l. c \notin Threads /\ pc[c] = "off" /\ newborn[c] = None /\ reapList[c] = {}
  BY <1>0 DEF TypeOK, IdleInv, LocationInv, ApInit
<1>1. TypeOK'
  BY <1>0, <1>q, <1>l DEF TypeOK, States, Locations, ApInit
<1>2. ReadyInv' /\ ParkInv' /\ QueueInv'
  BY <1>0, <1>q, <1>l DEF TypeOK, ReadyInv, ParkInv, QueueInv, ApInit
<1>3. RunInv' /\ IdleInv' /\ TailInv'
  BY <1>0, <1>q, <1>l DEF TypeOK, RunInv, IdleInv, TailInv, ApInit
<1>4. DyingInv' /\ ZombieInv' /\ ReapInv'
  BY <1>0, <1>q, <1>l DEF TypeOK, DyingInv, ZombieInv, ReapInv, ApInit
<1>5. BirthInv' /\ LocationInv' /\ SeqInv'
  BY <1>0, <1>q, <1>l DEF TypeOK, BirthInv, LocationInv, SeqInv, ApInit
<1>6. RunHome'
  BY <1>0, <1>q, <1>l DEF TypeOK, RunHome, ApInit
<1>7. BlockHome'
  BY <1>0, <1>q, <1>l DEF TypeOK, BlockHome, ApInit
<1>8. BirthHome'
  BY <1>0, <1>q, <1>l DEF TypeOK, BirthHome, ApInit
<1>9. DeadHome'
  <2>1. /\ \A x \in Threads : state'[x] = state[x]
        /\ \A d \in CPUs : curr[d] \in Threads => curr'[d] = curr[d]
        /\ UNCHANGED <<pendZombie, zombies, reapList>>
    BY <1>0, <1>l DEF TypeOK, ApInit
  <2> QED
    BY <1>0, <2>1, <1>l DEF DeadHome
<1> QED
  BY <1>1, <1>2, <1>3, <1>4, <1>5, <1>6, <1>7, <1>8, <1>9 DEF IInv

\* The end of scheduler_schedule.
LEMMA LeaveStackStep ==
    ASSUME IInv, NEW c \in CPUs, LeaveStack(c)
    PROVE  IInv'
<1> USE SchedulerAssumption DEF AllThreads, Pointer, At, queues, waiting, locals, tail, boot
<1>0. /\ TypeOK /\ ReadyInv /\ RunInv /\ IdleInv /\ ParkInv /\ QueueInv /\ DyingInv
      /\ ZombieInv /\ ReapInv /\ BirthInv /\ LocationInv /\ TailInv /\ SeqInv
      /\ RunHome /\ BlockHome /\ DeadHome /\ BirthHome
  BY DEF IInv
<1>q. Elems(ready) \subseteq Threads /\ \A q \in WaitQueues : Elems(waitq[q]) \subseteq Threads
  BY <1>0, QueuedAreThreads
<1>1. TypeOK'
  BY <1>0, <1>q DEF TypeOK, States, Locations, LeaveStack
<1>2. ReadyInv' /\ ParkInv' /\ QueueInv'
  BY <1>0, <1>q DEF TypeOK, ReadyInv, ParkInv, QueueInv, LeaveStack
<1>3. RunInv' /\ IdleInv' /\ TailInv'
  BY <1>0, <1>q DEF TypeOK, RunInv, IdleInv, TailInv, LeaveStack
<1>4. DyingInv' /\ ZombieInv' /\ ReapInv'
  BY <1>0, <1>q DEF TypeOK, DyingInv, ZombieInv, ReapInv, LeaveStack
<1>5. BirthInv' /\ LocationInv' /\ SeqInv'
  BY <1>0, <1>q DEF TypeOK, BirthInv, LocationInv, SeqInv, LeaveStack
<1>6. RunHome' /\ BlockHome' /\ DeadHome' /\ BirthHome'
  BY <1>0, <1>q DEF TypeOK, RunHome, BlockHome, DeadHome, BirthHome, LeaveStack
<1> QED
  BY <1>1, <1>2, <1>3, <1>4, <1>5, <1>6 DEF IInv

\* wait_queue_snapshot.
LEMMA SnapshotStep ==
    ASSUME IInv, NEW c \in CPUs, NEW t \in AllThreads, NEW w \in WaitQueues, Snapshot(c, t, w)
    PROVE  IInv'
<1> USE SchedulerAssumption DEF AllThreads, Pointer, At, queues, waiting, locals, tail, boot
<1>0. /\ TypeOK /\ ReadyInv /\ RunInv /\ IdleInv /\ ParkInv /\ QueueInv /\ DyingInv
      /\ ZombieInv /\ ReapInv /\ BirthInv /\ LocationInv /\ TailInv /\ SeqInv
      /\ RunHome /\ BlockHome /\ DeadHome /\ BirthHome
  BY DEF IInv
<1>q. Elems(ready) \subseteq Threads /\ \A q \in WaitQueues : Elems(waitq[q]) \subseteq Threads
  BY <1>0, QueuedAreThreads
<1>l. t \in Threads /\ state[t] = "RUNNING" /\ pc[t] # "enqueue" /\ pc[t] # "reap"
  BY <1>0 DEF TypeOK, RunInv, IdleInv, LocationInv, Snapshot
<1>1. TypeOK'
  BY <1>0, <1>q, <1>l DEF TypeOK, States, Locations, Snapshot
<1>2. ReadyInv' /\ ParkInv' /\ QueueInv'
  BY <1>0, <1>q, <1>l DEF TypeOK, ReadyInv, ParkInv, QueueInv, Snapshot
<1>3. RunInv' /\ IdleInv' /\ TailInv'
  BY <1>0, <1>q, <1>l DEF TypeOK, RunInv, IdleInv, TailInv, Snapshot
<1>4. DyingInv' /\ ZombieInv' /\ ReapInv'
  BY <1>0, <1>q, <1>l DEF TypeOK, DyingInv, ZombieInv, ReapInv, Snapshot
<1>5. BirthInv' /\ LocationInv' /\ SeqInv'
  BY <1>0, <1>q, <1>l DEF TypeOK, BirthInv, LocationInv, SeqInv, Snapshot
<1>6. RunHome' /\ BlockHome' /\ DeadHome' /\ BirthHome'
  BY <1>0, <1>q, <1>l DEF TypeOK, RunHome, BlockHome, DeadHome, BirthHome, Snapshot
<1> QED
  BY <1>1, <1>2, <1>3, <1>4, <1>5, <1>6 DEF IInv

\* scheduler_wait declares its thread BLOCKED.
LEMMA WaitBlockStep ==
    ASSUME IInv, NEW c \in CPUs, NEW t \in AllThreads, WaitBlock(c, t)
    PROVE  IInv'
<1> USE SchedulerAssumption DEF AllThreads, Pointer, At, queues, waiting, locals, tail, boot
<1>0. /\ TypeOK /\ ReadyInv /\ RunInv /\ IdleInv /\ ParkInv /\ QueueInv /\ DyingInv
      /\ ZombieInv /\ ReapInv /\ BirthInv /\ LocationInv /\ TailInv /\ SeqInv
      /\ RunHome /\ BlockHome /\ DeadHome /\ BirthHome
  BY DEF IInv
<1>q. Elems(ready) \subseteq Threads /\ \A q \in WaitQueues : Elems(waitq[q]) \subseteq Threads
  BY <1>0, QueuedAreThreads
<1>l. t \in Threads /\ state[t] = "RUNNING" /\ pc[t] # "enqueue" /\ pc[t] # "reap"
  BY <1>0 DEF TypeOK, RunInv, IdleInv, LocationInv, WaitBlock
<1>n. snapq[t] \in WaitQueues /\ \A q \in WaitQueues : t \notin Elems(waitq[q])
  BY <1>0, <1>l DEF TypeOK, LocationInv, QueueInv, WaitBlock
<1>1. TypeOK'
  BY <1>0, <1>q, <1>l, <1>n DEF TypeOK, States, Locations, WaitBlock
<1>2. ReadyInv' /\ ParkInv' /\ QueueInv'
  BY <1>0, <1>q, <1>l, <1>n DEF TypeOK, ReadyInv, ParkInv, QueueInv, WaitBlock
<1>3. RunInv' /\ IdleInv' /\ TailInv'
  BY <1>0, <1>q, <1>l, <1>n DEF TypeOK, RunInv, IdleInv, TailInv, WaitBlock
<1>4. DyingInv' /\ ZombieInv' /\ ReapInv'
  BY <1>0, <1>q, <1>l, <1>n DEF TypeOK, DyingInv, ZombieInv, ReapInv, WaitBlock
<1>5. BirthInv' /\ LocationInv' /\ SeqInv'
  BY <1>0, <1>q, <1>l, <1>n DEF TypeOK, BirthInv, LocationInv, SeqInv, WaitBlock
<1>6. RunHome' /\ BlockHome' /\ DeadHome' /\ BirthHome'
  BY <1>0, <1>q, <1>l, <1>n DEF TypeOK, RunHome, BlockHome, DeadHome, BirthHome, WaitBlock
<1> QED
  BY <1>1, <1>2, <1>3, <1>4, <1>5, <1>6 DEF IInv

\* scheduler_wait returns.
LEMMA WaitReturnStep ==
    ASSUME IInv, NEW c \in CPUs, NEW t \in AllThreads, WaitReturn(c, t)
    PROVE  IInv'
<1> USE SchedulerAssumption DEF AllThreads, Pointer, At, queues, waiting, locals, tail, boot
<1>0. /\ TypeOK /\ ReadyInv /\ RunInv /\ IdleInv /\ ParkInv /\ QueueInv /\ DyingInv
      /\ ZombieInv /\ ReapInv /\ BirthInv /\ LocationInv /\ TailInv /\ SeqInv
      /\ RunHome /\ BlockHome /\ DeadHome /\ BirthHome
  BY DEF IInv
<1>q. Elems(ready) \subseteq Threads /\ \A q \in WaitQueues : Elems(waitq[q]) \subseteq Threads
  BY <1>0, QueuedAreThreads
<1>l. t \in Threads /\ curr[c] = t /\ pc[t] = "yield" /\ state[t] \in {"RUNNING", "BLOCKED"}
  BY <1>0 DEF TypeOK, IdleInv, WaitReturn
<1>s. state' = [state EXCEPT ![t] = "RUNNING"]
  BY <1>0, <1>l DEF TypeOK, WaitReturn
<1>w. /\ waitingOn' \in [Threads -> WaitQueues \cup {None}]
      /\ \A x \in Threads : x # t => waitingOn'[x] = waitingOn[x]
  BY <1>0, <1>l DEF TypeOK, WaitReturn
<1>n. /\ \A q \in WaitQueues : t \notin Elems(waitq[q])
      /\ \A d \in CPUs : pendPark[d] # t
  <2>1. \A q \in WaitQueues : t \notin Elems(waitq[q])
    BY <1>0, <1>l DEF QueueInv
  <2>2. t # None
    BY <1>l
  <2> QED
    BY <1>0, <1>l, <2>1, <2>2 DEF ParkInv
<1>p. pc' = [pc EXCEPT ![t] = "kernel"]
  BY DEF WaitReturn
<1>u. UNCHANGED <<curr, queues, waitq, seq, waitSeq, locals, tail, boot>>
  BY DEF WaitReturn
<1>1. TypeOK'
  BY <1>0, <1>q, <1>l, <1>s, <1>w, <1>n, <1>p, <1>u DEF TypeOK, States, Locations, WaitReturn
<1>2. ReadyInv' /\ ParkInv' /\ QueueInv'
  BY <1>0, <1>q, <1>l, <1>s, <1>w, <1>n, <1>p, <1>u DEF TypeOK, ReadyInv, ParkInv, QueueInv, WaitReturn
<1>3. RunInv' /\ IdleInv' /\ TailInv'
  BY <1>0, <1>q, <1>l, <1>s, <1>w, <1>n, <1>p, <1>u DEF TypeOK, RunInv, IdleInv, TailInv, WaitReturn
<1>4. DyingInv' /\ ZombieInv' /\ ReapInv'
  BY <1>0, <1>q, <1>l, <1>s, <1>w, <1>n, <1>p, <1>u DEF TypeOK, DyingInv, ZombieInv, ReapInv, WaitReturn
<1>5. BirthInv' /\ LocationInv' /\ SeqInv'
  BY <1>0, <1>q, <1>l, <1>s, <1>w, <1>n, <1>p, <1>u DEF TypeOK, BirthInv, LocationInv, SeqInv, WaitReturn
<1>6. RunHome' /\ BirthHome'
  BY <1>0, <1>q, <1>l, <1>s, <1>w, <1>n, <1>p, <1>u DEF TypeOK, RunHome, BirthHome, WaitReturn
<1>7. BlockHome'
  <2>1. \A x \in Threads : state'[x] = "BLOCKED" => state[x] = "BLOCKED"
    BY <1>0, <1>l, <1>s DEF TypeOK
  <2> QED
    BY <1>0, <2>1, <1>u DEF BlockHome
<1>8. DeadHome'
  <2>1. \A x \in Threads : state'[x] = "TERMINATED" => state[x] = "TERMINATED"
    BY <1>0, <1>l, <1>s DEF TypeOK
  <2> QED
    BY <1>0, <2>1, <1>u DEF DeadHome
<1> QED
  BY <1>1, <1>2, <1>3, <1>4, <1>5, <1>6, <1>7, <1>8 DEF IInv

\* thread_exit_status.
LEMMA ExitStep ==
    ASSUME IInv, NEW c \in CPUs, NEW t \in AllThreads, Exit(c, t)
    PROVE  IInv'
<1> USE SchedulerAssumption DEF AllThreads, Pointer, At, queues, waiting, locals, tail, boot
<1>0. /\ TypeOK /\ ReadyInv /\ RunInv /\ IdleInv /\ ParkInv /\ QueueInv /\ DyingInv
      /\ ZombieInv /\ ReapInv /\ BirthInv /\ LocationInv /\ TailInv /\ SeqInv
      /\ RunHome /\ BlockHome /\ DeadHome /\ BirthHome
  BY DEF IInv
<1>q. Elems(ready) \subseteq Threads /\ \A q \in WaitQueues : Elems(waitq[q]) \subseteq Threads
  BY <1>0, QueuedAreThreads
<1>l. /\ t \in Threads /\ curr[c] = t /\ pc[t] \in {"user", "kernel"}
      /\ UNCHANGED <<curr, queues, waiting, locals, tail, initThread>>
  BY DEF Exit
<1>n. state[t] = "RUNNING"
  BY <1>0, <1>l DEF TypeOK, RunInv, LocationInv
<1>s. /\ context_switch_lock' \in BOOLEAN
      /\ \/ state' = state /\ pc' = pc
         \/ /\ state' = [state EXCEPT ![t] = "TERMINATED"]
            /\ pc' = [pc EXCEPT ![t] = "yield"]
  BY <1>0, <1>l DEF TypeOK, Exit
<1>1. TypeOK'
  <2>1. state' \in [AllThreads -> States] /\ pc' \in [AllThreads -> Locations]
    <3>1. "TERMINATED" \in States /\ "yield" \in Locations
      BY DEF States, Locations
    <3>2. state \in [AllThreads -> States] /\ pc \in [AllThreads -> Locations]
      BY <1>0 DEF TypeOK
    <3> QED
      BY <1>s, <3>1, <3>2
  <2> QED
    BY <1>0, <1>l, <1>s, <2>1 DEF TypeOK
<1>2. ReadyInv' /\ ParkInv' /\ QueueInv'
  BY <1>0, <1>q, <1>l, <1>n, <1>s DEF TypeOK, ReadyInv, ParkInv, QueueInv, Exit
<1>3. RunInv' /\ TailInv'
  BY <1>0, <1>q, <1>l, <1>n, <1>s DEF TypeOK, RunInv, TailInv, Exit
<1>4. IdleInv'
  <2>1. \A d \in CPUs : state'[d] = state[d] /\ pc'[d] = pc[d]
    BY <1>0, <1>l, <1>s DEF TypeOK
  <2> QED
    BY <1>0, <1>l, <2>1 DEF IdleInv
<1>5. DyingInv' /\ ZombieInv' /\ ReapInv'
  BY <1>0, <1>q, <1>l, <1>n, <1>s DEF TypeOK, DyingInv, ZombieInv, ReapInv, Exit
<1>6. BirthInv' /\ SeqInv'
  BY <1>0, <1>q, <1>l, <1>n, <1>s DEF TypeOK, BirthInv, SeqInv, Exit
<1>7. LocationInv'
  <2>1. CASE state' = state /\ pc' = pc
    BY <1>0, <1>l, <2>1 DEF LocationInv
  <2>2. CASE state' = [state EXCEPT ![t] = "TERMINATED"] /\ pc' = [pc EXCEPT ![t] = "yield"]
    BY <1>0, <1>l, <1>n, <2>2 DEF TypeOK, LocationInv
  <2> QED
    BY <1>s, <2>1, <2>2
<1>8. RunHome' /\ BirthHome'
  BY <1>0, <1>q, <1>l, <1>n, <1>s DEF TypeOK, RunHome, BirthHome, Exit
<1>9. BlockHome'
  <2>1. \A x \in Threads : state'[x] = "BLOCKED" => state[x] = "BLOCKED"
    BY <1>0, <1>l, <1>s DEF TypeOK
  <2> QED
    BY <1>0, <2>1, <1>l DEF BlockHome
<1>10. DeadHome'
  <2>1. \A x \in Threads : state'[x] = "TERMINATED" => state[x] = "TERMINATED" \/ x = curr[c]
    BY <1>0, <1>l, <1>s DEF TypeOK
  <2> QED
    BY <1>0, <2>1, <1>l DEF DeadHome
<1> QED
  BY <1>1, <1>2, <1>3, <1>4, <1>5, <1>6, <1>7, <1>8, <1>9, <1>10 DEF IInv

\* scheduler_reap ends.
LEMMA ReapDoneStep ==
    ASSUME IInv, NEW c \in CPUs, NEW t \in AllThreads, ReapDone(c, t)
    PROVE  IInv'
<1> USE SchedulerAssumption DEF AllThreads, Pointer, At, queues, waiting, locals, tail, boot
<1>0. /\ TypeOK /\ ReadyInv /\ RunInv /\ IdleInv /\ ParkInv /\ QueueInv /\ DyingInv
      /\ ZombieInv /\ ReapInv /\ BirthInv /\ LocationInv /\ TailInv /\ SeqInv
      /\ RunHome /\ BlockHome /\ DeadHome /\ BirthHome
  BY DEF IInv
<1>q. Elems(ready) \subseteq Threads /\ \A q \in WaitQueues : Elems(waitq[q]) \subseteq Threads
  BY <1>0, QueuedAreThreads
<1>1. TypeOK'
  BY <1>0, <1>q DEF TypeOK, States, Locations, ReapDone
<1>2. ReadyInv' /\ ParkInv' /\ QueueInv'
  BY <1>0, <1>q DEF TypeOK, ReadyInv, ParkInv, QueueInv, ReapDone
<1>3. RunInv' /\ IdleInv' /\ TailInv'
  BY <1>0, <1>q DEF TypeOK, RunInv, IdleInv, TailInv, ReapDone
<1>4. DyingInv' /\ ZombieInv' /\ ReapInv'
  BY <1>0, <1>q DEF TypeOK, DyingInv, ZombieInv, ReapInv, ReapDone
<1>5. BirthInv' /\ LocationInv' /\ SeqInv'
  BY <1>0, <1>q DEF TypeOK, BirthInv, LocationInv, SeqInv, ReapDone
<1>6. RunHome' /\ BlockHome' /\ DeadHome' /\ BirthHome'
  BY <1>0, <1>q DEF TypeOK, RunHome, BlockHome, DeadHome, BirthHome, ReapDone
<1> QED
  BY <1>1, <1>2, <1>3, <1>4, <1>5, <1>6 DEF IInv

\* scheduler_reap takes the zombie list.
LEMMA ReapTakeStep ==
    ASSUME IInv, NEW c \in CPUs, NEW t \in AllThreads, ReapTake(c, t)
    PROVE  IInv'
<1> USE SchedulerAssumption DEF AllThreads, Pointer, At, queues, waiting, locals, tail, boot
<1>0. /\ TypeOK /\ ReadyInv /\ RunInv /\ IdleInv /\ ParkInv /\ QueueInv /\ DyingInv
      /\ ZombieInv /\ ReapInv /\ BirthInv /\ LocationInv /\ TailInv /\ SeqInv
      /\ RunHome /\ BlockHome /\ DeadHome /\ BirthHome
  BY DEF IInv
<1>q. Elems(ready) \subseteq Threads /\ \A q \in WaitQueues : Elems(waitq[q]) \subseteq Threads
  BY <1>0, QueuedAreThreads
<1>l. /\ curr[c] = t /\ pc[t] \in {"idle", "kernel", "boot"}
      /\ reapList[t] = {} /\ newborn[t] = None
  BY <1>0 DEF TypeOK, LocationInv, ReapTake
<1>m. t \in Threads => state[t] = "RUNNING"
  BY <1>0, <1>l DEF RunInv, LocationInv
<1>r. /\ reapList' = [reapList EXCEPT ![t] = zombies] /\ zombies' = {}
      /\ pc' = [pc EXCEPT ![t] = "reap"]
      /\ UNCHANGED <<curr, state, ready, pendPark, pendZombie, waiting, snap, snapq, newborn,
                     tail, boot>>
  BY DEF ReapTake
<1>1. TypeOK'
  BY <1>0, <1>q, <1>l, <1>m, <1>r DEF TypeOK, States, Locations, ReapTake
<1>2. ReadyInv' /\ ParkInv' /\ QueueInv'
  BY <1>0, <1>q, <1>l, <1>m, <1>r DEF TypeOK, ReadyInv, ParkInv, QueueInv, ReapTake
<1>3. RunInv' /\ IdleInv' /\ TailInv'
  BY <1>0, <1>q, <1>l, <1>m, <1>r DEF TypeOK, RunInv, IdleInv, TailInv, ReapTake
<1>4. DyingInv' /\ ZombieInv'
  BY <1>0, <1>q, <1>l, <1>m, <1>r DEF TypeOK, DyingInv, ZombieInv, ReapTake
<1>5. ReapInv'
  <2>1. \A q \in AllThreads : reapList'[q] = IF q = t THEN zombies ELSE reapList[q]
    BY <1>0, <1>l, <1>r DEF TypeOK
  <2>2. \A q \in AllThreads : \A x \in reapList[q] : x \notin zombies
    BY <1>0 DEF ZombieInv
  <2>3. \A x \in zombies : state[x] = "TERMINATED" /\ \A d \in CPUs : curr[d] # x
    BY <1>0 DEF ZombieInv
  <2> QED
    BY <1>0, <1>r, <2>1, <2>2, <2>3 DEF ReapInv
<1>6. BirthInv' /\ LocationInv' /\ SeqInv'
  BY <1>0, <1>q, <1>l, <1>m, <1>r DEF TypeOK, BirthInv, LocationInv, SeqInv, ReapTake
<1>7. RunHome' /\ BirthHome'
  BY <1>0, <1>q, <1>l, <1>m, <1>r DEF TypeOK, RunHome, BirthHome, ReapTake
<1>8. BlockHome'
  <2>1. \A x \in Threads : state'[x] = state[x]
    BY <1>0, <1>r DEF TypeOK
  <2> QED
    BY <1>0, <2>1, <1>r DEF BlockHome
<1>9. DeadHome'
  <2>1. \A x \in zombies : x \in reapList'[t]
    BY <1>0, <1>l, <1>r DEF TypeOK
  <2>2. \A q \in AllThreads : \A x \in reapList[q] : x \in reapList'[q]
    BY <1>0, <1>l, <1>r DEF TypeOK
  <2> QED
    BY <1>0, <1>l, <1>r, <2>1, <2>2 DEF DeadHome
<1> QED
  BY <1>1, <1>2, <1>3, <1>4, <1>5, <1>6, <1>7, <1>8, <1>9 DEF IInv

\* scheduler_reap frees one thread.
LEMMA ReapFreeStep ==
    ASSUME IInv, NEW c \in CPUs, NEW t \in AllThreads, NEW z \in Threads, ReapFree(c, t, z)
    PROVE  IInv'
<1> USE SchedulerAssumption DEF AllThreads, Pointer, At, queues, waiting, locals, tail, boot
<1>0. /\ TypeOK /\ ReadyInv /\ RunInv /\ IdleInv /\ ParkInv /\ QueueInv /\ DyingInv
      /\ ZombieInv /\ ReapInv /\ BirthInv /\ LocationInv /\ TailInv /\ SeqInv
      /\ RunHome /\ BlockHome /\ DeadHome /\ BirthHome
  BY DEF IInv
<1>q. Elems(ready) \subseteq Threads /\ \A q \in WaitQueues : Elems(waitq[q]) \subseteq Threads
  BY <1>0, QueuedAreThreads
<1>l. /\ z \in reapList[t] /\ state[z] = "TERMINATED" /\ pc[z] = "yield"
      /\ \A d \in CPUs : curr[d] # z
      /\ t # z /\ pc[t] = "reap" /\ newborn[z] = None /\ reapList[z] = {}
  <2>1. z \in reapList[t] /\ pc[t] = "reap" /\ curr[c] = t
    BY DEF ReapFree
  <2>2. state[z] = "TERMINATED" /\ \A d \in CPUs : curr[d] # z
    BY <1>0, <2>1 DEF ReapInv
  <2>3. pc[z] = "yield"
    BY <1>0, <2>2 DEF LocationInv
  <2> QED
    BY <1>0, <2>1, <2>2, <2>3 DEF LocationInv
<1>n. /\ \A q \in WaitQueues : z \notin Elems(waitq[q])
      /\ z \notin Elems(ready) /\ z \notin zombies
      /\ \A d \in CPUs : pendPark[d] # z /\ pendZombie[d] # z
      /\ \A q \in AllThreads : newborn[q] # z
  <2>1. \A q \in WaitQueues : z \notin Elems(waitq[q])
    BY <1>0, <1>l DEF QueueInv
  <2>2. z \notin Elems(ready)
    BY <1>0, <1>l DEF ReadyInv
  <2>3. z \notin zombies /\ \A d \in CPUs : pendZombie[d] # z
    BY <1>0, <1>l DEF ZombieInv, DyingInv
  <2>4. \A d \in CPUs : pendPark[d] # z
    BY <1>0, <1>l DEF ParkInv
  <2>5. \A q \in AllThreads : newborn[q] # z
    BY <1>0, <1>l DEF BirthInv
  <2> QED
    BY <2>1, <2>2, <2>3, <2>4, <2>5
<1>1. TypeOK'
  BY <1>0, <1>q, <1>l, <1>n DEF TypeOK, States, Locations, ReapFree
<1>2. ReadyInv' /\ ParkInv' /\ QueueInv'
  BY <1>0, <1>q, <1>l, <1>n DEF TypeOK, ReadyInv, ParkInv, QueueInv, ReapFree
<1>3. RunInv' /\ IdleInv' /\ TailInv'
  BY <1>0, <1>q, <1>l, <1>n DEF TypeOK, RunInv, IdleInv, TailInv, ReapFree
<1>4. DyingInv' /\ ZombieInv' /\ ReapInv'
  BY <1>0, <1>q, <1>l, <1>n DEF TypeOK, DyingInv, ZombieInv, ReapInv, ReapFree
<1>5. BirthInv' /\ LocationInv' /\ SeqInv'
  BY <1>0, <1>q, <1>l, <1>n DEF TypeOK, BirthInv, LocationInv, SeqInv, ReapFree
<1>6. RunHome'
  BY <1>0, <1>q, <1>l, <1>n DEF TypeOK, RunHome, ReapFree
<1>7. BlockHome'
  BY <1>0, <1>q, <1>l, <1>n DEF TypeOK, BlockHome, ReapFree
<1>8. DeadHome'
  BY <1>0, <1>q, <1>l, <1>n DEF TypeOK, DeadHome, ReapFree
<1>9. BirthHome'
  BY <1>0, <1>q, <1>l, <1>n DEF TypeOK, BirthHome, ReapFree
<1> QED
  BY <1>1, <1>2, <1>3, <1>4, <1>5, <1>6, <1>7, <1>8, <1>9 DEF IInv

\* tcb_alloc returns a thread_t.
LEMMA TcbAllocStep ==
    ASSUME IInv, NEW c \in CPUs, NEW t \in AllThreads, NEW n \in Threads, TcbAlloc(c, t, n)
    PROVE  IInv'
<1> USE SchedulerAssumption DEF AllThreads, Pointer, At, queues, waiting, locals, tail, boot
<1>0. /\ TypeOK /\ ReadyInv /\ RunInv /\ IdleInv /\ ParkInv /\ QueueInv /\ DyingInv
      /\ ZombieInv /\ ReapInv /\ BirthInv /\ LocationInv /\ TailInv /\ SeqInv
      /\ RunHome /\ BlockHome /\ DeadHome /\ BirthHome
  BY DEF IInv
<1>q. Elems(ready) \subseteq Threads /\ \A q \in WaitQueues : Elems(waitq[q]) \subseteq Threads
  BY <1>0, QueuedAreThreads
<1>l. /\ state[n] = "FREE" /\ pc[n] = "off" /\ pc[t] = "alloc" /\ t # n /\ newborn[t] = None
      /\ newborn[n] = None /\ reapList[n] = {} /\ reapList[t] = {}
  BY <1>0 DEF TypeOK, LocationInv, TcbAlloc
<1>m. t \in Threads => state[t] = "RUNNING"
  BY <1>0 DEF TypeOK, RunInv, LocationInv, TcbAlloc
<1>n. /\ \A q \in WaitQueues : n \notin Elems(waitq[q])
      /\ n \notin Elems(ready) /\ n \notin zombies
      /\ \A d \in CPUs : pendPark[d] # n /\ pendZombie[d] # n /\ curr[d] # n
      /\ \A q \in AllThreads : newborn[q] # n /\ n \notin reapList[q]
  <2>1. \A q \in WaitQueues : n \notin Elems(waitq[q])
    BY <1>0, <1>l DEF QueueInv
  <2>2. n \notin Elems(ready)
    BY <1>0, <1>l DEF ReadyInv
  <2>3. n \notin zombies /\ \A d \in CPUs : pendZombie[d] # n
    BY <1>0, <1>l DEF ZombieInv, DyingInv
  <2>4. \A d \in CPUs : pendPark[d] # n /\ curr[d] # n
    BY <1>0, <1>l DEF ParkInv, RunInv
  <2>5. \A q \in AllThreads : newborn[q] # n /\ n \notin reapList[q]
    BY <1>0, <1>l DEF BirthInv, ReapInv
  <2> QED
    BY <2>1, <2>2, <2>3, <2>4, <2>5
<1>1. TypeOK'
  BY <1>0, <1>q, <1>l, <1>m, <1>n DEF TypeOK, States, Locations, TcbAlloc
<1>2. ReadyInv' /\ ParkInv' /\ QueueInv'
  BY <1>0, <1>q, <1>l, <1>m, <1>n DEF TypeOK, ReadyInv, ParkInv, QueueInv, TcbAlloc
<1>3. RunInv' /\ TailInv'
  BY <1>0, <1>q, <1>l, <1>m, <1>n DEF TypeOK, RunInv, TailInv, TcbAlloc
<1>4. IdleInv'
  <2>1. \A d \in CPUs : state'[d] = state[d] /\ (d # t => pc'[d] = pc[d])
    BY <1>0, <1>l DEF TypeOK, TcbAlloc
  <2>2. pc'[t] = "enqueue" /\ curr[c] = t /\ curr' = curr
    BY <1>0, <1>l DEF TypeOK, TcbAlloc
  <2> QED
    BY <1>0, <1>l, <2>1, <2>2 DEF TypeOK, IdleInv, RunInv
<1>5. DyingInv' /\ ZombieInv' /\ ReapInv'
  BY <1>0, <1>q, <1>l, <1>m, <1>n DEF TypeOK, DyingInv, ZombieInv, ReapInv, TcbAlloc
<1>6. BirthInv'
  BY <1>0, <1>q, <1>l, <1>m, <1>n DEF TypeOK, BirthInv, TcbAlloc
<1>7. LocationInv'
  BY <1>0, <1>q, <1>l, <1>m, <1>n DEF TypeOK, LocationInv, TcbAlloc
<1>8. SeqInv'
  BY <1>0, <1>q, <1>l, <1>m, <1>n DEF TypeOK, SeqInv, TcbAlloc
<1>9. RunHome'
  BY <1>0, <1>q, <1>l, <1>m, <1>n DEF TypeOK, RunHome, TcbAlloc
<1>10. BlockHome'
  BY <1>0, <1>q, <1>l, <1>m, <1>n DEF TypeOK, BlockHome, TcbAlloc
<1>11. DeadHome'
  BY <1>0, <1>q, <1>l, <1>m, <1>n DEF TypeOK, DeadHome, TcbAlloc
<1>12. BirthHome'
  BY <1>0, <1>q, <1>l, <1>m, <1>n DEF TypeOK, BirthHome, TcbAlloc
<1> QED
  BY <1>1, <1>2, <1>3, <1>4, <1>5, <1>6, <1>7, <1>8, <1>9, <1>10, <1>11, <1>12 DEF IInv

\* scheduler_enqueue.
LEMMA EnqueueStep ==
    ASSUME IInv, NEW c \in CPUs, NEW t \in AllThreads, Enqueue(c, t)
    PROVE  IInv'
<1> USE SchedulerAssumption DEF AllThreads, Pointer, At, queues, waiting, locals, tail, boot
<1>0. /\ TypeOK /\ ReadyInv /\ RunInv /\ IdleInv /\ ParkInv /\ QueueInv /\ DyingInv
      /\ ZombieInv /\ ReapInv /\ BirthInv /\ LocationInv /\ TailInv /\ SeqInv
      /\ RunHome /\ BlockHome /\ DeadHome /\ BirthHome
  BY DEF IInv
<1>q. Elems(ready) \subseteq Threads /\ \A q \in WaitQueues : Elems(waitq[q]) \subseteq Threads
  BY <1>0, QueuedAreThreads
<1> DEFINE n == newborn[t]
<1>l. /\ n \in Threads /\ state[n] = "UNINITIALISED" /\ pc[t] = "enqueue" /\ t # n
      /\ pc[n] = "user" /\ newborn[n] = None /\ reapList[t] = {}
  <2>1. pc[t] = "enqueue" /\ newborn[t] # None /\ reapList[t] = {}
    BY <1>0 DEF LocationInv, Enqueue
  <2>2. n \in Threads /\ state[n] = "UNINITIALISED"
    BY <1>0, <2>1 DEF TypeOK, BirthInv
  <2>3. pc[n] = "user"
    BY <1>0, <2>2 DEF LocationInv
  <2> QED
    BY <1>0, <2>1, <2>2, <2>3 DEF LocationInv
<1>b. \A q \in AllThreads : newborn[q] = n => q = t
  BY <1>0, <1>l DEF BirthInv
<1>m. t \in Threads => state[t] = "RUNNING"
  BY <1>0 DEF TypeOK, RunInv, LocationInv, Enqueue
<1>n. /\ \A q \in WaitQueues : n \notin Elems(waitq[q])
      /\ n \notin Elems(ready) /\ n \notin zombies
      /\ \A d \in CPUs : pendPark[d] # n /\ pendZombie[d] # n /\ curr[d] # n
      /\ \A q \in AllThreads : n \notin reapList[q]
  <2>1. \A q \in WaitQueues : n \notin Elems(waitq[q])
    BY <1>0, <1>l DEF QueueInv
  <2>2. n \notin Elems(ready)
    BY <1>0, <1>l DEF ReadyInv
  <2>3. n \notin zombies /\ \A d \in CPUs : pendZombie[d] # n
    BY <1>0, <1>l DEF ZombieInv, DyingInv
  <2>4. \A d \in CPUs : pendPark[d] # n /\ curr[d] # n
    BY <1>0, <1>l DEF ParkInv, RunInv
  <2>5. \A q \in AllThreads : n \notin reapList[q]
    BY <1>0, <1>l DEF ReapInv
  <2> QED
    BY <2>1, <2>2, <2>3, <2>4, <2>5
<1>r. /\ ready' \in Seq(Threads) /\ Elems(ready') = Elems(ready) \cup {n} /\ NoDup(ready')
  BY <1>0, <1>l, <1>n, AppendElems DEF TypeOK, ReadyInv, Enqueue
<1>s. /\ state' = [state EXCEPT ![n] = "READY"] /\ newborn' = [newborn EXCEPT ![t] = None]
      /\ pc' = [pc EXCEPT ![t] = IF t = BSP THEN "wfi" ELSE "user"]
      /\ curr[c] = t
      /\ UNCHANGED <<curr, pendPark, pendZombie, zombies, waiting, snap, snapq, reapList,
                     tail, boot>>
  BY DEF Enqueue
<1> HIDE DEF n
<1>1. TypeOK'
  BY <1>0, <1>q, <1>l, <1>b, <1>m, <1>n, <1>r, <1>s DEF TypeOK, States, Locations
<1>2. ReadyInv' /\ ParkInv' /\ QueueInv'
  BY <1>0, <1>q, <1>l, <1>b, <1>m, <1>n, <1>r, <1>s DEF TypeOK, ReadyInv, ParkInv, QueueInv
<1>3. RunInv' /\ TailInv'
  BY <1>0, <1>q, <1>l, <1>b, <1>m, <1>n, <1>r, <1>s DEF TypeOK, RunInv, TailInv
<1>4. IdleInv'
  <2>1. \A d \in CPUs : state'[d] = state[d] /\ (d # t => pc'[d] = pc[d])
    BY <1>0, <1>l, <1>s DEF TypeOK
  <2>2. t \in CPUs => t = BSP \/ pc'[t] = "user"
    BY <1>0, <1>s DEF TypeOK
  <2> QED
    BY <1>0, <1>l, <1>s, <2>1, <2>2 DEF TypeOK, IdleInv, RunInv
<1>5. DyingInv' /\ ZombieInv' /\ ReapInv'
  BY <1>0, <1>q, <1>l, <1>b, <1>m, <1>n, <1>r, <1>s DEF TypeOK, DyingInv, ZombieInv, ReapInv
<1>6. BirthInv' /\ LocationInv' /\ SeqInv'
  BY <1>0, <1>q, <1>l, <1>b, <1>m, <1>n, <1>r, <1>s DEF TypeOK, BirthInv, LocationInv, SeqInv
<1>7. RunHome'
  BY <1>0, <1>q, <1>l, <1>b, <1>m, <1>n, <1>r, <1>s DEF TypeOK, RunHome
<1>8. BlockHome'
  BY <1>0, <1>q, <1>l, <1>b, <1>m, <1>n, <1>r, <1>s DEF TypeOK, BlockHome
<1>9. DeadHome'
  BY <1>0, <1>q, <1>l, <1>b, <1>m, <1>n, <1>r, <1>s DEF TypeOK, DeadHome
<1>10. BirthHome'
  BY <1>0, <1>q, <1>l, <1>b, <1>m, <1>n, <1>r, <1>s DEF TypeOK, BirthHome
<1> QED
  BY <1>1, <1>2, <1>3, <1>4, <1>5, <1>6, <1>7, <1>8, <1>9, <1>10 DEF IInv

\* scheduler_wake_all.
LEMMA WakeAllStep ==
    ASSUME IInv, NEW c \in CPUs, NEW w \in WaitQueues, WakeAll(c, w)
    PROVE  IInv'
<1> USE SchedulerAssumption DEF AllThreads, Pointer, At, queues, waiting, locals, tail, boot
<1>0. /\ TypeOK /\ ReadyInv /\ RunInv /\ IdleInv /\ ParkInv /\ QueueInv /\ DyingInv
      /\ ZombieInv /\ ReapInv /\ BirthInv /\ LocationInv /\ TailInv /\ SeqInv
      /\ RunHome /\ BlockHome /\ DeadHome /\ BirthHome
  BY DEF IInv
<1>q. Elems(ready) \subseteq Threads /\ \A q \in WaitQueues : Elems(waitq[q]) \subseteq Threads
  BY <1>0, QueuedAreThreads
<1> DEFINE S == Elems(waitq[w])
<1>l. /\ S \subseteq Threads
      /\ \A x \in S : state[x] = "BLOCKED" /\ pc[x] = "yield"
      /\ \A x \in S : \A d \in CPUs : curr[d] # x /\ pendPark[d] # x
      /\ \A x \in S : \A q \in WaitQueues : x \in Elems(waitq[q]) => q = w
  <2>1. S \subseteq Threads
    BY <1>q
  <2>2. \A x \in S : /\ state[x] = "BLOCKED"
                     /\ \A d \in CPUs : curr[d] # x
                     /\ \A q \in WaitQueues : x \in Elems(waitq[q]) => q = w
    BY <1>0 DEF QueueInv
  <2>3. \A x \in S : pc[x] = "yield"
    BY <1>0, <2>1, <2>2 DEF LocationInv
  <2>4. \A x \in S : \A d \in CPUs : pendPark[d] # x
    BY <1>0, <2>1 DEF ParkInv
  <2> QED
    BY <2>1, <2>2, <2>3, <2>4
<1>r. ready' \in Seq(Threads) /\ Elems(ready') = Elems(ready) \cup S /\ NoDup(ready')
  <2>1. waitq[w] \in Seq(Threads) /\ ready \in Seq(Threads) /\ ready' = ready \o waitq[w]
    BY <1>0 DEF TypeOK, WakeAll
  <2>2. Elems(ready) \cap S = {}
    BY <1>0, <1>l DEF ReadyInv
  <2>3. NoDup(ready) /\ NoDup(waitq[w])
    BY <1>0 DEF ReadyInv, QueueInv
  <2> QED
    BY <2>1, <2>2, <2>3, ConcatElems
<1>s. /\ \A x \in AllThreads : state'[x] = IF x \in S THEN "READY" ELSE state[x]
      /\ state' \in [AllThreads -> States]
  BY <1>0 DEF TypeOK, States, WakeAll
<1>t. /\ \A x \in Threads : waitingOn'[x] = IF x \in S THEN None ELSE waitingOn[x]
      /\ waitingOn' \in [Threads -> WaitQueues \cup {None}]
  BY <1>0 DEF TypeOK, WakeAll
<1>v. /\ waitq' \in [WaitQueues -> Seq(Threads)] /\ seq' \in [WaitQueues -> Nat]
      /\ Elems(waitq'[w]) = {} /\ NoDup(waitq'[w])
      /\ \A q \in WaitQueues : q # w => waitq'[q] = waitq[q] /\ seq'[q] = seq[q]
  BY <1>0, SmallElems DEF TypeOK, WakeAll
<1>u. UNCHANGED <<curr, pendPark, pendZombie, zombies, waitSeq, locals, pc, tail, boot>>
  BY DEF WakeAll
<1> HIDE DEF S
<1>1. TypeOK'
  BY <1>0, <1>q, <1>l, <1>r, <1>s, <1>t, <1>v, <1>u DEF TypeOK, States, Locations
<1>2. ReadyInv' /\ QueueInv'
  BY <1>0, <1>q, <1>l, <1>r, <1>s, <1>t, <1>v, <1>u DEF TypeOK, ReadyInv, QueueInv
<1>3. ParkInv'
  <2>0. \A d \in CPUs : pendPark[d] # None => pendPark[d] \in AllThreads /\ pendPark[d] \notin S
    BY <1>0, <1>l DEF TypeOK
  <2>1. \A d \in CPUs : pendPark[d] # None => state'[pendPark[d]] = state[pendPark[d]]
    BY <1>s, <2>0
  <2>2. \A q \in WaitQueues : Elems(waitq'[q]) \subseteq Elems(waitq[q])
    BY <1>v
  <2> QED
    BY <1>0, <1>u, <2>1, <2>2 DEF ParkInv
<1>4. IdleInv' /\ TailInv'
  BY <1>0, <1>q, <1>l, <1>r, <1>s, <1>t, <1>v, <1>u DEF TypeOK, IdleInv, TailInv
<1>5. RunInv'
  <2>1. \A d \in CPUs : curr[d] \in Threads => state'[curr[d]] = state[curr[d]]
    BY <1>0, <1>l, <1>s DEF TypeOK
  <2> QED
    BY <1>0, <2>1, <1>u DEF RunInv
<1>6. ZombieInv'
  BY <1>0, <1>q, <1>l, <1>r, <1>s, <1>t, <1>v, <1>u DEF TypeOK, ZombieInv
<1>7. ReapInv'
  BY <1>0, <1>q, <1>l, <1>r, <1>s, <1>t, <1>v, <1>u DEF TypeOK, ReapInv
<1>8. DyingInv'
  <2>0. \A d \in CPUs : pendZombie[d] # None => pendZombie[d] \in AllThreads /\ pendZombie[d] \notin S
    BY <1>0, <1>l DEF TypeOK, DyingInv
  <2>1. \A d \in CPUs : pendZombie[d] # None => state'[pendZombie[d]] = state[pendZombie[d]]
    BY <1>s, <2>0
  <2> QED
    BY <1>0, <1>u, <2>1 DEF DyingInv
<1>9. BirthInv'
  <2>0. \A q \in AllThreads : newborn[q] # None => newborn[q] \in AllThreads /\ newborn[q] \notin S
    BY <1>0, <1>l DEF TypeOK, BirthInv
  <2>1. \A q \in AllThreads : newborn[q] # None => state'[newborn[q]] = state[newborn[q]]
    BY <1>s, <2>0
  <2> QED
    BY <1>0, <1>u, <2>1 DEF BirthInv
<1>10. LocationInv'
  <2>1. \A x \in Threads : state'[x] \in {"BLOCKED", "TERMINATED", "UNINITIALISED", "FREE"} =>
          state'[x] = state[x]
    BY <1>0, <1>s DEF TypeOK
  <2> QED
    BY <1>0, <1>u, <2>1 DEF LocationInv
<1>11. SeqInv'
  <2>1. \A q \in WaitQueues : \A x \in Elems(waitq'[q]) :
          q # w /\ x \in Elems(waitq[q]) /\ x \in Threads /\ x \notin S
    BY <1>v, <1>l, <1>q
  <2> QED
    BY <1>0, <1>u, <1>t, <1>v, <2>1 DEF SeqInv
<1>12. RunHome'
  BY <1>0, <1>q, <1>l, <1>r, <1>s, <1>t, <1>v, <1>u DEF TypeOK, RunHome
<1>13. DeadHome'
  BY <1>0, <1>q, <1>l, <1>r, <1>s, <1>t, <1>v, <1>u DEF TypeOK, DeadHome
<1>14. BirthHome'
  BY <1>0, <1>q, <1>l, <1>r, <1>s, <1>t, <1>v, <1>u DEF TypeOK, BirthHome
<1>15. BlockHome'
  <2>1. \A x \in Threads : state'[x] = "BLOCKED" => state[x] = "BLOCKED" /\ x \notin S
    BY <1>0, <1>s DEF TypeOK
  <2>2. \A x \in Threads : \A q \in WaitQueues :
          x \in Elems(waitq[q]) /\ x \notin S => x \in Elems(waitq'[q])
    BY <1>v DEF S
  <2> QED
    BY <1>0, <1>u, <2>1, <2>2 DEF BlockHome
<1> QED
  BY <1>1, <1>2, <1>3, <1>4, <1>5, <1>6, <1>7, <1>8, <1>9, <1>10, <1>11, <1>12, <1>13, <1>14, <1>15 DEF IInv

\* The critical section of scheduler_schedule.
LEMMA ScheduleStep ==
    ASSUME IInv, NEW c \in CPUs, Schedule(c)
    PROVE  IInv'
<1> USE SchedulerAssumption DEF AllThreads, Pointer, At, queues, waiting, locals, tail, boot
<1>0. /\ TypeOK /\ ReadyInv /\ RunInv /\ IdleInv /\ ParkInv /\ QueueInv /\ DyingInv
      /\ ZombieInv /\ ReapInv /\ BirthInv /\ LocationInv /\ TailInv /\ SeqInv
      /\ RunHome /\ BlockHome /\ DeadHome /\ BirthHome
  BY DEF IInv
<1>q. Elems(ready) \subseteq Threads /\ \A q \in WaitQueues : Elems(waitq[q]) \subseteq Threads
  BY <1>0, QueuedAreThreads
<1> DEFINE o == curr[c]
            p == pendPark[c]
            z == pendZombie[c]
            R == ReadyAfterEnqueues(c)
            N == NextThread(c)
            rq == Elems(R)
\* The thread that is left.
<1>o. /\ o \in AllThreads /\ o # None /\ leaving[c] = None
      /\ state[o] \in {"RUNNING", "BLOCKED", "TERMINATED"}
      /\ o \in CPUs => o = c /\ state[o] = "RUNNING"
      /\ \A d \in CPUs : d # c => curr[d] # o
      /\ \A d \in CPUs : pendPark[d] # o /\ pendZombie[d] # o
      /\ o \notin zombies /\ \A r \in AllThreads : o \notin reapList[r]
      /\ \A w \in WaitQueues : o \notin Elems(waitq[w])
  <2>1. o \in AllThreads /\ o # None /\ leaving[c] = None
    BY <1>0 DEF TypeOK, Schedule, MaySchedule
  <2>2. /\ o \in CPUs => o = c /\ state[o] = "RUNNING"
        /\ \A d \in CPUs : d # c => curr[d] # o
        /\ state[o] \in {"RUNNING", "BLOCKED", "TERMINATED"}
    BY <1>0, <2>1 DEF RunInv, IdleInv
  <2>3. \A d \in CPUs : pendPark[d] # o /\ pendZombie[d] # o
    BY <1>0, <2>1 DEF ParkInv, DyingInv
  <2>4. o \notin zombies /\ \A r \in AllThreads : o \notin reapList[r]
    BY <1>0, <2>1 DEF ZombieInv, ReapInv
  <2>5. \A w \in WaitQueues : o \notin Elems(waitq[w])
    BY <1>0, <2>1 DEF QueueInv
  <2> QED
    BY <2>1, <2>2, <2>3, <2>4, <2>5
\* The pending park is stale, or it commits to a queue whose seq it saw.
<1>p. /\ ParkStale(c) => p \in Threads
      /\ p # None => p \in Threads /\ state[p] = "BLOCKED"
      /\ p # None /\ ~ParkStale(c) => waitingOn[p] \in WaitQueues /\ seq[waitingOn[p]] = waitSeq[p]
  BY <1>0 DEF TypeOK, ParkStale, ParkInv
\* The queue after the two enqueues.
<1>r. /\ R \in Seq(Threads) /\ NoDup(R) /\ rq \subseteq Threads
      /\ rq = Elems(ready) \cup (IF ParkStale(c) THEN {p} ELSE {})
                \cup (IF state[o] = "RUNNING" /\ o # c THEN {o} ELSE {})
  <2> DEFINE s == IF ParkStale(c) THEN Append(ready, p) ELSE ready
             t == IF state[o] = "RUNNING" /\ o # c THEN <<o>> ELSE <<>>
  <2>1. /\ s \in Seq(Threads) /\ NoDup(s)
        /\ Elems(s) = Elems(ready) \cup (IF ParkStale(c) THEN {p} ELSE {})
    <3>1. ready \in Seq(Threads) /\ NoDup(ready)
      BY <1>0 DEF TypeOK, ReadyInv
    <3>2. ParkStale(c) => p \in Threads /\ p \notin Elems(ready)
      BY <1>0, <1>p DEF ReadyInv, ParkStale
    <3> QED
      BY <3>1, <3>2, AppendElems
  <2>2. /\ t \in Seq(Threads) /\ NoDup(t)
        /\ Elems(t) = IF state[o] = "RUNNING" /\ o # c THEN {o} ELSE {}
    <3>1. CASE state[o] = "RUNNING" /\ o # c
      <4>1. o \in Threads /\ t = <<o>>
        BY <1>o, <3>1
      <4> HIDE DEF o, t
      <4> QED
        BY <3>1, <4>1, SmallElems
    <3>2. CASE ~(state[o] = "RUNNING" /\ o # c)
      <4>1. t = <<>>
        BY <3>2
      <4> HIDE DEF o, t
      <4> QED
        BY <3>2, <4>1, SmallElems
    <3> QED
      BY <3>1, <3>2
  <2>3. Elems(s) \cap Elems(t) = {}
    <3>1. p # o
      BY <1>o
    <3>2. o \in Threads /\ state[o] = "RUNNING" => o \notin Elems(ready)
      BY <1>0 DEF ReadyInv
    <3> HIDE DEF o, p, s, t
    <3> QED
      BY <1>o, <2>1, <2>2, <3>1, <3>2
  <2>4. R = s \o t
    BY DEF ReadyAfterEnqueues
  <2> HIDE DEF s, t
  <2>5. R \in Seq(Threads) /\ NoDup(R) /\ rq = Elems(s) \cup Elems(t)
    BY <2>1, <2>2, <2>3, <2>4, ConcatElems
  <2>6. rq \subseteq Threads
    BY <2>5, ElemsType
  <2> QED
    BY <2>1, <2>2, <2>5, <2>6
\* The next thread.
<1>n. /\ (N = c /\ rq = {}) \/ N \in rq
      /\ ready' \in Seq(Threads) /\ NoDup(ready') /\ Elems(ready') = rq \ {N}
  <2>1. CASE R = <<>>
    <3>1. N = c /\ ready' = <<>>
      BY <2>1 DEF NextThread, Schedule
    <3>2. <<>> \in Seq(Threads)
      OBVIOUS
    <3> QED
      BY <2>1, <3>1, <3>2, SmallElems
  <2>2. CASE R # <<>>
    <3>1. N = Head(R) /\ ready' = Tail(R)
      BY <2>2 DEF NextThread, Schedule
    <3> HIDE DEF R, N
    <3> QED
      BY <2>2, <3>1, <1>r, HeadTailElems
  <2> QED
    BY <2>1, <2>2
<1>c. N # None /\ N \in AllThreads /\ (N \in CPUs => N = c)
  BY <1>n, <1>r
\* Who is in that queue is nowhere else.
<1>e. \A x \in rq : /\ x \in Threads
                    /\ state[x] \in {"READY", "RUNNING", "BLOCKED"}
                    /\ \A d \in CPUs : d # c => curr[d] # x /\ pendPark[d] # x
                    /\ \A w \in WaitQueues : x \notin Elems(waitq[w])
  <2>1. ASSUME NEW x \in Elems(ready)
        PROVE  /\ state[x] = "READY"
               /\ \A d \in CPUs : curr[d] # x /\ pendPark[d] # x
               /\ \A w \in WaitQueues : x \notin Elems(waitq[w])
    <3>1. x \in Threads /\ state[x] = "READY"
      BY <1>0, <1>q DEF ReadyInv
    <3>2. \A d \in CPUs : curr[d] # x
      BY <1>0, <3>1 DEF RunInv
    <3>3. \A d \in CPUs : pendPark[d] # x
      BY <1>0, <3>1 DEF ParkInv
    <3>4. \A w \in WaitQueues : x \notin Elems(waitq[w])
      BY <1>0, <3>1 DEF QueueInv
    <3> QED
      BY <3>1, <3>2, <3>3, <3>4
  <2>2. p # None => /\ \A d \in CPUs : curr[d] # p /\ (d # c => pendPark[d] # p)
                    /\ \A w \in WaitQueues : p \notin Elems(waitq[w])
    BY <1>0 DEF ParkInv
  <2>3. ParkStale(c) => p # None
    BY DEF ParkStale
  <2> HIDE DEF o, p, R, rq
  <2> QED
    BY <1>r, <1>p, <1>o, <2>1, <2>2, <2>3
\* The new values.
<1>s. /\ state' \in [AllThreads -> States]
      /\ \A x \in AllThreads :
            state'[x] = IF x = N THEN "RUNNING" ELSE IF x \in rq THEN "READY" ELSE state[x]
  BY <1>0 DEF TypeOK, States, Schedule, StateAfterSwitch
<1>k. /\ curr' = [curr EXCEPT ![c] = N]
      /\ pendPark' = [pendPark EXCEPT ![c] = IF state[o] = "BLOCKED" THEN o ELSE None]
      /\ pendZombie' = [pendZombie EXCEPT ![c] = IF state[o] = "TERMINATED" THEN o ELSE None]
      /\ leaving' = [leaving EXCEPT ![c] = IF N = o THEN None ELSE o]
      /\ how' = [how EXCEPT ![c] = IF N = o THEN "none" ELSE state[o]]
      /\ zombies' = zombies \cup ({z} \ {None})
      /\ UNCHANGED <<seq, waitSeq, locals, pc, boot>>
  BY DEF Schedule, ZombiesAfterSwitch
<1>w. /\ waitq' \in [WaitQueues -> Seq(Threads)]
      /\ \A w \in WaitQueues :
            /\ NoDup(waitq'[w])
            /\ Elems(waitq'[w]) = Elems(waitq[w])
                 \cup (IF ParkCommits(c) /\ waitingOn[p] = w THEN {p} ELSE {})
  <2>1. ASSUME NEW w \in WaitQueues
        PROVE  /\ waitq'[w] \in Seq(Threads) /\ NoDup(waitq'[w])
               /\ Elems(waitq'[w]) = Elems(waitq[w])
                    \cup (IF ParkCommits(c) /\ waitingOn[p] = w THEN {p} ELSE {})
    <3>1. waitq[w] \in Seq(Threads) /\ NoDup(waitq[w])
      BY <1>0 DEF TypeOK, QueueInv
    <3>2. waitq'[w] = IF ParkCommits(c) /\ waitingOn[p] = w THEN <<p>> \o waitq[w] ELSE waitq[w]
      BY DEF Schedule, SettlePark
    <3>3. CASE ParkCommits(c) /\ waitingOn[p] = w
      <4>1. p \in Threads /\ p \notin Elems(waitq[w])
        BY <1>0, <1>p, <3>3 DEF ParkCommits, ParkInv
      <4>2. <<p>> \in Seq(Threads) /\ Elems(<<p>>) = {p} /\ NoDup(<<p>>)
        BY <4>1, SmallElems
      <4>3. waitq'[w] = <<p>> \o waitq[w]
        BY <3>2, <3>3
      <4> DEFINE u == <<p>>
      <4> HIDE DEF p, u
      <4>4. Elems(u) \cap Elems(waitq[w]) = {} /\ u \in Seq(Threads) /\ NoDup(u)
        BY <4>1, <4>2 DEF u
      <4>5. /\ waitq'[w] \in Seq(Threads) /\ NoDup(waitq'[w])
            /\ Elems(waitq'[w]) = Elems(u) \cup Elems(waitq[w])
        <5>1. waitq'[w] = u \o waitq[w]
          BY <4>3 DEF u
        <5> QED
          BY <3>1, <4>4, <5>1, ConcatElems
      <4>6. Elems(u) = {p}
        BY <4>2 DEF u
      <4> QED
        BY <3>3, <4>5, <4>6
    <3>4. CASE ~(ParkCommits(c) /\ waitingOn[p] = w)
      BY <3>1, <3>2, <3>4
    <3> QED
      BY <3>3, <3>4
  <2>2. waitq' = [w \in WaitQueues |-> waitq'[w]]
    BY DEF Schedule, SettlePark
  <2> HIDE DEF p
  <2> QED
    BY <2>1, <2>2
<1>v. /\ waitingOn' \in [Threads -> WaitQueues \cup {None}]
      /\ \A x \in Threads : waitingOn'[x] =
            IF (ParkStale(c) /\ x = p) \/ (x = N /\ x = o) THEN None ELSE waitingOn[x]
  BY <1>0 DEF TypeOK, Schedule, SettlePark
<1>m. ParkCommits(c) <=> p # None /\ ~ParkStale(c)
  BY DEF ParkCommits
<1>x. p # None /\ ~ParkStale(c) => p \notin rq
  <2>1. p # None => p \notin Elems(ready)
    BY <1>0, <1>p DEF ReadyInv
  <2>2. p # o
    BY <1>o
  <2> HIDE DEF o, p, R, rq
  <2> QED
    BY <1>r, <2>1, <2>2
<1>y. state[o] # "RUNNING" => o \notin rq /\ N # o /\ o \in Threads
  <2>1. state[o] # "RUNNING" => o \in Threads /\ o \notin Elems(ready)
    BY <1>0, <1>o DEF ReadyInv
  <2>2. p # o
    BY <1>o
  <2>3. state[o] # "RUNNING" => o \notin rq
    BY <1>r, <2>1, <2>2
  <2> QED
    BY <1>n, <2>1, <2>3
<1> HIDE DEF o, p, z, R, N, rq
<1>1. TypeOK'
  <2>1. state[o] \in {"RUNNING", "BLOCKED", "TERMINATED"}
    BY <1>o
  <2>2. state[o] # "RUNNING" => o \in Threads
    BY <1>y
  <2>3. curr' \in [CPUs -> AllThreads \cup {None}] /\ leaving' \in [CPUs -> AllThreads \cup {None}]
    BY <1>0, <1>k, <1>c, <1>o DEF TypeOK
  <2>4. pendPark' \in [CPUs -> Pointer] /\ pendZombie' \in [CPUs -> Pointer]
    BY <1>0, <1>k, <2>1, <2>2 DEF TypeOK
  <2>5. how' \in [CPUs -> {"none", "RUNNING", "BLOCKED", "TERMINATED"}]
    BY <1>0, <1>k, <2>1 DEF TypeOK
  <2>6. zombies' \subseteq Threads
    BY <1>0, <1>k DEF TypeOK, z
  <2> QED
    BY <1>0, <1>k, <1>s, <1>n, <1>w, <1>v, <2>3, <2>4, <2>5, <2>6 DEF TypeOK
<1>2. ReadyInv'
  <2>1. Elems(ready) \subseteq rq
    BY <1>r
  <2> QED
    BY <1>0, <1>n, <1>s, <1>r, <2>1 DEF ReadyInv
<1>3. ParkInv'
  <2>1. /\ pendPark'[c] = IF state[o] = "BLOCKED" THEN o ELSE None
        /\ \A d \in CPUs : d # c => pendPark'[d] = pendPark[d]
        /\ curr'[c] = N /\ \A d \in CPUs : d # c => curr'[d] = curr[d]
    BY <1>0, <1>k DEF TypeOK
  <2>2. ASSUME NEW d \in CPUs, d # c, pendPark[d] # None
        PROVE  /\ state'[pendPark[d]] = "BLOCKED" /\ pendPark[d] # o
               /\ \A e \in CPUs : curr'[e] # pendPark[d]
               /\ \A w \in WaitQueues : pendPark[d] \notin Elems(waitq'[w])
    <3>1. pendPark[d] \in Threads /\ pendPark[d] # p /\ pendPark[d] # o /\ pendPark[d] \notin rq
      BY <1>0, <1>o, <1>e, <2>2 DEF TypeOK, ParkInv, p
    <3>2. pendPark[d] # N
      BY <1>n, <3>1
    <3>3. state[pendPark[d]] = "BLOCKED" /\ \A w \in WaitQueues : pendPark[d] \notin Elems(waitq[w])
      BY <1>0, <2>2 DEF ParkInv
    <3>4. \A e \in CPUs : curr'[e] # pendPark[d]
      BY <1>0, <2>1, <2>2, <3>2 DEF ParkInv
    <3> QED
      BY <1>s, <1>w, <3>1, <3>2, <3>3, <3>4
  <2>3. ASSUME state[o] = "BLOCKED"
        PROVE  /\ state'[o] = "BLOCKED"
               /\ \A e \in CPUs : curr'[e] # o
               /\ \A w \in WaitQueues : o \notin Elems(waitq'[w])
    <3>1. o # p
      BY <1>o DEF p
    <3> QED
      BY <1>o, <1>s, <1>w, <1>y, <2>1, <2>3, <3>1
  <2>4. \A d, e \in CPUs : pendPark'[d] = pendPark'[e] /\ pendPark'[d] # None => d = e
    BY <1>0, <2>1, <2>2 DEF ParkInv
  <2>5. ASSUME NEW d \in CPUs, pendPark'[d] # None
        PROVE  /\ state'[pendPark'[d]] = "BLOCKED"
               /\ \A e \in CPUs : curr'[e] # pendPark'[d]
               /\ \A w \in WaitQueues : pendPark'[d] \notin Elems(waitq'[w])
    BY <2>1, <2>2, <2>3, <2>5
  <2> QED
    BY <2>4, <2>5 DEF ParkInv
<1>4. QueueInv'
  <2>1. curr'[c] = N /\ \A d \in CPUs : d # c => curr'[d] = curr[d]
    BY <1>0, <1>k DEF TypeOK
  <2>2. ASSUME NEW w \in WaitQueues, NEW x \in Elems(waitq'[w])
        PROVE  /\ x \in Threads /\ state[x] = "BLOCKED" /\ x \notin rq
               /\ \A d \in CPUs : curr[d] # x
    <3>1. CASE x \in Elems(waitq[w])
      BY <1>0, <1>q, <1>e, <3>1 DEF QueueInv
    <3>2. CASE x = p /\ ParkCommits(c)
      <4>1. \A d \in CPUs : curr[d] # p
        BY <1>0, <1>m, <3>2 DEF ParkInv, p
      <4> QED
        BY <1>p, <1>m, <1>x, <3>2, <4>1
    <3> QED
      BY <1>w, <2>2, <3>1, <3>2
  <2>3. ASSUME NEW w \in WaitQueues, NEW x \in Elems(waitq'[w])
        PROVE  state'[x] = "BLOCKED" /\ \A d \in CPUs : curr'[d] # x
    BY <1>s, <1>n, <2>1, <2>2, <2>3
  <2>4. ASSUME NEW w \in WaitQueues, NEW v \in WaitQueues,
               NEW x \in Elems(waitq'[w]), x \in Elems(waitq'[v])
        PROVE  v = w
    <3>1. p # None => \A q \in WaitQueues : p \notin Elems(waitq[q])
      BY <1>0 DEF ParkInv, p
    <3>2. CASE x = p /\ ParkCommits(c)
      BY <1>w, <1>m, <2>4, <3>1, <3>2
    <3>3. CASE x \in Elems(waitq[w]) /\ x \in Elems(waitq[v])
      BY <1>0, <3>3 DEF QueueInv
    <3> QED
      BY <1>w, <2>4, <3>2, <3>3
  <2> QED
    BY <1>w, <2>3, <2>4 DEF QueueInv
<1>5. RunInv'
  <2>1. curr'[c] = N /\ state'[N] = "RUNNING" /\ \A d \in CPUs : d # c => curr'[d] = curr[d]
    BY <1>0, <1>k, <1>s, <1>c DEF TypeOK
  <2>2. \A d \in CPUs : d # c => curr[d] # N
    <3>1. CASE N = c
      BY <1>0, <3>1 DEF RunInv
    <3>2. CASE N \in rq
      BY <1>e, <3>2
    <3> QED
      BY <1>n, <3>1, <3>2
  <2>3. \A d \in CPUs : d # c /\ curr[d] \in Threads => state'[curr[d]] = state[curr[d]]
    BY <1>s, <1>e, <2>2
  <2> QED
    BY <1>0, <1>c, <2>1, <2>2, <2>3 DEF RunInv
<1>6. IdleInv'
  <2>1. \A d \in CPUs : d \notin rq
    BY <1>r
  <2>2. \A d \in CPUs : state'[d] = state[d] \/ (d = c /\ state'[d] = "RUNNING")
    BY <1>s, <1>c, <2>1
  <2>3. curr'[c] = N /\ \A d \in CPUs : d # c => curr'[d] = curr[d]
    BY <1>0, <1>k DEF TypeOK
  <2>4. N = c => state'[c] = "RUNNING"
    BY <1>s
  <2>5. curr[c] # None /\ pc' = pc
    BY <1>o, <1>k DEF o
  <2> QED
    BY <1>0, <1>c, <2>2, <2>3, <2>4, <2>5 DEF IdleInv
<1>7. TailInv'
  <2>1. /\ how'[c] = (IF N = o THEN "none" ELSE state[o])
        /\ leaving'[c] = (IF N = o THEN None ELSE o)
        /\ pendPark'[c] = (IF state[o] = "BLOCKED" THEN o ELSE None)
        /\ pendZombie'[c] = (IF state[o] = "TERMINATED" THEN o ELSE None)
    BY <1>0, <1>k DEF TypeOK
  <2>2. \A d \in CPUs : d # c => /\ how'[d] = how[d] /\ leaving'[d] = leaving[d]
                                 /\ pendPark'[d] = pendPark[d] /\ pendZombie'[d] = pendZombie[d]
    BY <1>0, <1>k DEF TypeOK
  <2> QED
    BY <1>0, <1>o, <2>1, <2>2 DEF TailInv
<1>8. DyingInv'
  <2>1. /\ pendZombie'[c] = IF state[o] = "TERMINATED" THEN o ELSE None
        /\ \A d \in CPUs : d # c => pendZombie'[d] = pendZombie[d]
        /\ curr'[c] = N /\ \A d \in CPUs : d # c => curr'[d] = curr[d]
        /\ reapList' = reapList
    BY <1>0, <1>k DEF TypeOK
  <2>2. ASSUME NEW d \in CPUs, d # c, pendZombie[d] # None
        PROVE  /\ state'[pendZombie[d]] = "TERMINATED" /\ pendZombie[d] # o
               /\ \A e \in CPUs : curr'[e] # pendZombie[d]
               /\ pendZombie[d] \notin zombies'
               /\ \A r \in AllThreads : pendZombie[d] \notin reapList'[r]
    <3>1. /\ pendZombie[d] \in Threads /\ pendZombie[d] # z /\ pendZombie[d] # o
          /\ state[pendZombie[d]] = "TERMINATED"
      BY <1>0, <1>o, <2>2 DEF TypeOK, DyingInv, z
    <3>2. pendZombie[d] \notin rq /\ pendZombie[d] # N
      BY <1>e, <1>n, <3>1
    <3>3. \A e \in CPUs : curr'[e] # pendZombie[d]
      BY <1>0, <2>1, <2>2, <3>2 DEF DyingInv
    <3>4. pendZombie[d] \notin zombies'
      BY <1>0, <1>k, <2>2, <3>1 DEF DyingInv
    <3>5. \A r \in AllThreads : pendZombie[d] \notin reapList'[r]
      BY <1>0, <2>1, <2>2 DEF DyingInv
    <3> QED
      BY <1>s, <3>1, <3>2, <3>3, <3>4, <3>5
  <2>3. ASSUME state[o] = "TERMINATED"
        PROVE  /\ state'[o] = "TERMINATED"
               /\ \A e \in CPUs : curr'[e] # o
               /\ o \notin zombies'
               /\ \A r \in AllThreads : o \notin reapList'[r]
    <3>1. o # z
      BY <1>o DEF z
    <3> QED
      BY <1>o, <1>s, <1>k, <1>y, <2>1, <2>3, <3>1
  <2>4. \A d, e \in CPUs : pendZombie'[d] = pendZombie'[e] /\ pendZombie'[d] # None => d = e
    BY <1>0, <2>1, <2>2 DEF DyingInv
  <2>5. ASSUME NEW d \in CPUs, pendZombie'[d] # None
        PROVE  /\ state'[pendZombie'[d]] = "TERMINATED"
               /\ \A e \in CPUs : curr'[e] # pendZombie'[d]
               /\ pendZombie'[d] \notin zombies'
               /\ \A r \in AllThreads : pendZombie'[d] \notin reapList'[r]
    BY <2>1, <2>2, <2>3, <2>5
  <2> QED
    BY <2>4, <2>5 DEF DyingInv
<1>9. ZombieInv'
  <2>1. ASSUME NEW x \in zombies'
        PROVE  /\ x \in Threads /\ state[x] = "TERMINATED"
               /\ \A d \in CPUs : curr[d] # x
               /\ \A r \in AllThreads : x \notin reapList[r]
    <3>1. CASE x \in zombies
      BY <1>0, <3>1 DEF TypeOK, ZombieInv
    <3>2. CASE x = z /\ z # None
      BY <1>0, <3>2 DEF TypeOK, DyingInv, z
    <3> QED
      BY <1>k, <2>1, <3>1, <3>2
  <2>2. ASSUME NEW x \in zombies' PROVE x \notin rq /\ x # N
    BY <1>e, <1>n, <2>1, <2>2
  <2>3. curr'[c] = N /\ (\A d \in CPUs : d # c => curr'[d] = curr[d]) /\ reapList' = reapList
    BY <1>0, <1>k DEF TypeOK
  <2> QED
    BY <1>s, <2>1, <2>2, <2>3 DEF ZombieInv
<1>10. ReapInv'
  <2>1. curr'[c] = N /\ (\A d \in CPUs : d # c => curr'[d] = curr[d]) /\ reapList' = reapList
    BY <1>0, <1>k DEF TypeOK
  <2>2. ASSUME NEW r \in AllThreads, NEW x \in reapList[r]
        PROVE  x \in Threads /\ x \notin rq /\ x # N /\ state[x] = "TERMINATED"
    <3>1. x \in Threads /\ state[x] = "TERMINATED"
      BY <1>0, <2>2 DEF TypeOK, ReapInv
    <3> QED
      BY <1>e, <1>n, <3>1
  <2> QED
    BY <1>0, <1>s, <2>1, <2>2 DEF ReapInv
<1>11. BirthInv'
  <2>1. ASSUME NEW q \in AllThreads, newborn[q] # None
        PROVE  /\ newborn[q] \in Threads /\ newborn[q] \notin rq /\ newborn[q] # N
               /\ state[newborn[q]] = "UNINITIALISED"
    <3>1. newborn[q] \in Threads /\ state[newborn[q]] = "UNINITIALISED"
      BY <1>0, <2>1 DEF TypeOK, BirthInv
    <3> QED
      BY <1>e, <1>n, <3>1
  <2> QED
    BY <1>0, <1>s, <1>k, <2>1 DEF BirthInv
<1>12. LocationInv'
  <2>1. \A x \in Threads : state'[x] \in {"BLOCKED", "TERMINATED", "UNINITIALISED", "FREE"} =>
          state'[x] = state[x]
    BY <1>s
  <2> QED
    BY <1>0, <1>k, <2>1 DEF LocationInv
<1>13. SeqInv'
  <2>1. ASSUME NEW w \in WaitQueues, NEW x \in Elems(waitq'[w])
        PROVE  waitingOn'[x] = w /\ waitSeq'[x] = seq'[w]
    <3>1. CASE x \in Elems(waitq[w])
      <4>1. x \in Threads /\ x # o /\ (p # None => x # p)
        BY <1>0, <1>q, <1>o, <3>1 DEF ParkInv, p
      <4>2. waitingOn'[x] = waitingOn[x]
        BY <1>v, <1>p, <4>1
      <4> QED
        BY <1>0, <1>k, <3>1, <4>2 DEF SeqInv
    <3>2. CASE x = p /\ ParkCommits(c) /\ waitingOn[p] = w
      <4>1. p \in Threads /\ p # o /\ ~ParkStale(c) /\ seq[w] = waitSeq[p]
        BY <1>o, <1>p, <1>m, <3>2 DEF p
      <4> QED
        BY <1>v, <1>k, <3>2, <4>1
    <3> QED
      BY <1>w, <2>1, <3>1, <3>2
  <2> QED
    BY <2>1 DEF SeqInv
<1>14. RunHome'
  <2>1. curr'[c] = N /\ \A d \in CPUs : d # c => curr'[d] = curr[d]
    BY <1>0, <1>k DEF TypeOK
  <2>2. ASSUME NEW x \in Threads, state'[x] = "RUNNING", x # N
        PROVE  \E d \in CPUs : curr'[d] = x
    <3>1. state[x] = "RUNNING" /\ x \notin rq
      BY <1>s, <2>2
    <3>2. PICK d \in CPUs : curr[d] = x
      BY <1>0, <3>1 DEF RunHome
    <3>3. d # c
      BY <1>r, <3>1, <3>2 DEF o
    <3> QED
      BY <2>1, <3>2, <3>3
  <2> QED
    BY <2>1, <2>2 DEF RunHome
<1>15. BlockHome'
  <2>1. /\ pendPark'[c] = IF state[o] = "BLOCKED" THEN o ELSE None
        /\ \A d \in CPUs : d # c => pendPark'[d] = pendPark[d]
        /\ curr'[c] = N /\ \A d \in CPUs : d # c => curr'[d] = curr[d]
    BY <1>0, <1>k DEF TypeOK
  <2>2. SUFFICES ASSUME NEW x \in Threads, state'[x] = "BLOCKED"
                 PROVE  \/ \E d \in CPUs : curr'[d] = x \/ pendPark'[d] = x
                        \/ \E w \in WaitQueues : x \in Elems(waitq'[w])
    BY DEF BlockHome
  <2>3. state[x] = "BLOCKED" /\ x \notin rq
    BY <1>s, <2>2
  <2>4. CASE \E d \in CPUs : curr[d] = x
    BY <2>1, <2>3, <2>4 DEF o
  <2>5. CASE x = p
    BY <1>r, <1>p, <1>m, <1>w, <2>3, <2>5
  <2>6. CASE \E d \in CPUs : d # c /\ pendPark[d] = x
    BY <2>1, <2>6
  <2>7. CASE \E w \in WaitQueues : x \in Elems(waitq[w])
    BY <1>w, <2>7
  <2> QED
    BY <1>0, <2>3, <2>4, <2>5, <2>6, <2>7 DEF BlockHome, p
<1>16. DeadHome'
  <2>1. /\ pendZombie'[c] = IF state[o] = "TERMINATED" THEN o ELSE None
        /\ \A d \in CPUs : d # c => pendZombie'[d] = pendZombie[d]
        /\ curr'[c] = N /\ \A d \in CPUs : d # c => curr'[d] = curr[d]
        /\ reapList' = reapList
    BY <1>0, <1>k DEF TypeOK
  <2>2. SUFFICES ASSUME NEW x \in Threads, state'[x] = "TERMINATED"
                 PROVE  \/ \E d \in CPUs : curr'[d] = x \/ pendZombie'[d] = x
                        \/ x \in zombies'
                        \/ \E r \in AllThreads : x \in reapList'[r]
    BY DEF DeadHome
  <2>3. state[x] = "TERMINATED"
    BY <1>s, <2>2
  <2>4. CASE \E d \in CPUs : curr[d] = x
    BY <2>1, <2>3, <2>4 DEF o
  <2>5. CASE \E d \in CPUs : pendZombie[d] = x
    BY <1>k, <2>1, <2>5 DEF z
  <2>6. CASE x \in zombies
    BY <1>k, <2>6
  <2>7. CASE \E r \in AllThreads : x \in reapList[r]
    BY <2>1, <2>7
  <2> QED
    BY <1>0, <2>3, <2>4, <2>5, <2>6, <2>7 DEF DeadHome
<1>17. BirthHome'
  <2>1. \A x \in Threads : state'[x] = "UNINITIALISED" => state[x] = "UNINITIALISED"
    BY <1>s
  <2> QED
    BY <1>0, <1>k, <2>1 DEF BirthHome
<1> QED
  BY <1>1, <1>2, <1>3, <1>4, <1>5, <1>6, <1>7, <1>8, <1>9, <1>10, <1>11, <1>12, <1>13, <1>14, <1>15, <1>16, <1>17 DEF IInv

-----------------------------------------------------------------------------
(* The theorems. *)

\* Every step of every CPU preserves the invariant.
LEMMA NextIInv == IInv /\ [Next]_vars => IInv'
<1> SUFFICES ASSUME IInv, [Next]_vars PROVE IInv'
  OBVIOUS
<1>1. CASE UNCHANGED vars
  <2>1. /\ TypeOK' = TypeOK /\ ReadyInv' = ReadyInv /\ RunInv' = RunInv /\ IdleInv' = IdleInv
        /\ ParkInv' = ParkInv /\ QueueInv' = QueueInv /\ DyingInv' = DyingInv
        /\ ZombieInv' = ZombieInv /\ ReapInv' = ReapInv /\ BirthInv' = BirthInv
    BY <1>1 DEF vars, TypeOK, ReadyInv, RunInv, IdleInv, ParkInv, QueueInv, DyingInv,
                ZombieInv, ReapInv, BirthInv
  <2>2. /\ RunHome' = RunHome /\ BlockHome' = BlockHome /\ DeadHome' = DeadHome
        /\ BirthHome' = BirthHome /\ LocationInv' = LocationInv /\ TailInv' = TailInv
        /\ SeqInv' = SeqInv
    BY <1>1 DEF vars, RunHome, BlockHome, DeadHome, BirthHome, LocationInv, TailInv, SeqInv
  <2> QED
    BY <2>1, <2>2 DEF IInv
<1>2. CASE Next
  <2>1. PICK c \in CPUs :
           \/ ApInit(c) \/ Schedule(c) \/ LeaveStack(c) \/ KernelStep(c)
           \/ \E t \in Threads : SyscallEnter(c, t) \/ Exit(c, t)
           \/ \E w \in WaitQueues : WakeAll(c, w)
    BY <1>2 DEF Next
  <2>2. CASE ApInit(c)
    BY <2>2, ApInitStep
  <2>3. CASE Schedule(c)
    BY <2>3, ScheduleStep
  <2>4. CASE LeaveStack(c)
    BY <2>4, LeaveStackStep
  <2>5. CASE \E t \in Threads : SyscallEnter(c, t) \/ Exit(c, t)
    BY <2>5, MoveStep, ExitStep DEF AllThreads
  <2>6. CASE \E w \in WaitQueues : WakeAll(c, w)
    BY <2>6, WakeAllStep
  <2>7. CASE KernelStep(c)
    <3>1. PICK t \in AllThreads :
             \/ \E w \in WaitQueues : Snapshot(c, t, w)
             \/ GiveUpWait(c, t) \/ WaitCheck(c, t) \/ WaitBlock(c, t) \/ WaitReturn(c, t)
             \/ ReapTake(c, t)
             \/ \E z \in Threads : ReapFree(c, t, z)
             \/ ReapDone(c, t)
             \/ \E n \in Threads : TcbAlloc(c, t, n)
             \/ TcbAllocFails(c, t) \/ Enqueue(c, t) \/ SyscallReturn(c, t)
      BY <2>7 DEF KernelStep
    <3>2. CASE \E w \in WaitQueues : Snapshot(c, t, w)
      BY <3>2, SnapshotStep
    <3>3. CASE GiveUpWait(c, t) \/ WaitCheck(c, t) \/ WaitBlock(c, t) \/ WaitReturn(c, t)
      BY <3>3, MoveStep, WaitBlockStep, WaitReturnStep
    <3>4. CASE ReapTake(c, t) \/ ReapDone(c, t)
      BY <3>4, ReapTakeStep, ReapDoneStep
    <3>5. CASE \E z \in Threads : ReapFree(c, t, z)
      BY <3>5, ReapFreeStep
    <3>6. CASE \E n \in Threads : TcbAlloc(c, t, n)
      BY <3>6, TcbAllocStep
    <3>7. CASE TcbAllocFails(c, t) \/ Enqueue(c, t) \/ SyscallReturn(c, t)
      BY <3>7, MoveStep, EnqueueStep
    <3> QED
      BY <3>1, <3>2, <3>3, <3>4, <3>5, <3>6, <3>7
  <2> QED
    BY <2>1, <2>2, <2>3, <2>4, <2>5, <2>6, <2>7
<1> QED
  BY <1>1, <1>2

\* IInv holds in every reachable state of the scheduler.
THEOREM Inductive == Spec => []IInv
<1>1. Init => IInv
  BY InitIInv
<1>2. IInv /\ [Next]_vars => IInv'
  BY NextIInv
<1> QED
  BY <1>1, <1>2, PTL DEF Spec

\* Type correctness: every variable of scheduler.c holds what its declaration
\* allows, on any number of CPUs.
THEOREM TypeCorrect == Spec => []TypeOK
<1>1. IInv => TypeOK
  BY DEF IInv
<1> QED
  BY <1>1, Inductive, PTL

\* No wake-up is lost between wait_queue_snapshot and the park that
\* scheduler_schedule does later.
THEOREM NoLostWakeup == Spec => []ParkedSawLastWake
<1>1. IInv => ParkedSawLastWake
  BY DEF IInv, SeqInv, QueueInv, ParkedSawLastWake
<1> QED
  BY <1>1, Inductive, PTL

\* A thread that sleeps or exited is neither resumed nor freed while its CPU is
\* still on its kernel stack.
THEOREM StackSafety == Spec => []LeftStackUntouched
<1>1. IInv => LeftStackUntouched
  <2> SUFFICES ASSUME IInv, NEW c \in CPUs, how[c] \in {"BLOCKED", "TERMINATED"}
               PROVE  (\A d \in CPUs : curr[d] # leaving[c]) /\ state[leaving[c]] # "FREE"
    BY DEF LeftStackUntouched
  <2>1. CASE how[c] = "BLOCKED"
    BY <2>1 DEF IInv, TailInv, ParkInv
  <2>2. CASE how[c] = "TERMINATED"
    BY <2>2 DEF IInv, TailInv, DyingInv
  <2> QED
    BY <2>1, <2>2
<1> QED
  BY <1>1, Inductive, PTL

\* Every allocated thread_t is linked at exactly one place: the shared next
\* field never splices two lists, nothing is freed twice, no thread is lost.
THEOREM LinkedOnce == Spec => []OnePlace
<1>1. IInv => OnePlace
  <2> SUFFICES ASSUME IInv, NEW t \in Threads
               PROVE  /\ \A p, q \in Homes(t) : p = q
                      /\ state[t] = "FREE" <=> Homes(t) = {}
    BY DEF OnePlace
  <2>0. /\ TypeOK /\ ReadyInv /\ RunInv /\ ParkInv /\ QueueInv /\ DyingInv
        /\ ZombieInv /\ ReapInv /\ BirthInv
        /\ RunHome /\ BlockHome /\ DeadHome /\ BirthHome
    BY DEF IInv
  <2> DEFINE Rd == {<<"ready", i>> : i \in {j \in 1..Len(ready) : ready[j] = t}}
             Cu == {<<"current", c>> : c \in {d \in CPUs : curr[d] = t}}
             Pk == {<<"park", c>> : c \in {d \in CPUs : pendPark[d] = t}}
             De == {<<"dead", c>> : c \in {d \in CPUs : pendZombie[d] = t}}
             Zo == {<<"zombie", z>> : z \in {y \in zombies : y = t}}
             Wt == UNION {{<<"wait", w, i>> : i \in {j \in 1..Len(waitq[w]) : waitq[w][j] = t}}
                            : w \in WaitQueues}
             Re == {<<"reap", r>> : r \in {q \in AllThreads : t \in reapList[q]}}
             Nb == {<<"newborn", r>> : r \in {q \in AllThreads : newborn[q] = t}}
  <2>h. Homes(t) = Rd \cup Cu \cup Pk \cup De \cup Zo \cup Wt \cup Re \cup Nb
    BY Zenon DEF Homes
  <2>n. t # None
    BY SchedulerAssumption
  \* Each place holds t at most once, and only in the state that belongs to it.
  <2>1. (\A p, q \in Rd : p = q) /\ (Rd # {} <=> state[t] = "READY")
    <3>1. \A i, j \in 1..Len(ready) : ready[i] = ready[j] => i = j
      BY <2>0 DEF ReadyInv, NoDup
    <3>2. (\E i \in 1..Len(ready) : ready[i] = t) <=> state[t] = "READY"
      BY <2>0 DEF ReadyInv, Elems
    <3>3. Rd # {} <=> \E i \in 1..Len(ready) : ready[i] = t
      OBVIOUS
    <3> QED
      BY <3>1, <3>2, <3>3
  <2>2. \A p, q \in Cu : p = q
    BY <2>0, <2>n DEF RunInv
  <2>3. (\A p, q \in Pk : p = q) /\ (Pk # {} => state[t] = "BLOCKED" /\ Cu = {} /\ Wt = {})
    <3>1. \A c \in CPUs : pendPark[c] = t =>
            state[t] = "BLOCKED" /\ (\A d \in CPUs : curr[d] # t)
            /\ \A w \in WaitQueues : t \notin Elems(waitq[w])
      BY <2>0, <2>n DEF ParkInv
    <3> QED
      BY <2>0, <2>n, <3>1 DEF ParkInv, Elems
  <2>4. (\A p, q \in De : p = q)
        /\ (De # {} => state[t] = "TERMINATED" /\ Cu = {} /\ Zo = {} /\ Re = {})
    BY <2>0, <2>n DEF DyingInv
  <2>5. (\A p, q \in Zo : p = q)
        /\ (Zo # {} => state[t] = "TERMINATED" /\ Cu = {} /\ Re = {})
    BY <2>0 DEF ZombieInv
  <2>6. (\A p, q \in Wt : p = q) /\ (Wt # {} => state[t] = "BLOCKED" /\ Cu = {})
    <3>1. \A w \in WaitQueues : \A i \in 1..Len(waitq[w]) : waitq[w][i] = t =>
            t \in Elems(waitq[w])
      BY DEF Elems
    <3>2. \A w, v \in WaitQueues :
            t \in Elems(waitq[w]) /\ t \in Elems(waitq[v]) => w = v
      BY <2>0 DEF QueueInv
    <3>3. \A w \in WaitQueues : \A i, j \in 1..Len(waitq[w]) :
            waitq[w][i] = t /\ waitq[w][j] = t => i = j
      BY <2>0 DEF QueueInv, NoDup
    <3>4. \A p, q \in Wt : p = q
      BY <3>1, <3>2, <3>3
    <3>5. Wt # {} => \E w \in WaitQueues : t \in Elems(waitq[w])
      BY <3>1
    <3>6. (\E w \in WaitQueues : t \in Elems(waitq[w])) =>
            state[t] = "BLOCKED" /\ \A d \in CPUs : curr[d] # t
      BY <2>0 DEF QueueInv
    <3> QED
      BY <3>4, <3>5, <3>6
  <2>7. (\A p, q \in Re : p = q) /\ (Re # {} => state[t] = "TERMINATED" /\ Cu = {})
    BY <2>0 DEF ReapInv
  <2>8. (\A p, q \in Nb : p = q) /\ (Nb # {} => state[t] = "UNINITIALISED")
    BY <2>0, <2>n DEF BirthInv
  <2>9. Cu # {} => state[t] \in {"RUNNING", "BLOCKED", "TERMINATED"}
    BY <2>0 DEF RunInv
  \* An allocated thread is at one of them.
  <2>10. state[t] = "RUNNING" => Cu # {}
    BY <2>0 DEF RunHome
  <2>11. state[t] = "BLOCKED" => Cu # {} \/ Pk # {} \/ Wt # {}
    <3>1. (\E w \in WaitQueues : t \in Elems(waitq[w])) => Wt # {}
      <4> SUFFICES ASSUME NEW w \in WaitQueues, NEW i \in 1..Len(waitq[w]), waitq[w][i] = t
                   PROVE  Wt # {}
        BY DEF Elems
      <4> QED
        BY <<"wait", w, i>> \in Wt
    <3>2. (\E c \in CPUs : curr[c] = t) => Cu # {}
      OBVIOUS
    <3>3. (\E c \in CPUs : pendPark[c] = t) => Pk # {}
      OBVIOUS
    <3> HIDE DEF Wt, Cu, Pk
    <3> QED
      BY <2>0, <3>1, <3>2, <3>3 DEF BlockHome
  <2>12. state[t] = "TERMINATED" => Cu # {} \/ De # {} \/ Zo # {} \/ Re # {}
    BY <2>0 DEF DeadHome
  <2>13. state[t] = "UNINITIALISED" => Nb # {}
    BY <2>0 DEF BirthHome
  <2>14. state[t] \in States
    BY <2>0 DEF TypeOK, AllThreads
  <2> HIDE DEF Rd, Cu, Pk, De, Zo, Wt, Re, Nb
  <2>15. \A p, q \in Homes(t) : p = q
    BY <2>h, <2>1, <2>2, <2>3, <2>4, <2>5, <2>6, <2>7, <2>8, <2>9
  <2>16. state[t] = "FREE" => Homes(t) = {}
    BY <2>h, <2>1, <2>3, <2>4, <2>5, <2>6, <2>7, <2>8, <2>9
  <2>17. Homes(t) = {} => state[t] = "FREE"
    BY <2>h, <2>1, <2>10, <2>11, <2>12, <2>13, <2>14 DEF States
  <2> QED
    BY <2>15, <2>16, <2>17
<1> QED
  BY <1>1, Inductive, PTL

-----------------------------------------------------------------------------
(***************************************************************************)
(* The scheduler implements WaitQueue: every step of scheduler.c is, for   *)
(* the callers of wait_queue_snapshot, scheduler_wait and                  *)
(* scheduler_wake_all, a step of the abstract wait queue or none.          *)
(***************************************************************************)

\* No thread holds a sequence number that its queue has not reached; otherwise a
\* wake-up could bring the queue to that number and put a woken thread to sleep.
TicketInv ==
    \A t \in Threads :
        /\ snapq[t] # None => snap[t] <= seq[snapq[t]]
        /\ waitingOn[t] # None => waitSeq[t] <= seq[waitingOn[t]]

\* t is asleep in the sense of the refinement mapping.
Sleeps(t) ==
    state[t] = "BLOCKED" /\ waitingOn[t] # None /\ waitSeq[t] = seq[waitingOn[t]]

\* What the wait fields of a thread may do in one step of the scheduler.
LEMMA WaitFields ==
    ASSUME IInv, NEW c \in CPUs,
           \/ Schedule(c) \/ ApInit(c) \/ LeaveStack(c)
           \/ \E t \in Threads : SyscallEnter(c, t) \/ Exit(c, t)
           \/ \E t \in AllThreads :
                \/ GiveUpWait(c, t) \/ WaitCheck(c, t) \/ WaitReturn(c, t) \/ ReapTake(c, t)
                \/ (\E z \in Threads : ReapFree(c, t, z))
                \/ ReapDone(c, t) \/ TcbAllocFails(c, t) \/ Enqueue(c, t) \/ SyscallReturn(c, t)
    PROVE  /\ UNCHANGED <<seq, snap, snapq, waitSeq>>
           /\ \A x \in Threads : waitingOn'[x] \in {waitingOn[x], None}
<1> USE SchedulerAssumption DEF queues, waiting, locals, tail, boot
<1>0. TypeOK
  BY DEF IInv
<1>1. CASE Schedule(c)
  BY <1>0, <1>1 DEF Schedule, SettlePark
<1>2. CASE ApInit(c) \/ LeaveStack(c)
  BY <1>2 DEF ApInit, LeaveStack
<1>3. CASE \E t \in Threads : SyscallEnter(c, t) \/ Exit(c, t)
  BY <1>3 DEF SyscallEnter, Exit
<1>4. ASSUME NEW t \in AllThreads,
             \/ GiveUpWait(c, t) \/ WaitCheck(c, t) \/ ReapTake(c, t)
             \/ (\E z \in Threads : ReapFree(c, t, z))
             \/ ReapDone(c, t) \/ TcbAllocFails(c, t) \/ Enqueue(c, t) \/ SyscallReturn(c, t)
      PROVE  UNCHANGED <<seq, snap, snapq, waitSeq, waitingOn>>
  BY <1>4 DEF GiveUpWait, WaitCheck, ReapTake, ReapFree, ReapDone, TcbAllocFails, Enqueue, SyscallReturn
<1>5. ASSUME NEW t \in AllThreads, WaitReturn(c, t)
      PROVE  /\ UNCHANGED <<seq, snap, snapq, waitSeq>>
             /\ \A x \in Threads : waitingOn'[x] \in {waitingOn[x], None}
  BY <1>0, <1>5 DEF WaitReturn, TypeOK
<1> QED
  BY <1>1, <1>2, <1>3, <1>4, <1>5

LEMMA NextTicketInv == IInv /\ TicketInv /\ [Next]_vars => TicketInv'
<1> SUFFICES ASSUME IInv, TicketInv, [Next]_vars PROVE TicketInv'
  OBVIOUS
<1> USE SchedulerAssumption
<1>0. TypeOK
  BY DEF IInv
<1>1. CASE UNCHANGED vars
  BY <1>1 DEF vars, TicketInv
<1>2. ASSUME NEW c \in CPUs,
           \/ Schedule(c) \/ ApInit(c) \/ LeaveStack(c)
           \/ \E t \in Threads : SyscallEnter(c, t) \/ Exit(c, t)
           \/ \E t \in AllThreads :
                \/ GiveUpWait(c, t) \/ WaitCheck(c, t) \/ WaitReturn(c, t) \/ ReapTake(c, t)
                \/ (\E z \in Threads : ReapFree(c, t, z))
                \/ ReapDone(c, t) \/ TcbAllocFails(c, t) \/ Enqueue(c, t) \/ SyscallReturn(c, t)
      PROVE  TicketInv'
  <2>1. /\ UNCHANGED <<seq, snap, snapq, waitSeq>>
        /\ \A x \in Threads : waitingOn'[x] \in {waitingOn[x], None}
    BY <1>2, WaitFields
  <2> QED
    BY <2>1 DEF TicketInv
<1>3. ASSUME NEW c \in CPUs, NEW t \in AllThreads, NEW w \in WaitQueues, Snapshot(c, t, w)
      PROVE  TicketInv'
  BY <1>0, <1>3 DEF Snapshot, TicketInv, TypeOK, waiting
<1>4. ASSUME NEW c \in CPUs, NEW t \in AllThreads, WaitBlock(c, t)
      PROVE  TicketInv'
  BY <1>0, <1>4 DEF WaitBlock, TicketInv, TypeOK, locals
<1>5. ASSUME NEW c \in CPUs, NEW t \in AllThreads, NEW n \in Threads, TcbAlloc(c, t, n)
      PROVE  TicketInv'
  BY <1>0, <1>5 DEF TcbAlloc, TicketInv, TypeOK
<1>6. ASSUME NEW c \in CPUs, NEW w \in WaitQueues, WakeAll(c, w)
      PROVE  TicketInv'
  <2>1. /\ UNCHANGED <<snap, snapq, waitSeq>>
        /\ seq' = [seq EXCEPT ![w] = @ + 1]
        /\ \A x \in Threads : waitingOn'[x] \in {waitingOn[x], None}
    BY <1>6 DEF WakeAll, locals
  <2>2. \A v \in WaitQueues : seq[v] \in Nat /\ seq'[v] \in Nat /\ seq[v] <= seq'[v]
    BY <1>0, <2>1 DEF TypeOK
  <2>3. \A x \in Threads : snap[x] \in Nat /\ waitSeq[x] \in Nat
    BY <1>0 DEF TypeOK
  <2>4. \A x \in Threads : snapq[x] \in WaitQueues \cup {None} /\ waitingOn[x] \in WaitQueues \cup {None}
    BY <1>0 DEF TypeOK
  <2> QED
    BY <2>1, <2>2, <2>3, <2>4 DEF TicketInv
<1> QED
  BY <1>1, <1>2, <1>3, <1>4, <1>5, <1>6 DEF Next, KernelStep

-----------------------------------------------------------------------------
(* The steps. *)

\* Only a thread that is BLOCKED, and so at the yield of scheduler_wait, sleeps.
LEMMA AwakeWhere ==
    ASSUME IInv, NEW t \in Threads, Sleeps(t)
    PROVE  pc[t] = "yield" /\ t \notin Elems(ready)
  BY DEF IInv, LocationInv, ReadyInv, Sleeps

\* A step is invisible when nothing of a sleeper changes and nobody falls asleep.
LEMMA Invisible ==
    ASSUME UNCHANGED <<seq, snap, snapq, context_switch_lock>>,
           \A x \in Threads :
               \/ state'[x] = state[x] /\ waitingOn'[x] = waitingOn[x] /\ waitSeq'[x] = waitSeq[x]
               \/ ~Sleeps(x) /\ ~Sleeps(x)'
    PROVE  UNCHANGED WQ!wqVars
<1>1. Asleep' = Asleep
  BY DEF Asleep, Sleeps
<1> QED
  BY <1>1 DEF WQ!wqVars

\* The context switch: whoever becomes READY or RUNNING was not asleep.
LEMMA ScheduleInvisible ==
    ASSUME IInv, NEW c \in CPUs, Schedule(c)
    PROVE  UNCHANGED WQ!wqVars
<1> USE SchedulerAssumption
<1>0. TypeOK /\ ReadyInv /\ RunInv /\ ParkInv
  BY DEF IInv
<1>1. UNCHANGED <<seq, snap, snapq, waitSeq, context_switch_lock>>
  BY DEF Schedule, locals, boot
<1>2. curr[c] \in AllThreads /\ pendPark[c] \in Threads \cup {None} /\ ready \in Seq(Threads)
  BY <1>0 DEF TypeOK, Schedule, MaySchedule, Pointer
<1> DEFINE R == ReadyAfterEnqueues(c)
           N == NextThread(c)
<1>3. /\ R \in Seq(AllThreads)
      /\ \A x \in Elems(R) : x \in Elems(ready) \/ (ParkStale(c) /\ x = pendPark[c])
                             \/ (x = curr[c] /\ state[x] = "RUNNING" /\ x # c)
  <2> DEFINE s == IF ParkStale(c) THEN Append(ready, pendPark[c]) ELSE ready
             t == IF state[curr[c]] = "RUNNING" /\ curr[c] # c THEN <<curr[c]>> ELSE <<>>
  <2>1. R = s \o t
    BY DEF ReadyAfterEnqueues
  <2>2. s \in Seq(Threads) /\ Elems(s) \subseteq Elems(ready) \cup (IF ParkStale(c) THEN {pendPark[c]} ELSE {})
    <3>1. CASE ParkStale(c)
      <4>1. pendPark[c] \in Threads
        BY <1>2, <3>1 DEF ParkStale
      <4>2. s = Append(ready, pendPark[c])
        BY <3>1
      <4>3. s \in Seq(Threads) /\ Elems(s) = Elems(ready) \cup {pendPark[c]}
        BY <1>2, <4>1, <4>2, AppendElems
      <4> QED
        BY <3>1, <4>3
    <3>2. CASE ~ParkStale(c)
      BY <1>2, <3>2
    <3> QED
      BY <3>1, <3>2
  <2>3. t \in Seq(AllThreads) /\ \A i \in 1..Len(t) : t[i] = curr[c] /\ state[curr[c]] = "RUNNING" /\ curr[c] # c
    <3>1. CASE state[curr[c]] = "RUNNING" /\ curr[c] # c
      <4>1. t = <<curr[c]>>
        BY <3>1
      <4>2. t \in Seq(AllThreads) /\ Len(t) = 1 /\ t[1] = curr[c]
        BY <1>2, <4>1
      <4> QED
        BY <3>1, <4>2
    <3>2. CASE ~(state[curr[c]] = "RUNNING" /\ curr[c] # c)
      <4>1. t = <<>>
        BY <3>2
      <4> QED
        BY <4>1
    <3> QED
      BY <3>1, <3>2
  <2> HIDE DEF s, t
  <2>4. \A i \in 1..Len(R) : (i \in 1..Len(s) /\ R[i] = s[i])
                             \/ (i - Len(s) \in 1..Len(t) /\ R[i] = t[i - Len(s)])
    BY <2>1, <2>2, <2>3 DEF AllThreads
  <2>5. s \in Seq(AllThreads)
    BY <2>2 DEF AllThreads
  <2>6. R \in Seq(AllThreads)
    BY <2>1, <2>3, <2>5
  <2> QED
    BY <2>2, <2>3, <2>4, <2>6 DEF Elems
<1>4. N = c \/ N \in Elems(R)
  <2>1. R # <<>> => R[1] = Head(R) /\ 1 \in 1..Len(R)
    <3> HIDE DEF R
    <3> QED
      BY <1>3
  <2> QED
    BY <2>1 DEF NextThread, Elems
<1>5. \A x \in Threads : x = N \/ x \in Elems(R) =>
         ~Sleeps(x) /\ state'[x] \in {"READY", "RUNNING"}
  <2> SUFFICES ASSUME NEW x \in Threads, x = N \/ x \in Elems(R)
               PROVE  ~Sleeps(x) /\ state'[x] \in {"READY", "RUNNING"}
    OBVIOUS
  <2>1. x \in Elems(R)
    BY <1>4
  <2>2. state'[x] \in {"READY", "RUNNING"}
    BY <2>1 DEF Schedule, StateAfterSwitch, AllThreads
  <2>3. ~Sleeps(x)
    BY <1>0, <1>3, <2>1 DEF ReadyInv, ParkStale, Sleeps
  <2> QED
    BY <2>2, <2>3
<1>6. \A x \in Threads : ~(x = N \/ x \in Elems(R)) => state'[x] = state[x]
  BY DEF Schedule, StateAfterSwitch, AllThreads
<1>7. \A x \in Threads : waitingOn'[x] # waitingOn[x] => x = N \/ (ParkStale(c) /\ x = pendPark[c])
  BY DEF Schedule, SettlePark
<1>8. ParkStale(c) => ~Sleeps(pendPark[c]) /\ (pendPark[c] = N \/ pendPark[c] \in Elems(R))
  <2> SUFFICES ASSUME ParkStale(c) PROVE ~Sleeps(pendPark[c]) /\ pendPark[c] \in Elems(R)
    OBVIOUS
  <2>1. ~Sleeps(pendPark[c])
    BY DEF ParkStale, Sleeps
  <2>2. pendPark[c] \in Threads
    BY <1>2 DEF ParkStale
  <2> DEFINE t == IF state[curr[c]] = "RUNNING" /\ curr[c] # c THEN <<curr[c]>> ELSE <<>>
  <2>3. R = Append(ready, pendPark[c]) \o t /\ t \in Seq(AllThreads)
    BY <1>2 DEF ReadyAfterEnqueues
  <2> HIDE DEF t
  <2>4. Len(ready) + 1 \in 1..Len(R) /\ R[Len(ready) + 1] = pendPark[c]
    BY <1>2, <2>2, <2>3 DEF AllThreads
  <2> QED
    BY <2>1, <2>4 DEF Elems
<1> HIDE DEF R, N
<1>9. \A x \in Threads :
         \/ state'[x] = state[x] /\ waitingOn'[x] = waitingOn[x] /\ waitSeq'[x] = waitSeq[x]
         \/ ~Sleeps(x) /\ ~Sleeps(x)'
  BY <1>1, <1>5, <1>6, <1>7, <1>8 DEF Sleeps
<1> QED
  BY <1>1, <1>9, Invisible

\* Steps that only move a thread along, or touch threads that are not BLOCKED.
LEMMA QuietStep ==
    ASSUME IInv, NEW c \in CPUs, NEW t \in AllThreads,
           \/ ApInit(c) \/ LeaveStack(c) \/ SyscallEnter(c, t) \/ SyscallReturn(c, t)
           \/ GiveUpWait(c, t) \/ WaitCheck(c, t) \/ ReapTake(c, t) \/ ReapDone(c, t)
           \/ TcbAllocFails(c, t) \/ Enqueue(c, t)
           \/ \E z \in Threads : ReapFree(c, t, z)
    PROVE  UNCHANGED WQ!wqVars
<1> USE SchedulerAssumption DEF queues, waiting, locals, tail, boot
<1>0. TypeOK /\ ReapInv /\ BirthInv
  BY DEF IInv
<1>1. UNCHANGED <<seq, snap, snapq, context_switch_lock, waitingOn, waitSeq>>
  BY DEF ApInit, LeaveStack, SyscallEnter, SyscallReturn, GiveUpWait, WaitCheck, ReapTake,
         ReapDone, TcbAllocFails, Enqueue, ReapFree
<1>2. \A x \in Threads :
         state'[x] = state[x] \/ (state[x] # "BLOCKED" /\ state'[x] # "BLOCKED")
  <2>1. CASE ApInit(c)
    BY <1>0, <2>1 DEF ApInit, TypeOK, AllThreads
  <2>2. CASE Enqueue(c, t)
    <3>1. newborn[t] # None => state[newborn[t]] = "UNINITIALISED"
      BY <1>0 DEF BirthInv
    <3>2. state' = [state EXCEPT ![newborn[t]] = "READY"]
      BY <2>2 DEF Enqueue
    <3> QED
      BY <1>0, <3>1, <3>2 DEF TypeOK, AllThreads
  <2>3. CASE \E z \in Threads : ReapFree(c, t, z)
    BY <1>0, <2>3 DEF ReapFree, ReapInv, TypeOK, AllThreads
  <2>4. CASE \/ LeaveStack(c) \/ SyscallEnter(c, t) \/ SyscallReturn(c, t)
             \/ GiveUpWait(c, t) \/ WaitCheck(c, t) \/ ReapTake(c, t) \/ ReapDone(c, t)
             \/ TcbAllocFails(c, t)
    BY <2>4 DEF LeaveStack, SyscallEnter, SyscallReturn, GiveUpWait, WaitCheck, ReapTake,
                ReapDone, TcbAllocFails
  <2> QED
    BY <2>1, <2>2, <2>3, <2>4
<1>3. \A x \in Threads :
         \/ state'[x] = state[x] /\ waitingOn'[x] = waitingOn[x] /\ waitSeq'[x] = waitSeq[x]
         \/ ~Sleeps(x) /\ ~Sleeps(x)'
  BY <1>1, <1>2 DEF Sleeps
<1> QED
  BY <1>1, <1>3, Invisible
\* wait_queue_snapshot.
LEMMA SnapshotIs ==
    ASSUME IInv, NEW c \in CPUs, NEW t \in AllThreads, NEW w \in WaitQueues, Snapshot(c, t, w)
    PROVE  WQ!Snapshot(t, w) /\ t \in Threads
<1> USE SchedulerAssumption DEF waiting, boot
<1>0. TypeOK
  BY DEF IInv
<1>1. t \in Threads /\ pc[t] = "kernel"
  BY DEF Snapshot, At
<1>2. Asleep[t] = None
  BY <1>1, AwakeWhere DEF Asleep, Sleeps
<1>3. Asleep' = Asleep
  BY DEF Asleep, Snapshot
<1> QED
  BY <1>1, <1>2, <1>3 DEF Snapshot, WQ!Snapshot

\* scheduler_wait blocks: the thread sleeps, unless its ticket is outdated, when
\* its next switch finds that out.
LEMMA WaitBlockIs ==
    ASSUME IInv, NEW c \in CPUs, NEW t \in AllThreads, WaitBlock(c, t)
    PROVE  (t \in Threads /\ WQ!Sleep(t)) \/ UNCHANGED WQ!wqVars
<1> USE SchedulerAssumption DEF locals, boot
<1>0. TypeOK /\ IdleInv /\ LocationInv
  BY DEF IInv
<1>1. pc[t] = "commit"
  BY DEF WaitBlock, At
<1>2. t \in Threads /\ snapq[t] # None /\ snapq[t] \in WaitQueues
  BY <1>0, <1>1 DEF IdleInv, LocationInv, TypeOK, AllThreads
<1>3. ~Sleeps(t)
  BY <1>1, <1>2, AwakeWhere
<1>4. UNCHANGED <<seq, snap, snapq, context_switch_lock>>
  BY DEF WaitBlock
<1>5. /\ waitingOn' = [waitingOn EXCEPT ![t] = snapq[t]]
      /\ waitSeq' = [waitSeq EXCEPT ![t] = snap[t]]
      /\ state' = [state EXCEPT ![t] = "BLOCKED"]
  BY DEF WaitBlock
<1>6. waitingOn'[t] = snapq[t] /\ waitSeq'[t] = snap[t] /\ state'[t] = "BLOCKED"
  BY <1>0, <1>2, <1>5 DEF TypeOK
<1>7. \A x \in Threads : x # t =>
         state'[x] = state[x] /\ waitingOn'[x] = waitingOn[x] /\ waitSeq'[x] = waitSeq[x]
  BY <1>0, <1>5 DEF TypeOK, AllThreads
<1>8. CASE snap[t] = seq[snapq[t]]
  <2>1. Asleep[t] = None
    BY <1>2, <1>3 DEF Asleep, Sleeps
  <2>2. Asleep'[t] = snapq[t]
    BY <1>2, <1>4, <1>6, <1>8 DEF Asleep
  <2>3. \A x \in Threads : x # t => Asleep'[x] = Asleep[x]
    BY <1>4, <1>7 DEF Asleep
  <2>4. Asleep' = [Asleep EXCEPT ![t] = snapq[t]]
    BY <1>2, <2>2, <2>3 DEF Asleep
  <2> QED
    BY <1>2, <1>4, <1>8, <2>1, <2>4 DEF WQ!Sleep, WQ!TicketValid
<1>9. CASE snap[t] # seq[snapq[t]]
  <2>1. ~Sleeps(t)'
    BY <1>4, <1>6, <1>9 DEF Sleeps
  <2>2. \A x \in Threads :
         \/ state'[x] = state[x] /\ waitingOn'[x] = waitingOn[x] /\ waitSeq'[x] = waitSeq[x]
         \/ ~Sleeps(x) /\ ~Sleeps(x)'
    BY <1>3, <1>7, <2>1
  <2> QED
    BY <1>4, <2>2, Invisible
<1> QED
  BY <1>8, <1>9

\* scheduler_wait returns; without a wake-up only after a panic.
LEMMA WaitReturnIs ==
    ASSUME IInv, NEW c \in CPUs, NEW t \in AllThreads, WaitReturn(c, t)
    PROVE  (t \in Threads /\ WQ!SpuriousReturn(t)) \/ UNCHANGED WQ!wqVars
<1> USE SchedulerAssumption DEF locals, boot
<1>0. TypeOK /\ IdleInv
  BY DEF IInv
<1>1. t \in Threads
  BY <1>0 DEF WaitReturn, At, IdleInv, AllThreads
<1>2. UNCHANGED <<seq, snap, snapq, context_switch_lock, waitSeq>>
  BY DEF WaitReturn
<1>3. CASE state' = state /\ waitingOn' = waitingOn
  BY <1>2, <1>3, Invisible
<1>4. CASE /\ context_switch_lock
           /\ state' = [state EXCEPT ![t] = "RUNNING"]
           /\ waitingOn' = [waitingOn EXCEPT ![t] = None]
  <2>1. Asleep'[t] = None
    BY <1>0, <1>1, <1>4 DEF Asleep, TypeOK
  <2>2. \A x \in Threads : x # t => Asleep'[x] = Asleep[x]
    BY <1>0, <1>2, <1>4 DEF Asleep, TypeOK, AllThreads
  <2>3. Asleep' = [Asleep EXCEPT ![t] = None]
    BY <1>1, <2>1, <2>2 DEF Asleep
  <2> QED
    BY <1>1, <1>2, <1>4, <2>3 DEF WQ!SpuriousReturn
<1> QED
  BY <1>3, <1>4 DEF WaitReturn

\* thread_exit_status; that of pid 1 is the panic.
LEMMA ExitIs ==
    ASSUME IInv, NEW c \in CPUs, NEW t \in Threads, Exit(c, t)
    PROVE  WQ!Stop \/ UNCHANGED WQ!wqVars
<1> USE SchedulerAssumption DEF waiting, locals
<1>0. TypeOK
  BY DEF IInv
<1>1. UNCHANGED <<seq, snap, snapq, waitSeq, waitingOn>>
  BY DEF Exit
<1>2. pc[t] # "yield"
  BY DEF Exit, At
<1>3. CASE t = initThread
  <2>1. state' = state /\ context_switch_lock' = TRUE
    BY <1>3 DEF Exit
  <2>2. Asleep' = Asleep
    BY <1>1, <2>1 DEF Asleep
  <2> QED
    BY <1>1, <2>1, <2>2 DEF WQ!Stop
<1>4. CASE t # initThread
  <2>1. state' = [state EXCEPT ![t] = "TERMINATED"] /\ UNCHANGED context_switch_lock
    BY <1>4 DEF Exit
  <2>2. ~Sleeps(t) /\ ~Sleeps(t)'
    BY <1>0, <1>2, <2>1, AwakeWhere DEF Sleeps, TypeOK, AllThreads
  <2>3. \A x \in Threads : x # t => state'[x] = state[x]
    BY <1>0, <2>1 DEF TypeOK, AllThreads
  <2>4. \A x \in Threads :
         \/ state'[x] = state[x] /\ waitingOn'[x] = waitingOn[x] /\ waitSeq'[x] = waitSeq[x]
         \/ ~Sleeps(x) /\ ~Sleeps(x)'
    BY <1>1, <2>2, <2>3
  <2> QED
    BY <1>1, <2>1, <2>4, Invisible
<1> QED
  BY <1>3, <1>4

\* tcb_alloc.
LEMMA TcbAllocIs ==
    ASSUME IInv, NEW c \in CPUs, NEW t \in AllThreads, NEW n \in Threads, TcbAlloc(c, t, n)
    PROVE  WQ!Fresh(n)
<1> USE SchedulerAssumption
<1>0. TypeOK
  BY DEF IInv
<1>1. state[n] = "FREE" /\ state' = [state EXCEPT ![n] = "UNINITIALISED"] /\ UNCHANGED <<seq, context_switch_lock>>
  BY DEF TcbAlloc
<1>2. /\ waitingOn' = [waitingOn EXCEPT ![n] = None]
      /\ waitSeq' = [waitSeq EXCEPT ![n] = 0]
  BY DEF TcbAlloc
<1>3. Asleep[n] = None
  BY <1>1 DEF Asleep
<1>4. \A x \in Threads : Asleep'[x] = Asleep[x]
  BY <1>0, <1>1, <1>2, <1>3 DEF Asleep, TypeOK, AllThreads
<1>5. Asleep' = Asleep
  BY <1>4 DEF Asleep
<1> QED
  BY <1>1, <1>3, <1>5 DEF TcbAlloc, WQ!Fresh

\* scheduler_wake_all: whoever sleeps on the queue is awake at once, also one that
\* has not been parked yet, whose ticket is now outdated.
LEMMA WakeAllIs ==
    ASSUME IInv, TicketInv, NEW c \in CPUs, NEW w \in WaitQueues, WakeAll(c, w)
    PROVE  WQ!WakeAll(w)
<1> USE SchedulerAssumption DEF locals, boot
<1>0. TypeOK /\ SeqInv
  BY DEF IInv
<1>1. UNCHANGED <<snap, snapq, waitSeq, context_switch_lock>> /\ seq' = [seq EXCEPT ![w] = @ + 1]
  BY DEF WakeAll
<1>2. \A x \in Threads :
        /\ waitingOn'[x] = IF x \in Elems(waitq[w]) THEN None ELSE waitingOn[x]
        /\ state'[x] = IF x \in Elems(waitq[w]) THEN "READY" ELSE state[x]
  BY DEF WakeAll, AllThreads
<1>3. \A v \in WaitQueues : seq[v] \in Nat /\ seq'[v] = IF v = w THEN seq[v] + 1 ELSE seq[v]
  BY <1>0, <1>1 DEF TypeOK
<1>4. \A x \in Threads : Asleep'[x] = IF Asleep[x] = w THEN None ELSE Asleep[x]
  <2> SUFFICES ASSUME NEW x \in Threads
               PROVE  Asleep'[x] = IF Asleep[x] = w THEN None ELSE Asleep[x]
    OBVIOUS
  <2>1. waitSeq[x] \in Nat /\ waitingOn[x] \in WaitQueues \cup {None}
    BY <1>0 DEF TypeOK
  <2>2. CASE x \in Elems(waitq[w])
    <3>1. Asleep'[x] = None
      BY <1>2, <2>2 DEF Asleep
    <3>2. waitingOn[x] = w
      BY <1>0, <2>2 DEF SeqInv
    <3>3. Asleep[x] \in {w, None}
      BY <3>2 DEF Asleep
    <3> QED
      BY <3>1, <3>3
  <2>3. CASE x \notin Elems(waitq[w])
    <3>1. waitingOn'[x] = waitingOn[x] /\ state'[x] = state[x] /\ waitSeq'[x] = waitSeq[x]
      BY <1>1, <1>2, <2>3
    <3>2. CASE waitingOn[x] = w
      <4>1. waitSeq[x] <= seq[w]
        BY <3>2 DEF TicketInv
      <4>2. waitSeq[x] # seq'[w]
        BY <1>3, <2>1, <4>1
      <4>3. Asleep'[x] = None
        BY <3>1, <3>2, <4>2 DEF Asleep
      <4>4. Asleep[x] \in {w, None}
        BY <3>2 DEF Asleep
      <4> QED
        BY <4>3, <4>4
    <3>3. CASE waitingOn[x] # w
      <4>1. waitingOn[x] # None => seq'[waitingOn[x]] = seq[waitingOn[x]]
        BY <1>3, <2>1, <3>3
      <4>2. Asleep'[x] = Asleep[x]
        BY <3>1, <4>1 DEF Asleep
      <4>3. Asleep[x] # w
        BY <3>3 DEF Asleep
      <4> QED
        BY <4>2, <4>3
    <3> QED
      BY <3>2, <3>3
  <2> QED
    BY <2>2, <2>3
<1>5. Asleep' = [x \in Threads |-> IF Asleep[x] = w THEN None ELSE Asleep[x]]
  BY <1>4 DEF Asleep
<1> QED
  BY <1>1, <1>5 DEF WQ!WakeAll

LEMMA NextRefines == IInv /\ TicketInv /\ [Next]_vars => [WQ!Next]_(WQ!wqVars)
<1> SUFFICES ASSUME IInv, TicketInv, [Next]_vars PROVE WQ!Next \/ UNCHANGED WQ!wqVars
  OBVIOUS
<1>1. CASE UNCHANGED vars
  BY <1>1 DEF vars, WQ!wqVars, Asleep
<1>2. ASSUME NEW c \in CPUs,
             Schedule(c) \/ ApInit(c) \/ LeaveStack(c) \/ \E t \in Threads : SyscallEnter(c, t)
      PROVE  UNCHANGED WQ!wqVars
  BY <1>2, ScheduleInvisible, QuietStep DEF AllThreads
<1>3. ASSUME NEW c \in CPUs, NEW t \in Threads, Exit(c, t)
      PROVE  WQ!Next \/ UNCHANGED WQ!wqVars
  BY <1>3, ExitIs DEF WQ!Next
<1>4. ASSUME NEW c \in CPUs, NEW w \in WaitQueues, WakeAll(c, w)
      PROVE  WQ!Next
  BY <1>4, WakeAllIs DEF WQ!Next
<1>5. ASSUME NEW c \in CPUs, KernelStep(c)
      PROVE  WQ!Next \/ UNCHANGED WQ!wqVars
  <2>1. PICK t \in AllThreads :
             \/ \E w \in WaitQueues : Snapshot(c, t, w)
             \/ GiveUpWait(c, t) \/ WaitCheck(c, t) \/ WaitBlock(c, t) \/ WaitReturn(c, t)
             \/ ReapTake(c, t)
             \/ \E z \in Threads : ReapFree(c, t, z)
             \/ ReapDone(c, t)
             \/ \E n \in Threads : TcbAlloc(c, t, n)
             \/ TcbAllocFails(c, t) \/ Enqueue(c, t) \/ SyscallReturn(c, t)
    BY <1>5 DEF KernelStep
  <2>2. CASE \E w \in WaitQueues : Snapshot(c, t, w)
    BY <2>2, SnapshotIs DEF WQ!Next
  <2>3. CASE WaitBlock(c, t)
    BY <2>3, WaitBlockIs DEF WQ!Next
  <2>4. CASE WaitReturn(c, t)
    BY <2>4, WaitReturnIs DEF WQ!Next
  <2>5. CASE \E n \in Threads : TcbAlloc(c, t, n)
    BY <2>5, TcbAllocIs DEF WQ!Next
  <2> QED
    BY <2>1, <2>2, <2>3, <2>4, <2>5, QuietStep
<1> QED
  BY <1>1, <1>2, <1>3, <1>4, <1>5 DEF Next

\* scheduler.c implements the wait queue that wait4 and keyboard_read rely on, for
\* any number of CPUs, threads and queues: a thread that called scheduler_wait is
\* asleep only while no scheduler_wake_all came after its snapshot.
THEOREM ImplementsWaitQueue == Spec => WaitQueueSpec
<1>1. Init => IInv /\ TicketInv
  BY InitIInv, SchedulerAssumption DEF Init, TicketInv
<1>2. Init => WQ!Init
  <2> SUFFICES ASSUME Init PROVE WQ!Init
    OBVIOUS
  <2>1. Asleep = [t \in Threads |-> None]
    BY SchedulerAssumption DEF Init, Asleep
  <2> QED
    BY <2>1 DEF Init, WQ!Init
<1>3. IInv /\ TicketInv /\ [Next]_vars => IInv' /\ TicketInv'
  BY NextIInv, NextTicketInv
<1>4. IInv /\ TicketInv /\ [Next]_vars => [WQ!Next]_(WQ!wqVars)
  BY NextRefines
<1> QED
  BY <1>1, <1>2, <1>3, <1>4, PTL DEF Spec, WaitQueueSpec, WQ!Spec
=============================================================================
