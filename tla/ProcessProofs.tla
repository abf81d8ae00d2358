---------------------------- MODULE ProcessProofs ----------------------------
(***************************************************************************)
(* Proofs about Process, for any number of processes and any pids: the     *)
(* child that do_clone reads is still there, every process_t is freed      *)
(* once, zombies have somebody to reap them, and wait4 sleeps through no   *)
(* exit.                                                                   *)
(***************************************************************************)
EXTENDS Process, TLAPS

\* Inside the critical section of process_terminate.
Locking == {"exitWakeInit", "exitNotify", "exitWake"}

\* Past the reparenting of process_terminate, or not running (any more).
Gone == Locking \cup {"exitFree", "off"}

Creating == {"cloneCopy", "cloneThread", "cloneEnqueue"}

\* init is there for ever: its exit is a panic.
RootInv ==
    /\ life[Root] = "LISTED" /\ ~zombie[Root]
    /\ pid[Root] = 1 /\ ppid[Root] = 0
    /\ pc[Root] \notin Gone \cup {"exitLock"}

\* pids are drawn from a counter and are never given out twice.
PidInv ==
    /\ \A p \in Procs : pid[p] < next_pid
    /\ \A p, q \in Procs : pid[p] = pid[q] /\ pid[p] # 0 => p = q
    /\ \A p \in Procs : life[p] \in {"LISTED", "DETACHED"} => pid[p] # 0

\* Where the thread of a process can be, by what has become of its process_t.
LifeInv ==
    \A p \in Procs :
        /\ pc[p] \notin {"off", "exitFree"} => life[p] = "LISTED"
        /\ pc[p] = "exitFree" => life[p] = "DETACHED"
        /\ life[p] = "NEW" => ~zombie[p]
        /\ life[p] = "LISTED" /\ zombie[p] => pc[p] \in {"exitWake", "off"} /\ ppid[p] # 0

\* process_lock is held by the thread that is inside the critical section, and
\* what that thread points to is the process it is about to wake.
LockInv ==
    /\ process_lock # None => process_lock \in Procs /\ pc[process_lock] \in Locking
    /\ \A p \in Procs :
        /\ pc[p] \in Locking => process_lock = p
        /\ pc[p] = "exitWakeInit" => ptr[p] = Root
        /\ pc[p] = "exitWake" => ptr[p] \in Listed /\ pid[ptr[p]] = ppid[p]

\* The creator of a process_t is alone with it until scheduler_enqueue.
CreatorInv ==
    /\ \A p \in Procs :
        /\ pc[p] \in {"cloneCopy", "cloneThread"} => ptr[p] \in Procs /\ life[ptr[p]] = "NEW"
        /\ pc[p] = "cloneThread" => pid[ptr[p]] # 0
        /\ pc[p] = "cloneEnqueue" =>
               ptr[p] \in Listed /\ ~zombie[ptr[p]] /\ pc[ptr[p]] = "off"
    /\ \A p, q \in Procs : pc[p] \in Creating /\ pc[q] \in Creating /\ ptr[p] = ptr[q] => p = q

\* From the draw of the pid on, a child is its creator's, a spawned process nobody's.
ChildInv ==
    \A p \in Procs :
        /\ pc[p] \in {"cloneThread", "cloneEnqueue", "cloned"} /\ op[p] = "clone" =>
              /\ ptr[p] \in Procs
              /\ pid[ptr[p]] = childPid[p] /\ ppid[ptr[p]] = pid[p] /\ childPid[p] # 0
              /\ pc[p] # "cloneThread" => life[ptr[p]] = "LISTED"
        /\ pc[p] = "cloneThread" /\ op[p] = "spawn" => ppid[ptr[p]] = 0

\* Whoever has a parent has one that will still reap it or hand it on.
ParentInv ==
    \A q \in Listed : ppid[q] # 0 =>
        \E r \in Listed \ {q} : pid[r] = ppid[q] /\ ~zombie[r] /\ pc[r] \notin Gone

\* What wait4 is about to free is the memory of one zombie.
ReaperInv == OneReaper /\ \A p \in Procs : pc[p] = "waitFree" => ptr[p] \in Procs

\* Sleeping happens in wait4, on the own child_wq, with a ticket from it.
SleepInv ==
    \A p \in Procs :
        /\ asleep[p] # None => asleep[p] = p /\ pc[p] = "waitLoop"
        /\ ticketq[p] \in {p, None}
        /\ ticketq[p] = p => ticket[p] <= seq[p]

\* p will sleep, or sleeps already, without another look at the list.
WillSleep(p) == asleep[p] # None \/ (pc[p] = "waitSleep" /\ ticketq[p] = p /\ ticket[p] = seq[p])

\* The wake-up of p is under way.
WakeComing(p) == \E h \in Procs : pc[h] \in {"exitWakeInit", "exitWake"} /\ ptr[h] = p

\* A caller of wait4 has a child, and no zombie is there without a wake-up.
WaitInv ==
    \A p \in Procs :
        /\ pc[p] \in {"waitSleep", "waitLoop"} => Awaited(p) # {}
        /\ WillSleep(p) => (\A q \in Awaited(p) : ~zombie[q]) \/ WakeComing(p)

IInv ==
    /\ TypeOK
    /\ RootInv
    /\ PidInv
    /\ LifeInv
    /\ LockInv
    /\ CreatorInv
    /\ ChildInv
    /\ ParentInv
    /\ ReaperInv
    /\ SleepInv
    /\ WaitInv

-----------------------------------------------------------------------------
(* The steps. *)

\* When a step keeps what the waiters wait for: nobody starts to wait, no awaited
\* child goes away, and a zombie is new only if the wake-up is under way.
LEMMA WaitKept ==
    ASSUME WaitInv,
           \A x \in Procs : pc'[x] \in {"waitSleep", "waitLoop"} =>
               pc[x] \in {"waitSleep", "waitLoop"} /\ Awaited(x) \subseteq Awaited(x)',
           \A x \in Procs : WillSleep(x)' => WillSleep(x),
           \A x \in Procs : WillSleep(x)' => (WakeComing(x) => WakeComing(x)'),
           \A x \in Procs : WillSleep(x)' =>
               \/ WakeComing(x)'
               \/ \A y \in Awaited(x)' : zombie'[y] => y \in Awaited(x) /\ zombie[y]
    PROVE  WaitInv'
<1> SUFFICES ASSUME NEW x \in Procs
             PROVE  /\ pc'[x] \in {"waitSleep", "waitLoop"} => Awaited(x)' # {}
                    /\ WillSleep(x)' => (\A y \in Awaited(x)' : ~zombie'[y]) \/ WakeComing(x)'
  BY DEF WaitInv
<1>1. pc'[x] \in {"waitSleep", "waitLoop"} => Awaited(x)' # {}
  BY DEF WaitInv
<1>2. WillSleep(x)' => (\A y \in Awaited(x)' : ~zombie'[y]) \/ WakeComing(x)'
  BY DEF WaitInv
<1> QED
  BY <1>1, <1>2

\* malloc: nobody points to free memory, and no thread runs in it.
LEMMA CloneAllocStep ==
    ASSUME IInv, NEW p \in Procs, NEW q \in Procs, NEW o \in {"clone", "spawn"}, CloneAlloc(p, q, o)
    PROVE  IInv'
<1> USE ProcessAssumption
<1>0. /\ TypeOK /\ RootInv /\ PidInv /\ LifeInv /\ LockInv /\ CreatorInv /\ ChildInv /\ ParentInv
      /\ ReaperInv /\ SleepInv /\ WaitInv
  BY DEF IInv
<1>1. /\ pc[p] = "user"
      /\ life[q] = "FREE"
      /\ \A x \in Procs : asleep[x] # q
      /\ UNCHANGED <<limit, next_pid, process_lock, childPid, want, nohang, asleep, ticket, stopped>>
  BY <1>0 DEF CloneAlloc, Goto, WQ!FreshQueue, TypeOK
<1>2. \A x \in Procs :
        /\ life'[x] = IF x = q THEN "NEW" ELSE life[x]
        /\ pid'[x] = IF x = q THEN 0 ELSE pid[x]
        /\ ppid'[x] = IF x = q THEN 0 ELSE ppid[x]
        /\ zombie'[x] <=> x # q /\ zombie[x]
        /\ pc'[x] = IF x = p THEN "cloneCopy" ELSE pc[x]
        /\ op'[x] = IF x = p THEN o ELSE op[x]
        /\ ptr'[x] = IF x = p THEN q ELSE ptr[x]
        /\ seq'[x] = IF x = q THEN 0 ELSE seq[x]
        /\ ticketq'[x] = IF ticketq[x] = q THEN None ELSE ticketq[x]
  BY <1>0 DEF CloneAlloc, Goto, WQ!FreshQueue, TypeOK
<1>3. /\ p # q /\ q # Root /\ life[p] = "LISTED" /\ pc[q] = "off"
      /\ \A x \in Procs : pc[x] \in Creating => ptr[x] # q
  BY <1>0, <1>1 DEF RootInv, LifeInv, CreatorInv, Creating, Listed, TypeOK
<1>4. TypeOK'
  <2>1. life' \in [Procs -> {"FREE", "NEW", "LISTED", "DETACHED"}]
    BY <1>0, <1>1, <1>3 DEF CloneAlloc, Goto, WQ!FreshQueue, TypeOK
  <2>2. pid' \in [Procs -> 0..MaxPid]
    BY <1>0, <1>1, <1>3 DEF CloneAlloc, Goto, WQ!FreshQueue, TypeOK
  <2>3. ppid' \in [Procs -> 0..MaxPid]
    BY <1>0, <1>1, <1>3 DEF CloneAlloc, Goto, WQ!FreshQueue, TypeOK
  <2>4. zombie' \in [Procs -> BOOLEAN]
    BY <1>0, <1>1, <1>3 DEF CloneAlloc, Goto, WQ!FreshQueue, TypeOK
  <2>5. pc' \in [Procs -> Locations]
    BY <1>0, <1>1, <1>3 DEF CloneAlloc, Goto, WQ!FreshQueue, TypeOK, Locations
  <2>6. op' \in [Procs -> {"clone", "spawn"}]
    BY <1>0, <1>1, <1>3 DEF CloneAlloc, Goto, WQ!FreshQueue, TypeOK
  <2>7. ptr' \in [Procs -> Procs \cup {None}]
    BY <1>0, <1>1, <1>3 DEF CloneAlloc, Goto, WQ!FreshQueue, TypeOK
  <2>8. seq' \in [Procs -> Nat]
    BY <1>0, <1>1, <1>3 DEF CloneAlloc, Goto, WQ!FreshQueue, TypeOK
  <2>9. ticketq' \in [Procs -> Procs \cup {None}]
    BY <1>0, <1>1, <1>3 DEF CloneAlloc, Goto, WQ!FreshQueue, TypeOK
  <2> QED
    BY <1>0, <1>1, <2>1, <2>2, <2>3, <2>4, <2>5, <2>6, <2>7, <2>8, <2>9 DEF TypeOK
<1>5. RootInv'
  BY <1>0, <1>1, <1>2, <1>3 DEF RootInv, Gone, Locking
<1>6. PidInv'
  BY <1>0, <1>1, <1>2, <1>3 DEF PidInv, TypeOK
<1>7. LifeInv'
  BY <1>0, <1>1, <1>2, <1>3 DEF LifeInv
<1>8. LockInv'
  BY <1>0, <1>1, <1>2, <1>3 DEF LockInv, Locking, Listed
<1>9. CreatorInv'
  BY <1>0, <1>1, <1>2, <1>3 DEF CreatorInv, Creating, Listed
<1>10. ChildInv'
  BY <1>0, <1>1, <1>2, <1>3 DEF ChildInv, CreatorInv, Creating, Listed, LifeInv
<1>11. ParentInv'
  BY <1>0, <1>1, <1>2, <1>3 DEF ParentInv, Gone, Locking, Listed
<1>12. ReaperInv'
  BY <1>0, <1>1, <1>2, <1>3 DEF ReaperInv, OneReaper
<1>13. SleepInv'
  BY <1>0, <1>1, <1>2, <1>3 DEF SleepInv, TypeOK
<1>14. WaitInv'
  <2>1. \A x \in Procs : pc'[x] \in {"waitSleep", "waitLoop"} =>
           pc[x] \in {"waitSleep", "waitLoop"} /\ Awaited(x) \subseteq Awaited(x)'
    BY <1>0, <1>1, <1>2, <1>3 DEF Awaited, Listed, LifeInv
  <2>2. \A x \in Procs : WillSleep(x)' => WillSleep(x) /\ life[x] = "LISTED"
    BY <1>0, <1>1, <1>2, <1>3 DEF WillSleep, SleepInv, LifeInv
  <2>3. \A x \in Procs : WillSleep(x)' => (WakeComing(x) => WakeComing(x)')
    BY <1>0, <1>1, <1>2, <1>3 DEF WakeComing
  <2>4. \A x \in Procs : WillSleep(x)' =>
               \A y \in Awaited(x)' : zombie'[y] => y \in Awaited(x) /\ zombie[y]
    BY <1>0, <1>1, <1>2, <1>3, <2>2 DEF Awaited, Listed
  <2> QED
    BY <1>0, <2>1, <2>2, <2>3, <2>4, WaitKept
<1> QED
  BY <1>4, <1>5, <1>6, <1>7, <1>8, <1>9, <1>10, <1>11, <1>12, <1>13, <1>14 DEF IInv

\* The pid is new.
LEMMA ClonePidStep ==
    ASSUME IInv, NEW p \in Procs, ClonePid(p)
    PROVE  IInv'
<1> USE ProcessAssumption
<1>0. /\ TypeOK /\ RootInv /\ PidInv /\ LifeInv /\ LockInv /\ CreatorInv /\ ChildInv /\ ParentInv
      /\ ReaperInv /\ SleepInv /\ WaitInv
  BY DEF IInv
<1>1. /\ pc[p] = "cloneCopy"
      /\ next_pid <= limit.pids
      /\ next_pid' = next_pid + 1
      /\ UNCHANGED <<limit, life, zombie, process_lock, op, ptr, want, nohang, seq, asleep, ticketq,
                     ticket, stopped>>
  BY <1>0 DEF ClonePid, Goto, waitq, TypeOK
<1>2. \A x \in Procs :
        /\ pid'[x] = IF x = ptr[p] THEN next_pid ELSE pid[x]
        /\ ppid'[x] = IF x = ptr[p] THEN (IF op[p] = "clone" THEN pid[p] ELSE 0) ELSE ppid[x]
        /\ pc'[x] = IF x = p THEN "cloneThread" ELSE pc[x]
        /\ childPid'[x] = IF x = p THEN next_pid ELSE childPid[x]
  BY <1>0 DEF ClonePid, Goto, waitq, TypeOK
<1>3. /\ ptr[p] \in Procs /\ life[ptr[p]] = "NEW" /\ pc[ptr[p]] = "off" /\ ptr[p] # Root
      /\ life[p] = "LISTED" /\ pid[p] # 0 /\ op[p] \in {"clone", "spawn"}
      /\ next_pid \in Nat /\ next_pid # 0
      /\ \A x \in Procs : pc[x] \in Creating /\ x # p => ptr[x] # ptr[p]
  BY <1>0, <1>1 DEF RootInv, PidInv, LifeInv, CreatorInv, Creating, TypeOK
<1>4. TypeOK'
  <2>1. pid' \in [Procs -> 0..MaxPid]
    BY <1>0, <1>1, <1>3 DEF ClonePid, Goto, waitq, TypeOK
  <2>2. ppid' \in [Procs -> 0..MaxPid]
    BY <1>0, <1>1, <1>3 DEF ClonePid, Goto, waitq, TypeOK
  <2>3. next_pid' \in 2..(MaxPid + 1)
    BY <1>0, <1>1, <1>3 DEF ClonePid, Goto, waitq, TypeOK
  <2>4. pc' \in [Procs -> Locations]
    BY <1>0, <1>1, <1>3 DEF ClonePid, Goto, waitq, TypeOK, Locations
  <2>5. childPid' \in [Procs -> 0..MaxPid]
    BY <1>0, <1>1, <1>3 DEF ClonePid, Goto, waitq, TypeOK
  <2> QED
    BY <1>0, <1>1, <2>1, <2>2, <2>3, <2>4, <2>5 DEF TypeOK
<1>5. RootInv'
  BY <1>0, <1>1, <1>2, <1>3 DEF RootInv, Gone, Locking
<1>6. PidInv'
  BY <1>0, <1>1, <1>2, <1>3 DEF PidInv, TypeOK
<1>7. LifeInv'
  BY <1>0, <1>1, <1>2, <1>3 DEF LifeInv
<1>8. LockInv'
  BY <1>0, <1>1, <1>2, <1>3 DEF LockInv, Locking, Listed
<1>9. CreatorInv'
  BY <1>0, <1>1, <1>2, <1>3 DEF CreatorInv, Creating, Listed
<1>10. ChildInv'
  BY <1>0, <1>1, <1>2, <1>3 DEF ChildInv, CreatorInv, Creating, Listed, LifeInv
<1>11. ParentInv'
  BY <1>0, <1>1, <1>2, <1>3 DEF ParentInv, Gone, Locking, Listed
<1>12. ReaperInv'
  BY <1>0, <1>1, <1>2, <1>3 DEF ReaperInv, OneReaper
<1>13. SleepInv'
  BY <1>0, <1>1, <1>2, <1>3 DEF SleepInv, TypeOK
<1>14. WaitInv'
  <2>1. \A x \in Procs : pc'[x] \in {"waitSleep", "waitLoop"} =>
           pc[x] \in {"waitSleep", "waitLoop"} /\ Awaited(x) \subseteq Awaited(x)'
    BY <1>0, <1>1, <1>2, <1>3 DEF Awaited, Listed, LifeInv
  <2>2. \A x \in Procs : WillSleep(x)' => WillSleep(x) /\ life[x] = "LISTED"
    BY <1>0, <1>1, <1>2, <1>3 DEF WillSleep, SleepInv, LifeInv
  <2>3. \A x \in Procs : WillSleep(x)' => (WakeComing(x) => WakeComing(x)')
    BY <1>0, <1>1, <1>2, <1>3 DEF WakeComing
  <2>4. \A x \in Procs : WillSleep(x)' =>
               \A y \in Awaited(x)' : zombie'[y] => y \in Awaited(x) /\ zombie[y]
    BY <1>0, <1>1, <1>2, <1>3, <2>2 DEF Awaited, Listed
  <2> QED
    BY <1>0, <2>1, <2>2, <2>3, <2>4, WaitKept
<1> QED
  BY <1>4, <1>5, <1>6, <1>7, <1>8, <1>9, <1>10, <1>11, <1>12, <1>13, <1>14 DEF IInv

\* fail_pt: the memory is the creator's alone.
LEMMA CloneFailsStep ==
    ASSUME IInv, NEW p \in Procs, CloneFails(p)
    PROVE  IInv'
<1> USE ProcessAssumption
<1>0. /\ TypeOK /\ RootInv /\ PidInv /\ LifeInv /\ LockInv /\ CreatorInv /\ ChildInv /\ ParentInv
      /\ ReaperInv /\ SleepInv /\ WaitInv
  BY DEF IInv
<1>1. /\ pc[p] \in {"cloneCopy", "cloneThread"}
      /\ UNCHANGED <<limit, next_pid, process_lock, want, nohang, seq, asleep, ticketq, ticket, stopped>>
  BY <1>0 DEF CloneFails, Goto, Release, ForgetClone, waitq, TypeOK
<1>2. \A x \in Procs :
        /\ life'[x] = IF x = ptr[p] THEN "FREE" ELSE life[x]
        /\ pid'[x] = IF x = ptr[p] THEN 0 ELSE pid[x]
        /\ ppid'[x] = IF x = ptr[p] THEN 0 ELSE ppid[x]
        /\ zombie'[x] <=> x # ptr[p] /\ zombie[x]
        /\ pc'[x] = IF x = p THEN "user" ELSE pc[x]
        /\ op'[x] = IF x = p THEN "clone" ELSE op[x]
        /\ ptr'[x] = IF x = p THEN None ELSE ptr[x]
        /\ childPid'[x] = IF x = p THEN 0 ELSE childPid[x]
  BY <1>0 DEF CloneFails, Goto, Release, ForgetClone, waitq, TypeOK
<1>3. /\ ptr[p] \in Procs /\ life[ptr[p]] = "NEW" /\ pc[ptr[p]] = "off" /\ ptr[p] # Root
      /\ \A x \in Procs : pc[x] \in Creating /\ x # p => ptr[x] # ptr[p]
  BY <1>0, <1>1 DEF RootInv, LifeInv, CreatorInv, Creating
<1>4. TypeOK'
  <2>1. life' \in [Procs -> {"FREE", "NEW", "LISTED", "DETACHED"}]
    BY <1>0, <1>1, <1>3 DEF CloneFails, Goto, Release, ForgetClone, waitq, TypeOK
  <2>2. pid' \in [Procs -> 0..MaxPid]
    BY <1>0, <1>1, <1>3 DEF CloneFails, Goto, Release, ForgetClone, waitq, TypeOK
  <2>3. ppid' \in [Procs -> 0..MaxPid]
    BY <1>0, <1>1, <1>3 DEF CloneFails, Goto, Release, ForgetClone, waitq, TypeOK
  <2>4. zombie' \in [Procs -> BOOLEAN]
    BY <1>0, <1>1, <1>3 DEF CloneFails, Goto, Release, ForgetClone, waitq, TypeOK
  <2>5. pc' \in [Procs -> Locations]
    BY <1>0, <1>1, <1>3 DEF CloneFails, Goto, Release, ForgetClone, waitq, TypeOK, Locations
  <2>6. op' \in [Procs -> {"clone", "spawn"}]
    BY <1>0, <1>1, <1>3 DEF CloneFails, Goto, Release, ForgetClone, waitq, TypeOK
  <2>7. ptr' \in [Procs -> Procs \cup {None}]
    BY <1>0, <1>1, <1>3 DEF CloneFails, Goto, Release, ForgetClone, waitq, TypeOK
  <2>8. childPid' \in [Procs -> 0..MaxPid]
    BY <1>0, <1>1, <1>3 DEF CloneFails, Goto, Release, ForgetClone, waitq, TypeOK
  <2> QED
    BY <1>0, <1>1, <2>1, <2>2, <2>3, <2>4, <2>5, <2>6, <2>7, <2>8 DEF TypeOK
<1>5. RootInv'
  BY <1>0, <1>1, <1>2, <1>3 DEF RootInv, Gone, Locking
<1>6. PidInv'
  BY <1>0, <1>1, <1>2, <1>3 DEF PidInv, TypeOK
<1>7. LifeInv'
  BY <1>0, <1>1, <1>2, <1>3 DEF LifeInv
<1>8. LockInv'
  BY <1>0, <1>1, <1>2, <1>3 DEF LockInv, Locking, Listed
<1>9. CreatorInv'
  BY <1>0, <1>1, <1>2, <1>3 DEF CreatorInv, Creating, Listed
<1>10. ChildInv'
  BY <1>0, <1>1, <1>2, <1>3 DEF ChildInv, CreatorInv, Creating, Listed, LifeInv
<1>11. ParentInv'
  BY <1>0, <1>1, <1>2, <1>3 DEF ParentInv, Gone, Locking, Listed
<1>12. ReaperInv'
  BY <1>0, <1>1, <1>2, <1>3 DEF ReaperInv, OneReaper
<1>13. SleepInv'
  BY <1>0, <1>1, <1>2, <1>3 DEF SleepInv, TypeOK
<1>14. WaitInv'
  <2>1. \A x \in Procs : pc'[x] \in {"waitSleep", "waitLoop"} =>
           pc[x] \in {"waitSleep", "waitLoop"} /\ Awaited(x) \subseteq Awaited(x)'
    BY <1>0, <1>1, <1>2, <1>3 DEF Awaited, Listed, LifeInv
  <2>2. \A x \in Procs : WillSleep(x)' => WillSleep(x) /\ life[x] = "LISTED"
    BY <1>0, <1>1, <1>2, <1>3 DEF WillSleep, SleepInv, LifeInv
  <2>3. \A x \in Procs : WillSleep(x)' => (WakeComing(x) => WakeComing(x)')
    BY <1>0, <1>1, <1>2, <1>3 DEF WakeComing
  <2>4. \A x \in Procs : WillSleep(x)' =>
               \A y \in Awaited(x)' : zombie'[y] => y \in Awaited(x) /\ zombie[y]
    BY <1>0, <1>1, <1>2, <1>3, <2>2 DEF Awaited, Listed
  <2> QED
    BY <1>0, <2>1, <2>2, <2>3, <2>4, WaitKept
<1> QED
  BY <1>4, <1>5, <1>6, <1>7, <1>8, <1>9, <1>10, <1>11, <1>12, <1>13, <1>14 DEF IInv

\* process_register: the creator is the parent, and is alive.
LEMMA CloneRegisterStep ==
    ASSUME IInv, NEW p \in Procs, CloneRegister(p)
    PROVE  IInv'
<1> USE ProcessAssumption
<1>0. /\ TypeOK /\ RootInv /\ PidInv /\ LifeInv /\ LockInv /\ CreatorInv /\ ChildInv /\ ParentInv
      /\ ReaperInv /\ SleepInv /\ WaitInv
  BY DEF IInv
<1>1. /\ pc[p] = "cloneThread"
      /\ UNCHANGED <<limit, pid, ppid, zombie, next_pid, process_lock, op, ptr, childPid, want,
                     nohang, seq, asleep, ticketq, ticket, stopped>>
  BY <1>0 DEF CloneRegister, Goto, locals, waitq, TypeOK
<1>2. \A x \in Procs :
        /\ life'[x] = IF x = ptr[p] THEN "LISTED" ELSE life[x]
        /\ pc'[x] = IF x = p THEN "cloneEnqueue" ELSE pc[x]
  BY <1>0 DEF CloneRegister, Goto, locals, waitq, TypeOK
<1>3. /\ ptr[p] \in Procs /\ life[ptr[p]] = "NEW" /\ pc[ptr[p]] = "off" /\ ptr[p] # p
      /\ pid[ptr[p]] # 0 /\ ~zombie[ptr[p]]
      /\ life[p] = "LISTED" /\ pid[p] # 0 /\ ~zombie[p] /\ op[p] \in {"clone", "spawn"}
      /\ \A x \in Procs : pc[x] \in Creating /\ x # p => ptr[x] # ptr[p]
  BY <1>0, <1>1 DEF PidInv, LifeInv, CreatorInv, Creating, TypeOK
<1>4. TypeOK'
  <2>1. life' \in [Procs -> {"FREE", "NEW", "LISTED", "DETACHED"}]
    BY <1>0, <1>1, <1>3 DEF CloneRegister, Goto, locals, waitq, TypeOK
  <2>2. pc' \in [Procs -> Locations]
    BY <1>0, <1>1, <1>3 DEF CloneRegister, Goto, locals, waitq, TypeOK, Locations
  <2> QED
    BY <1>0, <1>1, <2>1, <2>2 DEF TypeOK
<1>5. RootInv'
  BY <1>0, <1>1, <1>2, <1>3 DEF RootInv, Gone, Locking
<1>6. PidInv'
  BY <1>0, <1>1, <1>2, <1>3 DEF PidInv, TypeOK
<1>7. LifeInv'
  BY <1>0, <1>1, <1>2, <1>3 DEF LifeInv
<1>8. LockInv'
  BY <1>0, <1>1, <1>2, <1>3 DEF LockInv, Locking, Listed
<1>9. CreatorInv'
  BY <1>0, <1>1, <1>2, <1>3 DEF CreatorInv, Creating, Listed
<1>10. ChildInv'
  BY <1>0, <1>1, <1>2, <1>3 DEF ChildInv, CreatorInv, Creating, Listed, LifeInv
<1>11. ParentInv'
  <2> SUFFICES ASSUME NEW y \in Procs, life'[y] = "LISTED", ppid'[y] # 0
               PROVE  \E r \in Listed' \ {y} : pid'[r] = ppid'[y] /\ ~zombie'[r] /\ pc'[r] \notin Gone
    BY DEF ParentInv, Listed
  <2>1. CASE y = ptr[p]
    <3>1. pid[p] = ppid[y] /\ p # y
      BY <1>0, <1>1, <1>3, <2>1 DEF ChildInv
    <3>2. p \in Listed' \ {y} /\ pid'[p] = ppid'[y] /\ ~zombie'[p] /\ pc'[p] \notin Gone
      BY <1>1, <1>2, <1>3, <3>1 DEF Listed, Gone, Locking
    <3> QED
      BY <3>2
  <2>2. CASE y # ptr[p]
    <3>1. PICK r \in Listed \ {y} : pid[r] = ppid[y] /\ ~zombie[r] /\ pc[r] \notin Gone
      BY <1>0, <1>1, <1>2, <2>2 DEF ParentInv, Listed
    <3>2. r \in Listed' \ {y} /\ pid'[r] = ppid'[y] /\ ~zombie'[r] /\ pc'[r] \notin Gone
      BY <1>1, <1>2, <1>3, <3>1 DEF Listed, Gone, Locking
    <3> QED
      BY <3>2
  <2> QED
    BY <2>1, <2>2
<1>12. ReaperInv'
  BY <1>0, <1>1, <1>2, <1>3 DEF ReaperInv, OneReaper
<1>13. SleepInv'
  BY <1>0, <1>1, <1>2, <1>3 DEF SleepInv, TypeOK
<1>14. WaitInv'
  <2>1. \A x \in Procs : pc'[x] \in {"waitSleep", "waitLoop"} =>
           pc[x] \in {"waitSleep", "waitLoop"} /\ Awaited(x) \subseteq Awaited(x)'
    BY <1>0, <1>1, <1>2, <1>3 DEF Awaited, Listed, LifeInv
  <2>2. \A x \in Procs : WillSleep(x)' => WillSleep(x) /\ life[x] = "LISTED"
    BY <1>0, <1>1, <1>2, <1>3 DEF WillSleep, SleepInv, LifeInv
  <2>3. \A x \in Procs : WillSleep(x)' => (WakeComing(x) => WakeComing(x)')
    BY <1>0, <1>1, <1>2, <1>3 DEF WakeComing
  <2>4. \A x \in Procs : WillSleep(x)' =>
               \A y \in Awaited(x)' : zombie'[y] => y \in Awaited(x) /\ zombie[y]
    BY <1>0, <1>1, <1>2, <1>3, <2>2 DEF Awaited, Listed
  <2> QED
    BY <1>0, <2>1, <2>2, <2>3, <2>4, WaitKept
<1> QED
  BY <1>4, <1>5, <1>6, <1>7, <1>8, <1>9, <1>10, <1>11, <1>12, <1>13, <1>14 DEF IInv

\* scheduler_enqueue.
LEMMA CloneEnqueueStep ==
    ASSUME IInv, NEW p \in Procs, CloneEnqueue(p)
    PROVE  IInv'
<1> USE ProcessAssumption
<1>0. /\ TypeOK /\ RootInv /\ PidInv /\ LifeInv /\ LockInv /\ CreatorInv /\ ChildInv /\ ParentInv
      /\ ReaperInv /\ SleepInv /\ WaitInv
  BY DEF IInv
<1>1. /\ pc[p] = "cloneEnqueue"
      /\ UNCHANGED <<limit, life, pid, ppid, zombie, next_pid, process_lock, op, ptr, childPid, want,
                     nohang, seq, asleep, ticketq, ticket, stopped>>
  BY <1>0 DEF CloneEnqueue, pcb, locals, waitq, TypeOK
<1>2. \A x \in Procs :
        /\ pc'[x] = IF x = ptr[p] THEN "user" ELSE IF x = p THEN "cloned" ELSE pc[x]
  BY <1>0 DEF CloneEnqueue, pcb, locals, waitq, TypeOK
<1>3. /\ ptr[p] \in Procs /\ life[ptr[p]] = "LISTED" /\ ~zombie[ptr[p]] /\ pc[ptr[p]] = "off" /\ ptr[p] # p
      /\ \A x \in Procs : pc[x] \in Creating /\ x # p => ptr[x] # ptr[p]
  BY <1>0, <1>1 DEF LifeInv, CreatorInv, Creating, Listed
<1>4. TypeOK'
  <2>1. pc' \in [Procs -> Locations]
    BY <1>0, <1>1, <1>3 DEF CloneEnqueue, pcb, locals, waitq, TypeOK, Locations
  <2> QED
    BY <1>0, <1>1, <2>1 DEF TypeOK
<1>5. RootInv'
  BY <1>0, <1>1, <1>2, <1>3 DEF RootInv, Gone, Locking
<1>6. PidInv'
  BY <1>0, <1>1, <1>2, <1>3 DEF PidInv, TypeOK
<1>7. LifeInv'
  BY <1>0, <1>1, <1>2, <1>3 DEF LifeInv
<1>8. LockInv'
  BY <1>0, <1>1, <1>2, <1>3 DEF LockInv, Locking, Listed
<1>9. CreatorInv'
  BY <1>0, <1>1, <1>2, <1>3 DEF CreatorInv, Creating, Listed
<1>10. ChildInv'
  BY <1>0, <1>1, <1>2, <1>3 DEF ChildInv, CreatorInv, Creating, Listed, LifeInv
<1>11. ParentInv'
  BY <1>0, <1>1, <1>2, <1>3 DEF ParentInv, Gone, Locking, Listed
<1>12. ReaperInv'
  BY <1>0, <1>1, <1>2, <1>3 DEF ReaperInv, OneReaper
<1>13. SleepInv'
  BY <1>0, <1>1, <1>2, <1>3 DEF SleepInv, TypeOK
<1>14. WaitInv'
  <2>1. \A x \in Procs : pc'[x] \in {"waitSleep", "waitLoop"} =>
           pc[x] \in {"waitSleep", "waitLoop"} /\ Awaited(x) \subseteq Awaited(x)'
    BY <1>0, <1>1, <1>2, <1>3 DEF Awaited, Listed, LifeInv
  <2>2. \A x \in Procs : WillSleep(x)' => WillSleep(x) /\ life[x] = "LISTED"
    BY <1>0, <1>1, <1>2, <1>3 DEF WillSleep, SleepInv, LifeInv
  <2>3. \A x \in Procs : WillSleep(x)' => (WakeComing(x) => WakeComing(x)')
    BY <1>0, <1>1, <1>2, <1>3 DEF WakeComing
  <2>4. \A x \in Procs : WillSleep(x)' =>
               \A y \in Awaited(x)' : zombie'[y] => y \in Awaited(x) /\ zombie[y]
    BY <1>0, <1>1, <1>2, <1>3, <2>2 DEF Awaited, Listed
  <2> QED
    BY <1>0, <2>1, <2>2, <2>3, <2>4, WaitKept
<1> QED
  BY <1>4, <1>5, <1>6, <1>7, <1>8, <1>9, <1>10, <1>11, <1>12, <1>13, <1>14 DEF IInv

\* The end of do_clone.
LEMMA CloneReturnStep ==
    ASSUME IInv, NEW p \in Procs, CloneReturn(p)
    PROVE  IInv'
<1> USE ProcessAssumption
<1>0. /\ TypeOK /\ RootInv /\ PidInv /\ LifeInv /\ LockInv /\ CreatorInv /\ ChildInv /\ ParentInv
      /\ ReaperInv /\ SleepInv /\ WaitInv
  BY DEF IInv
<1>1. /\ pc[p] = "cloned"
      /\ UNCHANGED <<limit, life, pid, ppid, zombie, next_pid, process_lock, want, nohang, seq,
                     asleep, ticketq, ticket, stopped>>
  BY <1>0 DEF CloneReturn, Goto, ForgetClone, pcb, waitq, TypeOK
<1>2. \A x \in Procs :
        /\ pc'[x] = IF x = p THEN "user" ELSE pc[x]
        /\ op'[x] = IF x = p THEN "clone" ELSE op[x]
        /\ ptr'[x] = IF x = p THEN None ELSE ptr[x]
        /\ childPid'[x] = IF x = p THEN 0 ELSE childPid[x]
  BY <1>0 DEF CloneReturn, Goto, ForgetClone, pcb, waitq, TypeOK
<1>3. life[p] = "LISTED"
  BY <1>0, <1>1 DEF LifeInv, TypeOK
<1>4. TypeOK'
  <2>1. pc' \in [Procs -> Locations]
    BY <1>0, <1>1, <1>3 DEF CloneReturn, Goto, ForgetClone, pcb, waitq, TypeOK, Locations
  <2>2. op' \in [Procs -> {"clone", "spawn"}]
    BY <1>0, <1>1, <1>3 DEF CloneReturn, Goto, ForgetClone, pcb, waitq, TypeOK
  <2>3. ptr' \in [Procs -> Procs \cup {None}]
    BY <1>0, <1>1, <1>3 DEF CloneReturn, Goto, ForgetClone, pcb, waitq, TypeOK
  <2>4. childPid' \in [Procs -> 0..MaxPid]
    BY <1>0, <1>1, <1>3 DEF CloneReturn, Goto, ForgetClone, pcb, waitq, TypeOK
  <2> QED
    BY <1>0, <1>1, <2>1, <2>2, <2>3, <2>4 DEF TypeOK
<1>5. RootInv'
  BY <1>0, <1>1, <1>2, <1>3 DEF RootInv, Gone, Locking
<1>6. PidInv'
  BY <1>0, <1>1, <1>2, <1>3 DEF PidInv, TypeOK
<1>7. LifeInv'
  BY <1>0, <1>1, <1>2, <1>3 DEF LifeInv
<1>8. LockInv'
  BY <1>0, <1>1, <1>2, <1>3 DEF LockInv, Locking, Listed
<1>9. CreatorInv'
  BY <1>0, <1>1, <1>2, <1>3 DEF CreatorInv, Creating, Listed
<1>10. ChildInv'
  BY <1>0, <1>1, <1>2, <1>3 DEF ChildInv, CreatorInv, Creating, Listed, LifeInv
<1>11. ParentInv'
  BY <1>0, <1>1, <1>2, <1>3 DEF ParentInv, Gone, Locking, Listed
<1>12. ReaperInv'
  BY <1>0, <1>1, <1>2, <1>3 DEF ReaperInv, OneReaper
<1>13. SleepInv'
  BY <1>0, <1>1, <1>2, <1>3 DEF SleepInv, TypeOK
<1>14. WaitInv'
  <2>1. \A x \in Procs : pc'[x] \in {"waitSleep", "waitLoop"} =>
           pc[x] \in {"waitSleep", "waitLoop"} /\ Awaited(x) \subseteq Awaited(x)'
    BY <1>0, <1>1, <1>2, <1>3 DEF Awaited, Listed, LifeInv
  <2>2. \A x \in Procs : WillSleep(x)' => WillSleep(x) /\ life[x] = "LISTED"
    BY <1>0, <1>1, <1>2, <1>3 DEF WillSleep, SleepInv, LifeInv
  <2>3. \A x \in Procs : WillSleep(x)' => (WakeComing(x) => WakeComing(x)')
    BY <1>0, <1>1, <1>2, <1>3 DEF WakeComing
  <2>4. \A x \in Procs : WillSleep(x)' =>
               \A y \in Awaited(x)' : zombie'[y] => y \in Awaited(x) /\ zombie[y]
    BY <1>0, <1>1, <1>2, <1>3, <2>2 DEF Awaited, Listed
  <2> QED
    BY <1>0, <2>1, <2>2, <2>3, <2>4, WaitKept
<1> QED
  BY <1>4, <1>5, <1>6, <1>7, <1>8, <1>9, <1>10, <1>11, <1>12, <1>13, <1>14 DEF IInv

\* scheduler_wake_all on init, which inherited a zombie.
LEMMA ExitWakeInitStep ==
    ASSUME IInv, NEW p \in Procs, ExitWakeInit(p)
    PROVE  IInv'
<1> USE ProcessAssumption
<1>0. /\ TypeOK /\ RootInv /\ PidInv /\ LifeInv /\ LockInv /\ CreatorInv /\ ChildInv /\ ParentInv
      /\ ReaperInv /\ SleepInv /\ WaitInv
  BY DEF IInv
<1>1. /\ pc[p] = "exitWakeInit"
      /\ UNCHANGED <<limit, life, pid, ppid, zombie, next_pid, process_lock, op, ptr, childPid, want,
                     nohang, ticketq, ticket, stopped>>
  BY <1>0 DEF ExitWakeInit, Goto, WQ!WakeAll, pcb, locals, TypeOK
<1>2. \A x \in Procs :
        /\ pc'[x] = IF x = p THEN "exitNotify" ELSE pc[x]
        /\ seq'[x] = IF x = ptr[p] THEN seq[x] + 1 ELSE seq[x]
        /\ asleep'[x] = IF asleep[x] = ptr[p] THEN None ELSE asleep[x]
  BY <1>0 DEF ExitWakeInit, Goto, WQ!WakeAll, pcb, locals, TypeOK
<1>3. ptr[p] = Root /\ process_lock = p /\ (\A x \in Procs : x # p => pc[x] \notin Locking)
  BY <1>0, <1>1 DEF LockInv, Locking
<1>4. TypeOK'
  <2>1. pc' \in [Procs -> Locations]
    BY <1>0, <1>1, <1>3 DEF ExitWakeInit, Goto, WQ!WakeAll, pcb, locals, TypeOK, Locations
  <2>2. seq' \in [Procs -> Nat]
    BY <1>0, <1>1, <1>3 DEF ExitWakeInit, Goto, WQ!WakeAll, pcb, locals, TypeOK
  <2>3. asleep' \in [Procs -> Procs \cup {None}]
    BY <1>0, <1>1, <1>3 DEF ExitWakeInit, Goto, WQ!WakeAll, pcb, locals, TypeOK
  <2> QED
    BY <1>0, <1>1, <2>1, <2>2, <2>3 DEF TypeOK
<1>5. RootInv'
  BY <1>0, <1>1, <1>2, <1>3 DEF RootInv, Gone, Locking
<1>6. PidInv'
  BY <1>0, <1>1, <1>2, <1>3 DEF PidInv, TypeOK
<1>7. LifeInv'
  BY <1>0, <1>1, <1>2, <1>3 DEF LifeInv
<1>8. LockInv'
  BY <1>0, <1>1, <1>2, <1>3 DEF LockInv, Locking, Listed
<1>9. CreatorInv'
  BY <1>0, <1>1, <1>2, <1>3 DEF CreatorInv, Creating, Listed
<1>10. ChildInv'
  BY <1>0, <1>1, <1>2, <1>3 DEF ChildInv, CreatorInv, Creating, Listed, LifeInv
<1>11. ParentInv'
  BY <1>0, <1>1, <1>2, <1>3 DEF ParentInv, Gone, Locking, Listed
<1>12. ReaperInv'
  BY <1>0, <1>1, <1>2, <1>3 DEF ReaperInv, OneReaper
<1>13. SleepInv'
  BY <1>0, <1>1, <1>2, <1>3 DEF SleepInv, TypeOK
<1>14. WaitInv'
  <2>1. \A x \in Procs : pc'[x] \in {"waitSleep", "waitLoop"} =>
           pc[x] \in {"waitSleep", "waitLoop"} /\ Awaited(x) \subseteq Awaited(x)'
    BY <1>0, <1>1, <1>2, <1>3 DEF Awaited, Listed, LifeInv
  <2>2. \A x \in Procs : WillSleep(x)' => WillSleep(x) /\ x # ptr[p]
    <3> SUFFICES ASSUME NEW x \in Procs, WillSleep(x)' PROVE WillSleep(x) /\ x # ptr[p]
      OBVIOUS
    <3>1. seq[x] \in Nat /\ ticket[x] \in Nat /\ (ticketq[x] = x => ticket[x] <= seq[x])
      BY <1>0 DEF TypeOK, SleepInv
    <3>2. asleep'[x] # None => asleep[x] # None /\ x # ptr[p]
      BY <1>0, <1>2 DEF SleepInv
    <3>3. CASE pc'[x] = "waitSleep" /\ ticketq'[x] = x /\ ticket'[x] = seq'[x]
      BY <1>1, <1>2, <3>1, <3>3 DEF WillSleep
    <3> QED
      BY <3>2, <3>3 DEF WillSleep
  <2>3. \A x \in Procs : WillSleep(x)' => (WakeComing(x) => WakeComing(x)')
    BY <1>1, <1>2, <2>2 DEF WakeComing
  <2>4. \A x \in Procs : WillSleep(x)' =>
               \A y \in Awaited(x)' : zombie'[y] => y \in Awaited(x) /\ zombie[y]
    BY <1>1, <1>2 DEF Awaited, Listed
  <2> QED
    BY <1>0, <2>1, <2>2, <2>3, <2>4, WaitKept
<1> QED
  BY <1>4, <1>5, <1>6, <1>7, <1>8, <1>9, <1>10, <1>11, <1>12, <1>13, <1>14 DEF IInv

\* The process becomes a zombie, with the wake-up of its parent to come.
LEMMA ExitZombieStep ==
    ASSUME IInv, NEW p \in Procs, NEW q \in LiveParents(p), ExitZombie(p), ptr' = [ptr EXCEPT ![p] = q]
    PROVE  IInv'
<1> USE ProcessAssumption
<1>0. /\ TypeOK /\ RootInv /\ PidInv /\ LifeInv /\ LockInv /\ CreatorInv /\ ChildInv /\ ParentInv
      /\ ReaperInv /\ SleepInv /\ WaitInv
  BY DEF IInv
<1>1. /\ pc[p] = "exitNotify"
      /\ UNCHANGED <<limit, life, pid, ppid, next_pid, process_lock, op, childPid, want, nohang, seq,
                     asleep, ticketq, ticket, stopped>>
  BY <1>0 DEF ExitZombie, Goto, waitq, TypeOK
<1>2. \A x \in Procs :
        /\ zombie'[x] <=> x = p \/ zombie[x]
        /\ pc'[x] = IF x = p THEN "exitWake" ELSE pc[x]
        /\ ptr'[x] = IF x = p THEN q ELSE ptr[x]
  BY <1>0 DEF ExitZombie, Goto, waitq, TypeOK
<1>3. /\ process_lock = p /\ (\A x \in Procs : x # p => pc[x] \notin Locking)
      /\ p # Root /\ life[p] = "LISTED" /\ ppid[p] # 0 /\ q # p
      /\ q \in Procs /\ life[q] = "LISTED" /\ pid[q] = ppid[p]
  BY <1>0, <1>1 DEF LockInv, Locking, RootInv, LifeInv, LiveParents, Listed, ParentInv, PidInv, TypeOK
<1>4. TypeOK'
  <2>1. zombie' \in [Procs -> BOOLEAN]
    BY <1>0, <1>1, <1>3 DEF ExitZombie, Goto, waitq, TypeOK
  <2>2. pc' \in [Procs -> Locations]
    BY <1>0, <1>1, <1>3 DEF ExitZombie, Goto, waitq, TypeOK, Locations
  <2>3. ptr' \in [Procs -> Procs \cup {None}]
    BY <1>0, <1>1, <1>3 DEF ExitZombie, Goto, waitq, TypeOK
  <2> QED
    BY <1>0, <1>1, <2>1, <2>2, <2>3 DEF TypeOK
<1>5. RootInv'
  BY <1>0, <1>1, <1>2, <1>3 DEF RootInv, Gone, Locking
<1>6. PidInv'
  BY <1>0, <1>1, <1>2, <1>3 DEF PidInv, TypeOK
<1>7. LifeInv'
  BY <1>0, <1>1, <1>2, <1>3 DEF LifeInv
<1>8. LockInv'
  BY <1>0, <1>1, <1>2, <1>3 DEF LockInv, Locking, Listed
<1>9. CreatorInv'
  BY <1>0, <1>1, <1>2, <1>3 DEF CreatorInv, Creating, Listed
<1>10. ChildInv'
  BY <1>0, <1>1, <1>2, <1>3 DEF ChildInv, CreatorInv, Creating, Listed, LifeInv
<1>11. ParentInv'
  BY <1>0, <1>1, <1>2, <1>3 DEF ParentInv, Gone, Locking, Listed
<1>12. ReaperInv'
  BY <1>0, <1>1, <1>2, <1>3 DEF ReaperInv, OneReaper
<1>13. SleepInv'
  BY <1>0, <1>1, <1>2, <1>3 DEF SleepInv, TypeOK
<1>14. WaitInv'
  <2>1. \A x \in Procs : pc'[x] \in {"waitSleep", "waitLoop"} =>
           pc[x] \in {"waitSleep", "waitLoop"} /\ Awaited(x) \subseteq Awaited(x)'
    BY <1>0, <1>1, <1>2, <1>3 DEF Awaited, Listed, LifeInv
  <2>2. \A x \in Procs : WillSleep(x)' => WillSleep(x) /\ pid[x] # 0
    BY <1>0, <1>1, <1>2, <1>3 DEF WillSleep, SleepInv, LifeInv, PidInv
  <2>3. \A x \in Procs : WillSleep(x)' => (WakeComing(x) => WakeComing(x)')
    BY <1>1, <1>2 DEF WakeComing
  <2>4. \A x \in Procs : WillSleep(x)' =>
           \/ WakeComing(x)'
           \/ \A y \in Awaited(x)' : zombie'[y] => y \in Awaited(x) /\ zombie[y]
    <3> SUFFICES ASSUME NEW x \in Procs, WillSleep(x)',
                        NEW y \in Awaited(x)', zombie'[y], ~(y \in Awaited(x) /\ zombie[y])
                 PROVE  WakeComing(x)'
      OBVIOUS
    <3>1. y = p
      BY <1>1, <1>2 DEF Awaited, Listed
    <3>2. pid[x] = pid[q] /\ pid[x] # 0
      BY <1>1, <1>3, <2>2, <3>1 DEF Awaited
    <3>3. x = q
      BY <1>0, <1>3, <3>2 DEF PidInv
    <3> QED
      BY <1>2, <3>3 DEF WakeComing
  <2> QED
    BY <1>0, <2>1, <2>2, <2>3, <2>4, WaitKept
<1> QED
  BY <1>4, <1>5, <1>6, <1>7, <1>8, <1>9, <1>10, <1>11, <1>12, <1>13, <1>14 DEF IInv

\* scheduler_wake_all on the parent.
LEMMA ExitWakeStep ==
    ASSUME IInv, NEW p \in Procs, ExitWake(p)
    PROVE  IInv'
<1> USE ProcessAssumption
<1>0. /\ TypeOK /\ RootInv /\ PidInv /\ LifeInv /\ LockInv /\ CreatorInv /\ ChildInv /\ ParentInv
      /\ ReaperInv /\ SleepInv /\ WaitInv
  BY DEF IInv
<1>1. /\ pc[p] = "exitWake"
      /\ process_lock' = None
      /\ UNCHANGED <<limit, life, pid, ppid, zombie, next_pid, op, childPid, want, nohang, ticketq,
                     ticket, stopped>>
  BY <1>0 DEF ExitWake, Goto, WQ!WakeAll, pcb, TypeOK
<1>2. \A x \in Procs :
        /\ pc'[x] = IF x = p THEN "off" ELSE pc[x]
        /\ ptr'[x] = IF x = p THEN None ELSE ptr[x]
        /\ seq'[x] = IF x = ptr[p] THEN seq[x] + 1 ELSE seq[x]
        /\ asleep'[x] = IF asleep[x] = ptr[p] THEN None ELSE asleep[x]
  BY <1>0 DEF ExitWake, Goto, WQ!WakeAll, pcb, TypeOK
<1>3. /\ process_lock = p /\ (\A x \in Procs : x # p => pc[x] \notin Locking)
      /\ p # Root /\ ptr[p] \in Procs
  BY <1>0, <1>1 DEF LockInv, Locking, RootInv, Gone, Listed
<1>4. TypeOK'
  <2>1. process_lock' \in Procs \cup {None}
    BY <1>0, <1>1, <1>3 DEF ExitWake, Goto, WQ!WakeAll, pcb, TypeOK
  <2>2. pc' \in [Procs -> Locations]
    BY <1>0, <1>1, <1>3 DEF ExitWake, Goto, WQ!WakeAll, pcb, TypeOK, Locations
  <2>3. ptr' \in [Procs -> Procs \cup {None}]
    BY <1>0, <1>1, <1>3 DEF ExitWake, Goto, WQ!WakeAll, pcb, TypeOK
  <2>4. seq' \in [Procs -> Nat]
    BY <1>0, <1>1, <1>3 DEF ExitWake, Goto, WQ!WakeAll, pcb, TypeOK
  <2>5. asleep' \in [Procs -> Procs \cup {None}]
    BY <1>0, <1>1, <1>3 DEF ExitWake, Goto, WQ!WakeAll, pcb, TypeOK
  <2> QED
    BY <1>0, <1>1, <2>1, <2>2, <2>3, <2>4, <2>5 DEF TypeOK
<1>5. RootInv'
  BY <1>0, <1>1, <1>2, <1>3 DEF RootInv, Gone, Locking
<1>6. PidInv'
  BY <1>0, <1>1, <1>2, <1>3 DEF PidInv, TypeOK
<1>7. LifeInv'
  BY <1>0, <1>1, <1>2, <1>3 DEF LifeInv
<1>8. LockInv'
  BY <1>0, <1>1, <1>2, <1>3 DEF LockInv, Locking, Listed
<1>9. CreatorInv'
  BY <1>0, <1>1, <1>2, <1>3 DEF CreatorInv, Creating, Listed
<1>10. ChildInv'
  BY <1>0, <1>1, <1>2, <1>3 DEF ChildInv, CreatorInv, Creating, Listed, LifeInv
<1>11. ParentInv'
  BY <1>0, <1>1, <1>2, <1>3 DEF ParentInv, Gone, Locking, Listed
<1>12. ReaperInv'
  BY <1>0, <1>1, <1>2, <1>3 DEF ReaperInv, OneReaper
<1>13. SleepInv'
  BY <1>0, <1>1, <1>2, <1>3 DEF SleepInv, TypeOK
<1>14. WaitInv'
  <2>1. \A x \in Procs : pc'[x] \in {"waitSleep", "waitLoop"} =>
           pc[x] \in {"waitSleep", "waitLoop"} /\ Awaited(x) \subseteq Awaited(x)'
    BY <1>0, <1>1, <1>2, <1>3 DEF Awaited, Listed, LifeInv
  <2>2. \A x \in Procs : WillSleep(x)' => WillSleep(x) /\ x # ptr[p]
    <3> SUFFICES ASSUME NEW x \in Procs, WillSleep(x)' PROVE WillSleep(x) /\ x # ptr[p]
      OBVIOUS
    <3>1. seq[x] \in Nat /\ ticket[x] \in Nat /\ (ticketq[x] = x => ticket[x] <= seq[x])
      BY <1>0 DEF TypeOK, SleepInv
    <3>2. asleep'[x] # None => asleep[x] # None /\ x # ptr[p]
      BY <1>0, <1>2 DEF SleepInv
    <3>3. CASE pc'[x] = "waitSleep" /\ ticketq'[x] = x /\ ticket'[x] = seq'[x]
      BY <1>1, <1>2, <3>1, <3>3 DEF WillSleep
    <3> QED
      BY <3>2, <3>3 DEF WillSleep
  <2>3. \A x \in Procs : WillSleep(x)' => (WakeComing(x) => WakeComing(x)')
    BY <1>1, <1>2, <2>2 DEF WakeComing
  <2>4. \A x \in Procs : WillSleep(x)' =>
               \A y \in Awaited(x)' : zombie'[y] => y \in Awaited(x) /\ zombie[y]
    BY <1>1, <1>2 DEF Awaited, Listed
  <2> QED
    BY <1>0, <2>1, <2>2, <2>3, <2>4, WaitKept
<1> QED
  BY <1>4, <1>5, <1>6, <1>7, <1>8, <1>9, <1>10, <1>11, <1>12, <1>13, <1>14 DEF IInv

\* Without a parent nobody looks for the process.
LEMMA ExitUnlinkStep ==
    ASSUME IInv, NEW p \in Procs, ExitUnlink(p)
    PROVE  IInv'
<1> USE ProcessAssumption
<1>0. /\ TypeOK /\ RootInv /\ PidInv /\ LifeInv /\ LockInv /\ CreatorInv /\ ChildInv /\ ParentInv
      /\ ReaperInv /\ SleepInv /\ WaitInv
  BY DEF IInv
<1>1. /\ pc[p] = "exitNotify"
      /\ LiveParents(p) = {}
      /\ process_lock' = None
      /\ UNCHANGED <<limit, pid, ppid, zombie, next_pid, op, ptr, childPid, want, nohang, seq,
                     asleep, ticketq, ticket, stopped>>
  BY <1>0 DEF ExitUnlink, Goto, locals, waitq, TypeOK
<1>2. \A x \in Procs :
        /\ life'[x] = IF x = p THEN "DETACHED" ELSE life[x]
        /\ pc'[x] = IF x = p THEN "exitFree" ELSE pc[x]
  BY <1>0 DEF ExitUnlink, Goto, locals, waitq, TypeOK
<1>3. /\ process_lock = p /\ (\A x \in Procs : x # p => pc[x] \notin Locking)
      /\ p # Root /\ life[p] = "LISTED" /\ ~zombie[p] /\ ppid[p] = 0
      /\ \A x \in Procs : pc[x] \notin {"off", "exitFree"} => pid[x] # 0
  <2>1. /\ process_lock = p /\ (\A x \in Procs : x # p => pc[x] \notin Locking)
        /\ p # Root /\ life[p] = "LISTED" /\ ~zombie[p]
    BY <1>0, <1>1 DEF LockInv, Locking, RootInv, Gone, LifeInv
  <2>2. \A x \in Procs : pc[x] \notin {"off", "exitFree"} => pid[x] # 0
    BY <1>0 DEF LifeInv, PidInv
  <2>3. ppid[p] = 0
    <3> SUFFICES ASSUME ppid[p] # 0 PROVE FALSE
      OBVIOUS
    <3>1. PICK r \in Listed \ {p} : pid[r] = ppid[p] /\ ~zombie[r]
      BY <1>0, <2>1 DEF ParentInv, Listed
    <3>2. r \in LiveParents(p)
      BY <3>1 DEF LiveParents
    <3> QED
      BY <1>1, <3>2
  <2> QED
    BY <2>1, <2>2, <2>3
<1>4. TypeOK'
  <2>1. life' \in [Procs -> {"FREE", "NEW", "LISTED", "DETACHED"}]
    BY <1>0, <1>1, <1>3 DEF ExitUnlink, Goto, locals, waitq, TypeOK
  <2>2. process_lock' \in Procs \cup {None}
    BY <1>0, <1>1, <1>3 DEF ExitUnlink, Goto, locals, waitq, TypeOK
  <2>3. pc' \in [Procs -> Locations]
    BY <1>0, <1>1, <1>3 DEF ExitUnlink, Goto, locals, waitq, TypeOK, Locations
  <2> QED
    BY <1>0, <1>1, <2>1, <2>2, <2>3 DEF TypeOK
<1>5. RootInv'
  BY <1>0, <1>1, <1>2, <1>3 DEF RootInv, Gone, Locking
<1>6. PidInv'
  BY <1>0, <1>1, <1>2, <1>3 DEF PidInv, TypeOK
<1>7. LifeInv'
  BY <1>0, <1>1, <1>2, <1>3 DEF LifeInv
<1>8. LockInv'
  BY <1>0, <1>1, <1>2, <1>3 DEF LockInv, Locking, Listed
<1>9. CreatorInv'
  BY <1>0, <1>1, <1>2, <1>3 DEF CreatorInv, Creating, Listed
<1>10. ChildInv'
  BY <1>0, <1>1, <1>2, <1>3 DEF ChildInv, CreatorInv, Creating, Listed, LifeInv
<1>11. ParentInv'
  BY <1>0, <1>1, <1>2, <1>3 DEF ParentInv, Gone, Locking, Listed
<1>12. ReaperInv'
  BY <1>0, <1>1, <1>2, <1>3 DEF ReaperInv, OneReaper
<1>13. SleepInv'
  BY <1>0, <1>1, <1>2, <1>3 DEF SleepInv, TypeOK
<1>14. WaitInv'
  <2>1. \A x \in Procs : pc'[x] \in {"waitSleep", "waitLoop"} =>
           pc[x] \in {"waitSleep", "waitLoop"} /\ Awaited(x) \subseteq Awaited(x)'
    BY <1>0, <1>1, <1>2, <1>3 DEF Awaited, Listed, LifeInv
  <2>2. \A x \in Procs : WillSleep(x)' => WillSleep(x) /\ life[x] = "LISTED"
    BY <1>0, <1>1, <1>2, <1>3 DEF WillSleep, SleepInv, LifeInv
  <2>3. \A x \in Procs : WillSleep(x)' => (WakeComing(x) => WakeComing(x)')
    BY <1>0, <1>1, <1>2, <1>3 DEF WakeComing
  <2>4. \A x \in Procs : WillSleep(x)' =>
               \A y \in Awaited(x)' : zombie'[y] => y \in Awaited(x) /\ zombie[y]
    BY <1>0, <1>1, <1>2, <1>3, <2>2 DEF Awaited, Listed
  <2> QED
    BY <1>0, <2>1, <2>2, <2>3, <2>4, WaitKept
<1> QED
  BY <1>4, <1>5, <1>6, <1>7, <1>8, <1>9, <1>10, <1>11, <1>12, <1>13, <1>14 DEF IInv

\* The process frees itself.
LEMMA ExitFreeStep ==
    ASSUME IInv, NEW p \in Procs, ExitFree(p)
    PROVE  IInv'
<1> USE ProcessAssumption
<1>0. /\ TypeOK /\ RootInv /\ PidInv /\ LifeInv /\ LockInv /\ CreatorInv /\ ChildInv /\ ParentInv
      /\ ReaperInv /\ SleepInv /\ WaitInv
  BY DEF IInv
<1>1. /\ pc[p] = "exitFree"
      /\ UNCHANGED <<limit, next_pid, process_lock, op, childPid, want, nohang, seq, asleep, ticketq,
                     ticket, stopped>>
  BY <1>0 DEF ExitFree, Goto, Release, waitq, TypeOK
<1>2. \A x \in Procs :
        /\ life'[x] = IF x = p THEN "FREE" ELSE life[x]
        /\ pid'[x] = IF x = p THEN 0 ELSE pid[x]
        /\ ppid'[x] = IF x = p THEN 0 ELSE ppid[x]
        /\ zombie'[x] <=> x # p /\ zombie[x]
        /\ pc'[x] = IF x = p THEN "off" ELSE pc[x]
        /\ ptr'[x] = IF x = p THEN None ELSE ptr[x]
  BY <1>0 DEF ExitFree, Goto, Release, waitq, TypeOK
<1>3. p # Root /\ life[p] = "DETACHED" /\ (\A x \in Procs : pc[x] = "waitFree" => ptr[x] # p)
  BY <1>0, <1>1 DEF RootInv, Gone, OneReaper, ReaperInv
<1>4. TypeOK'
  <2>1. life' \in [Procs -> {"FREE", "NEW", "LISTED", "DETACHED"}]
    BY <1>0, <1>1, <1>3 DEF ExitFree, Goto, Release, waitq, TypeOK
  <2>2. pid' \in [Procs -> 0..MaxPid]
    BY <1>0, <1>1, <1>3 DEF ExitFree, Goto, Release, waitq, TypeOK
  <2>3. ppid' \in [Procs -> 0..MaxPid]
    BY <1>0, <1>1, <1>3 DEF ExitFree, Goto, Release, waitq, TypeOK
  <2>4. zombie' \in [Procs -> BOOLEAN]
    BY <1>0, <1>1, <1>3 DEF ExitFree, Goto, Release, waitq, TypeOK
  <2>5. pc' \in [Procs -> Locations]
    BY <1>0, <1>1, <1>3 DEF ExitFree, Goto, Release, waitq, TypeOK, Locations
  <2>6. ptr' \in [Procs -> Procs \cup {None}]
    BY <1>0, <1>1, <1>3 DEF ExitFree, Goto, Release, waitq, TypeOK
  <2> QED
    BY <1>0, <1>1, <2>1, <2>2, <2>3, <2>4, <2>5, <2>6 DEF TypeOK
<1>5. RootInv'
  BY <1>0, <1>1, <1>2, <1>3 DEF RootInv, Gone, Locking
<1>6. PidInv'
  BY <1>0, <1>1, <1>2, <1>3 DEF PidInv, TypeOK
<1>7. LifeInv'
  BY <1>0, <1>1, <1>2, <1>3 DEF LifeInv
<1>8. LockInv'
  BY <1>0, <1>1, <1>2, <1>3 DEF LockInv, Locking, Listed
<1>9. CreatorInv'
  BY <1>0, <1>1, <1>2, <1>3 DEF CreatorInv, Creating, Listed
<1>10. ChildInv'
  BY <1>0, <1>1, <1>2, <1>3 DEF ChildInv, CreatorInv, Creating, Listed, LifeInv
<1>11. ParentInv'
  BY <1>0, <1>1, <1>2, <1>3 DEF ParentInv, Gone, Locking, Listed
<1>12. ReaperInv'
  BY <1>0, <1>1, <1>2, <1>3 DEF ReaperInv, OneReaper
<1>13. SleepInv'
  BY <1>0, <1>1, <1>2, <1>3 DEF SleepInv, TypeOK
<1>14. WaitInv'
  <2>1. \A x \in Procs : pc'[x] \in {"waitSleep", "waitLoop"} =>
           pc[x] \in {"waitSleep", "waitLoop"} /\ Awaited(x) \subseteq Awaited(x)'
    BY <1>0, <1>1, <1>2, <1>3 DEF Awaited, Listed, LifeInv
  <2>2. \A x \in Procs : WillSleep(x)' => WillSleep(x) /\ life[x] = "LISTED"
    BY <1>0, <1>1, <1>2, <1>3 DEF WillSleep, SleepInv, LifeInv
  <2>3. \A x \in Procs : WillSleep(x)' => (WakeComing(x) => WakeComing(x)')
    BY <1>0, <1>1, <1>2, <1>3 DEF WakeComing
  <2>4. \A x \in Procs : WillSleep(x)' =>
               \A y \in Awaited(x)' : zombie'[y] => y \in Awaited(x) /\ zombie[y]
    BY <1>0, <1>1, <1>2, <1>3, <2>2 DEF Awaited, Listed
  <2> QED
    BY <1>0, <2>1, <2>2, <2>3, <2>4, WaitKept
<1> QED
  BY <1>4, <1>5, <1>6, <1>7, <1>8, <1>9, <1>10, <1>11, <1>12, <1>13, <1>14 DEF IInv

\* wait4.
LEMMA WaitEnterStep ==
    ASSUME IInv, NEW p \in Procs, NEW w \in Wants, NEW n \in NoHang, WaitEnter(p, w, n)
    PROVE  IInv'
<1> USE ProcessAssumption
<1>0. /\ TypeOK /\ RootInv /\ PidInv /\ LifeInv /\ LockInv /\ CreatorInv /\ ChildInv /\ ParentInv
      /\ ReaperInv /\ SleepInv /\ WaitInv
  BY DEF IInv
<1>1. /\ pc[p] = "user"
      /\ asleep[p] = None
      /\ UNCHANGED <<limit, life, pid, ppid, zombie, next_pid, process_lock, op, ptr, childPid, seq,
                     asleep, stopped>>
  BY <1>0 DEF WaitEnter, Goto, WQ!Snapshot, pcb, TypeOK
<1>2. \A x \in Procs :
        /\ pc'[x] = IF x = p THEN "waitScan" ELSE pc[x]
        /\ want'[x] = IF x = p THEN w ELSE want[x]
        /\ ticketq'[x] = IF x = p THEN p ELSE ticketq[x]
        /\ ticket'[x] = IF x = p THEN seq[p] ELSE ticket[x]
  BY <1>0 DEF WaitEnter, Goto, WQ!Snapshot, pcb, TypeOK
<1>3. life[p] = "LISTED"
  BY <1>0, <1>1 DEF LifeInv, TypeOK
<1>4. TypeOK'
  <2>1. pc' \in [Procs -> Locations]
    BY <1>0, <1>1, <1>3 DEF WaitEnter, Goto, WQ!Snapshot, pcb, TypeOK, Locations
  <2>2. want' \in [Procs -> 0..MaxPid]
    BY <1>0, <1>1, <1>3 DEF WaitEnter, Goto, WQ!Snapshot, pcb, TypeOK
  <2>3. nohang' \in [Procs -> BOOLEAN]
    BY <1>0, <1>1, <1>3 DEF WaitEnter, Goto, WQ!Snapshot, pcb, TypeOK
  <2>4. ticketq' \in [Procs -> Procs \cup {None}]
    BY <1>0, <1>1, <1>3 DEF WaitEnter, Goto, WQ!Snapshot, pcb, TypeOK
  <2>5. ticket' \in [Procs -> Nat]
    BY <1>0, <1>1, <1>3 DEF WaitEnter, Goto, WQ!Snapshot, pcb, TypeOK
  <2> QED
    BY <1>0, <1>1, <2>1, <2>2, <2>3, <2>4, <2>5 DEF TypeOK
<1>5. RootInv'
  BY <1>0, <1>1, <1>2, <1>3 DEF RootInv, Gone, Locking
<1>6. PidInv'
  BY <1>0, <1>1, <1>2, <1>3 DEF PidInv, TypeOK
<1>7. LifeInv'
  BY <1>0, <1>1, <1>2, <1>3 DEF LifeInv
<1>8. LockInv'
  BY <1>0, <1>1, <1>2, <1>3 DEF LockInv, Locking, Listed
<1>9. CreatorInv'
  BY <1>0, <1>1, <1>2, <1>3 DEF CreatorInv, Creating, Listed
<1>10. ChildInv'
  BY <1>0, <1>1, <1>2, <1>3 DEF ChildInv, CreatorInv, Creating, Listed, LifeInv
<1>11. ParentInv'
  BY <1>0, <1>1, <1>2, <1>3 DEF ParentInv, Gone, Locking, Listed
<1>12. ReaperInv'
  BY <1>0, <1>1, <1>2, <1>3 DEF ReaperInv, OneReaper
<1>13. SleepInv'
  BY <1>0, <1>1, <1>2, <1>3 DEF SleepInv, TypeOK
<1>14. WaitInv'
  <2>1. \A x \in Procs : pc'[x] \in {"waitSleep", "waitLoop"} =>
           pc[x] \in {"waitSleep", "waitLoop"} /\ Awaited(x) \subseteq Awaited(x)'
    BY <1>0, <1>1, <1>2, <1>3 DEF Awaited, Listed, LifeInv
  <2>2. \A x \in Procs : WillSleep(x)' => WillSleep(x) /\ life[x] = "LISTED" /\ x # p
    BY <1>0, <1>1, <1>2, <1>3 DEF WillSleep, SleepInv, LifeInv
  <2>3. \A x \in Procs : WillSleep(x)' => (WakeComing(x) => WakeComing(x)')
    BY <1>0, <1>1, <1>2, <1>3 DEF WakeComing
  <2>4. \A x \in Procs : WillSleep(x)' =>
               \A y \in Awaited(x)' : zombie'[y] => y \in Awaited(x) /\ zombie[y]
    BY <1>0, <1>1, <1>2, <1>3, <2>2 DEF Awaited, Listed
  <2> QED
    BY <1>0, <2>1, <2>2, <2>3, <2>4, WaitKept
<1> QED
  BY <1>4, <1>5, <1>6, <1>7, <1>8, <1>9, <1>10, <1>11, <1>12, <1>13, <1>14 DEF IInv

\* process_wait_child takes a zombie: only its parent does.
LEMMA WaitFoundStep ==
    ASSUME IInv, NEW p \in Procs, NEW q \in Awaited(p), Unlocked, WaitFound(p, q)
    PROVE  IInv'
<1> USE ProcessAssumption
<1>0. /\ TypeOK /\ RootInv /\ PidInv /\ LifeInv /\ LockInv /\ CreatorInv /\ ChildInv /\ ParentInv
      /\ ReaperInv /\ SleepInv /\ WaitInv
  BY DEF IInv
<1>1. /\ pc[p] = "waitScan"
      /\ zombie[q]
      /\ UNCHANGED <<limit, pid, ppid, zombie, next_pid, process_lock, op, childPid, want, nohang,
                     seq, asleep, ticketq, ticket, stopped>>
  BY <1>0 DEF WaitFound, Goto, waitq, TypeOK
<1>2. \A x \in Procs :
        /\ life'[x] = IF x = q THEN "DETACHED" ELSE life[x]
        /\ pc'[x] = IF x = p THEN "waitFree" ELSE pc[x]
        /\ ptr'[x] = IF x = p THEN q ELSE ptr[x]
  BY <1>0 DEF WaitFound, Goto, waitq, TypeOK
<1>3. /\ q \in Procs /\ life[q] = "LISTED" /\ ppid[q] = pid[p] /\ pc[q] = "off" /\ q # Root /\ q # p
      /\ process_lock = None /\ (\A x \in Procs : pc[x] \notin Locking)
      /\ \A x \in Procs : pid[x] = pid[p] => x = p
  BY <1>0, <1>1 DEF PidInv, Awaited, Listed, LifeInv, LockInv, Locking, RootInv, Unlocked
<1>4. TypeOK'
  <2>1. life' \in [Procs -> {"FREE", "NEW", "LISTED", "DETACHED"}]
    BY <1>0, <1>1, <1>3 DEF WaitFound, Goto, waitq, TypeOK
  <2>2. pc' \in [Procs -> Locations]
    BY <1>0, <1>1, <1>3 DEF WaitFound, Goto, waitq, TypeOK, Locations
  <2>3. ptr' \in [Procs -> Procs \cup {None}]
    BY <1>0, <1>1, <1>3 DEF WaitFound, Goto, waitq, TypeOK
  <2> QED
    BY <1>0, <1>1, <2>1, <2>2, <2>3 DEF TypeOK
<1>5. RootInv'
  BY <1>0, <1>1, <1>2, <1>3 DEF RootInv, Gone, Locking
<1>6. PidInv'
  BY <1>0, <1>1, <1>2, <1>3 DEF PidInv, TypeOK
<1>7. LifeInv'
  BY <1>0, <1>1, <1>2, <1>3 DEF LifeInv
<1>8. LockInv'
  BY <1>0, <1>1, <1>2, <1>3 DEF LockInv, Locking, Listed
<1>9. CreatorInv'
  BY <1>0, <1>1, <1>2, <1>3 DEF CreatorInv, Creating, Listed
<1>10. ChildInv'
  BY <1>0, <1>1, <1>2, <1>3 DEF ChildInv, CreatorInv, Creating, Listed, LifeInv
<1>11. ParentInv'
  BY <1>0, <1>1, <1>2, <1>3 DEF ParentInv, Gone, Locking, Listed
<1>12. ReaperInv'
  BY <1>0, <1>1, <1>2, <1>3 DEF ReaperInv, OneReaper
<1>13. SleepInv'
  BY <1>0, <1>1, <1>2, <1>3 DEF SleepInv, TypeOK
<1>14. WaitInv'
  <2>1. \A x \in Procs : pc'[x] \in {"waitSleep", "waitLoop"} =>
           pc[x] \in {"waitSleep", "waitLoop"} /\ Awaited(x) \subseteq Awaited(x)'
    BY <1>0, <1>1, <1>2, <1>3 DEF Awaited, Listed, LifeInv
  <2>2. \A x \in Procs : WillSleep(x)' => WillSleep(x) /\ life[x] = "LISTED"
    BY <1>0, <1>1, <1>2, <1>3 DEF WillSleep, SleepInv, LifeInv
  <2>3. \A x \in Procs : WillSleep(x)' => (WakeComing(x) => WakeComing(x)')
    BY <1>0, <1>1, <1>2, <1>3 DEF WakeComing
  <2>4. \A x \in Procs : WillSleep(x)' =>
               \A y \in Awaited(x)' : zombie'[y] => y \in Awaited(x) /\ zombie[y]
    BY <1>0, <1>1, <1>2, <1>3, <2>2 DEF Awaited, Listed
  <2> QED
    BY <1>0, <2>1, <2>2, <2>3, <2>4, WaitKept
<1> QED
  BY <1>4, <1>5, <1>6, <1>7, <1>8, <1>9, <1>10, <1>11, <1>12, <1>13, <1>14 DEF IInv

\* The parent frees the zombie it took.
LEMMA WaitFreeStep ==
    ASSUME IInv, NEW p \in Procs, WaitFree(p)
    PROVE  IInv'
<1> USE ProcessAssumption
<1>0. /\ TypeOK /\ RootInv /\ PidInv /\ LifeInv /\ LockInv /\ CreatorInv /\ ChildInv /\ ParentInv
      /\ ReaperInv /\ SleepInv /\ WaitInv
  BY DEF IInv
<1>1. /\ pc[p] = "waitFree"
      /\ asleep[p] = None
      /\ UNCHANGED <<limit, next_pid, process_lock, op, childPid, seq, asleep, stopped>>
  BY <1>0 DEF WaitFree, Goto, Release, ForgetWait, WQ!Fresh, TypeOK
<1>2. \A x \in Procs :
        /\ life'[x] = IF x = ptr[p] THEN "FREE" ELSE life[x]
        /\ pid'[x] = IF x = ptr[p] THEN 0 ELSE pid[x]
        /\ ppid'[x] = IF x = ptr[p] THEN 0 ELSE ppid[x]
        /\ zombie'[x] <=> x # ptr[p] /\ zombie[x]
        /\ pc'[x] = IF x = p THEN "user" ELSE pc[x]
        /\ ptr'[x] = IF x = p THEN None ELSE ptr[x]
        /\ want'[x] = IF x = p THEN 0 ELSE want[x]
        /\ ticketq'[x] = IF x = p THEN None ELSE ticketq[x]
        /\ ticket'[x] = IF x = p THEN 0 ELSE ticket[x]
  BY <1>0 DEF WaitFree, Goto, Release, ForgetWait, WQ!Fresh, TypeOK
<1>3. /\ ptr[p] \in Procs /\ life[ptr[p]] = "DETACHED" /\ pc[ptr[p]] = "off" /\ ptr[p] # Root
      /\ \A x \in Procs : pc[x] = "waitFree" /\ x # p => ptr[x] # ptr[p]
  BY <1>0, <1>1 DEF RootInv, OneReaper, ReaperInv
<1>4. TypeOK'
  <2>1. life' \in [Procs -> {"FREE", "NEW", "LISTED", "DETACHED"}]
    BY <1>0, <1>1, <1>3 DEF WaitFree, Goto, Release, ForgetWait, WQ!Fresh, TypeOK
  <2>2. pid' \in [Procs -> 0..MaxPid]
    BY <1>0, <1>1, <1>3 DEF WaitFree, Goto, Release, ForgetWait, WQ!Fresh, TypeOK
  <2>3. ppid' \in [Procs -> 0..MaxPid]
    BY <1>0, <1>1, <1>3 DEF WaitFree, Goto, Release, ForgetWait, WQ!Fresh, TypeOK
  <2>4. zombie' \in [Procs -> BOOLEAN]
    BY <1>0, <1>1, <1>3 DEF WaitFree, Goto, Release, ForgetWait, WQ!Fresh, TypeOK
  <2>5. pc' \in [Procs -> Locations]
    BY <1>0, <1>1, <1>3 DEF WaitFree, Goto, Release, ForgetWait, WQ!Fresh, TypeOK, Locations
  <2>6. ptr' \in [Procs -> Procs \cup {None}]
    BY <1>0, <1>1, <1>3 DEF WaitFree, Goto, Release, ForgetWait, WQ!Fresh, TypeOK
  <2>7. want' \in [Procs -> 0..MaxPid]
    BY <1>0, <1>1, <1>3 DEF WaitFree, Goto, Release, ForgetWait, WQ!Fresh, TypeOK
  <2>8. nohang' \in [Procs -> BOOLEAN]
    BY <1>0, <1>1, <1>3 DEF WaitFree, Goto, Release, ForgetWait, WQ!Fresh, TypeOK
  <2>9. ticketq' \in [Procs -> Procs \cup {None}]
    BY <1>0, <1>1, <1>3 DEF WaitFree, Goto, Release, ForgetWait, WQ!Fresh, TypeOK
  <2>10. ticket' \in [Procs -> Nat]
    BY <1>0, <1>1, <1>3 DEF WaitFree, Goto, Release, ForgetWait, WQ!Fresh, TypeOK
  <2> QED
    BY <1>0, <1>1, <2>1, <2>2, <2>3, <2>4, <2>5, <2>6, <2>7, <2>8, <2>9, <2>10 DEF TypeOK
<1>5. RootInv'
  BY <1>0, <1>1, <1>2, <1>3 DEF RootInv, Gone, Locking
<1>6. PidInv'
  BY <1>0, <1>1, <1>2, <1>3 DEF PidInv, TypeOK
<1>7. LifeInv'
  BY <1>0, <1>1, <1>2, <1>3 DEF LifeInv
<1>8. LockInv'
  BY <1>0, <1>1, <1>2, <1>3 DEF LockInv, Locking, Listed
<1>9. CreatorInv'
  BY <1>0, <1>1, <1>2, <1>3 DEF CreatorInv, Creating, Listed
<1>10. ChildInv'
  BY <1>0, <1>1, <1>2, <1>3 DEF ChildInv, CreatorInv, Creating, Listed, LifeInv
<1>11. ParentInv'
  BY <1>0, <1>1, <1>2, <1>3 DEF ParentInv, Gone, Locking, Listed
<1>12. ReaperInv'
  BY <1>0, <1>1, <1>2, <1>3 DEF ReaperInv, OneReaper
<1>13. SleepInv'
  BY <1>0, <1>1, <1>2, <1>3 DEF SleepInv, TypeOK
<1>14. WaitInv'
  <2>1. \A x \in Procs : pc'[x] \in {"waitSleep", "waitLoop"} =>
           pc[x] \in {"waitSleep", "waitLoop"} /\ Awaited(x) \subseteq Awaited(x)'
    BY <1>0, <1>1, <1>2, <1>3 DEF Awaited, Listed, LifeInv
  <2>2. \A x \in Procs : WillSleep(x)' => WillSleep(x) /\ life[x] = "LISTED" /\ x # p
    BY <1>0, <1>1, <1>2, <1>3 DEF WillSleep, SleepInv, LifeInv
  <2>3. \A x \in Procs : WillSleep(x)' => (WakeComing(x) => WakeComing(x)')
    BY <1>0, <1>1, <1>2, <1>3 DEF WakeComing
  <2>4. \A x \in Procs : WillSleep(x)' =>
               \A y \in Awaited(x)' : zombie'[y] => y \in Awaited(x) /\ zombie[y]
    BY <1>0, <1>1, <1>2, <1>3, <2>2 DEF Awaited, Listed
  <2> QED
    BY <1>0, <2>1, <2>2, <2>3, <2>4, WaitKept
<1> QED
  BY <1>4, <1>5, <1>6, <1>7, <1>8, <1>9, <1>10, <1>11, <1>12, <1>13, <1>14 DEF IInv

\* scheduler_wait.
LEMMA WaitSleepStep ==
    ASSUME IInv, NEW p \in Procs, WaitSleep(p)
    PROVE  IInv'
<1> USE ProcessAssumption
<1>0. /\ TypeOK /\ RootInv /\ PidInv /\ LifeInv /\ LockInv /\ CreatorInv /\ ChildInv /\ ParentInv
      /\ ReaperInv /\ SleepInv /\ WaitInv
  BY DEF IInv
<1>1. /\ pc[p] = "waitSleep"
      /\ asleep'[p] # None => asleep[p] # None \/ (asleep'[p] = ticketq[p] /\ ticketq[p] # None /\ ticket[p] = seq[ticketq[p]])
      /\ UNCHANGED <<limit, life, pid, ppid, zombie, next_pid, process_lock, op, ptr, childPid, want,
                     nohang, seq, ticketq, ticket, stopped>>
  BY <1>0 DEF WaitSleep, Goto, WQ!Sleep, WQ!TicketValid, pcb, locals, waitq, TypeOK
<1>2. \A x \in Procs :
        /\ pc'[x] = IF x = p THEN "waitLoop" ELSE pc[x]
        /\ asleep'[x] = IF x = p THEN asleep'[p] ELSE asleep[x]
  BY <1>0 DEF WaitSleep, Goto, WQ!Sleep, WQ!TicketValid, pcb, locals, waitq, TypeOK
<1>3. life[p] = "LISTED"
  BY <1>0, <1>1 DEF LifeInv, TypeOK
<1>4. TypeOK'
  <2>1. pc' \in [Procs -> Locations]
    BY <1>0, <1>1, <1>3 DEF WaitSleep, Goto, WQ!Sleep, WQ!TicketValid, pcb, locals, waitq, TypeOK, Locations
  <2>2. asleep' \in [Procs -> Procs \cup {None}]
    BY <1>0, <1>1, <1>3 DEF WaitSleep, Goto, WQ!Sleep, WQ!TicketValid, pcb, locals, waitq, TypeOK
  <2> QED
    BY <1>0, <1>1, <2>1, <2>2 DEF TypeOK
<1>5. RootInv'
  BY <1>0, <1>1, <1>2, <1>3 DEF RootInv, Gone, Locking
<1>6. PidInv'
  BY <1>0, <1>1, <1>2, <1>3 DEF PidInv, TypeOK
<1>7. LifeInv'
  BY <1>0, <1>1, <1>2, <1>3 DEF LifeInv
<1>8. LockInv'
  BY <1>0, <1>1, <1>2, <1>3 DEF LockInv, Locking, Listed
<1>9. CreatorInv'
  BY <1>0, <1>1, <1>2, <1>3 DEF CreatorInv, Creating, Listed
<1>10. ChildInv'
  BY <1>0, <1>1, <1>2, <1>3 DEF ChildInv, CreatorInv, Creating, Listed, LifeInv
<1>11. ParentInv'
  BY <1>0, <1>1, <1>2, <1>3 DEF ParentInv, Gone, Locking, Listed
<1>12. ReaperInv'
  BY <1>0, <1>1, <1>2, <1>3 DEF ReaperInv, OneReaper
<1>13. SleepInv'
  BY <1>0, <1>1, <1>2, <1>3 DEF SleepInv, TypeOK
<1>14. WaitInv'
  <2>1. \A x \in Procs : pc'[x] \in {"waitSleep", "waitLoop"} =>
           pc[x] \in {"waitSleep", "waitLoop"} /\ Awaited(x) \subseteq Awaited(x)'
    BY <1>0, <1>1, <1>2, <1>3 DEF Awaited, Listed, LifeInv
  <2>2. \A x \in Procs : WillSleep(x)' => WillSleep(x) /\ life[x] = "LISTED"
    BY <1>0, <1>1, <1>2, <1>3 DEF WillSleep, SleepInv, LifeInv
  <2>3. \A x \in Procs : WillSleep(x)' => (WakeComing(x) => WakeComing(x)')
    BY <1>0, <1>1, <1>2, <1>3 DEF WakeComing
  <2>4. \A x \in Procs : WillSleep(x)' =>
               \A y \in Awaited(x)' : zombie'[y] => y \in Awaited(x) /\ zombie[y]
    BY <1>0, <1>1, <1>2, <1>3, <2>2 DEF Awaited, Listed
  <2> QED
    BY <1>0, <2>1, <2>2, <2>3, <2>4, WaitKept
<1> QED
  BY <1>4, <1>5, <1>6, <1>7, <1>8, <1>9, <1>10, <1>11, <1>12, <1>13, <1>14 DEF IInv

\* The next turn of the loop.
LEMMA WaitAgainStep ==
    ASSUME IInv, NEW p \in Procs, WaitAgain(p)
    PROVE  IInv'
<1> USE ProcessAssumption
<1>0. /\ TypeOK /\ RootInv /\ PidInv /\ LifeInv /\ LockInv /\ CreatorInv /\ ChildInv /\ ParentInv
      /\ ReaperInv /\ SleepInv /\ WaitInv
  BY DEF IInv
<1>1. /\ pc[p] = "waitLoop"
      /\ asleep[p] = None
      /\ UNCHANGED <<limit, life, pid, ppid, zombie, next_pid, process_lock, op, ptr, childPid, want,
                     nohang, seq, asleep, stopped>>
  BY <1>0 DEF WaitAgain, Goto, WQ!Snapshot, pcb, locals, TypeOK
<1>2. \A x \in Procs :
        /\ pc'[x] = IF x = p THEN "waitScan" ELSE pc[x]
        /\ ticketq'[x] = IF x = p THEN p ELSE ticketq[x]
        /\ ticket'[x] = IF x = p THEN seq[p] ELSE ticket[x]
  BY <1>0 DEF WaitAgain, Goto, WQ!Snapshot, pcb, locals, TypeOK
<1>3. life[p] = "LISTED"
  BY <1>0, <1>1 DEF LifeInv, TypeOK
<1>4. TypeOK'
  <2>1. pc' \in [Procs -> Locations]
    BY <1>0, <1>1, <1>3 DEF WaitAgain, Goto, WQ!Snapshot, pcb, locals, TypeOK, Locations
  <2>2. ticketq' \in [Procs -> Procs \cup {None}]
    BY <1>0, <1>1, <1>3 DEF WaitAgain, Goto, WQ!Snapshot, pcb, locals, TypeOK
  <2>3. ticket' \in [Procs -> Nat]
    BY <1>0, <1>1, <1>3 DEF WaitAgain, Goto, WQ!Snapshot, pcb, locals, TypeOK
  <2> QED
    BY <1>0, <1>1, <2>1, <2>2, <2>3 DEF TypeOK
<1>5. RootInv'
  BY <1>0, <1>1, <1>2, <1>3 DEF RootInv, Gone, Locking
<1>6. PidInv'
  BY <1>0, <1>1, <1>2, <1>3 DEF PidInv, TypeOK
<1>7. LifeInv'
  BY <1>0, <1>1, <1>2, <1>3 DEF LifeInv
<1>8. LockInv'
  BY <1>0, <1>1, <1>2, <1>3 DEF LockInv, Locking, Listed
<1>9. CreatorInv'
  BY <1>0, <1>1, <1>2, <1>3 DEF CreatorInv, Creating, Listed
<1>10. ChildInv'
  BY <1>0, <1>1, <1>2, <1>3 DEF ChildInv, CreatorInv, Creating, Listed, LifeInv
<1>11. ParentInv'
  BY <1>0, <1>1, <1>2, <1>3 DEF ParentInv, Gone, Locking, Listed
<1>12. ReaperInv'
  BY <1>0, <1>1, <1>2, <1>3 DEF ReaperInv, OneReaper
<1>13. SleepInv'
  BY <1>0, <1>1, <1>2, <1>3 DEF SleepInv, TypeOK
<1>14. WaitInv'
  <2>1. \A x \in Procs : pc'[x] \in {"waitSleep", "waitLoop"} =>
           pc[x] \in {"waitSleep", "waitLoop"} /\ Awaited(x) \subseteq Awaited(x)'
    BY <1>0, <1>1, <1>2, <1>3 DEF Awaited, Listed, LifeInv
  <2>2. \A x \in Procs : WillSleep(x)' => WillSleep(x) /\ life[x] = "LISTED"
    BY <1>0, <1>1, <1>2, <1>3 DEF WillSleep, SleepInv, LifeInv
  <2>3. \A x \in Procs : WillSleep(x)' => (WakeComing(x) => WakeComing(x)')
    BY <1>0, <1>1, <1>2, <1>3 DEF WakeComing
  <2>4. \A x \in Procs : WillSleep(x)' =>
               \A y \in Awaited(x)' : zombie'[y] => y \in Awaited(x) /\ zombie[y]
    BY <1>0, <1>1, <1>2, <1>3, <2>2 DEF Awaited, Listed
  <2> QED
    BY <1>0, <2>1, <2>2, <2>3, <2>4, WaitKept
<1> QED
  BY <1>4, <1>5, <1>6, <1>7, <1>8, <1>9, <1>10, <1>11, <1>12, <1>13, <1>14 DEF IInv

\* exit; that of pid 1 is the panic.
LEMMA ExitBeginStep ==
    ASSUME IInv, NEW p \in Procs, pid[p] # 1, ExitBegin(p)
    PROVE  IInv'
<1> USE ProcessAssumption
<1>0. /\ TypeOK /\ RootInv /\ PidInv /\ LifeInv /\ LockInv /\ CreatorInv /\ ChildInv /\ ParentInv
      /\ ReaperInv /\ SleepInv /\ WaitInv
  BY DEF IInv
<1>1. /\ pc[p] = "user"
      /\ UNCHANGED <<limit, life, pid, ppid, zombie, next_pid, process_lock, op, ptr, childPid, want,
                     nohang, seq, asleep, ticketq, ticket, stopped>>
  BY <1>0 DEF ExitBegin, pcb, locals, waitq, TypeOK
<1>2. \A x \in Procs :
        /\ pc'[x] = IF x = p THEN "exitLock" ELSE pc[x]
  BY <1>0 DEF ExitBegin, pcb, locals, waitq, TypeOK
<1>3. p # Root
  BY <1>0, <1>1 DEF RootInv
<1>4. TypeOK'
  <2>1. pc' \in [Procs -> Locations]
    BY <1>0, <1>1, <1>3 DEF ExitBegin, pcb, locals, waitq, TypeOK, Locations
  <2> QED
    BY <1>0, <1>1, <2>1 DEF TypeOK
<1>5. RootInv'
  BY <1>0, <1>1, <1>2, <1>3 DEF RootInv, Gone, Locking
<1>6. PidInv'
  BY <1>0, <1>1, <1>2, <1>3 DEF PidInv, TypeOK
<1>7. LifeInv'
  BY <1>0, <1>1, <1>2, <1>3 DEF LifeInv
<1>8. LockInv'
  BY <1>0, <1>1, <1>2, <1>3 DEF LockInv, Locking, Listed
<1>9. CreatorInv'
  BY <1>0, <1>1, <1>2, <1>3 DEF CreatorInv, Creating, Listed
<1>10. ChildInv'
  BY <1>0, <1>1, <1>2, <1>3 DEF ChildInv, CreatorInv, Creating, Listed, LifeInv
<1>11. ParentInv'
  BY <1>0, <1>1, <1>2, <1>3 DEF ParentInv, Gone, Locking, Listed
<1>12. ReaperInv'
  BY <1>0, <1>1, <1>2, <1>3 DEF ReaperInv, OneReaper
<1>13. SleepInv'
  BY <1>0, <1>1, <1>2, <1>3 DEF SleepInv, TypeOK
<1>14. WaitInv'
  <2>1. \A x \in Procs : pc'[x] \in {"waitSleep", "waitLoop"} =>
           pc[x] \in {"waitSleep", "waitLoop"} /\ Awaited(x) \subseteq Awaited(x)'
    BY <1>0, <1>1, <1>2, <1>3 DEF Awaited, Listed, LifeInv
  <2>2. \A x \in Procs : WillSleep(x)' => WillSleep(x) /\ life[x] = "LISTED"
    BY <1>0, <1>1, <1>2, <1>3 DEF WillSleep, SleepInv, LifeInv
  <2>3. \A x \in Procs : WillSleep(x)' => (WakeComing(x) => WakeComing(x)')
    BY <1>0, <1>1, <1>2, <1>3 DEF WakeComing
  <2>4. \A x \in Procs : WillSleep(x)' =>
               \A y \in Awaited(x)' : zombie'[y] => y \in Awaited(x) /\ zombie[y]
    BY <1>0, <1>1, <1>2, <1>3, <2>2 DEF Awaited, Listed
  <2> QED
    BY <1>0, <2>1, <2>2, <2>3, <2>4, WaitKept
<1> QED
  BY <1>4, <1>5, <1>6, <1>7, <1>8, <1>9, <1>10, <1>11, <1>12, <1>13, <1>14 DEF IInv

\* The children of an exiting process go to init, and init is told if there are
\* zombies among them.
LEMMA ExitReparentStep ==
    ASSUME IInv, NEW p \in Procs, ExitReparent(p)
    PROVE  IInv'
<1> USE ProcessAssumption
<1>0. /\ TypeOK /\ RootInv /\ PidInv /\ LifeInv /\ LockInv /\ CreatorInv /\ ChildInv /\ ParentInv
      /\ ReaperInv /\ SleepInv /\ WaitInv
  BY DEF IInv
<1>1. /\ pc[p] = "exitLock" /\ process_lock = None /\ process_lock' = p
      /\ UNCHANGED <<limit, pid, zombie, next_pid, op, childPid, want, nohang, seq, asleep, ticketq,
                     ticket, stopped>>
  BY DEF ExitReparent, Goto, Unlocked, waitq
<1>2. /\ p # Root /\ life[p] = "LISTED" /\ ~zombie[p] /\ pid[p] # 0
      /\ \A x \in Procs : pc[x] \notin Locking
      /\ \A x \in Procs : pid[x] = pid[p] => x = p
  BY <1>0, <1>1 DEF RootInv, LifeInv, PidInv, LockInv
<1>3. LiveInit(p) = {Root}
  BY <1>0, <1>2 DEF LiveInit, Listed, RootInv, PidInv
<1>4. \A x \in Procs : x \in Children(p) <=> life[x] = "LISTED" /\ x # p /\ ppid[x] = pid[p]
  BY DEF Children, Listed
<1>5. \A x \in Procs : ppid'[x] = IF x \in Children(p) THEN 1 ELSE ppid[x]
  BY <1>3 DEF ExitReparent, PpidAfterExit
<1>6. life' = life
  <2>1. Orphans(p) = {}
    <3>1. \A x \in Procs : life[x] = "LISTED" /\ zombie[x] => PpidAfterExit(p)[x] # 0
      BY <1>0, <1>3 DEF PpidAfterExit, LifeInv
    <3> QED
      BY <3>1 DEF Orphans, Listed
  <2> QED
    BY <1>0, <2>1 DEF ExitReparent, TypeOK
<1>7. \/ /\ \A x \in Procs : pc'[x] = IF x = p THEN "exitWakeInit" ELSE pc[x]
         /\ \A x \in Procs : ptr'[x] = IF x = p THEN Root ELSE ptr[x]
      \/ /\ \A x \in Procs : pc'[x] = IF x = p THEN "exitNotify" ELSE pc[x]
         /\ ptr' = ptr
         /\ \A x \in Children(p) : ~zombie[x]
  BY <1>0, <1>3 DEF ExitReparent, Goto, TypeOK
<1>8. /\ \A x \in Procs : x # p => pc'[x] = pc[x] /\ ptr'[x] = ptr[x]
      /\ pc'[p] \in {"exitWakeInit", "exitNotify"}
      /\ pc'[p] = "exitWakeInit" => ptr'[p] = Root
  BY <1>7
<1>9. TypeOK'
  <2>1. ppid' \in [Procs -> 0..MaxPid]
    BY <1>0, <1>3 DEF ExitReparent, PpidAfterExit, TypeOK
  <2>2. pc' \in [Procs -> Locations]
    BY <1>0 DEF ExitReparent, Goto, TypeOK, Locations
  <2>3. ptr' \in [Procs -> Procs \cup {None}]
    BY <1>0, <1>3 DEF ExitReparent, TypeOK
  <2> QED
    BY <1>0, <1>1, <1>6, <2>1, <2>2, <2>3 DEF TypeOK
<1>10. RootInv'
  BY <1>0, <1>1, <1>2, <1>4, <1>5, <1>6, <1>8 DEF RootInv, Gone, Locking
<1>11. PidInv'
  BY <1>0, <1>1, <1>6 DEF PidInv
<1>12. LifeInv'
  BY <1>0, <1>1, <1>2, <1>5, <1>6, <1>8 DEF LifeInv
<1>13. LockInv'
  BY <1>0, <1>1, <1>2, <1>6, <1>8 DEF LockInv, Locking, Listed
<1>14. CreatorInv'
  BY <1>0, <1>1, <1>2, <1>6, <1>8 DEF CreatorInv, Creating, Listed
<1>15. ChildInv'
  <2> SUFFICES ASSUME NEW x \in Procs, pc'[x] \in {"cloneThread", "cloneEnqueue", "cloned"}
               PROVE  /\ op'[x] = "clone" =>
                            /\ ptr'[x] \in Procs
                            /\ pid'[ptr'[x]] = childPid'[x] /\ ppid'[ptr'[x]] = pid'[x] /\ childPid'[x] # 0
                            /\ pc'[x] # "cloneThread" => life'[ptr'[x]] = "LISTED"
                      /\ pc'[x] = "cloneThread" /\ op'[x] = "spawn" => ppid'[ptr'[x]] = 0
    BY DEF ChildInv
  <2>1. x # p /\ pc[x] = pc'[x] /\ ptr'[x] = ptr[x] /\ pid[x] # pid[p]
    BY <1>2, <1>8
  <2>2. op[x] = "clone" => ptr[x] \notin Children(p)
    BY <1>0, <1>4, <2>1 DEF ChildInv
  <2>3. pc[x] = "cloneThread" => ptr[x] \in Procs /\ ptr[x] \notin Children(p)
    BY <1>0, <1>4, <2>1 DEF CreatorInv
  <2> QED
    BY <1>0, <1>1, <1>5, <1>6, <2>1, <2>2, <2>3 DEF ChildInv
<1>16. ParentInv'
  <2> SUFFICES ASSUME NEW y \in Procs, life'[y] = "LISTED", ppid'[y] # 0
               PROVE  \E r \in Listed' \ {y} : pid'[r] = ppid'[y] /\ ~zombie'[r] /\ pc'[r] \notin Gone
    BY DEF ParentInv, Listed
  <2>1. CASE y \in Children(p)
    <3>1. y # Root
      BY <1>0, <1>2, <1>4, <2>1 DEF RootInv
    <3>2. Root \in Listed' \ {y} /\ pid'[Root] = ppid'[y] /\ ~zombie'[Root] /\ pc'[Root] \notin Gone
      BY <1>0, <1>1, <1>2, <1>5, <1>6, <1>8, <2>1, <3>1 DEF RootInv, Listed
    <3> QED
      BY <3>2
  <2>2. CASE y \notin Children(p)
    <3>1. PICK r \in Listed \ {y} : pid[r] = ppid[y] /\ ~zombie[r] /\ pc[r] \notin Gone
      BY <1>0, <1>5, <1>6, <2>2 DEF ParentInv, Listed
    <3>2. r # p
      BY <1>4, <1>6, <2>2, <3>1
    <3>3. r \in Listed' \ {y} /\ pid'[r] = ppid'[y] /\ ~zombie'[r] /\ pc'[r] \notin Gone
      BY <1>1, <1>5, <1>6, <1>8, <2>2, <3>1, <3>2 DEF Listed
    <3> QED
      BY <3>3
  <2> QED
    BY <2>1, <2>2
<1>17. ReaperInv'
  BY <1>0, <1>1, <1>6, <1>8 DEF ReaperInv, OneReaper
<1>18. SleepInv'
  BY <1>0, <1>1, <1>8 DEF SleepInv
<1>19. WaitInv'
  <2>1. \A x \in Procs : pc'[x] \in {"waitSleep", "waitLoop"} =>
           pc[x] \in {"waitSleep", "waitLoop"} /\ Awaited(x) \subseteq Awaited(x)'
    BY <1>1, <1>2, <1>4, <1>5, <1>6, <1>8 DEF Awaited, Listed
  <2>2. \A x \in Procs : WillSleep(x)' => WillSleep(x) /\ life[x] = "LISTED"
    BY <1>0, <1>1, <1>8 DEF WillSleep, SleepInv, LifeInv
  <2>3. \A x \in Procs : WakeComing(x) => WakeComing(x)'
    BY <1>2, <1>8 DEF WakeComing, Locking
  <2>4. \A x \in Procs : WillSleep(x)' =>
           \/ WakeComing(x)'
           \/ \A y \in Awaited(x)' : zombie'[y] => y \in Awaited(x) /\ zombie[y]
    <3> SUFFICES ASSUME NEW x \in Procs, WillSleep(x)',
                        NEW y \in Awaited(x)', zombie'[y], ~(y \in Awaited(x) /\ zombie[y])
                 PROVE  WakeComing(x)'
      OBVIOUS
    <3>1. y \in Procs /\ zombie[y] /\ y \in Children(p) /\ pid[x] = 1
      BY <1>1, <1>5, <1>6 DEF Awaited, Listed
    <3>2. x = Root
      BY <1>0, <3>1 DEF RootInv, PidInv
    <3>3. pc'[p] = "exitWakeInit" /\ ptr'[p] = Root
      BY <1>7, <3>1
    <3> QED
      BY <3>2, <3>3 DEF WakeComing
  <2> QED
    BY <1>0, <2>1, <2>2, <2>3, <2>4, WaitKept
<1> QED
  BY <1>9, <1>10, <1>11, <1>12, <1>13, <1>14, <1>15, <1>16, <1>17, <1>18, <1>19 DEF IInv

\* process_wait_child finds children and no zombie: on to scheduler_wait.
LEMMA WaitSleepsStep ==
    ASSUME IInv, NEW p \in Procs, Unlocked, WaitNotFound(p), ~(Awaited(p) = {} \/ nohang[p])
    PROVE  IInv'
<1> USE ProcessAssumption
<1>0. /\ TypeOK /\ RootInv /\ PidInv /\ LifeInv /\ LockInv /\ CreatorInv /\ ChildInv /\ ParentInv
      /\ ReaperInv /\ SleepInv /\ WaitInv
  BY DEF IInv
<1>1. /\ pc[p] = "waitScan"
      /\ Awaited(p) # {}
      /\ \A q \in Awaited(p) : ~zombie[q]
      /\ UNCHANGED <<limit, life, pid, ppid, zombie, next_pid, process_lock, op, ptr, childPid, want,
                     nohang, seq, asleep, ticketq, ticket, stopped>>
  BY <1>0 DEF WaitNotFound, Goto, pcb, waitq, TypeOK
<1>2. \A x \in Procs :
        /\ pc'[x] = IF x = p THEN "waitSleep" ELSE pc[x]
  BY <1>0 DEF WaitNotFound, Goto, pcb, waitq, TypeOK
<1>3. life[p] = "LISTED"
  BY <1>0, <1>1 DEF LifeInv
<1>4. TypeOK'
  <2>1. pc' \in [Procs -> Locations]
    BY <1>0, <1>1, <1>3 DEF WaitNotFound, Goto, pcb, waitq, TypeOK, Locations
  <2> QED
    BY <1>0, <1>1, <2>1 DEF TypeOK
<1>5. RootInv'
  BY <1>0, <1>1, <1>2, <1>3 DEF RootInv, Gone, Locking
<1>6. PidInv'
  BY <1>0, <1>1, <1>2, <1>3 DEF PidInv, TypeOK
<1>7. LifeInv'
  BY <1>0, <1>1, <1>2, <1>3 DEF LifeInv
<1>8. LockInv'
  BY <1>0, <1>1, <1>2, <1>3 DEF LockInv, Locking, Listed
<1>9. CreatorInv'
  BY <1>0, <1>1, <1>2, <1>3 DEF CreatorInv, Creating, Listed
<1>10. ChildInv'
  BY <1>0, <1>1, <1>2, <1>3 DEF ChildInv, CreatorInv, Creating, Listed, LifeInv
<1>11. ParentInv'
  BY <1>0, <1>1, <1>2, <1>3 DEF ParentInv, Gone, Locking, Listed
<1>12. ReaperInv'
  BY <1>0, <1>1, <1>2, <1>3 DEF ReaperInv, OneReaper
<1>13. SleepInv'
  BY <1>0, <1>1, <1>2, <1>3 DEF SleepInv, TypeOK
<1>14. WaitInv'
  <2>1. \A x \in Procs : Awaited(x)' = Awaited(x)
    BY <1>1 DEF Awaited, Listed
  <2>2. WakeComing(p)' \/ \A y \in Awaited(p)' : ~zombie'[y]
    BY <1>1, <2>1
  <2>3. \A x \in Procs : x # p => WillSleep(x)' = WillSleep(x) /\ WakeComing(x)' = WakeComing(x)
    BY <1>1, <1>2 DEF WillSleep, WakeComing
  <2> QED
    BY <1>0, <1>1, <1>2, <2>1, <2>2, <2>3 DEF WaitInv
<1> QED
  BY <1>4, <1>5, <1>6, <1>7, <1>8, <1>9, <1>10, <1>11, <1>12, <1>13, <1>14 DEF IInv

\* wait4 returns with nothing.
LEMMA WaitFailsStep ==
    ASSUME IInv, NEW p \in Procs, WaitNotFound(p), Awaited(p) = {} \/ nohang[p]
    PROVE  IInv'
<1> USE ProcessAssumption
<1>0. /\ TypeOK /\ RootInv /\ PidInv /\ LifeInv /\ LockInv /\ CreatorInv /\ ChildInv /\ ParentInv
      /\ ReaperInv /\ SleepInv /\ WaitInv
  BY DEF IInv
<1>1. /\ pc[p] = "waitScan"
      /\ asleep[p] = None
      /\ UNCHANGED <<limit, life, pid, ppid, zombie, next_pid, process_lock, op, ptr, childPid, seq,
                     asleep, stopped>>
  BY <1>0 DEF WaitNotFound, Goto, ForgetWait, WQ!Fresh, pcb, TypeOK
<1>2. \A x \in Procs :
        /\ pc'[x] = IF x = p THEN "user" ELSE pc[x]
        /\ want'[x] = IF x = p THEN 0 ELSE want[x]
        /\ ticketq'[x] = IF x = p THEN None ELSE ticketq[x]
        /\ ticket'[x] = IF x = p THEN 0 ELSE ticket[x]
  BY <1>0 DEF WaitNotFound, Goto, ForgetWait, WQ!Fresh, pcb, TypeOK
<1>3. life[p] = "LISTED"
  BY <1>0, <1>1 DEF LifeInv
<1>4. TypeOK'
  <2>1. pc' \in [Procs -> Locations]
    BY <1>0, <1>1, <1>3 DEF WaitNotFound, Goto, ForgetWait, WQ!Fresh, pcb, TypeOK, Locations
  <2>2. want' \in [Procs -> 0..MaxPid]
    BY <1>0, <1>1, <1>3 DEF WaitNotFound, Goto, ForgetWait, WQ!Fresh, pcb, TypeOK
  <2>3. nohang' \in [Procs -> BOOLEAN]
    <3>1. nohang' = [nohang EXCEPT ![p] = FALSE]
      BY DEF WaitNotFound, ForgetWait
    <3> QED
      BY <1>0, <3>1 DEF TypeOK
  <2>4. ticketq' \in [Procs -> Procs \cup {None}]
    BY <1>0, <1>1, <1>3 DEF WaitNotFound, Goto, ForgetWait, WQ!Fresh, pcb, TypeOK
  <2>5. ticket' \in [Procs -> Nat]
    BY <1>0, <1>1, <1>3 DEF WaitNotFound, Goto, ForgetWait, WQ!Fresh, pcb, TypeOK
  <2> QED
    BY <1>0, <1>1, <2>1, <2>2, <2>3, <2>4, <2>5 DEF TypeOK
<1>5. RootInv'
  BY <1>0, <1>1, <1>2, <1>3 DEF RootInv, Gone, Locking
<1>6. PidInv'
  BY <1>0, <1>1, <1>2, <1>3 DEF PidInv, TypeOK
<1>7. LifeInv'
  BY <1>0, <1>1, <1>2, <1>3 DEF LifeInv
<1>8. LockInv'
  BY <1>0, <1>1, <1>2, <1>3 DEF LockInv, Locking, Listed
<1>9. CreatorInv'
  BY <1>0, <1>1, <1>2, <1>3 DEF CreatorInv, Creating, Listed
<1>10. ChildInv'
  BY <1>0, <1>1, <1>2, <1>3 DEF ChildInv, CreatorInv, Creating, Listed, LifeInv
<1>11. ParentInv'
  BY <1>0, <1>1, <1>2, <1>3 DEF ParentInv, Gone, Locking, Listed
<1>12. ReaperInv'
  BY <1>0, <1>1, <1>2, <1>3 DEF ReaperInv, OneReaper
<1>13. SleepInv'
  BY <1>0, <1>1, <1>2, <1>3 DEF SleepInv, TypeOK
<1>14. WaitInv'
  <2>1. \A x \in Procs : pc'[x] \in {"waitSleep", "waitLoop"} =>
           pc[x] \in {"waitSleep", "waitLoop"} /\ Awaited(x) \subseteq Awaited(x)'
    BY <1>0, <1>1, <1>2, <1>3 DEF Awaited, Listed, LifeInv
  <2>2. \A x \in Procs : WillSleep(x)' => WillSleep(x) /\ life[x] = "LISTED" /\ x # p
    BY <1>0, <1>1, <1>2, <1>3 DEF WillSleep, SleepInv, LifeInv
  <2>3. \A x \in Procs : WillSleep(x)' => (WakeComing(x) => WakeComing(x)')
    BY <1>0, <1>1, <1>2, <1>3 DEF WakeComing
  <2>4. \A x \in Procs : WillSleep(x)' =>
               \A y \in Awaited(x)' : zombie'[y] => y \in Awaited(x) /\ zombie[y]
    BY <1>0, <1>1, <1>2, <1>3, <2>2 DEF Awaited, Listed
  <2> QED
    BY <1>0, <2>1, <2>2, <2>3, <2>4, WaitKept
<1> QED
  BY <1>4, <1>5, <1>6, <1>7, <1>8, <1>9, <1>10, <1>11, <1>12, <1>13, <1>14 DEF IInv

\* The exit of init changes nothing but the panic flag.
LEMMA InitExitStep == ASSUME IInv, NEW p \in Procs, pid[p] = 1, ExitBegin(p) PROVE IInv'
<1>1. UNCHANGED <<limit, life, pid, ppid, zombie, next_pid, process_lock, pc, op, ptr, childPid, want,
                  nohang, seq, asleep, ticketq, ticket>> /\ stopped' \in BOOLEAN
  BY DEF ExitBegin, WQ!Stop, pcb, locals
<1>2. TypeOK'
  BY <1>1 DEF IInv, TypeOK
<1> QED
  BY <1>1, <1>2 DEF IInv, RootInv, PidInv, LifeInv, LockInv, CreatorInv, ChildInv, ParentInv, ReaperInv,
                    OneReaper, SleepInv, WaitInv, WillSleep, WakeComing, Awaited, Listed

LEMMA InitIInv == Init => IInv
<1> SUFFICES ASSUME Init PROVE IInv
  OBVIOUS
<1> USE ProcessAssumption
<1>1. TypeOK
  <2>1. limit \in Limits /\ next_pid \in 2..(MaxPid + 1) /\ process_lock \in Procs \cup {None}
    BY DEF Init
  <2>2. /\ life \in [Procs -> {"FREE", "NEW", "LISTED", "DETACHED"}]
        /\ pc \in [Procs -> Locations]
    BY DEF Init, Locations
  <2>3. /\ pid \in [Procs -> 0..MaxPid] /\ ppid \in [Procs -> 0..MaxPid]
        /\ childPid \in [Procs -> 0..MaxPid] /\ want \in [Procs -> 0..MaxPid]
    BY DEF Init
  <2>4. zombie \in [Procs -> BOOLEAN] /\ nohang \in [Procs -> BOOLEAN]
    BY DEF Init
  <2>5. op \in [Procs -> {"clone", "spawn"}] /\ ptr \in [Procs -> Procs \cup {None}]
    BY DEF Init
  <2>6. /\ seq \in [Procs -> Nat] /\ ticket \in [Procs -> Nat] /\ stopped \in BOOLEAN
        /\ asleep \in [Procs -> Procs \cup {None}] /\ ticketq \in [Procs -> Procs \cup {None}]
    BY DEF Init, WQ!Init
  <2> QED
    BY <2>1, <2>2, <2>3, <2>4, <2>5, <2>6 DEF TypeOK
<1>2. /\ \A x \in Procs : /\ life[x] = IF x = Root THEN "LISTED" ELSE "FREE"
                          /\ pid[x] = IF x = Root THEN 1 ELSE 0
                          /\ pc[x] = IF x = Root THEN "user" ELSE "off"
                          /\ ppid[x] = 0 /\ ~zombie[x]
                          /\ asleep[x] = None /\ ticketq[x] = None
      /\ process_lock = None /\ next_pid = 2
  BY DEF Init, WQ!Init
<1>3. RootInv /\ PidInv /\ LifeInv /\ LockInv
  BY <1>2 DEF RootInv, Gone, Locking, PidInv, LifeInv, LockInv
<1>4. CreatorInv /\ ChildInv /\ ParentInv /\ ReaperInv
  BY <1>2 DEF CreatorInv, Creating, ChildInv, ParentInv, Listed, ReaperInv, OneReaper
<1>5. SleepInv /\ WaitInv
  BY <1>2 DEF SleepInv, WaitInv, WillSleep
<1> QED
  BY <1>1, <1>3, <1>4, <1>5 DEF IInv

LEMMA NextIInv == IInv /\ [Next]_vars => IInv'
<1> SUFFICES ASSUME IInv, [Next]_vars PROVE IInv'
  OBVIOUS
<1>1. CASE UNCHANGED vars
  <2>1. UNCHANGED <<limit, life, pid, ppid, zombie, next_pid, process_lock, pc, op, ptr, childPid, want,
                    nohang, seq, asleep, ticketq, ticket, stopped>>
    BY <1>1 DEF vars, pcb, locals, waitq
  <2>2. TypeOK'
    BY <2>1 DEF IInv, TypeOK
  <2> QED
    BY <2>1, <2>2 DEF IInv, RootInv, PidInv, LifeInv, LockInv, CreatorInv, ChildInv, ParentInv,
                      ReaperInv, OneReaper, SleepInv, WaitInv, WillSleep, WakeComing, Awaited, Listed
<1>2. ASSUME NEW p \in Procs, UserStep(p) PROVE IInv'
  BY <1>2, CloneAllocStep, ExitBeginStep, InitExitStep, WaitEnterStep DEF UserStep
<1>3. ASSUME NEW p \in Procs, WaitScan(p) PROVE IInv'
  BY <1>3, WaitSleepsStep, WaitFailsStep, WaitFoundStep DEF WaitScan
<1>4. ASSUME NEW p \in Procs, ExitZombie(p) PROVE IInv'
  <2>1. PICK q \in LiveParents(p) : ptr' = [ptr EXCEPT ![p] = q]
    BY <1>4 DEF ExitZombie
  <2> QED
    BY <1>4, <2>1, ExitZombieStep
<1>5. ASSUME NEW p \in Procs, KernelStep(p) PROVE IInv'
  BY <1>3, <1>4, <1>5, ClonePidStep, CloneFailsStep, CloneRegisterStep, CloneEnqueueStep,
     CloneReturnStep, ExitReparentStep, ExitWakeInitStep, ExitWakeStep, ExitUnlinkStep, ExitFreeStep,
     WaitFreeStep, WaitSleepStep, WaitAgainStep DEF KernelStep
<1> QED
  BY <1>1, <1>2, <1>5 DEF Next

LEMMA InductiveInvariant == Spec => []IInv
  BY InitIInv, NextIInv, PTL DEF Spec

-----------------------------------------------------------------------------
(* What follows. *)

\* Every variable holds what its C declaration allows; pids stay within the
\* counter and pointers within memory.
THEOREM TypeCorrect == Spec => []TypeOK
<1>1. IInv => TypeOK
  BY DEF IInv
<1> QED
  BY <1>1, InductiveInvariant, PTL

\* do_clone may read the child's process_t after scheduler_enqueue: until it
\* returns nobody reaps, frees or reparents the child, however far it got.
THEOREM ChildStays == Spec => []ForkedChildStays
<1>1. IInv => ForkedChildStays
  BY DEF IInv, ChildInv, ForkedChildStays
<1> QED
  BY <1>1, InductiveInvariant, PTL

\* Each process_t taken off process_list is freed by exactly one thread, in wait4
\* or in process_terminate.
THEOREM ReapedOnce == Spec => []OneReaper
<1>1. IInv => OneReaper
  BY DEF IInv, ReaperInv
<1> QED
  BY <1>1, InductiveInvariant, PTL

\* No zombie is left behind: process_terminate hands the children on in the
\* critical section in which it gives up waiting for them.
THEOREM ZombieIsReapable == Spec => []ZombieHasLiveParent
<1>1. IInv => ZombieHasLiveParent
  BY DEF IInv, LifeInv, ParentInv, ZombieHasLiveParent, Listed
<1> QED
  BY <1>1, InductiveInvariant, PTL

\* wait4 sleeps through no exit and no inherited zombie, whatever runs between
\* its ticket, its look at the list and its falling asleep.
THEOREM NothingSleptThrough == Spec => []SleeperMissedNothing
<1>1. IInv => SleeperMissedNothing
  <2> SUFFICES ASSUME IInv, Unlocked, NEW p \in Procs, asleep[p] # None
               PROVE  Awaited(p) # {} /\ \A q \in Awaited(p) : ~zombie[q]
    BY DEF SleeperMissedNothing
  <2>1. ~WakeComing(p)
    BY ProcessAssumption DEF IInv, LockInv, Locking, Unlocked, WakeComing
  <2>2. pc[p] = "waitLoop" /\ WillSleep(p)
    BY DEF IInv, SleepInv, WillSleep
  <2> QED
    BY <2>1, <2>2 DEF IInv, WaitInv
<1> QED
  BY <1>1, InductiveInvariant, PTL
=============================================================================
