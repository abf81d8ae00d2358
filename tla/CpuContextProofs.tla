--------------------------- MODULE CpuContextProofs ---------------------------
(***************************************************************************)
(* The three invariants of CpuContext for any number of CPUs, threads,     *)
(* page tables and pages.                                                  *)
(*                                                                         *)
(* None of them is inductive: a switch loads what it finds in a thread     *)
(* that does not run, a fork and an execve what they find in a table that  *)
(* nobody uses.  So CtxInv says where a thread can be (RunInv), which have *)
(* a process (ProcInv), that no table has two uses (TableInv), what a CPU  *)
(* in the middle of a switch is about to load (SwitchInv), what active_cr3 *)
(* is good for (CacheInv) and what a thread that does not run has saved    *)
(* (SavedInv).                                                             *)
(***************************************************************************)
EXTENDS CpuContext, TLAPS

RunInv ==
    /\ \A c \in CPUs : curr[c] \in Threads => phase[curr[c]] \in {"running", "blocked", "dead"}
    /\ \A c, d \in CPUs : curr[c] \in Threads /\ curr[c] = curr[d] => c = d
    /\ \A c \in CPUs : parking[c] # None =>
          phase[parking[c]] = "blocked" /\ \A d \in CPUs : curr[d] # parking[c]
    /\ \A c, d \in CPUs : parking[c] # None /\ parking[c] = parking[d] => c = d

ProcInv ==
    \A t \in Threads :
        /\ page_table[t] = None <=> phase[t] \in {"free", "dead"}
        /\ prepared[t] # None \/ retired[t] # None => phase[t] = "running"

TableInv ==
    \A t \in Threads :
        /\ page_table[t] # None => page_table[t] \in live
        /\ prepared[t] # None => prepared[t] \in live
        /\ retired[t] # None => retired[t] \in live
        /\ \A u \in Threads :
              /\ page_table[t] # None /\ page_table[t] = page_table[u] => t = u
              /\ prepared[t] # None /\ prepared[t] = prepared[u] => t = u
              /\ retired[t] # None /\ retired[t] = retired[u] => t = u
              /\ page_table[t] # None => page_table[t] # prepared[u] /\ page_table[t] # retired[u]
              /\ prepared[t] # None => prepared[t] # retired[u]

SwitchInv ==
    \A c \in CPUs : switching[c] # None =>
        /\ HasProcess(curr[c]) => switching[c].force /\ switching[c].cr3 = page_table[curr[c]]
        /\ ~HasProcess(curr[c]) => switching[c].cr3 = BootTable

CacheInv ==
    \A c \in CPUs :
        /\ active_cr3[c] = BootTable => cr3[c] = BootTable
        /\ switching[c] = None /\ HasProcess(curr[c]) => active_cr3[c] # BootTable

SavedInv ==
    \A t \in Threads : HasProcess(t) /\ (\A c \in CPUs : curr[c] # t) => fs_base[t] = tls[t]

CtxInv ==
    /\ TypeOK /\ RunInv /\ ProcInv /\ TableInv /\ SwitchInv /\ CacheInv /\ SavedInv
    /\ SpaceMatches /\ TlsMatches /\ TlbFresh

LEMMA InitHolds == Init => CtxInv
<1> SUFFICES ASSUME Init PROVE CtxInv
  OBVIOUS
<1>1. PICK t0 \in Threads, r0 \in Tables :
        /\ phase = [t \in Threads |-> IF t = t0 THEN "ready" ELSE "free"]
        /\ page_table = [t \in Threads |-> IF t = t0 THEN r0 ELSE None]
        /\ live = {r0}
  BY DEF Init
<1>2. TypeOK
  BY <1>1, CpuContextAssumption DEF Init, TypeOK, Unmapped
<1>3. RunInv
  BY CpuContextAssumption DEF Init, RunInv
<1>4. ProcInv
  BY <1>1, CpuContextAssumption DEF Init, ProcInv
<1>5. TableInv
  BY <1>1, CpuContextAssumption DEF Init, TableInv
<1>6. SwitchInv
  BY DEF Init, SwitchInv
<1>7. \A c \in CPUs : ~HasProcess(curr[c])
  <2>1. \A c \in CPUs : c \notin Threads
    BY CpuContextAssumption
  <2>2. curr = [c \in CPUs |-> c]
    BY DEF Init
  <2> QED BY <2>1, <2>2 DEF HasProcess
<1>8. CacheInv /\ SpaceMatches /\ TlsMatches /\ TlbFresh
  BY <1>7 DEF Init, CacheInv, SpaceMatches, TlsMatches, TlbFresh
<1>9. SavedInv
  BY DEF Init, SavedInv
<1> QED BY <1>2, <1>3, <1>4, <1>5, <1>6, <1>8, <1>9 DEF CtxInv

-----------------------------------------------------------------------------
(* The switch. *)

LEMMA SwitchKeeps ==
    ASSUME CtxInv, NEW c \in CPUs, MaySwitch(c), NEW next,
           \/ next \in Threads \ {curr[c]} /\ Left(c, phase)[next] = "ready"
           \/ next = c /\ curr[c] \in Threads /\ phase[curr[c]] \in {"blocked", "dead"},
           SwitchTo(c, next, Left(c, phase))
    PROVE  CtxInv'
<1> DEFINE old == curr[c]
<1>1. TypeOK /\ RunInv /\ ProcInv /\ TableInv /\ SwitchInv /\ CacheInv /\ SavedInv
      /\ SpaceMatches /\ TlsMatches /\ TlbFresh
  BY DEF CtxInv
<1>2. c \notin Threads /\ (\A d \in CPUs : d \notin Threads) /\ None \notin Threads
  BY CpuContextAssumption
<1>3. parking[c] # None => parking[c] \in Threads /\ parking[c] # old /\ phase[parking[c]] = "blocked"
  BY <1>1 DEF TypeOK, RunInv
<1>4. Left(c, phase) \in [Threads -> {"free", "ready", "running", "blocked", "parked", "dead"}]
  BY <1>1, <1>3 DEF Left, TypeOK
<1>5. \A t \in Threads : Left(c, phase)[t] =
        IF t = old /\ phase[t] = "running" THEN "ready"
        ELSE IF t = parking[c] THEN "parked" ELSE phase[t]
  BY <1>1, <1>2, <1>3 DEF Left, TypeOK
<1>6. next \in Threads => /\ next # old /\ phase[next] = "ready" /\ page_table[next] # None
                          /\ \A d \in CPUs : curr[d] # next /\ parking[d] # next
  <2> SUFFICES ASSUME next \in Threads PROVE next # old /\ phase[next] = "ready"
    BY <1>1, <1>2 DEF RunInv, ProcInv
  <2> QED BY <1>2, <1>5
<1>7. \A t \in Threads : phase'[t] =
        IF t = next THEN "running"
        ELSE IF t = old /\ phase[t] = "running" THEN "ready"
        ELSE IF t = parking[c] THEN "parked" ELSE phase[t]
  BY <1>2, <1>4, <1>5 DEF SwitchTo
<1>8. curr' = [curr EXCEPT ![c] = next] /\ (next \in Threads \/ next = c)
  BY DEF SwitchTo
<1>9. UNCHANGED <<cr3, active_cr3, page_table, prepared, retired, live, tls, leaves, tlb>>
  BY DEF SwitchTo, memory
<1>10. switching' = [switching EXCEPT ![c] =
           [cr3   |-> IF HasProcess(next) THEN page_table[next] ELSE BootTable,
            force |-> ForceLoad(next)]]
  BY DEF SwitchTo
<1>11. HasProcess(next) <=> next \in Threads
  BY <1>6 DEF HasProcess
<1>12. parking' = [parking EXCEPT ![c] = IF old \in Threads /\ phase[old] = "blocked" THEN old ELSE None]
  BY DEF SwitchTo
<1>13. fs_base' = SavedFs(c) /\ fsReg' = [fsReg EXCEPT ![c] = IF HasProcess(next) THEN fs_base[next] ELSE @]
  BY DEF SwitchTo
<1>14. switching[c] = None /\ (old \in Threads => phase[old] \in {"blocked", "dead"} \/
          (phase[old] = "running" /\ prepared[old] = None /\ retired[old] = None))
  BY DEF MaySwitch, Runs, InUser
<1>15. TypeOK'
  <2>1. phase' \in [Threads -> {"free", "ready", "running", "blocked", "parked", "dead"}]
    BY <1>4 DEF SwitchTo
  <2>2. fs_base' \in [Threads -> FsValues] /\ fsReg' \in [CPUs -> FsValues]
    BY <1>1, <1>11, <1>13 DEF TypeOK, SavedFs, HasProcess
  <2>3. switching' \in [CPUs -> {None} \cup [cr3 : Tables \cup {BootTable}, force : BOOLEAN]]
    <3>1. (IF HasProcess(next) THEN page_table[next] ELSE BootTable) \in Tables \cup {BootTable}
      BY <1>1 DEF TypeOK, HasProcess
    <3>2. ForceLoad(next) \in BOOLEAN
      BY DEF ForceLoad, HasProcess
    <3> QED BY <1>1, <1>10, <3>1, <3>2 DEF TypeOK
  <2>4. parking' \in [CPUs -> Threads \cup {None}] /\ curr' \in [CPUs -> CPUs \cup Threads]
    BY <1>1, <1>8, <1>12 DEF TypeOK
  <2> QED BY <1>1, <1>9, <2>1, <2>2, <2>3, <2>4 DEF TypeOK
<1>16. RunInv'
  <2>0. curr \in [CPUs -> CPUs \cup Threads] /\ parking \in [CPUs -> Threads \cup {None}]
    BY <1>1 DEF TypeOK
  <2>1. \A e \in CPUs : curr'[e] = IF e = c THEN next ELSE curr[e]
    BY <1>8, <2>0
  <2>2. \A e \in CPUs : parking'[e] = IF e = c THEN IF old \in Threads /\ phase[old] = "blocked" THEN old ELSE None
                                      ELSE parking[e]
    BY <1>12, <2>0
  <2>3. \A e \in CPUs : curr'[e] \in Threads => phase'[curr'[e]] \in {"running", "blocked", "dead"}
    BY <1>1, <1>2, <1>3, <1>6, <1>7, <2>1 DEF RunInv
  <2>4. \A e, d \in CPUs : curr'[e] \in Threads /\ curr'[e] = curr'[d] => e = d
    BY <1>1, <1>6, <2>1 DEF RunInv
  <2>5. \A e \in CPUs : parking'[e] # None =>
          phase'[parking'[e]] = "blocked" /\ \A d \in CPUs : curr'[d] # parking'[e]
    <3> SUFFICES ASSUME NEW e \in CPUs, parking'[e] # None
                 PROVE phase'[parking'[e]] = "blocked" /\ \A d \in CPUs : curr'[d] # parking'[e]
      OBVIOUS
    <3>1. CASE e = c
      <4>1. parking'[e] = old /\ old \in Threads /\ phase[old] = "blocked"
        BY <2>2, <3>1
      <4>2. \A d \in CPUs \ {c} : curr[d] # old
        BY <1>1, <4>1 DEF RunInv
      <4> QED BY <1>2, <1>3, <1>6, <1>7, <1>8, <2>1, <4>1, <4>2
    <3>2. CASE e # c
      <4>1. parking'[e] = parking[e] /\ parking[e] \in Threads
        BY <2>0, <2>2, <3>2
      <4>2. phase[parking[e]] = "blocked" /\ (\A d \in CPUs : curr[d] # parking[e]) /\ parking[e] # parking[c]
        BY <1>1, <3>2, <4>1, <1>2 DEF RunInv
      <4> QED BY <1>2, <1>6, <1>7, <1>8, <2>1, <4>1, <4>2
    <3> QED BY <3>1, <3>2
  <2>6. \A e, d \in CPUs : parking'[e] # None /\ parking'[e] = parking'[d] => e = d
    BY <1>1, <2>2 DEF RunInv
  <2> QED BY <2>3, <2>4, <2>5, <2>6 DEF RunInv
<1>17. ProcInv'
  BY <1>1, <1>2, <1>3, <1>6, <1>7, <1>9, <1>14 DEF ProcInv
<1>18. TableInv'
  BY <1>1, <1>9 DEF TableInv
<1>19. \A d \in CPUs : d # c => curr'[d] = curr[d] /\ switching'[d] = switching[d] /\ fsReg'[d] = fsReg[d]
  BY <1>1, <1>8, <1>10, <1>13 DEF TypeOK
<1>20. curr'[c] = next /\ switching'[c] # None
       /\ switching'[c].cr3 = (IF HasProcess(next) THEN page_table[next] ELSE BootTable)
       /\ (HasProcess(next) => switching'[c].force)
  <2>1. [cr3 |-> IF HasProcess(next) THEN page_table[next] ELSE BootTable, force |-> ForceLoad(next)] # None
    <3>1. (IF HasProcess(next) THEN page_table[next] ELSE BootTable) \in Tables \cup {BootTable}
      BY <1>1 DEF TypeOK, HasProcess
    <3>2. ForceLoad(next) \in BOOLEAN
      BY DEF ForceLoad, HasProcess
    <3>3. [cr3 |-> IF HasProcess(next) THEN page_table[next] ELSE BootTable, force |-> ForceLoad(next)]
            \in [cr3 : Tables \cup {BootTable}, force : BOOLEAN]
      BY <3>1, <3>2
    <3> QED BY <3>3, CpuContextAssumption
  <2> QED BY <1>1, <1>8, <1>10, <2>1 DEF TypeOK, ForceLoad
<1>21. SwitchInv' /\ CacheInv' /\ SpaceMatches' /\ TlbFresh'
  BY <1>1, <1>9, <1>19, <1>20 DEF SwitchInv, CacheInv, SpaceMatches, TlbFresh, HasProcess
<1>22. \A t \in Threads : fs_base'[t] = IF HasProcess(old) /\ t = old THEN fsReg[c] ELSE fs_base[t]
  BY <1>1, <1>13 DEF SavedFs, TypeOK
<1>23. SavedInv'
  <2> SUFFICES ASSUME NEW t \in Threads, page_table[t] # None, \A d \in CPUs : curr'[d] # t
               PROVE  fs_base'[t] = tls[t]
    BY <1>9 DEF SavedInv, HasProcess
  <2>1. CASE t = old
    BY <1>1, <1>22, <2>1 DEF TlsMatches, HasProcess
  <2>2. CASE t # old
    BY <1>1, <1>19, <1>22, <2>2 DEF SavedInv, HasProcess
  <2> QED BY <2>1, <2>2
<1>24. TlsMatches'
  <2> SUFFICES ASSUME NEW d \in CPUs, HasProcess(curr'[d]) PROVE fsReg'[d] = tls[curr'[d]]
    BY <1>9 DEF TlsMatches, HasProcess
  <2>1. CASE d # c
    BY <1>1, <1>19, <2>1 DEF TlsMatches
  <2>2. CASE d = c
    <3>1. fsReg'[c] = fs_base[next]
      BY <1>1, <1>13, <1>20, <2>2 DEF TypeOK
    <3> QED BY <1>1, <1>6, <1>11, <1>20, <2>2, <3>1 DEF SavedInv
  <2> QED BY <2>1, <2>2
<1> QED BY <1>15, <1>16, <1>17, <1>18, <1>21, <1>23, <1>24 DEF CtxInv

LEMMA ScheduleKeeps == ASSUME CtxInv, NEW c \in CPUs, Schedule(c) PROVE CtxInv'
<1>1. CASE \E next \in Threads \ {curr[c]} :
             Left(c, phase)[next] = "ready" /\ SwitchTo(c, next, Left(c, phase))
  BY <1>1, SwitchKeeps DEF Schedule
<1>2. CASE /\ curr[c] \in Threads /\ phase[curr[c]] \in {"blocked", "dead"}
           /\ SwitchTo(c, c, Left(c, phase))
  BY <1>2, SwitchKeeps DEF Schedule
<1> QED BY <1>1, <1>2 DEF Schedule

\* A step that only moves thread t from one phase to another.
LEMMA PhaseKeeps ==
    ASSUME CtxInv, NEW t \in Threads, NEW ph,
           \/ phase[t] = "running" /\ prepared[t] = None /\ retired[t] = None /\ ph = "blocked"
           \/ phase[t] = "blocked" /\ (\A c \in CPUs : curr[c] # t) /\ ph = "parked"
           \/ phase[t] = "parked" /\ ph = "ready",
           phase' = [phase EXCEPT ![t] = ph], parking' = [c \in CPUs |-> IF parking[c] = t THEN None ELSE parking[c]],
           UNCHANGED <<curr, switching, regs, procs, memory>>
    PROVE  CtxInv'
<1>1. TypeOK /\ RunInv /\ ProcInv
  BY DEF CtxInv
<1>2. UNCHANGED <<curr, switching, cr3, active_cr3, fsReg, page_table, fs_base, prepared, retired, live, tls, leaves, tlb>>
  BY DEF regs, procs, memory
<1>3. phase \in [Threads -> {"free", "ready", "running", "blocked", "parked", "dead"}]
  BY <1>1 DEF TypeOK
<1>4. TypeOK'
  BY <1>1, <1>2, <1>3 DEF TypeOK
<1>5. RunInv'
  <2>0. \A u \in Threads : phase'[u] = IF u = t THEN ph ELSE phase[u]
    BY <1>3
  <2>1. \A c \in CPUs : curr[c] \in Threads => phase'[curr[c]] \in {"running", "blocked", "dead"}
    BY <1>1, <2>0 DEF RunInv
  <2>2. \A c \in CPUs : parking'[c] # None => parking'[c] = parking[c] /\ parking[c] # t /\ parking[c] \in Threads
    BY <1>1 DEF TypeOK
  <2>3. \A c \in CPUs : parking'[c] # None =>
          phase'[parking'[c]] = "blocked" /\ \A d \in CPUs : curr[d] # parking'[c]
    BY <1>1, <2>0, <2>2 DEF RunInv
  <2>4. \A c, d \in CPUs : parking'[c] # None /\ parking'[c] = parking'[d] => c = d
    BY <1>1, <2>2 DEF RunInv
  <2> QED BY <1>1, <1>2, <2>1, <2>3, <2>4 DEF RunInv
<1>6. ProcInv'
  BY <1>1, <1>2, <1>3 DEF ProcInv
<1>7. (TableInv /\ SwitchInv /\ CacheInv /\ SavedInv /\ SpaceMatches /\ TlsMatches /\ TlbFresh)'
  BY <1>2 DEF CtxInv, TableInv, SwitchInv, CacheInv, SavedInv, SpaceMatches, TlsMatches, TlbFresh, HasProcess
<1> QED BY <1>4, <1>5, <1>6, <1>7 DEF CtxInv

LEMMA KeepRunningKeeps == ASSUME CtxInv, NEW c \in CPUs, KeepRunning(c) PROVE CtxInv'
<1>1. TypeOK /\ RunInv /\ parking[c] # None
  BY DEF CtxInv, KeepRunning
<1>2. parking[c] \in Threads /\ phase[parking[c]] = "blocked" /\ \A d \in CPUs : curr[d] # parking[c]
  BY <1>1 DEF TypeOK, RunInv
<1>3. parking' = [d \in CPUs |-> IF parking[d] = parking[c] THEN None ELSE parking[d]]
  BY <1>1 DEF KeepRunning, RunInv, TypeOK
<1> QED BY <1>2, <1>3, PhaseKeeps DEF KeepRunning

LEMMA BlockKeeps == ASSUME CtxInv, NEW c \in CPUs, NEW t \in Threads, Block(c, t) PROVE CtxInv'
<1>1. TypeOK /\ RunInv /\ phase[t] = "running" /\ prepared[t] = None /\ retired[t] = None
  BY DEF CtxInv, Block, InUser
<1>2. \A d \in CPUs : parking[d] # t
  BY <1>1, CpuContextAssumption DEF RunInv
<1>3. parking' = [d \in CPUs |-> IF parking[d] = t THEN None ELSE parking[d]]
  BY <1>1, <1>2 DEF Block, TypeOK
<1> QED BY <1>1, <1>3, PhaseKeeps DEF Block

LEMMA WakeKeeps == ASSUME CtxInv, NEW t \in Threads, Wake(t) PROVE CtxInv'
<1>1. TypeOK /\ RunInv /\ phase[t] = "parked"
  BY DEF CtxInv, Wake
<1>2. \A d \in CPUs : parking[d] # t
  BY <1>1, CpuContextAssumption DEF RunInv
<1>3. parking' = [d \in CPUs |-> IF parking[d] = t THEN None ELSE parking[d]]
  BY <1>1, <1>2 DEF Wake, TypeOK
<1> QED BY <1>1, <1>3, PhaseKeeps DEF Wake

LEMMA LoadCr3Keeps == ASSUME CtxInv, NEW c \in CPUs, LoadCr3(c) PROVE CtxInv'
<1> DEFINE s == switching[c]
<1>1. TypeOK /\ RunInv /\ ProcInv /\ TableInv /\ SwitchInv /\ CacheInv /\ SavedInv
      /\ SpaceMatches /\ TlsMatches /\ TlbFresh
  BY DEF CtxInv
<1>2. UNCHANGED <<curr, phase, parking, fsReg, page_table, fs_base, prepared, retired, live, tls, leaves>>
  BY DEF LoadCr3, procs, WriteCr3, memory
<1>3. s # None /\ s \in [cr3 : Tables \cup {BootTable}, force : BOOLEAN]
      /\ switching' = [switching EXCEPT ![c] = None]
  BY <1>1 DEF LoadCr3, TypeOK
<1>4. \/ /\ cr3' = [cr3 EXCEPT ![c] = s.cr3] /\ active_cr3' = [active_cr3 EXCEPT ![c] = s.cr3]
         /\ tlb' = [tlb EXCEPT ![c] = Unmapped]
      \/ s.cr3 = active_cr3[c] /\ ~s.force /\ UNCHANGED <<cr3, active_cr3, tlb>>
  BY DEF LoadCr3, WriteCr3, memory
<1>5. TypeOK'
  <2>1. s.cr3 \in Tables \cup {BootTable}
    BY <1>3
  <2>2. Unmapped \in [Pages -> {None} \cup [table : Tables, rights : Rights]]
    BY DEF Unmapped
  <2>3. cr3' \in [CPUs -> Tables \cup {BootTable}] /\ active_cr3' \in [CPUs -> Tables \cup {BootTable}]
    BY <1>1, <1>4, <2>1 DEF TypeOK
  <2>4. tlb' \in [CPUs -> [Pages -> {None} \cup [table : Tables, rights : Rights]]]
    BY <1>1, <1>4, <2>2 DEF TypeOK
  <2>5. switching' \in [CPUs -> {None} \cup [cr3 : Tables \cup {BootTable}, force : BOOLEAN]]
    BY <1>1, <1>3 DEF TypeOK
  <2> QED BY <1>1, <1>2, <2>3, <2>4, <2>5 DEF TypeOK
<1>6. RunInv' /\ ProcInv' /\ TableInv'
  BY <1>1, <1>2 DEF RunInv, ProcInv, TableInv
<1>7. SavedInv' /\ TlsMatches'
  BY <1>1, <1>2 DEF SavedInv, TlsMatches, HasProcess
<1>8. \A d \in CPUs : d # c => /\ switching'[d] = switching[d] /\ cr3'[d] = cr3[d]
                              /\ active_cr3'[d] = active_cr3[d] /\ tlb'[d] = tlb[d]
  BY <1>1, <1>3, <1>4 DEF TypeOK
<1>9. switching'[c] = None /\ cr3'[c] = s.cr3
  BY <1>1, <1>3, <1>4 DEF TypeOK, SwitchInv, CacheInv, HasProcess
<1>10. HasProcess(curr[c]) => /\ s.cr3 = page_table[curr[c]] /\ page_table[curr[c]] \in live
                              /\ active_cr3'[c] = s.cr3 /\ tlb'[c] = Unmapped /\ s.cr3 # BootTable
  BY <1>1, <1>3, <1>4, CpuContextAssumption DEF TypeOK, SwitchInv, TableInv, HasProcess
<1>11. ~HasProcess(curr[c]) => s.cr3 = BootTable
  BY <1>1, <1>3 DEF SwitchInv
<1>12. active_cr3'[c] = s.cr3
  BY <1>1, <1>4 DEF TypeOK
<1>13. SwitchInv' /\ CacheInv' /\ SpaceMatches'
  BY <1>1, <1>2, <1>8, <1>9, <1>10, <1>11, <1>12 DEF SwitchInv, CacheInv, SpaceMatches, HasProcess
<1>14. TlbFresh'
  BY <1>1, <1>2, <1>8, <1>10 DEF TlbFresh, HasProcess, Unmapped
<1> QED BY <1>5, <1>6, <1>7, <1>13, <1>14 DEF CtxInv

-----------------------------------------------------------------------------
(* System calls. *)

\* A thread in user mode has its own table loaded, and no other CPU runs it.
LEMMA UserFacts ==
    ASSUME CtxInv, NEW c \in CPUs, NEW t \in Threads, Runs(c, t), phase[t] = "running"
    PROVE  /\ curr[c] = t /\ switching[c] = None /\ HasProcess(t) /\ page_table[t] \in Tables
           /\ cr3[c] = page_table[t] /\ page_table[t] \in live /\ fsReg[c] = tls[t]
           /\ active_cr3[c] # BootTable
           /\ \A d \in CPUs : parking[d] # t /\ (d # c => curr[d] # t)
<1>1. curr[c] = t /\ switching[c] = None
  BY DEF Runs
<1>2. HasProcess(t) /\ page_table[t] \in Tables
  BY DEF CtxInv, ProcInv, HasProcess, TypeOK
<1>3. cr3[c] = page_table[t] /\ page_table[t] \in live
  BY <1>1, <1>2 DEF CtxInv, SpaceMatches
<1>4. fsReg[c] = tls[t] /\ active_cr3[c] # BootTable
  BY <1>1, <1>2 DEF CtxInv, TlsMatches, CacheInv
<1>5. \A d \in CPUs : parking[d] # t /\ (d # c => curr[d] # t)
  BY <1>1, CpuContextAssumption DEF CtxInv, RunInv
<1> QED BY <1>1, <1>2, <1>3, <1>4, <1>5

LEMMA SetFsKeeps ==
    ASSUME CtxInv, NEW c \in CPUs, NEW t \in Threads, NEW v \in FsValues, SetFs(c, t, v)
    PROVE  CtxInv'
<1>1. TypeOK /\ RunInv /\ ProcInv /\ TableInv /\ SwitchInv /\ CacheInv /\ SavedInv
      /\ SpaceMatches /\ TlsMatches /\ TlbFresh
  BY DEF CtxInv
<1>2. UNCHANGED <<curr, phase, switching, parking, cr3, active_cr3, page_table, fs_base, prepared, retired, live, leaves, tlb>>
  BY DEF SetFs, sched, memory
<1>3. fsReg' = [fsReg EXCEPT ![c] = v] /\ tls' = [tls EXCEPT ![t] = v]
  BY DEF SetFs
<1>4. curr[c] = t /\ \A d \in CPUs : d # c => curr[d] # t
  BY UserFacts DEF SetFs, InUser
<1>5. TypeOK'
  BY <1>1, <1>2, <1>3 DEF TypeOK
<1>6. RunInv' /\ ProcInv' /\ TableInv'
  BY <1>1, <1>2 DEF RunInv, ProcInv, TableInv
<1>7. SwitchInv' /\ CacheInv' /\ SpaceMatches' /\ TlbFresh'
  BY <1>1, <1>2 DEF SwitchInv, CacheInv, SpaceMatches, TlbFresh, HasProcess
<1>8. SavedInv' /\ TlsMatches'
  BY <1>1, <1>2, <1>3, <1>4 DEF SavedInv, TlsMatches, HasProcess, TypeOK
<1> QED BY <1>5, <1>6, <1>7, <1>8 DEF CtxInv

LEMMA ExecPrepareKeeps ==
    ASSUME CtxInv, NEW c \in CPUs, NEW t \in Threads, NEW n \in Tables,
           NEW image \in [Pages -> Rights \cup {None}], ExecPrepare(c, t, n, image)
    PROVE  CtxInv'
<1>1. TypeOK /\ RunInv /\ ProcInv /\ TableInv /\ SwitchInv /\ CacheInv /\ SavedInv
      /\ SpaceMatches /\ TlsMatches /\ TlbFresh
  BY DEF CtxInv
<1>2. UNCHANGED <<curr, phase, switching, parking, cr3, active_cr3, fsReg, page_table, fs_base, retired, tls, tlb>>
  BY DEF ExecPrepare, sched, regs
<1>3. /\ phase[t] = "running" /\ prepared[t] = None /\ n \notin live /\ n # None
      /\ prepared' = [prepared EXCEPT ![t] = n] /\ live' = live \cup {n}
      /\ leaves' = [leaves EXCEPT ![n] = image]
  BY CpuContextAssumption DEF ExecPrepare, InUser
<1>4. TypeOK'
  BY <1>1, <1>2, <1>3 DEF TypeOK
<1>5. RunInv'
  BY <1>1, <1>2 DEF RunInv
<1>6. \A u \in Threads : prepared'[u] = IF u = t THEN n ELSE prepared[u]
  BY <1>1, <1>3 DEF TypeOK
<1>7. ProcInv'
  BY <1>1, <1>2, <1>3, <1>6 DEF ProcInv
<1>8. TableInv'
  BY <1>1, <1>2, <1>3, <1>6 DEF TableInv
<1>9. SwitchInv' /\ CacheInv' /\ SavedInv' /\ TlsMatches' /\ SpaceMatches'
  BY <1>1, <1>2, <1>3 DEF SwitchInv, CacheInv, SavedInv, TlsMatches, SpaceMatches, HasProcess
<1>10. \A u \in Threads : page_table[u] # None => leaves'[page_table[u]] = leaves[page_table[u]]
  BY <1>1, <1>3 DEF TableInv, TypeOK
<1>11. TlbFresh'
  BY <1>1, <1>2, <1>10 DEF TlbFresh, HasProcess
<1> QED BY <1>4, <1>5, <1>7, <1>8, <1>9, <1>11 DEF CtxInv

LEMMA ExecReplaceKeeps ==
    ASSUME CtxInv, NEW c \in CPUs, NEW t \in Threads, ExecReplace(c, t)
    PROVE  CtxInv'
<1>1. TypeOK /\ RunInv /\ ProcInv /\ TableInv /\ SwitchInv /\ CacheInv /\ SavedInv
      /\ SpaceMatches /\ TlsMatches /\ TlbFresh
  BY DEF CtxInv
<1>2. UNCHANGED <<curr, phase, switching, parking, active_cr3, live, leaves>>
  BY DEF ExecReplace, sched, WriteCr3
<1>3. /\ prepared[t] # None
      /\ page_table' = [page_table EXCEPT ![t] = prepared[t]]
      /\ cr3' = [cr3 EXCEPT ![c] = prepared[t]] /\ tlb' = [tlb EXCEPT ![c] = Unmapped]
      /\ retired' = [retired EXCEPT ![t] = page_table[t]] /\ prepared' = [prepared EXCEPT ![t] = None]
      /\ fs_base' = [fs_base EXCEPT ![t] = 0] /\ fsReg' = [fsReg EXCEPT ![c] = 0]
      /\ tls' = [tls EXCEPT ![t] = 0]
  BY DEF ExecReplace, WriteCr3
<1>4. phase[t] = "running" /\ prepared[t] \in Tables /\ prepared[t] \in live
  BY <1>1, <1>3 DEF ProcInv, TypeOK, TableInv
<1>5. /\ curr[c] = t /\ switching[c] = None /\ active_cr3[c] # BootTable /\ page_table[t] # None
      /\ \A d \in CPUs : d # c => curr[d] # t
  BY <1>4, UserFacts DEF ExecReplace, HasProcess
<1>6. TypeOK'
  <2>1. Unmapped \in [Pages -> {None} \cup [table : Tables, rights : Rights]]
    BY DEF Unmapped
  <2>2. tlb' \in [CPUs -> [Pages -> {None} \cup [table : Tables, rights : Rights]]]
    BY <1>1, <1>3, <2>1 DEF TypeOK
  <2> QED BY <1>1, <1>2, <1>3, <1>4, <2>2, CpuContextAssumption DEF TypeOK
<1>7. RunInv'
  BY <1>1, <1>2 DEF RunInv
<1>8. \A u \in Threads : /\ page_table'[u] = IF u = t THEN prepared[t] ELSE page_table[u]
                         /\ retired'[u] = IF u = t THEN page_table[t] ELSE retired[u]
                         /\ prepared'[u] = IF u = t THEN None ELSE prepared[u]
                         /\ fs_base'[u] = IF u = t THEN 0 ELSE fs_base[u]
                         /\ tls'[u] = IF u = t THEN 0 ELSE tls[u]
  BY <1>1, <1>3 DEF TypeOK
<1>9. \A d \in CPUs : /\ cr3'[d] = IF d = c THEN prepared[t] ELSE cr3[d]
                      /\ tlb'[d] = IF d = c THEN Unmapped ELSE tlb[d]
                      /\ fsReg'[d] = IF d = c THEN 0 ELSE fsReg[d]
  BY <1>1, <1>3 DEF TypeOK
<1>10. ProcInv'
  BY <1>1, <1>2, <1>3, <1>4, <1>8 DEF ProcInv
<1>11. TableInv'
  BY <1>1, <1>2, <1>3, <1>4, <1>5, <1>8 DEF TableInv
<1>12. SwitchInv'
  BY <1>1, <1>2, <1>3, <1>5, <1>8 DEF SwitchInv, HasProcess
<1>13. CacheInv'
  BY <1>1, <1>2, <1>3, <1>5, <1>8, <1>9 DEF CacheInv, HasProcess
<1>14. SavedInv' /\ TlsMatches'
  BY <1>1, <1>2, <1>5, <1>8, <1>9 DEF SavedInv, TlsMatches, HasProcess
<1>15. SpaceMatches'
  BY <1>1, <1>2, <1>3, <1>4, <1>5, <1>8, <1>9 DEF SpaceMatches, HasProcess
<1>16. TlbFresh'
  BY <1>1, <1>2, <1>5, <1>8, <1>9 DEF TlbFresh, HasProcess, Unmapped
<1> QED BY <1>6, <1>7, <1>10, <1>11, <1>12, <1>13, <1>14, <1>15, <1>16 DEF CtxInv

LEMMA ExecFreeKeeps ==
    ASSUME CtxInv, NEW c \in CPUs, NEW t \in Threads, ExecFree(c, t)
    PROVE  CtxInv'
<1>1. TypeOK /\ RunInv /\ ProcInv /\ TableInv /\ SwitchInv /\ CacheInv /\ SavedInv
      /\ SpaceMatches /\ TlsMatches /\ TlbFresh
  BY DEF CtxInv
<1>2. UNCHANGED <<curr, phase, switching, parking, cr3, active_cr3, fsReg, page_table, fs_base, prepared, tls, leaves, tlb>>
  BY DEF ExecFree, sched, regs, memory
<1>3. retired[t] # None /\ live' = live \ {retired[t]} /\ retired' = [retired EXCEPT ![t] = None]
  BY DEF ExecFree
<1>4. \A u \in Threads : retired'[u] = IF u = t THEN None ELSE retired[u]
  BY <1>1, <1>3 DEF TypeOK
<1>5. TypeOK'
  BY <1>1, <1>2, <1>3 DEF TypeOK
<1>6. RunInv' /\ ProcInv'
  BY <1>1, <1>2, <1>4 DEF RunInv, ProcInv
<1>7. TableInv'
  BY <1>1, <1>2, <1>3, <1>4 DEF TableInv
<1>8. SwitchInv' /\ CacheInv' /\ SavedInv' /\ TlsMatches' /\ TlbFresh'
  BY <1>1, <1>2 DEF SwitchInv, CacheInv, SavedInv, TlsMatches, TlbFresh, HasProcess
<1>9. SpaceMatches'
  BY <1>1, <1>2, <1>3, CpuContextAssumption DEF SpaceMatches, TableInv, HasProcess
<1> QED BY <1>5, <1>6, <1>7, <1>8, <1>9 DEF CtxInv

LEMMA ForkKeeps ==
    ASSUME CtxInv, NEW c \in CPUs, NEW t \in Threads, NEW u \in Threads, NEW n \in Tables,
           NEW v \in FsValues \cup {None}, Fork(c, t, u, n, v)
    PROVE  CtxInv'
<1>1. TypeOK /\ RunInv /\ ProcInv /\ TableInv /\ SwitchInv /\ CacheInv /\ SavedInv
      /\ SpaceMatches /\ TlsMatches /\ TlbFresh
  BY DEF CtxInv
<1>2. UNCHANGED <<curr, switching, parking, cr3, active_cr3, fsReg, prepared, retired, tlb>>
  BY DEF Fork, regs
<1>3. /\ phase[t] = "running" /\ phase[u] = "free" /\ n \notin live /\ n # None
      /\ phase' = [phase EXCEPT ![u] = "ready"]
      /\ page_table' = [page_table EXCEPT ![u] = n] /\ live' = live \cup {n}
      /\ fs_base' = [fs_base EXCEPT ![u] = ForkFs(c, v)]
      /\ tls' = [tls EXCEPT ![u] = IF v = None THEN tls[t] ELSE v]
      /\ leaves' = [leaves EXCEPT ![n] = leaves[page_table[t]]]
  BY CpuContextAssumption DEF Fork, InUser
<1>4. fsReg[c] = tls[t] /\ page_table[t] \in Tables /\ page_table[u] = None
  BY <1>1, <1>3, UserFacts DEF Fork, InUser, ProcInv
<1>5. ForkFs(c, v) = (IF v = None THEN tls[t] ELSE v) /\ ForkFs(c, v) \in FsValues
  BY <1>1, <1>4 DEF ForkFs, TypeOK
<1>6. \A w \in Threads : /\ phase'[w] = IF w = u THEN "ready" ELSE phase[w]
                         /\ page_table'[w] = IF w = u THEN n ELSE page_table[w]
                         /\ fs_base'[w] = IF w = u THEN ForkFs(c, v) ELSE fs_base[w]
                         /\ tls'[w] = IF w = u THEN ForkFs(c, v) ELSE tls[w]
  BY <1>1, <1>3, <1>5 DEF TypeOK
<1>7. \A d \in CPUs : curr[d] # u /\ parking[d] # u
  BY <1>1, <1>3, CpuContextAssumption DEF RunInv
<1>8. TypeOK'
  <2>1. leaves' \in [Tables -> [Pages -> Rights \cup {None}]]
    BY <1>1, <1>3, <1>4 DEF TypeOK
  <2>2. tls' \in [Threads -> FsValues] /\ fs_base' \in [Threads -> FsValues]
    BY <1>1, <1>3, <1>5 DEF TypeOK
  <2> QED BY <1>1, <1>2, <1>3, <2>1, <2>2 DEF TypeOK
<1>9. RunInv'
  <2>1. \A d \in CPUs : parking[d] # None => parking[d] \in Threads
    BY <1>1 DEF TypeOK
  <2> QED BY <1>1, <1>2, <1>6, <1>7, <2>1 DEF RunInv
<1>10. ProcInv'
  BY <1>1, <1>2, <1>3, <1>6 DEF ProcInv
<1>11. TableInv'
  BY <1>1, <1>2, <1>3, <1>6 DEF TableInv
<1>12. \A d \in CPUs : /\ HasProcess(curr[d])' <=> HasProcess(curr[d])
                       /\ HasProcess(curr[d]) => /\ page_table'[curr[d]] = page_table[curr[d]]
                                                 /\ tls'[curr[d]] = tls[curr[d]]
                                                 /\ leaves'[page_table[curr[d]]] = leaves[page_table[curr[d]]]
  <2>1. \A w \in Threads : page_table[w] # None => page_table[w] # n
    BY <1>1, <1>3 DEF TableInv
  <2>2. \A r \in Tables : r # n => leaves'[r] = leaves[r]
    BY <1>1, <1>3 DEF TypeOK
  <2> QED BY <1>1, <1>2, <1>6, <1>7, <2>1, <2>2 DEF HasProcess, TypeOK
<1>13. SwitchInv' /\ CacheInv' /\ SpaceMatches'
  BY <1>1, <1>2, <1>3, <1>12 DEF SwitchInv, CacheInv, SpaceMatches
<1>14. TlsMatches' /\ TlbFresh'
  BY <1>1, <1>2, <1>12 DEF TlsMatches, TlbFresh
<1>15. SavedInv'
  BY <1>1, <1>2, <1>6 DEF SavedInv, HasProcess
<1> QED BY <1>8, <1>9, <1>10, <1>11, <1>13, <1>14, <1>15 DEF CtxInv

LEMMA ExitKeeps ==
    ASSUME CtxInv, NEW c \in CPUs, NEW t \in Threads, Exit(c, t)
    PROVE  CtxInv'
<1>1. TypeOK /\ RunInv /\ ProcInv /\ TableInv /\ SwitchInv /\ CacheInv /\ SavedInv
      /\ SpaceMatches /\ TlsMatches /\ TlbFresh
  BY DEF CtxInv
<1>2. UNCHANGED <<curr, switching, parking, fsReg, fs_base, prepared, retired, tls, leaves>>
  BY DEF Exit, WriteCr3
<1>3. /\ phase[t] = "running" /\ prepared[t] = None /\ retired[t] = None
      /\ phase' = [phase EXCEPT ![t] = "dead"] /\ page_table' = [page_table EXCEPT ![t] = None]
      /\ live' = live \ {page_table[t]}
      /\ cr3' = [cr3 EXCEPT ![c] = BootTable] /\ active_cr3' = [active_cr3 EXCEPT ![c] = BootTable]
      /\ tlb' = [tlb EXCEPT ![c] = Unmapped]
  BY DEF Exit, InUser, WriteCr3
<1>4. /\ curr[c] = t /\ switching[c] = None /\ page_table[t] # None
      /\ \A d \in CPUs : parking[d] # t /\ (d # c => curr[d] # t)
  BY <1>3, UserFacts DEF Exit, InUser, HasProcess
<1>5. \A u \in Threads : /\ phase'[u] = IF u = t THEN "dead" ELSE phase[u]
                         /\ page_table'[u] = IF u = t THEN None ELSE page_table[u]
  BY <1>1, <1>3 DEF TypeOK
<1>6. \A d \in CPUs : /\ cr3'[d] = IF d = c THEN BootTable ELSE cr3[d]
                      /\ active_cr3'[d] = IF d = c THEN BootTable ELSE active_cr3[d]
                      /\ tlb'[d] = IF d = c THEN Unmapped ELSE tlb[d]
  BY <1>1, <1>3 DEF TypeOK
<1>7. TypeOK'
  <2>1. Unmapped \in [Pages -> {None} \cup [table : Tables, rights : Rights]]
    BY DEF Unmapped
  <2>2. tlb' \in [CPUs -> [Pages -> {None} \cup [table : Tables, rights : Rights]]]
    BY <1>1, <1>3, <2>1 DEF TypeOK
  <2> QED BY <1>1, <1>2, <1>3, <2>2 DEF TypeOK
<1>8. RunInv'
  <2>1. \A d \in CPUs : parking[d] # None => parking[d] \in Threads
    BY <1>1 DEF TypeOK
  <2> QED BY <1>1, <1>2, <1>4, <1>5, <2>1 DEF RunInv
<1>9. ProcInv'
  BY <1>1, <1>2, <1>3, <1>5 DEF ProcInv
<1>10. TableInv'
  BY <1>1, <1>2, <1>3, <1>4, <1>5 DEF TableInv
<1>11. SwitchInv' /\ CacheInv'
  BY <1>1, <1>2, <1>4, <1>5, <1>6 DEF SwitchInv, CacheInv, HasProcess
<1>12. \A u \in Threads : u # t /\ page_table[u] # None => page_table[u] # page_table[t]
  BY <1>1, <1>4 DEF TableInv
<1>13. SpaceMatches'
  BY <1>1, <1>2, <1>3, <1>4, <1>5, <1>6, <1>12 DEF SpaceMatches, HasProcess
<1>14. SavedInv' /\ TlsMatches' /\ TlbFresh'
  BY <1>1, <1>2, <1>4, <1>5, <1>6 DEF SavedInv, TlsMatches, TlbFresh, HasProcess
<1> QED BY <1>7, <1>8, <1>9, <1>10, <1>11, <1>13, <1>14 DEF CtxInv

LEMMA ReapKeeps == ASSUME CtxInv, NEW t \in Threads, Reap(t) PROVE CtxInv'
<1>1. TypeOK /\ RunInv /\ ProcInv /\ TableInv /\ SwitchInv /\ CacheInv /\ SavedInv
      /\ SpaceMatches /\ TlsMatches /\ TlbFresh
  BY DEF CtxInv
<1>2. UNCHANGED <<curr, switching, parking, cr3, active_cr3, fsReg, page_table, prepared, retired, live, leaves, tlb>>
  BY DEF Reap, regs, memory
<1>3. /\ phase[t] = "dead" /\ phase' = [phase EXCEPT ![t] = "free"] /\ (\A c \in CPUs : curr[c] # t)
      /\ fs_base' = [fs_base EXCEPT ![t] = 0] /\ tls' = [tls EXCEPT ![t] = 0]
  BY DEF Reap
<1>4. \A u \in Threads : /\ phase'[u] = IF u = t THEN "free" ELSE phase[u]
                         /\ fs_base'[u] = IF u = t THEN 0 ELSE fs_base[u]
                         /\ tls'[u] = IF u = t THEN 0 ELSE tls[u]
  BY <1>1, <1>3 DEF TypeOK
<1>5. TypeOK'
  BY <1>1, <1>2, <1>3, CpuContextAssumption DEF TypeOK
<1>6. RunInv'
  <2>1. \A d \in CPUs : parking[d] # None => parking[d] \in Threads
    BY <1>1 DEF TypeOK
  <2> QED BY <1>1, <1>2, <1>3, <1>4, <2>1 DEF RunInv
<1>7. ProcInv' /\ TableInv'
  BY <1>1, <1>2, <1>3, <1>4 DEF ProcInv, TableInv
<1>8. SwitchInv' /\ CacheInv' /\ SpaceMatches' /\ TlbFresh'
  BY <1>1, <1>2 DEF SwitchInv, CacheInv, SpaceMatches, TlbFresh, HasProcess
<1>9. SavedInv' /\ TlsMatches'
  BY <1>1, <1>2, <1>3, <1>4 DEF SavedInv, TlsMatches, HasProcess
<1> QED BY <1>5, <1>6, <1>7, <1>8, <1>9 DEF CtxInv

-----------------------------------------------------------------------------
(* Translations. *)

LEMMA SetLeafKeeps ==
    ASSUME CtxInv, NEW c \in CPUs, NEW t \in Threads, NEW va \in Pages,
           NEW e \in Rights \cup {None}, SetLeaf(c, t, va, e)
    PROVE  CtxInv'
<1>1. TypeOK /\ RunInv /\ ProcInv /\ TableInv /\ SwitchInv /\ CacheInv /\ SavedInv
      /\ SpaceMatches /\ TlsMatches /\ TlbFresh
  BY DEF CtxInv
<1>2. UNCHANGED <<curr, phase, switching, parking, cr3, active_cr3, fsReg, page_table, fs_base, prepared, retired, live, tls>>
  BY DEF SetLeaf, sched, regs, procs
<1>3. /\ leaves' = [leaves EXCEPT ![page_table[t]][va] = e] /\ tlb' = [tlb EXCEPT ![c][va] = None]
      /\ phase[t] = "running"
  BY DEF SetLeaf, Flushed, InUser
<1>4. /\ curr[c] = t /\ page_table[t] \in Tables /\ page_table[t] # None
      /\ \A d \in CPUs : d # c => curr[d] # t
  BY <1>3, UserFacts DEF SetLeaf, InUser, HasProcess
<1>5. TypeOK'
  <2>1. leaves' \in [Tables -> [Pages -> Rights \cup {None}]]
    BY <1>1, <1>3, <1>4 DEF TypeOK
  <2>2. tlb' \in [CPUs -> [Pages -> {None} \cup [table : Tables, rights : Rights]]]
    BY <1>1, <1>3 DEF TypeOK
  <2> QED BY <1>1, <1>2, <2>1, <2>2 DEF TypeOK
<1>6. RunInv' /\ ProcInv' /\ TableInv'
  BY <1>1, <1>2 DEF RunInv, ProcInv, TableInv
<1>7. SwitchInv' /\ CacheInv' /\ SpaceMatches' /\ SavedInv' /\ TlsMatches'
  BY <1>1, <1>2 DEF SwitchInv, CacheInv, SpaceMatches, SavedInv, TlsMatches, HasProcess
<1>8. TlbFresh'
  <2> SUFFICES ASSUME NEW d \in CPUs, NEW wa \in Pages, HasProcess(curr[d]),
                      switching[d] = None, tlb'[d][wa] # None
               PROVE  /\ tlb'[d][wa].table = page_table[curr[d]]
                      /\ tlb'[d][wa].rights = leaves'[page_table[curr[d]]][wa]
    BY <1>2 DEF TlbFresh, HasProcess
  <2>1. tlb'[d][wa] = tlb[d][wa] /\ (d # c \/ wa # va)
    BY <1>1, <1>3 DEF TypeOK
  <2>2. d # c => page_table[curr[d]] # page_table[t]
    BY <1>1, <1>4 DEF TableInv, HasProcess
  <2>3. leaves'[page_table[curr[d]]][wa] = leaves[page_table[curr[d]]][wa]
    <3>1. page_table[curr[d]] \in Tables
      BY <1>1 DEF HasProcess, TypeOK
    <3>2. CASE d = c
      BY <1>1, <1>3, <1>4, <2>1, <3>1, <3>2 DEF TypeOK
    <3>3. CASE d # c
      BY <1>1, <1>3, <2>2, <3>1, <3>3 DEF TypeOK
    <3> QED BY <3>2, <3>3
  <2> QED BY <1>1, <2>1, <2>3 DEF TlbFresh
<1> QED BY <1>5, <1>6, <1>7, <1>8 DEF CtxInv

LEMMA WalkKeeps == ASSUME CtxInv, NEW c \in CPUs, NEW va \in Pages, Walk(c, va) PROVE CtxInv'
<1>1. TypeOK /\ RunInv /\ ProcInv /\ TableInv /\ SwitchInv /\ CacheInv /\ SavedInv
      /\ SpaceMatches /\ TlsMatches /\ TlbFresh
  BY DEF CtxInv
<1>2. UNCHANGED <<curr, phase, switching, parking, cr3, active_cr3, fsReg, page_table, fs_base, prepared, retired, live, tls, leaves>>
  BY DEF Walk, sched, regs, procs
<1> DEFINE e == [table |-> cr3[c], rights |-> leaves[cr3[c]][va]]
<1>3. /\ cr3[c] \in Tables /\ leaves[cr3[c]][va] # None
      /\ tlb' = [tlb EXCEPT ![c][va] = e]
  BY DEF Walk
<1>4. e \in [table : Tables, rights : Rights]
  BY <1>1, <1>3 DEF TypeOK
<1>5. TypeOK'
  <2> HIDE DEF e
  <2>1. tlb' \in [CPUs -> [Pages -> {None} \cup [table : Tables, rights : Rights]]]
    BY <1>1, <1>3, <1>4 DEF TypeOK
  <2> QED BY <1>1, <1>2, <2>1 DEF TypeOK
<1>6. RunInv' /\ ProcInv' /\ TableInv'
  BY <1>1, <1>2 DEF RunInv, ProcInv, TableInv
<1>7. SwitchInv' /\ CacheInv' /\ SpaceMatches' /\ SavedInv' /\ TlsMatches'
  BY <1>1, <1>2 DEF SwitchInv, CacheInv, SpaceMatches, SavedInv, TlsMatches, HasProcess
<1>8. TlbFresh'
  <2>1. \A d \in CPUs, wa \in Pages : tlb'[d][wa] = IF d = c /\ wa = va THEN e ELSE tlb[d][wa]
    BY <1>1, <1>3 DEF TypeOK
  <2>2. HasProcess(curr[c]) /\ switching[c] = None => cr3[c] = page_table[curr[c]]
    BY <1>1 DEF SpaceMatches
  <2> QED BY <1>1, <1>2, <2>1, <2>2 DEF TlbFresh, HasProcess
<1> QED BY <1>5, <1>6, <1>7, <1>8 DEF CtxInv

-----------------------------------------------------------------------------

LEMMA StepKeeps == CtxInv /\ [Next]_vars => CtxInv'
<1> SUFFICES ASSUME CtxInv, [Next]_vars PROVE CtxInv'
  OBVIOUS
<1>1. CASE UNCHANGED vars
  <2>1. UNCHANGED <<curr, phase, switching, parking, cr3, active_cr3, fsReg, page_table, fs_base, prepared, retired, live, tls, leaves, tlb>>
    BY <1>1 DEF vars, sched, regs, procs, memory
  <2>2. (TypeOK /\ RunInv /\ ProcInv /\ TableInv)'
    BY <2>1 DEF CtxInv, TypeOK, RunInv, ProcInv, TableInv
  <2>3. (SwitchInv /\ CacheInv /\ SavedInv /\ SpaceMatches /\ TlsMatches /\ TlbFresh)'
    BY <2>1 DEF CtxInv, SwitchInv, CacheInv, SavedInv, SpaceMatches, TlsMatches, TlbFresh, HasProcess
  <2> QED BY <2>2, <2>3 DEF CtxInv
<1>2. ASSUME NEW c \in CPUs, Schedule(c) \/ KeepRunning(c) \/ LoadCr3(c) PROVE CtxInv'
  BY <1>2, ScheduleKeeps, KeepRunningKeeps, LoadCr3Keeps
<1>3. ASSUME NEW c \in CPUs, NEW va \in Pages, Walk(c, va) PROVE CtxInv'
  BY <1>3, WalkKeeps
<1>4. ASSUME NEW c \in CPUs, NEW t \in Threads, NEW va \in Pages, NEW e \in Rights,
             MapPage(c, t, va, e) \/ ProtectPage(c, t, va, e)
      PROVE  CtxInv'
  BY <1>4, SetLeafKeeps DEF MapPage, ProtectPage
<1>5. ASSUME NEW c \in CPUs, NEW t \in Threads, NEW va \in Pages, UnmapPage(c, t, va) PROVE CtxInv'
  BY <1>5, SetLeafKeeps DEF UnmapPage
<1>6. ASSUME NEW t \in Threads, Wake(t) \/ Reap(t) PROVE CtxInv'
  BY <1>6, WakeKeeps, ReapKeeps
<1>7. ASSUME NEW c \in CPUs, NEW t \in Threads,
             Block(c, t) \/ ExecReplace(c, t) \/ ExecFree(c, t) \/ Exit(c, t)
      PROVE  CtxInv'
  BY <1>7, BlockKeeps, ExecReplaceKeeps, ExecFreeKeeps, ExitKeeps
<1>8. ASSUME NEW c \in CPUs, NEW t \in Threads, NEW v \in FsValues, SetFs(c, t, v) PROVE CtxInv'
  BY <1>8, SetFsKeeps
<1>9. ASSUME NEW c \in CPUs, NEW t \in Threads, NEW n \in Tables,
             NEW image \in [Pages -> Rights \cup {None}], ExecPrepare(c, t, n, image)
      PROVE  CtxInv'
  BY <1>9, ExecPrepareKeeps
<1>10. ASSUME NEW c \in CPUs, NEW t \in Threads, NEW u \in Threads, NEW n \in Tables,
              NEW v \in FsValues \cup {None}, Fork(c, t, u, n, v)
       PROVE  CtxInv'
  BY <1>10, ForkKeeps
<1> QED BY <1>1, <1>2, <1>3, <1>4, <1>5, <1>6, <1>7, <1>8, <1>9, <1>10 DEF Next

\* The inductive invariant of the registers and the TLB holds in every reachable state.
THEOREM ContextInvariant == Spec => []CtxInv
<1> QED BY InitHolds, StepKeeps, PTL DEF Spec

\* Outside the tail of a switch a CPU runs its thread on the page table of that thread's
\* process (scheduler_schedule, process_replace, thread_exit_status), for any number of
\* CPUs, threads and tables.
THEOREM OwnSpace == Spec => []SpaceMatches
<1>1. CtxInv => SpaceMatches
  BY DEF CtxInv
<1> QED BY <1>1, ContextInvariant, PTL

\* A program finds the thread pointer it set last or inherited (arch_prctl, process_clone,
\* the switch), on any CPU.
THEOREM OwnThreadPointer == Spec => []TlsMatches
<1>1. CtxInv => TlsMatches
  BY DEF CtxInv
<1> QED BY <1>1, ContextInvariant, PTL

\* User code runs on no stale translation, although arch_tlb_flush_page reaches one CPU.
THEOREM NoStaleTranslation == Spec => []TlbFresh
<1>1. CtxInv => TlbFresh
  BY DEF CtxInv
<1> QED BY <1>1, ContextInvariant, PTL
=============================================================================
