----------------------------- MODULE CpuContext -----------------------------
(***************************************************************************)
(* The per-CPU registers a context switch must keep in step with the       *)
(* thread it runs: CR3 with its cached copy active_cr3 (scheduler.c),      *)
(* IA32_FS_BASE, which user code sets through arch_prctl, and the TLB.     *)
(* execve, fork and exit change them behind the scheduler's back; brk,     *)
(* mmap, mprotect and munmap change translations and tell only the CPU     *)
(* they run on.                                                            *)
(*                                                                         *)
(* Scheduler says which thread runs where; here any ready thread may be    *)
(* next.  Page tables are named by their address, which the allocator      *)
(* hands out again.  Idle thread c of CPU c has no process.                *)
(***************************************************************************)
EXTENDS Naturals

CONSTANTS
    CPUs,
    Threads,     \* threads of processes
    Tables,      \* addresses of page tables
    BootTable,   \* boot_cr3: the kernel's own table
    FsValues,    \* thread pointers user code sets; 0 is the initial one
    Pages,       \* pages of the user half
    Rights,      \* rights a page can have
    None         \* NULL

ASSUME CpuContextAssumption ==
    /\ CPUs \cap Threads = {} /\ None \notin CPUs \cup Threads
    /\ BootTable \notin Tables /\ None \notin Tables \cup {BootTable}
    /\ 0 \in FsValues /\ None \notin FsValues \cup Rights
    /\ None \notin [cr3 : Tables \cup {BootTable}, force : BOOLEAN]

VARIABLES
    curr,        \* current_threads[cpu]
    phase,       \* of a thread: free, ready, running, blocked, parked, dead
    page_table,  \* t->process->page_table, None without a process
    fs_base,     \* t->fs_base
    cr3, active_cr3, fsReg,  \* the CPU's registers and the cached CR3
    switching,   \* cr3 and force between sched_unlock and write_cr3, or None
    parking,     \* pending_park[cpu]
    prepared,    \* the table execve has built for the thread, or None
    retired,     \* the table execve replaced and has not freed yet, or None
    live,        \* allocated tables
    leaves,      \* rights of the pages that a table maps, None for a page it does not
    tlb,         \* translations a CPU has cached: the table they came from and the rights
    tls          \* (history) the thread pointer the user program last set

sched == <<curr, phase, switching, parking>>
regs  == <<cr3, active_cr3, fsReg>>
procs == <<page_table, fs_base, prepared, retired, live, tls>>
memory == <<leaves, tlb>>
vars  == <<sched, regs, procs, memory>>

Unmapped == [va \in Pages |-> None]

\* kmain has started one process; every CPU is idle on the boot table.
Init ==
    \E t0 \in Threads, r0 \in Tables :
        /\ curr = [c \in CPUs |-> c]
        /\ phase = [t \in Threads |-> IF t = t0 THEN "ready" ELSE "free"]
        /\ page_table = [t \in Threads |-> IF t = t0 THEN r0 ELSE None]
        /\ live = {r0}
        /\ fs_base = [t \in Threads |-> 0]
        /\ tls = [t \in Threads |-> 0]
        /\ cr3 = [c \in CPUs |-> BootTable]
        /\ active_cr3 = [c \in CPUs |-> BootTable]
        /\ fsReg = [c \in CPUs |-> 0]
        /\ switching = [c \in CPUs |-> None]
        /\ parking = [c \in CPUs |-> None]
        /\ prepared = [t \in Threads |-> None]
        /\ retired = [t \in Threads |-> None]
        /\ leaves = [r \in Tables |-> Unmapped]
        /\ tlb = [c \in CPUs |-> Unmapped]

HasProcess(t) == t \in Threads /\ page_table[t] # None

\* CPU c executes thread t, outside scheduler_schedule.
Runs(c, t) == curr[c] = t /\ switching[c] = None

\* CPU c executes user code of t, or the entry of a system call.
InUser(c, t) ==
    Runs(c, t) /\ phase[t] = "running" /\ prepared[t] = None /\ retired[t] = None

-----------------------------------------------------------------------------
(* The context switch. *)

\* The thread CPU c leaves: preempted, asleep or dead; a sleeper parked by the
\* previous switch joins its wait queue now.
Left(c, ph) ==
    LET t == curr[c]  s == parking[c]
        settled == IF s = None THEN ph ELSE [ph EXCEPT ![s] = "parked"]
    IN  IF t \in Threads /\ ph[t] = "running"
        THEN [settled EXCEPT ![t] = "ready"] ELSE settled

\* (mutant) the register of the thread that is left is not saved
SavedFs_Never(c) == fs_base

\* fs_base of the thread that is left.
SavedFs(c) ==
    IF HasProcess(curr[c]) THEN [fs_base EXCEPT ![curr[c]] = fsReg[c]] ELSE fs_base

\* (mutant) the cached cr3 decides for processes too
ForceLoad_Cached(t) == FALSE

\* A process's table is always loaded, whatever active_cr3 says.
ForceLoad(t) == HasProcess(t)

\* scheduler_schedule under scheduler_lock, switching CPU c to next.
SwitchTo(c, next, ph) ==
    /\ curr' = [curr EXCEPT ![c] = next]
    /\ phase' = IF next \in Threads THEN [ph EXCEPT ![next] = "running"] ELSE ph
    /\ parking' = [parking EXCEPT ![c] =
           IF curr[c] \in Threads /\ phase[curr[c]] = "blocked" THEN curr[c] ELSE None]
    /\ fs_base' = SavedFs(c)
    /\ fsReg' = [fsReg EXCEPT ![c] = IF HasProcess(next) THEN fs_base[next] ELSE @]
    /\ switching' = [switching EXCEPT ![c] =
           [cr3   |-> IF HasProcess(next) THEN page_table[next] ELSE BootTable,
            force |-> ForceLoad(next)]]
    /\ UNCHANGED <<cr3, active_cr3, page_table, prepared, retired, live, tls, memory>>

\* The timer interrupts user code or the idle loop, or the thread gives up the
\* CPU; system calls run with interrupts off.
MaySwitch(c) ==
    LET t == curr[c] IN
    Runs(c, t) /\ (t \in Threads => phase[t] \in {"blocked", "dead"} \/ InUser(c, t))

Schedule(c) ==
    LET ph == Left(c, phase) IN
    /\ MaySwitch(c)
    /\ \/ \E next \in Threads \ {curr[c]} : ph[next] = "ready" /\ SwitchTo(c, next, ph)
       \/ /\ curr[c] \in Threads /\ phase[curr[c]] \in {"blocked", "dead"}
          /\ \A t \in Threads : ph[t] # "ready"
          /\ SwitchTo(c, c, ph)

\* Nobody else is ready: the CPU keeps its thread, a parked sleeper is settled.
KeepRunning(c) ==
    /\ MaySwitch(c) /\ parking[c] # None
    /\ phase' = [phase EXCEPT ![parking[c]] = "parked"]
    /\ parking' = [parking EXCEPT ![c] = None]
    /\ \A t \in Threads \ {curr[c]} : phase[t] # "ready"
    /\ curr[c] \in Threads => phase[curr[c]] = "running"
    /\ UNCHANGED <<curr, switching, regs, procs, memory>>

\* write_cr3: the translations the CPU has cached are gone with the old table.
WriteCr3(c, r) ==
    /\ cr3' = [cr3 EXCEPT ![c] = r]
    /\ tlb' = [tlb EXCEPT ![c] = Unmapped]
    /\ UNCHANGED leaves

\* After sched_unlock: write_cr3 unless the cache says it is loaded already.
LoadCr3(c) ==
    LET s == switching[c] IN
    /\ s # None
    /\ IF s.force \/ s.cr3 # active_cr3[c]
       THEN /\ WriteCr3(c, s.cr3)
            /\ active_cr3' = [active_cr3 EXCEPT ![c] = s.cr3]
       ELSE UNCHANGED <<cr3, active_cr3, memory>>
    /\ switching' = [switching EXCEPT ![c] = None]
    /\ UNCHANGED <<curr, phase, parking, fsReg, procs>>

\* scheduler_wait, and scheduler_wake_all for a thread that is parked.
Block(c, t) ==
    /\ InUser(c, t)
    /\ phase' = [phase EXCEPT ![t] = "blocked"]
    /\ UNCHANGED <<curr, switching, parking, regs, procs, memory>>
Wake(t) ==
    /\ phase[t] = "parked"
    /\ phase' = [phase EXCEPT ![t] = "ready"]
    /\ UNCHANGED <<curr, switching, parking, regs, procs, memory>>

-----------------------------------------------------------------------------
(* What system calls do to the registers. *)

\* arch_prctl(ARCH_SET_FS) writes the register only.
SetFs(c, t, v) ==
    /\ InUser(c, t)
    /\ fsReg' = [fsReg EXCEPT ![c] = v]
    /\ tls' = [tls EXCEPT ![t] = v]
    /\ UNCHANGED <<sched, cr3, active_cr3, page_table, fs_base, prepared, retired, live, memory>>

\* elf_prepare builds a table, with the program's image in it, while the old one
\* is loaded.
ExecPrepare(c, t, n, image) ==
    /\ InUser(c, t) /\ n \in Tables \ live
    /\ prepared' = [prepared EXCEPT ![t] = n]
    /\ live' = live \cup {n}
    /\ leaves' = [leaves EXCEPT ![n] = image]
    /\ UNCHANGED <<sched, regs, page_table, fs_base, retired, tls, tlb>>

\* process_replace: page_table and CR3 change, active_cr3 does not; the new
\* program starts without a thread pointer.
ExecReplace(c, t) ==
    /\ Runs(c, t) /\ prepared[t] # None
    /\ page_table' = [page_table EXCEPT ![t] = prepared[t]]
    /\ WriteCr3(c, prepared[t])
    /\ retired' = [retired EXCEPT ![t] = page_table[t]]
    /\ prepared' = [prepared EXCEPT ![t] = None]
    /\ fs_base' = [fs_base EXCEPT ![t] = 0]
    /\ fsReg' = [fsReg EXCEPT ![c] = 0]
    /\ tls' = [tls EXCEPT ![t] = 0]
    /\ UNCHANGED <<sched, active_cr3, live>>

\* free_page_table(old_pt).
ExecFree(c, t) ==
    /\ Runs(c, t) /\ retired[t] # None
    /\ live' = live \ {retired[t]}
    /\ retired' = [retired EXCEPT ![t] = None]
    /\ UNCHANGED <<sched, regs, page_table, fs_base, prepared, tls, memory>>

\* fs_base of a child: what clone sets, or the register itself, which is newer
\* than the saved value.
ForkFs(c, v) == IF v = None THEN fsReg[c] ELSE v

\* process_clone; the child's pages are copies with the rights of the parent's.
Fork(c, t, u, n, v) ==
    /\ InUser(c, t) /\ phase[u] = "free" /\ n \in Tables \ live
    /\ phase' = [phase EXCEPT ![u] = "ready"]
    /\ page_table' = [page_table EXCEPT ![u] = n]
    /\ live' = live \cup {n}
    /\ fs_base' = [fs_base EXCEPT ![u] = ForkFs(c, v)]
    /\ tls' = [tls EXCEPT ![u] = IF v = None THEN tls[t] ELSE v]
    /\ leaves' = [leaves EXCEPT ![n] = leaves[page_table[t]]]
    /\ UNCHANGED <<curr, switching, parking, regs, prepared, retired, tlb>>

\* thread_exit_status: back to the boot table, then process_terminate frees the
\* process's.  Some thread must survive: the exit of init is a panic.
Exit(c, t) ==
    /\ InUser(c, t)
    /\ \E u \in Threads \ {t} : page_table[u] # None
    /\ WriteCr3(c, BootTable)
    /\ active_cr3' = [active_cr3 EXCEPT ![c] = BootTable]
    /\ live' = live \ {page_table[t]}
    /\ page_table' = [page_table EXCEPT ![t] = None]
    /\ phase' = [phase EXCEPT ![t] = "dead"]
    /\ UNCHANGED <<curr, switching, parking, fsReg, fs_base, prepared, retired, tls>>

\* scheduler_reap, once no CPU runs the thread.
Reap(t) ==
    /\ phase[t] = "dead" /\ \A c \in CPUs : curr[c] # t
    /\ phase' = [phase EXCEPT ![t] = "free"]
    /\ fs_base' = [fs_base EXCEPT ![t] = 0]
    /\ tls' = [tls EXCEPT ![t] = 0]
    /\ UNCHANGED <<curr, switching, parking, regs, page_table, prepared, retired, live, memory>>

-----------------------------------------------------------------------------
(* Translations. *)

\* (mutant) arch_tlb_flush_page is not called
Flushed_Never(c, va) == tlb

\* arch_tlb_flush_page: invlpg on this CPU alone.
Flushed(c, va) == [tlb EXCEPT ![c][va] = None]

\* map_page_4k, protect_page_4k and unmap_page_4k on the table of the process,
\* for brk, mmap, mprotect and munmap: the entry of page va becomes e.
SetLeaf(c, t, va, e) ==
    /\ InUser(c, t)
    /\ leaves' = [leaves EXCEPT ![page_table[t]][va] = e]
    /\ tlb' = Flushed(c, va)
    /\ UNCHANGED <<sched, regs, procs>>

MapPage(c, t, va, rights) == SetLeaf(c, t, va, rights)
ProtectPage(c, t, va, rights) ==
    InUser(c, t) /\ leaves[page_table[t]][va] # None /\ SetLeaf(c, t, va, rights)
UnmapPage(c, t, va) == SetLeaf(c, t, va, None)

\* The CPU caches a translation of the table that is loaded, whenever it likes.
Walk(c, va) ==
    /\ cr3[c] \in Tables /\ leaves[cr3[c]][va] # None
    /\ tlb' = [tlb EXCEPT ![c][va] = [table |-> cr3[c], rights |-> leaves[cr3[c]][va]]]
    /\ UNCHANGED <<sched, regs, procs, leaves>>

Next ==
    \/ \E c \in CPUs : Schedule(c) \/ KeepRunning(c) \/ LoadCr3(c)
    \/ \E c \in CPUs, va \in Pages :
          \/ Walk(c, va)
          \/ \E t \in Threads :
                \/ UnmapPage(c, t, va)
                \/ \E rights \in Rights : MapPage(c, t, va, rights) \/ ProtectPage(c, t, va, rights)
    \/ \E t \in Threads : Wake(t) \/ Reap(t)
    \/ \E c \in CPUs, t \in Threads :
          \/ Block(c, t) \/ ExecReplace(c, t) \/ ExecFree(c, t) \/ Exit(c, t)
          \/ \E v \in FsValues : SetFs(c, t, v)
          \/ \E n \in Tables, image \in [Pages -> Rights \cup {None}] : ExecPrepare(c, t, n, image)
          \/ \E u \in Threads, n \in Tables, v \in FsValues \cup {None} : Fork(c, t, u, n, v)

Spec == Init /\ [][Next]_vars

-----------------------------------------------------------------------------
(* Properties *)

\* One type invariant.
TypeOK ==
    /\ curr \in [CPUs -> CPUs \cup Threads]
    /\ phase \in [Threads -> {"free", "ready", "running", "blocked", "parked", "dead"}]
    /\ page_table \in [Threads -> Tables \cup {None}]
    /\ fs_base \in [Threads -> FsValues] /\ tls \in [Threads -> FsValues]
    /\ cr3 \in [CPUs -> Tables \cup {BootTable}]
    /\ active_cr3 \in [CPUs -> Tables \cup {BootTable}]
    /\ fsReg \in [CPUs -> FsValues]
    /\ switching \in [CPUs -> {None} \cup [cr3 : Tables \cup {BootTable}, force : BOOLEAN]]
    /\ parking \in [CPUs -> Threads \cup {None}]
    /\ prepared \in [Threads -> Tables \cup {None}]
    /\ retired \in [Threads -> Tables \cup {None}]
    /\ live \subseteq Tables
    /\ leaves \in [Tables -> [Pages -> Rights \cup {None}]]
    /\ tlb \in [CPUs -> [Pages -> {None} \cup [table : Tables, rights : Rights]]]

\* Outside the tail of a switch a CPU runs its thread on the page table of that
\* thread's process, and a thread without a process on the kernel's: never on a
\* freed table and never on another process's, although execve leaves
\* active_cr3 behind and freed tables are allocated again.
SpaceMatches ==
    \A c \in CPUs : switching[c] = None =>
        IF HasProcess(curr[c])
        THEN cr3[c] = page_table[curr[c]] /\ cr3[c] \in live
        ELSE cr3[c] = BootTable

\* A program finds the thread pointer it set last, or inherited at fork,
\* whatever ran on its CPU in between and whichever CPU it runs on now.
TlsMatches ==
    \A c \in CPUs : HasProcess(curr[c]) => fsReg[c] = tls[curr[c]]

\* User code never runs on a stale translation: what its CPU has cached is what
\* the table of its process says now.  Nothing tells the other CPUs of a change;
\* that a process has one thread and that every switch to it writes CR3 must do.
TlbFresh ==
    \A c \in CPUs, va \in Pages :
        HasProcess(curr[c]) /\ switching[c] = None /\ tlb[c][va] # None =>
            /\ tlb[c][va].table = page_table[curr[c]]
            /\ tlb[c][va].rights = leaves[page_table[curr[c]]][va]
=============================================================================
