---------------------------- MODULE StartupProofs ----------------------------
(***************************************************************************)
(* Proofs about Startup and the console under it, for any number of CPUs,  *)
(* any machine and any panics: who holds fb_spinlock is not interrupted    *)
(* and not written over, and every AP that was waited for runs on its own  *)
(* stack.  The second part is about the initramfs that start-up mounts,    *)
(* TarFs, for any archive, any links and any depth of them: the files of   *)
(* the archive are found, the two lookups agree, and what a path means     *)
(* stays as the archive is parsed.                                         *)
(***************************************************************************)
EXTENDS Startup, TarFs, WellFoundedInduction, SequenceTheorems, TLAPS

\* c is between spinlock_acquire and spinlock_release.
Writing(c) == printing[c] # None /\ printing[c].at = "write"

\* Interrupts are off in printk, in a system call, in the scheduler and in a panic,
\* and what prints there does not switch them on at its end.
MaskInv ==
    \A c \in Cpus :
        /\ printing[c] # None => c \notin interrupts
        /\ panic[c] # "no" \/ mode[c] \in {"switching", "system call"} =>
              c \notin interrupts /\ (printing[c] # None => printing[c].flags = FALSE)
        /\ mode[c] = "user" => printing[c] = None /\ panic[c] = "no"

\* fb_spinlock belongs to the CPU that writes, or to one that panicked writing.
FbInv ==
    \A c \in Cpus :
        /\ Writing(c) => fb_spinlock = c
        /\ fb_spinlock = c => Writing(c) \/ panic[c] # "no"

LastInv == unlocked \/ \A c \in Cpus : Writing(c) => last = c

\* The code of an AP before it has answered.
Early == {"sipi", "trampoline", "jump", "main"}

\* boot_all_aps is at an AP of the list as long as boot_ap runs.
ListInv == pc[Bsp] \in {"copied", "filled", "kicked"} => next <= Len(machine.aps)

\* Between the SIPI and the answer the trampoline is that of the AP waited for:
\* the only one on its way, but for those that boot_ap gave up.
TrampolineInv ==
    /\ pc[Bsp] \in {"filled", "kicked"} =>
          /\ trampoline = [stack |-> Target, main |-> TRUE]
          /\ Target \in ap_alive_table =>
                Target \in gaveUp \/ (pc[Bsp] = "kicked" /\ pc[Target] \notin Early)
    /\ \A c \in Cpus \ ({Bsp} \cup gaveUp) : pc[c] \in Early => pc[Bsp] = "kicked" /\ c = Target

StackInv ==
    \A c \in Cpus \ gaveUp :
        /\ stack[c] \in {None, c}
        /\ pc[c] = "jump" => stack[c] = c

\* Why the machine was reset.
DownInv ==
    /\ nmi # {} => panicked
    /\ down => panicked \/ \E a \in gaveUp : pc[a] # "sipi"

IInv ==
    /\ TypeOK
    /\ MaskInv
    /\ FbInv
    /\ LastInv
    /\ ListInv
    /\ TrampolineInv
    /\ StackInv
    /\ DownInv

-----------------------------------------------------------------------------
(* The console.  Every step of it is a step of one CPU. *)

ConsoleInv == ConsoleType /\ MaskInv /\ FbInv /\ LastInv

\* For the CPUs other than c nothing changes.
OnlyFor(c) ==
    \A d \in Cpus \ {c} :
        /\ printing'[d] = printing[d] /\ panic'[d] = panic[d] /\ mode'[d] = mode[d]
        /\ d \in interrupts' <=> d \in interrupts

LEMMA ConsoleQuiet ==
    ASSUME ConsoleInv,
           UNCHANGED <<fb_spinlock, printing, interrupts, last, panic, mode, unlocked>>,
           ConsoleType'
    PROVE  ConsoleInv'
  BY DEF ConsoleInv, MaskInv, FbInv, LastInv, Writing

\* The records of calls are no NULL pointers.
LEMMA CallType ==
    ASSUME NEW kind \in {"printk", "user"}, NEW flags \in BOOLEAN
    PROVE  /\ Call(kind, flags) \in Calls /\ Call(kind, flags) # None
           /\ Call(kind, flags).at = "acquire" /\ Call(kind, flags).flags = flags
  BY StartupAssumption DEF Call, Calls

LEMMA NotIn == ASSUME NEW x, NEW S, x \notin S PROVE (x \in S) = FALSE
  OBVIOUS

\* A call begins on a CPU that is in none: printk switches its interrupts off,
\* user_print is called where they are off.
LEMMA CallBegins ==
    ASSUME ConsoleInv, NEW c \in Cpus, printing[c] = None, mode[c] # "user",
           Printk(c) \/ (UserPrint(c) /\ mode[c] = "system call"),
           OnlyFor(c), mode'[c] = mode[c], UNCHANGED <<fb_spinlock, last, unlocked>>,
           panic'[c] = panic[c] \/ (panic[c] # "no" /\ panic'[c] # "no")
    PROVE  MaskInv' /\ FbInv' /\ LastInv' /\ printing' \in [Cpus -> Calls \cup {None}]
<1> USE StartupAssumption
<1>0. printing \in [Cpus -> Calls \cup {None}]
  BY DEF ConsoleInv, ConsoleType
<1>1. PICK kind \in {"printk", "user"}, off \in BOOLEAN :
        (off <=> c \in interrupts) /\ printing' = [printing EXCEPT ![c] = Call(kind, off)]
  <2>1. PICK kind \in {"printk", "user"} : printing' = [printing EXCEPT ![c] = Call(kind, c \in interrupts)]
    BY DEF Printk, UserPrint
  <2>2. CASE c \in interrupts
    <3>1. printing' = [printing EXCEPT ![c] = Call(kind, TRUE)]
      BY <2>1, <2>2, Zenon
    <3> QED
      BY <2>2, <3>1
  <2>3. CASE c \notin interrupts
    <3>1. (c \in interrupts) = FALSE
      BY <2>3, NotIn
    <3>2. printing' = [printing EXCEPT ![c] = Call(kind, FALSE)]
      BY <2>1, <3>1, Zenon
    <3> QED
      BY <2>3, <3>2
  <2> QED
    BY <2>2, <2>3
<1>2. /\ Call(kind, off) \in Calls /\ Call(kind, off) # None
      /\ Call(kind, off).at = "acquire" /\ Call(kind, off).flags = off
  BY CallType
<1>3. printing' \in [Cpus -> Calls \cup {None}] /\ printing'[c] = Call(kind, off)
  BY <1>0, <1>1, <1>2
<1>4. ~Writing(c)' /\ ~Writing(c)
  BY <1>2, <1>3 DEF Writing
<1>5. c \notin interrupts'
  BY DEF Printk, UserPrint, ConsoleInv, MaskInv
<1>6. panic[c] # "no" \/ mode[c] \in {"switching", "system call"} => printing'[c].flags = FALSE
  <2>1. off \in BOOLEAN /\ (panic[c] # "no" \/ mode[c] \in {"switching", "system call"} => ~off)
    BY <1>1 DEF ConsoleInv, MaskInv
  <2> QED
    BY <1>2, <1>3, <2>1
<1>7. MaskInv'
  BY <1>5, <1>6 DEF ConsoleInv, MaskInv, OnlyFor
<1>8. FbInv' /\ LastInv'
  BY <1>4 DEF ConsoleInv, FbInv, LastInv, Writing, OnlyFor
<1> QED
  BY <1>3, <1>7, <1>8

\* spinlock_acquire: nobody else writes.
LEMMA AcquireStep ==
    ASSUME ConsoleInv, NEW c \in Cpus, Acquire(c), UNCHANGED mode
    PROVE  ConsoleInv'
<1> USE StartupAssumption
<1>1. /\ printing \in [Cpus -> Calls \cup {None}] /\ printing[c] # None
      /\ fb_spinlock = None /\ fb_spinlock' = c /\ last' = c
      /\ printing' = [printing EXCEPT ![c].at = "write"]
      /\ UNCHANGED <<interrupts, panicked, context_switch_lock, panic, nmi, halted, console_suspended,
                     unlocked, masked, reported, mode>>
  BY DEF Acquire, Printing, Available, ConsoleInv, ConsoleType, panicVars
<1>2. printing[c] \in Calls
  BY <1>1
<1>3. /\ printing'[c] \in Calls /\ printing'[c].at = "write" /\ printing'[c].flags = printing[c].flags
      /\ \A d \in Cpus : d # c => printing'[d] = printing[d]
      /\ printing' \in [Cpus -> Calls \cup {None}]
  BY <1>1, <1>2 DEF Calls
<1>4. ConsoleType'
  BY <1>1, <1>3 DEF ConsoleInv, ConsoleType
<1>5. printing'[c] # None
  BY <1>3
<1>6. \A d \in Cpus : ~Writing(d)
  BY <1>1 DEF ConsoleInv, FbInv
<1>7. \A d \in Cpus : Writing(d)' <=> d = c
  BY <1>3, <1>5, <1>6 DEF Writing
<1>8. MaskInv'
  BY <1>1, <1>3 DEF ConsoleInv, MaskInv
<1>9. FbInv' /\ LastInv'
  BY <1>1, <1>7 DEF FbInv, LastInv
<1> QED
  BY <1>4, <1>8, <1>9 DEF ConsoleInv

LEMMA SuppressedStep ==
    ASSUME ConsoleInv, NEW c \in Cpus, Suppressed(c), UNCHANGED mode
    PROVE  ConsoleInv'
<1> USE StartupAssumption
<1>1. /\ printing \in [Cpus -> Calls \cup {None}] /\ printing[c].at = "acquire"
      /\ printing' = [printing EXCEPT ![c] = None]
      /\ masked' \subseteq masked \cup {c}
      /\ UNCHANGED <<fb_spinlock, interrupts, last, panicked, context_switch_lock, panic, nmi, halted,
                     console_suspended, unlocked, reported, mode>>
  BY DEF Suppressed, Printing, ConsoleInv, ConsoleType, panicVars
<1>2. /\ printing'[c] = None /\ \A d \in Cpus : d # c => printing'[d] = printing[d]
      /\ printing' \in [Cpus -> Calls \cup {None}]
  BY <1>1
<1>3. ConsoleType'
  BY <1>1, <1>2 DEF ConsoleInv, ConsoleType
<1>4. \A d \in Cpus : Writing(d)' <=> Writing(d)
  BY <1>1, <1>2 DEF Writing
<1>5. MaskInv'
  BY <1>1, <1>2 DEF ConsoleInv, MaskInv
<1>6. FbInv' /\ LastInv'
  BY <1>1, <1>4 DEF ConsoleInv, FbInv, LastInv
<1> QED
  BY <1>3, <1>5, <1>6 DEF ConsoleInv

\* spinlock_release and the interrupt flag as it was.
LEMMA ReleaseStep ==
    ASSUME ConsoleInv, NEW c \in Cpus, Release(c), UNCHANGED mode
    PROVE  ConsoleInv'
<1> USE StartupAssumption
<1>1. /\ printing \in [Cpus -> Calls \cup {None}] /\ Writing(c)
      /\ fb_spinlock' = None /\ last' = None
      /\ printing' = [printing EXCEPT ![c] = None]
      /\ interrupts' = IF printing[c].flags THEN interrupts \cup {c} ELSE interrupts
      /\ reported' \in BOOLEAN
      /\ UNCHANGED <<panicked, context_switch_lock, panic, nmi, halted, console_suspended, unlocked,
                     masked, mode>>
  BY DEF Release, Printing, Writing, ConsoleInv, ConsoleType, panicVars
<1>2. /\ printing'[c] = None /\ \A d \in Cpus : d # c => printing'[d] = printing[d]
      /\ printing' \in [Cpus -> Calls \cup {None}]
  BY <1>1
<1>3. ConsoleType'
  BY <1>1, <1>2 DEF ConsoleInv, ConsoleType
<1>4. fb_spinlock = c /\ \A d \in Cpus : d # c => ~Writing(d)
  BY <1>1 DEF ConsoleInv, FbInv
<1>5. \A d \in Cpus : ~Writing(d)'
  BY <1>2, <1>4 DEF Writing
<1>6. panic[c] # "no" \/ mode[c] \in {"switching", "system call"} => c \notin interrupts'
  <2> SUFFICES ASSUME panic[c] # "no" \/ mode[c] \in {"switching", "system call"}
               PROVE  c \notin interrupts'
    OBVIOUS
  <2>1. c \notin interrupts /\ printing[c].flags = FALSE
    BY <1>1 DEF ConsoleInv, MaskInv, Writing
  <2>2. interrupts' = interrupts
    BY <1>1, <2>1
  <2> QED
    BY <2>1, <2>2
<1>7. \A d \in Cpus : d # c => (d \in interrupts' <=> d \in interrupts)
  BY <1>1
<1>8. MaskInv'
  BY <1>1, <1>2, <1>6, <1>7 DEF ConsoleInv, MaskInv
<1>9. FbInv' /\ LastInv'
  BY <1>1, <1>5 DEF FbInv, LastInv
<1> QED
  BY <1>3, <1>8, <1>9 DEF ConsoleInv

\* An exception abandons the message of its CPU, and keeps the lock.
LEMMA PanicBeginsStep ==
    ASSUME ConsoleInv, NEW c \in Cpus, PanicBegins(c), mode[c] # "user", UNCHANGED mode
    PROVE  ConsoleInv'
<1> USE StartupAssumption
<1>1. /\ printing \in [Cpus -> Calls \cup {None}]
      /\ panic' = [panic EXCEPT ![c] = "exchange"]
      /\ interrupts' = interrupts \ {c} /\ context_switch_lock' = TRUE
      /\ printing' = [printing EXCEPT ![c] = None]
      /\ UNCHANGED <<fb_spinlock, last, panicked, nmi, halted, console_suspended, unlocked, masked,
                     reported, mode>>
  BY DEF PanicBegins, ConsoleInv, ConsoleType
<1>2. ConsoleType'
  BY <1>1 DEF ConsoleInv, ConsoleType
<1>3. /\ printing'[c] = None /\ panic'[c] = "exchange"
      /\ \A d \in Cpus : d # c => printing'[d] = printing[d] /\ panic'[d] = panic[d]
  BY <1>1 DEF ConsoleInv, ConsoleType
<1>4. MaskInv'
  BY <1>1, <1>3 DEF ConsoleInv, MaskInv
<1>5. FbInv' /\ LastInv'
  BY <1>1, <1>3 DEF ConsoleInv, FbInv, LastInv, Writing
<1> QED
  BY <1>2, <1>4, <1>5 DEF ConsoleInv

\* The steps of a CPU that panics already.
LEMMA PanicGoesOn ==
    ASSUME ConsoleInv, NEW c \in Cpus, UNCHANGED mode,
           \/ PanicExchange(c) \/ PanicResume(c) \/ PanicReport(c) \/ PanicHalts(c)
           \/ \E reach \in SUBSET Cpus : PanicBroadcast(c, reach)
    PROVE  ConsoleInv'
<1> USE StartupAssumption
<1> DEFINE States == {"no", "exchange", "broadcast", "resume", "report", "dump", "double", "halt"}
<1>1. PICK to \in States \ {"no"} : panic' = [panic EXCEPT ![c] = to]
  BY DEF PanicExchange, PanicResume, PanicReport, PanicHalts, PanicBroadcast
<1>2. panic \in [Cpus -> States] /\ panic[c] # "no" /\ printing[c] = None
  BY DEF PanicExchange, PanicResume, PanicReport, PanicHalts, PanicBroadcast, Panic, Free, ConsoleInv,
         ConsoleType
<1>3. /\ panic' \in [Cpus -> States] /\ panic'[c] # "no"
      /\ \A d \in Cpus : d # c => panic'[d] = panic[d]
  BY <1>1, <1>2
<1>4. mode[c] # "user"
  BY <1>2 DEF ConsoleInv, MaskInv
<1>5. UNCHANGED <<fb_spinlock, last, unlocked, masked, reported>>
  BY DEF PanicExchange, PanicResume, PanicReport, PanicHalts, PanicBroadcast, lock
<1>6. /\ panicked' \in BOOLEAN /\ context_switch_lock' \in BOOLEAN /\ console_suspended' \in BOOLEAN
      /\ nmi' \subseteq Cpus /\ halted' \subseteq Cpus
  BY DEF PanicExchange, PanicResume, PanicReport, PanicHalts, PanicBroadcast, ConsoleInv, ConsoleType
<1>7. CASE UNCHANGED <<printing, interrupts>>
  <2>1. ConsoleType'
    BY <1>3, <1>5, <1>6, <1>7 DEF ConsoleInv, ConsoleType
  <2>2. MaskInv'
    BY <1>2, <1>3, <1>7 DEF ConsoleInv, MaskInv
  <2>3. FbInv' /\ LastInv'
    BY <1>3, <1>5, <1>7 DEF ConsoleInv, FbInv, LastInv, Writing
  <2> QED
    BY <2>1, <2>2, <2>3 DEF ConsoleInv
<1>8. CASE Printk(c)
  <2>1. OnlyFor(c) /\ interrupts' \subseteq Cpus
    BY <1>3, <1>8 DEF OnlyFor, Printk, ConsoleInv, ConsoleType
  <2>2. MaskInv' /\ FbInv' /\ LastInv' /\ printing' \in [Cpus -> Calls \cup {None}]
    BY <1>2, <1>3, <1>4, <1>5, <1>8, <2>1, CallBegins
  <2>3. ConsoleType'
    BY <1>3, <1>5, <1>6, <2>1, <2>2 DEF ConsoleInv, ConsoleType
  <2> QED
    BY <2>2, <2>3 DEF ConsoleInv
<1> QED
  BY <1>7, <1>8 DEF PanicExchange, PanicResume, PanicReport, PanicHalts, PanicBroadcast, lock

\* A call from kmain, from ap_main or from a system call.
LEMMA CallStep ==
    ASSUME ConsoleInv, NEW c \in Cpus, printing[c] = None, mode[c] # "user",
           Printk(c) \/ (UserPrint(c) /\ mode[c] = "system call"),
           UNCHANGED <<fb_spinlock, last, panicVars, console_suspended, unlocked, masked, reported, mode>>
    PROVE  ConsoleInv'
<1>1. OnlyFor(c) /\ interrupts' \subseteq Cpus /\ UNCHANGED panic
  BY DEF OnlyFor, Printk, UserPrint, panicVars, ConsoleInv, ConsoleType
<1>2. MaskInv' /\ FbInv' /\ LastInv' /\ printing' \in [Cpus -> Calls \cup {None}]
  BY <1>1, CallBegins
<1>3. ConsoleType'
  BY <1>1, <1>2 DEF ConsoleInv, ConsoleType, panicVars
<1> QED
  BY <1>2, <1>3 DEF ConsoleInv

\* The interrupt flag of c is set, where c has nothing to lose by an interrupt.
LEMMA FlagSet ==
    ASSUME ConsoleInv, NEW c \in Cpus, printing[c] = None, panic[c] = "no",
           interrupts' = interrupts \cup {c}, mode'[c] \in {"own", "user"},
           \A d \in Cpus : d # c => mode'[d] = mode[d],
           UNCHANGED <<fb_spinlock, printing, last, panicVars, console_suspended, unlocked, masked, reported>>
    PROVE  ConsoleInv'
<1>1. ConsoleType'
  BY DEF ConsoleInv, ConsoleType, panicVars
<1>2. MaskInv'
  BY DEF ConsoleInv, MaskInv, panicVars
<1>3. FbInv' /\ LastInv'
  BY DEF ConsoleInv, FbInv, LastInv, Writing, panicVars
<1> QED
  BY <1>1, <1>2, <1>3 DEF ConsoleInv

\* c enters the kernel from code that is in no call.
LEMMA FlagCleared ==
    ASSUME ConsoleInv, NEW c \in Cpus, printing[c] = None,
           interrupts' = interrupts \ {c}, mode'[c] \in {"switching", "system call"},
           \A d \in Cpus : d # c => mode'[d] = mode[d],
           UNCHANGED <<fb_spinlock, printing, last, panicVars, console_suspended, unlocked, masked, reported>>
    PROVE  ConsoleInv'
<1>1. ConsoleType'
  BY DEF ConsoleInv, ConsoleType, panicVars
<1>2. MaskInv'
  BY DEF ConsoleInv, MaskInv, panicVars
<1>3. FbInv' /\ LastInv'
  BY DEF ConsoleInv, FbInv, LastInv, Writing, panicVars
<1> QED
  BY <1>1, <1>2, <1>3 DEF ConsoleInv

LEMMA NextConsoleInv ==
    ASSUME TypeOK, ConsoleInv, [Next]_vars
    PROVE  ConsoleInv'
<1> USE StartupAssumption
<1>0. mode \in [Cpus -> {"own", "switching", "user", "system call"}]
  BY DEF TypeOK
<1>1. ASSUME UNCHANGED <<consoleVars, mode>> PROVE ConsoleInv'
  <2>1. ConsoleType'
    BY <1>1 DEF consoleVars, lock, panicVars, ConsoleInv, ConsoleType
  <2> QED
    BY <1>1, <2>1, ConsoleQuiet DEF consoleVars, lock, panicVars
<1>2. CASE UNCHANGED vars
  BY <1>1, <1>2 DEF vars
<1>3. CASE Boot
  <2>1. CASE BootCopy \/ BootFill \/ BootKick \/ KmainInit
    BY <1>1, <2>1 DEF BootCopy, BootFill, BootKick, KmainInit
  <2>2. CASE BootAlive \/ BootGivesUp \/ BootEnds \/ SuspendPrints
    <3>1. /\ printing[Bsp] = None /\ mode[Bsp] = "own" /\ Printk(Bsp)
          /\ UNCHANGED <<fb_spinlock, last, panicVars, console_suspended, unlocked, masked, reported, mode>>
      BY <2>2 DEF BootAlive, BootGivesUp, BootEnds, SuspendPrints, BootNext, At, Free
    <3> QED
      BY <3>1, CallStep
  <2>3. CASE Suspend
    <3>1. ConsoleType'
      BY <2>3 DEF Suspend, lock, panicVars, ConsoleInv, ConsoleType
    <3> QED
      BY <2>3, <3>1, ConsoleQuiet DEF Suspend, lock, panicVars
  <2> QED
    BY <1>3, <2>1, <2>2, <2>3 DEF Boot
<1>4. ASSUME NEW c \in Cpus, ApStep(c) PROVE ConsoleInv'
  <2>1. CASE ApStarts(c) \/ ApStack(c) \/ ApJump(c) \/ ApAlive(c) \/ ApTimer(c)
    BY <1>1, <2>1 DEF ApStarts, ApStack, ApJump, ApAlive, ApTimer
  <2>2. CASE ApInterrupts(c)
    <3>1. printing[c] = None /\ panic[c] = "no" /\ mode[c] = "own" /\ UNCHANGED mode
      BY <2>2 DEF ApInterrupts, At, Free
    <3> QED
      BY <2>2, <3>1, FlagSet DEF ApInterrupts
  <2>3. CASE ApUmip(c) \/ ApRegisters(c)
    <3>1. /\ printing[c] = None /\ mode[c] = "own"
          /\ UNCHANGED <<fb_spinlock, last, panicVars, console_suspended, unlocked, masked, reported, mode>>
      BY <2>3 DEF ApUmip, ApRegisters, At, Free
    <3>2. CASE Printk(c)
      BY <3>1, <3>2, CallStep
    <3>3. CASE UNCHANGED <<printing, interrupts>>
      BY <1>1, <3>1, <3>3 DEF consoleVars, lock
    <3> QED
      BY <2>3, <3>2, <3>3 DEF ApUmip, ApRegisters
  <2> QED
    BY <1>4, <2>1, <2>2, <2>3 DEF ApStep
<1>5. ASSUME NEW c \in Cpus, Console(c) PROVE ConsoleInv'
  BY <1>5, AcquireStep, SuppressedStep, ReleaseStep, PanicGoesOn DEF Console, PrintStep, PanicStep
<1>6. ASSUME NEW c \in Cpus, Tick(c) \/ Syscall(c) PROVE ConsoleInv'
  <2>1. printing[c] = None
    BY <1>6 DEF Tick, Syscall, ConsoleInv, MaskInv
  <2>2. mode'[c] \in {"switching", "system call"} /\ \A d \in Cpus : d # c => mode'[d] = mode[d]
    BY <1>0, <1>6 DEF Tick, Syscall
  <2> QED
    BY <1>6, <2>1, <2>2, FlagCleared DEF Tick, Syscall
<1>7. ASSUME NEW c \in Cpus, Switch(c) \/ SyscallReturns(c) PROVE ConsoleInv'
  <2>1. printing[c] = None /\ panic[c] = "no"
    BY <1>7 DEF Switch, SyscallReturns, InSyscall, Free
  <2>2. mode'[c] \in {"own", "user"} /\ \A d \in Cpus : d # c => mode'[d] = mode[d]
    BY <1>0, <1>7 DEF Switch, SyscallReturns
  <2> QED
    BY <1>7, <2>1, <2>2, FlagSet DEF Switch, SyscallReturns
<1>8. ASSUME NEW c \in Cpus, SyscallPrints(c) PROVE ConsoleInv'
  <2>1. printing[c] = None /\ mode[c] = "system call"
    BY <1>8 DEF SyscallPrints, InSyscall, Free
  <2> QED
    BY <1>8, <2>1, CallStep DEF SyscallPrints
<1>9. ASSUME NEW c \in Cpus, SyscallWrites(c) PROVE ConsoleInv'
  <2>1. /\ last' = c /\ unlocked' = TRUE
        /\ UNCHANGED <<fb_spinlock, printing, interrupts, panicVars, console_suspended, masked, reported, mode>>
    BY <1>9 DEF SyscallWrites, WriteUnlocked
  <2>2. ConsoleType'
    BY <2>1 DEF ConsoleInv, ConsoleType, panicVars
  <2> QED
    BY <2>1, <2>2 DEF ConsoleInv, MaskInv, FbInv, LastInv, Writing, panicVars
<1>10. ASSUME NEW c \in Cpus, Exception(c) PROVE ConsoleInv'
  BY <1>10, PanicBeginsStep DEF Exception
<1>11. ASSUME NEW c \in Cpus, Broadcast(c) PROVE ConsoleInv'
  <2>1. \E reach \in SUBSET Cpus : PanicBroadcast(c, reach)
    BY <1>11 DEF Broadcast
  <2> QED
    BY <1>11, <2>1, PanicGoesOn DEF Broadcast
<1>12. ASSUME NEW c \in Cpus, NmiStops(c) PROVE ConsoleInv'
  <2>1. ConsoleType'
    BY <1>12 DEF NmiStops, Nmi, lock, ConsoleInv, ConsoleType
  <2> QED
    BY <1>12, <2>1, ConsoleQuiet DEF NmiStops, Nmi, lock
<1> QED
  BY <1>2, <1>3, <1>4, <1>5, <1>6, <1>7, <1>8, <1>9, <1>10, <1>11, <1>12 DEF Next, Reset

-----------------------------------------------------------------------------
(* The boot. *)

BootType ==
    /\ pc \in [Cpus -> {"boot", "copied", "filled", "kicked", "kmain", "suspend", "suspending", "idle",
                        "off", "sipi", "trampoline", "jump", "main", "alive", "timer", "hlt", "umip",
                        "register", "unregistered"}]
    /\ machine \in Machines /\ next \in 1..(Len(machine.aps) + 1)
    /\ trampoline \in [stack : Cpus \cup {None}, main : BOOLEAN]
    /\ stack \in [Cpus -> Cpus \cup {None}]
    /\ ap_alive_table \subseteq Cpus /\ gaveUp \subseteq Cpus
    /\ mode \in [Cpus -> {"own", "switching", "user", "system call"}]
    /\ init \in BOOLEAN /\ tooLate \in BOOLEAN /\ down \in BOOLEAN

BootInv == BootType /\ ListInv /\ TrampolineInv /\ StackInv /\ DownInv

\* The AP that boot_ap starts is one of the others.
LEMMA TargetIsAp ==
    ASSUME BootInv, pc[Bsp] \in {"copied", "filled", "kicked"}
    PROVE  Target \in Cpus \ {Bsp}
<1>1. machine \in [aps : Seq(Cpus \ {Bsp}), tsc : BOOLEAN, faulty : SUBSET Cpus, threads : Nat]
  BY StartupAssumption DEF BootInv, BootType
<1>2. machine.aps \in Seq(Cpus \ {Bsp})
  BY <1>1
<1>3. Len(machine.aps) \in Nat /\ \A i \in 1..Len(machine.aps) : machine.aps[i] \in Cpus \ {Bsp}
  BY <1>2
<1>4. next \in 1..(Len(machine.aps) + 1) /\ next <= Len(machine.aps)
  BY DEF BootInv, BootType, ListInv
<1>5. next \in 1..Len(machine.aps)
  BY <1>3, <1>4
<1> QED
  BY <1>3, <1>5 DEF Target

\* Steps of the console and of threads: the boot does not notice, and a reset comes
\* only from an NMI, which only a panic sends.
LEMMA BootQuiet ==
    ASSUME BootInv, UNCHANGED bootVars,
           mode' \in [Cpus -> {"own", "switching", "user", "system call"}],
           nmi' # {} => panicked', panicked => panicked',
           down' \in BOOLEAN, down' => down \/ panicked'
    PROVE  BootInv'
<1>1. BootType'
  BY DEF BootInv, BootType, bootVars
<1>2. ListInv' /\ TrampolineInv' /\ StackInv'
  BY DEF BootInv, ListInv, TrampolineInv, StackInv, Target, bootVars
<1>3. DownInv'
  BY DEF BootInv, DownInv, bootVars
<1> QED
  BY <1>1, <1>2, <1>3 DEF BootInv

LEMMA BootPc ==
    ASSUME BootInv, NEW c \in Cpus, NEW l, Goto(c, l)
    PROVE  pc'[c] = l /\ \A d \in Cpus : d # c => pc'[d] = pc[d]
  BY DEF BootInv, BootType, Goto

LEMMA BootCopyStep ==
    ASSUME BootInv, ~down, BootCopy PROVE BootInv'
<1> USE StartupAssumption
<1>0. Bsp \in Cpus
  OBVIOUS
<1>1. /\ pc[Bsp] = "boot" /\ next <= Len(machine.aps) /\ Goto(Bsp, "copied") /\ trampoline' = Blank
      /\ UNCHANGED <<machine, next, stack, ap_alive_table, gaveUp, mode, init, tooLate, down, panicked, nmi>>
  BY DEF BootCopy, At, consoleVars, panicVars
<1>2. pc'[Bsp] = "copied" /\ \A d \in Cpus : d # Bsp => pc'[d] = pc[d]
  BY <1>1, BootPc
<1>3. BootType'
  BY <1>1 DEF BootInv, BootType, Blank, Goto
<1>4. ListInv'
  BY <1>1 DEF ListInv
<1>5. TrampolineInv'
  BY <1>0, <1>1, <1>2 DEF BootInv, TrampolineInv, Early
<1>6. StackInv'
  BY <1>1, <1>2 DEF BootInv, StackInv
<1>7. DownInv'
  BY <1>1 DEF BootInv, DownInv
<1> QED
  BY <1>3, <1>4, <1>5, <1>6, <1>7 DEF BootInv

\* No AP that was waited for is still on its way when the trampoline is filled anew.
LEMMA BootFillStep ==
    ASSUME BootInv, ~down, BootFill PROVE BootInv'
<1> USE StartupAssumption
<1>0. Bsp \in Cpus
  OBVIOUS
<1>1. /\ pc[Bsp] = "copied" /\ Goto(Bsp, "filled") /\ trampoline' = [stack |-> Target, main |-> TRUE]
      /\ ap_alive_table' = ap_alive_table \ {Target}
      /\ UNCHANGED <<machine, next, stack, gaveUp, mode, init, tooLate, down, panicked, nmi>>
  BY DEF BootFill, At, consoleVars, panicVars
<1>2. pc'[Bsp] = "filled" /\ \A d \in Cpus : d # Bsp => pc'[d] = pc[d]
  BY <1>1, BootPc
<1>3. Target \in Cpus \ {Bsp} /\ Target' = Target
  BY <1>1, TargetIsAp DEF Target
<1>4. BootType'
  BY <1>1, <1>3 DEF BootInv, BootType, Goto
<1>5. ListInv'
  BY <1>1 DEF BootInv, ListInv
<1>6. TrampolineInv'
  BY <1>0, <1>1, <1>2, <1>3 DEF BootInv, TrampolineInv, Early
<1>7. StackInv'
  BY <1>1, <1>2 DEF BootInv, StackInv
<1>8. DownInv'
  BY <1>1 DEF BootInv, DownInv
<1> QED
  BY <1>4, <1>5, <1>6, <1>7, <1>8 DEF BootInv

LEMMA BootKickStep ==
    ASSUME BootInv, ~down, BootKick PROVE BootInv'
<1> USE StartupAssumption
<1>0. Bsp \in Cpus
  OBVIOUS
<1>1. /\ pc[Bsp] = "filled" /\ pc' = [pc EXCEPT ![Bsp] = "kicked", ![Target] = "sipi"]
      /\ UNCHANGED <<machine, next, trampoline, stack, ap_alive_table, gaveUp, mode, init, tooLate, down,
                     panicked, nmi>>
  BY DEF BootKick, At, consoleVars, panicVars
<1>2. Target \in Cpus \ {Bsp} /\ Target' = Target
  BY <1>1, TargetIsAp DEF Target
<1>3. BootType'
  BY <1>1, <1>2 DEF BootInv, BootType
<1>4. /\ pc'[Bsp] = "kicked" /\ pc'[Target] = "sipi"
      /\ \A d \in Cpus : d # Bsp /\ d # Target => pc'[d] = pc[d]
  BY <1>1, <1>2 DEF BootInv, BootType
<1>5. ListInv'
  BY <1>1 DEF BootInv, ListInv
<1>6. TrampolineInv'
  BY <1>0, <1>1, <1>2, <1>4 DEF BootInv, TrampolineInv, Early
<1>7. StackInv'
  BY <1>1, <1>4 DEF BootInv, StackInv
<1>8. DownInv'
  BY <1>1 DEF BootInv, DownInv
<1> QED
  BY <1>3, <1>5, <1>6, <1>7, <1>8 DEF BootInv

\* boot_ap has seen the answer, or notes that it did not wait for it.
LEMMA BootNextStep ==
    ASSUME BootInv, ~down, BootAlive \/ BootGivesUp PROVE BootInv'
<1> USE StartupAssumption
<1>0. Bsp \in Cpus
  OBVIOUS
<1>1. /\ pc[Bsp] = "kicked" /\ Goto(Bsp, "boot") /\ next' = next + 1
      /\ UNCHANGED <<machine, trampoline, stack, ap_alive_table, mode, init, tooLate, down, panicked, nmi>>
  BY DEF BootAlive, BootGivesUp, BootNext, At, panicVars
<1>2. pc'[Bsp] = "boot" /\ \A d \in Cpus : d # Bsp => pc'[d] = pc[d]
  BY <1>1, BootPc
<1>3. Target \in Cpus \ {Bsp}
  BY <1>1, TargetIsAp
<1>4. gaveUp \subseteq gaveUp' /\ gaveUp' \subseteq Cpus /\ (Target \in gaveUp' \/ Target \in ap_alive_table)
  BY <1>3 DEF BootAlive, BootGivesUp, BootInv, BootType
<1>5. next' \in 1..(Len(machine.aps) + 1)
  <2>1. machine \in [aps : Seq(Cpus \ {Bsp}), tsc : BOOLEAN, faulty : SUBSET Cpus, threads : Nat]
    BY DEF BootInv, BootType
  <2>2. machine.aps \in Seq(Cpus \ {Bsp})
    BY <2>1
  <2>3. Len(machine.aps) \in Nat
    BY <2>2
  <2>4. next \in 1..(Len(machine.aps) + 1) /\ next <= Len(machine.aps)
    BY <1>1 DEF BootInv, BootType, ListInv
  <2> QED
    BY <1>1, <2>3, <2>4
<1>6. BootType'
  BY <1>1, <1>4, <1>5 DEF BootInv, BootType, Goto
<1>7. ListInv'
  BY <1>2 DEF ListInv
<1>8. TrampolineInv'
  BY <1>0, <1>1, <1>2, <1>3, <1>4 DEF BootInv, TrampolineInv
<1>9. StackInv'
  BY <1>1, <1>2, <1>4 DEF BootInv, StackInv
<1>10. DownInv'
  BY <1>1 DEF BootInv, DownInv
<1> QED
  BY <1>6, <1>7, <1>8, <1>9, <1>10 DEF BootInv

\* kmain after boot_all_aps: no AP that was waited for is on its way any more.
LEMMA KmainStep ==
    ASSUME BootInv, ~down, panicked \in BOOLEAN, BootEnds \/ KmainInit \/ SuspendPrints \/ Suspend
    PROVE  BootInv'
<1> USE StartupAssumption
<1>0. Bsp \in Cpus
  OBVIOUS
<1>1. /\ pc[Bsp] \notin {"copied", "filled", "kicked"}
      /\ \E l \in {"kmain", "suspend", "suspending", "idle"} : Goto(Bsp, l)
      /\ UNCHANGED <<machine, next, trampoline, stack, ap_alive_table, gaveUp, mode, down, panicked, nmi>>
      /\ init' \in BOOLEAN
  BY DEF BootEnds, KmainInit, SuspendPrints, Suspend, At, consoleVars, panicVars, BootInv, BootType
<1>2. PICK l \in {"kmain", "suspend", "suspending", "idle"} : Goto(Bsp, l)
  BY <1>1
<1>3. pc'[Bsp] = l /\ \A d \in Cpus : d # Bsp => pc'[d] = pc[d]
  BY <1>2, BootPc
<1>4. tooLate' \in BOOLEAN
  BY DEF BootEnds, KmainInit, SuspendPrints, Suspend, BootInv, BootType
<1>5. BootType'
  BY <1>1, <1>2, <1>4 DEF BootInv, BootType, Goto
<1>6. ListInv'
  BY <1>3 DEF ListInv
<1>7. TrampolineInv'
  BY <1>0, <1>1, <1>3 DEF BootInv, TrampolineInv
<1>8. StackInv'
  BY <1>1, <1>3 DEF BootInv, StackInv
<1>9. DownInv'
  BY <1>1 DEF BootInv, DownInv
<1> QED
  BY <1>5, <1>6, <1>7, <1>8, <1>9 DEF BootInv

\* Steps of an AP that leave the trampoline, the stacks and the table alone.
LEMMA ApMoves ==
    ASSUME BootInv, ~down, NEW c \in Cpus \ {Bsp},
           ApStarts(c) \/ ApInterrupts(c) \/ ApTimer(c) \/ ApUmip(c) \/ ApRegisters(c)
    PROVE  BootInv'
<1> USE StartupAssumption
<1> DEFINE To == {"trampoline", "timer", "umip", "hlt", "register", "idle", "unregistered"}
<1>0. Bsp \in Cpus
  OBVIOUS
<1>1. /\ \E l \in To : Goto(c, l) /\ (l = "trampoline" => pc[c] = "sipi")
      /\ UNCHANGED <<machine, next, trampoline, stack, ap_alive_table, gaveUp, mode, init, tooLate, down,
                     panicked, nmi>>
  BY DEF ApStarts, ApInterrupts, ApTimer, ApUmip, ApRegisters, At, consoleVars, panicVars
<1>2. PICK l \in To : Goto(c, l) /\ (l = "trampoline" => pc[c] = "sipi")
  BY <1>1
<1>3. pc'[c] = l /\ \A d \in Cpus : d # c => pc'[d] = pc[d]
  BY <1>2, BootPc
<1>4. pc'[Bsp] = pc[Bsp] /\ Target' = Target
  BY <1>0, <1>1, <1>3 DEF Target
<1>5. \A d \in Cpus : pc'[d] \in Early => pc[d] \in Early
  BY <1>2, <1>3 DEF Early
<1>6. BootType'
  BY <1>1, <1>2 DEF BootInv, BootType, Goto
<1>7. ListInv'
  BY <1>1, <1>4 DEF BootInv, ListInv
<1>8. TrampolineInv'
  <2>1. pc[Bsp] \in {"filled", "kicked"} => Target \in Cpus
    BY TargetIsAp
  <2> QED
    BY <1>1, <1>4, <1>5, <2>1 DEF BootInv, TrampolineInv
<1>9. StackInv'
  BY <1>1, <1>2, <1>3 DEF BootInv, StackInv
<1>10. DownInv'
  BY <1>1 DEF BootInv, DownInv
<1> QED
  BY <1>6, <1>7, <1>8, <1>9, <1>10 DEF BootInv

\* An AP that is waited for finds its own stack in the trampoline.
LEMMA ApStackStep ==
    ASSUME BootInv, ~down, NEW c \in Cpus \ {Bsp}, ApStack(c)
    PROVE  BootInv'
<1> USE StartupAssumption
<1>0. Bsp \in Cpus
  OBVIOUS
<1>1. /\ pc[c] = "trampoline" /\ Goto(c, "jump") /\ stack' = [stack EXCEPT ![c] = trampoline.stack]
      /\ UNCHANGED <<machine, next, trampoline, ap_alive_table, gaveUp, mode, init, tooLate, down, panicked,
                     nmi>>
  BY DEF ApStack, At, consoleVars, panicVars
<1>2. pc'[c] = "jump" /\ \A d \in Cpus : d # c => pc'[d] = pc[d]
  BY <1>1, BootPc
<1>3. pc'[Bsp] = pc[Bsp] /\ Target' = Target
  BY <1>0, <1>1, <1>2 DEF Target
<1>4. BootType'
  BY <1>1 DEF BootInv, BootType, Goto
<1>5. ListInv'
  BY <1>1, <1>3 DEF BootInv, ListInv
<1>6. TrampolineInv'
  <2>1. pc[Bsp] \in {"filled", "kicked"} => Target \in Cpus
    BY TargetIsAp
  <2>2. \A d \in Cpus : pc'[d] \in Early <=> pc[d] \in Early
    BY <1>1, <1>2 DEF Early
  <2> QED
    BY <1>1, <1>3, <2>1, <2>2 DEF BootInv, TrampolineInv
<1>7. StackInv'
  <2>1. c \notin gaveUp => trampoline.stack = c
    BY <1>1 DEF BootInv, TrampolineInv, Early
  <2>2. stack'[c] = trampoline.stack /\ \A d \in Cpus : d # c => stack'[d] = stack[d]
    BY <1>1 DEF BootInv, BootType
  <2> QED
    BY <1>1, <1>2, <2>1, <2>2 DEF BootInv, StackInv
<1>8. DownInv'
  BY <1>1 DEF BootInv, DownInv
<1> QED
  BY <1>4, <1>5, <1>6, <1>7, <1>8 DEF BootInv

\* Only an AP that was given up can meet a trampoline without ap_main.
LEMMA ApJumpStep ==
    ASSUME BootInv, ~down, NEW c \in Cpus \ {Bsp}, ApJump(c)
    PROVE  BootInv'
<1> USE StartupAssumption
<1>0. Bsp \in Cpus
  OBVIOUS
<1>1. /\ pc[c] = "jump" /\ Goto(c, "main") /\ down' = ~(trampoline.main /\ stack[c] # None)
      /\ UNCHANGED <<machine, next, trampoline, stack, ap_alive_table, gaveUp, mode, init, tooLate, panicked,
                     nmi>>
  BY DEF ApJump, At, consoleVars, panicVars
<1>2. pc'[c] = "main" /\ \A d \in Cpus : d # c => pc'[d] = pc[d]
  BY <1>1, BootPc
<1>3. pc'[Bsp] = pc[Bsp] /\ Target' = Target
  BY <1>0, <1>1, <1>2 DEF Target
<1>4. BootType'
  <2>1. down' \in BOOLEAN
    BY <1>1
  <2> QED
    BY <1>1, <2>1 DEF BootInv, BootType, Goto
<1>5. ListInv'
  BY <1>1, <1>3 DEF BootInv, ListInv
<1>6. TrampolineInv'
  <2>1. pc[Bsp] \in {"filled", "kicked"} => Target \in Cpus
    BY TargetIsAp
  <2>2. \A d \in Cpus : pc'[d] \in Early <=> pc[d] \in Early
    BY <1>1, <1>2 DEF Early
  <2> QED
    BY <1>1, <1>3, <2>1, <2>2 DEF BootInv, TrampolineInv
<1>7. StackInv'
  BY <1>1, <1>2 DEF BootInv, StackInv
<1>8. DownInv'
  <2>1. CASE c \in gaveUp
    BY <1>1, <1>2, <2>1 DEF BootInv, DownInv
  <2>2. CASE c \notin gaveUp
    <3>1. trampoline.main = TRUE /\ stack[c] = c
      BY <1>1, <2>2 DEF BootInv, TrampolineInv, StackInv, Early
    <3>2. ~down'
      BY <1>1, <3>1
    <3> QED
      BY <1>1, <3>2 DEF BootInv, DownInv
  <2> QED
    BY <2>1, <2>2
<1> QED
  BY <1>4, <1>5, <1>6, <1>7, <1>8 DEF BootInv

\* The answer comes from the AP that is waited for, or from one that was given up.
LEMMA ApAliveStep ==
    ASSUME BootInv, ~down, NEW c \in Cpus \ {Bsp}, ApAlive(c)
    PROVE  BootInv'
<1> USE StartupAssumption
<1>0. Bsp \in Cpus
  OBVIOUS
<1>1. /\ pc[c] = "main" /\ Goto(c, "alive") /\ ap_alive_table' = ap_alive_table \cup {c}
      /\ UNCHANGED <<machine, next, trampoline, stack, gaveUp, mode, init, tooLate, down, panicked, nmi>>
  BY DEF ApAlive, At, consoleVars, panicVars
<1>2. pc'[c] = "alive" /\ \A d \in Cpus : d # c => pc'[d] = pc[d]
  BY <1>1, BootPc
<1>3. pc'[Bsp] = pc[Bsp] /\ Target' = Target
  BY <1>0, <1>1, <1>2 DEF Target
<1>4. BootType'
  BY <1>1 DEF BootInv, BootType, Goto
<1>5. ListInv'
  BY <1>1, <1>3 DEF BootInv, ListInv
<1>6. TrampolineInv'
  <2>1. pc[Bsp] \in {"filled", "kicked"} => Target \in Cpus
    BY TargetIsAp
  <2>2. /\ pc'[c] \notin Early /\ pc[c] \in Early
        /\ \A d \in Cpus : d # c => (pc'[d] \in Early <=> pc[d] \in Early)
    BY <1>1, <1>2 DEF Early
  <2>3. c \in gaveUp \/ pc[Bsp] = "kicked"
    BY <2>2 DEF BootInv, TrampolineInv
  <2> QED
    BY <1>1, <1>3, <2>1, <2>2, <2>3 DEF BootInv, TrampolineInv
<1>7. StackInv'
  BY <1>1, <1>2 DEF BootInv, StackInv
<1>8. DownInv'
  BY <1>1 DEF BootInv, DownInv
<1> QED
  BY <1>4, <1>5, <1>6, <1>7, <1>8 DEF BootInv

LEMMA NextBootInv ==
    ASSUME ConsoleType, BootInv, [Next]_vars
    PROVE  BootInv'
<1> DEFINE Modes == {"own", "switching", "user", "system call"}
<1>0. mode \in [Cpus -> Modes] /\ panicked \in BOOLEAN /\ (nmi # {} => panicked) /\ down \in BOOLEAN
  BY DEF ConsoleType, BootInv, BootType, DownInv
<1>1. CASE UNCHANGED vars
  BY <1>0, <1>1, BootQuiet DEF vars, consoleVars, panicVars
<1>2. CASE ~down /\ Boot
  BY <1>0, <1>2, BootCopyStep, BootFillStep, BootKickStep, BootNextStep, KmainStep DEF Boot
<1>3. ASSUME NEW c \in Cpus, ~down, c # Bsp, ApStep(c) PROVE BootInv'
  BY <1>3, ApMoves, ApStackStep, ApJumpStep, ApAliveStep DEF ApStep
<1>4. ASSUME NEW c \in Cpus, Tick(c) \/ Switch(c) \/ Syscall(c) \/ SyscallReturns(c) PROVE BootInv'
  <2>1. UNCHANGED <<bootVars, down, panicked, nmi>>
    BY <1>4 DEF Tick, Switch, Syscall, SyscallReturns, panicVars
  <2>2. mode' \in [Cpus -> Modes]
    BY <1>0, <1>4 DEF Tick, Switch, Syscall, SyscallReturns
  <2> QED
    BY <1>0, <2>1, <2>2, BootQuiet
<1>5. ASSUME NEW c \in Cpus, SyscallPrints(c) \/ SyscallWrites(c) \/ Exception(c) PROVE BootInv'
  <2>1. UNCHANGED <<bootVars, mode, down, panicked, nmi>>
    BY <1>5 DEF SyscallPrints, SyscallWrites, WriteUnlocked, Exception, PanicBegins, panicVars
  <2> QED
    BY <1>0, <2>1, BootQuiet
<1>6. ASSUME NEW c \in Cpus, Console(c) PROVE BootInv'
  <2>1. UNCHANGED <<bootVars, mode, down, nmi>> /\ (panicked => panicked')
    BY <1>6 DEF Console, PrintStep, PanicStep, Acquire, Suppressed, Release, PanicExchange, PanicResume,
                PanicReport, PanicHalts, panicVars
  <2> QED
    BY <1>0, <2>1, BootQuiet
<1>7. ASSUME NEW c \in Cpus, Broadcast(c) PROVE BootInv'
  <2>1. UNCHANGED <<bootVars, mode, down>> /\ panicked'
    BY <1>7 DEF Broadcast, PanicBroadcast
  <2> QED
    BY <1>0, <2>1, BootQuiet
<1>8. ASSUME NEW c \in Cpus, NmiStops(c) PROVE BootInv'
  <2>1. /\ UNCHANGED <<bootVars, mode, panicked>> /\ panicked
        /\ down' = NoTable(c)
    BY <1>0, <1>8 DEF NmiStops, Nmi
  <2>2. down' \in BOOLEAN
    BY <2>1 DEF NoTable
  <2> QED
    BY <1>0, <2>1, <2>2, BootQuiet
<1> QED
  BY <1>1, <1>2, <1>3, <1>4, <1>5, <1>6, <1>7, <1>8 DEF Next, Reset

-----------------------------------------------------------------------------
(* The specification. *)

LEMMA IInvParts == IInv <=> ConsoleInv /\ BootInv
  BY DEF IInv, ConsoleInv, BootInv, BootType, TypeOK

LEMMA InitIInv == Init => IInv
<1> SUFFICES ASSUME Init PROVE ConsoleInv /\ BootInv
  BY IInvParts
<1> USE StartupAssumption
<1>1. ConsoleType
  BY DEF Init, ConsoleInit, ConsoleType
<1>2. \A c \in Cpus : printing[c] = None /\ panic[c] = "no" /\ mode[c] = "own"
  BY DEF Init, ConsoleInit
<1>3. MaskInv /\ FbInv /\ LastInv
  BY <1>2 DEF MaskInv, FbInv, LastInv, Writing, Init, ConsoleInit
<1>4. next \in 1..(Len(machine.aps) + 1)
  <2>1. machine \in [aps : Seq(Cpus \ {Bsp}), tsc : BOOLEAN, faulty : SUBSET Cpus, threads : Nat]
    BY DEF Init
  <2>2. machine.aps \in Seq(Cpus \ {Bsp})
    BY <2>1
  <2>3. Len(machine.aps) \in Nat
    BY <2>2
  <2> QED
    BY <2>3 DEF Init
<1>5. BootType
  BY <1>4 DEF Init, BootType, Blank
<1>6. pc[Bsp] = "boot" /\ \A c \in Cpus : c # Bsp => pc[c] = "off"
  BY DEF Init
<1>7. ListInv /\ TrampolineInv
  BY <1>6 DEF ListInv, TrampolineInv, Early
<1>8. StackInv
  BY <1>6 DEF StackInv, Init
<1>9. DownInv
  BY DEF DownInv, Init, ConsoleInit
<1> QED
  BY <1>1, <1>3, <1>5, <1>7, <1>8, <1>9 DEF ConsoleInv, BootInv

LEMMA NextIInv == IInv /\ [Next]_vars => IInv'
<1> SUFFICES ASSUME IInv, [Next]_vars PROVE IInv'
  OBVIOUS
<1>1. TypeOK /\ ConsoleInv /\ BootInv /\ ConsoleType
  BY IInvParts DEF IInv, ConsoleInv
<1>2. ConsoleInv' /\ BootInv'
  BY <1>1, NextConsoleInv, NextBootInv
<1> QED
  BY <1>2 DEF IInv, ConsoleInv, BootInv, BootType, TypeOK

LEMMA Invariance == Spec => []IInv
  BY InitIInv, NextIInv, PTL DEF Spec

\* The types of kmain, ap_main, the console and the panic on every CPU, for every
\* number of CPUs and every machine (arch/x86_64/smp/boot.c, core/main.c,
\* lib/screen.c, core/panic.c).
THEOREM TypeCorrect == Spec => []TypeOK
<1>1. IInv => TypeOK
  BY DEF IInv
<1> QED
  BY <1>1, Invariance, PTL

\* printk, user_print and locked_printf: a CPU that holds fb_spinlock has its
\* interrupts off, and between the halves of its message nobody else writes who
\* takes the lock (lib/screen.c, core/panic.c).
THEOREM MessagesStayWhole == Spec => []HolderUndisturbed
<1>1. IInv => HolderUndisturbed
  <2> SUFFICES ASSUME IInv PROVE HolderUndisturbed
    OBVIOUS
  <2>1. ASSUME NEW c \in Cpus, fb_spinlock = c PROVE c \notin interrupts
    BY <2>1 DEF IInv, FbInv, MaskInv, Writing
  <2>2. unlocked \/ \A c \in Cpus : Printing(c, "write") => last = c
    BY DEF IInv, LastInv, Writing, Printing
  <2> QED
    BY <2>1, <2>2 DEF HolderUndisturbed
<1> QED
  BY <1>1, Invariance, PTL

\* boot_all_aps over one trampoline: two CPUs share a stack, or an AP falls over a
\* blank trampoline, only after boot_ap gave up an AP that came later after all
\* (arch/x86_64/smp/boot.c).
THEOREM StacksAreOwn == Spec => []OwnStack
<1>1. IInv => OwnStack
  <2> SUFFICES ASSUME IInv PROVE OwnStack
    OBVIOUS
  <2>1. ASSUME NEW c \in Cpus, NEW d \in Cpus, c # d, stack[c] # None, stack[c] = stack[d]
        PROVE  \E a \in gaveUp : stack[a] # None
    BY <2>1 DEF IInv, StackInv
  <2>2. down => panicked \/ \E a \in gaveUp : pc[a] # "sipi"
    BY DEF IInv, DownInv
  <2> QED
    BY <2>1, <2>2 DEF OwnStack
<1> QED
  BY <1>1, Invariance, PTL

-----------------------------------------------------------------------------
(* The initramfs. *)

\* A set of numbers has a least element.
LEMMA LowestExists ==
    ASSUME NEW S \in SUBSET Nat, S # {}
    PROVE  \E n \in S : \A m \in S : n <= m
<1> DEFINE R == OpToRel(<, Nat)
<1>1. IsWellFoundedOn(R, Nat)
  BY NatLessThanWellFounded
<1>2. \A m, n \in Nat : m < n => <<m, n>> \in R
  BY DEF OpToRel
<1> HIDE DEF R
<1>3. PICK n \in S : \A m \in S : ~(<<m, n>> \in R)
  BY <1>1, WFMin
<1>4. ASSUME NEW m \in S PROVE n <= m
  <2>1. m \in Nat /\ n \in Nat
    OBVIOUS
  <2>2. ~(m < n)
    BY <1>2, <1>3, <2>1
  <2> QED
    BY <2>1, <2>2
<1> QED
  BY <1>4

\* Induction on the numbers, for a set.
LEMMA AllNumbers ==
    ASSUME NEW S, 0 \in S, \A n \in Nat : n \in S => n + 1 \in S
    PROVE  \A n \in Nat : n \in S
<1> SUFFICES ASSUME NEW n \in Nat, n \notin S PROVE FALSE
  OBVIOUS
<1>1. PICK m \in Nat \ S : \A k \in Nat \ S : m <= k
  BY LowestExists
<1>2. m # 0 /\ m - 1 \in Nat
  BY <1>1
<1>3. m - 1 \in S
  BY <1>1, <1>2
<1> QED
  BY <1>1, <1>2, <1>3

-----------------------------------------------------------------------------
\* f starts at x and makes step s.
Runs(X, x, s, f) ==
    f \in [Nat -> X] /\ f[0] = x /\ \A k \in Nat : f[k + 1] = s[<<k + 1, f[k]>>]

\* Any step function is run by some f: the recursive functions of TarFs exist.
LEMMA Recursion ==
    ASSUME NEW X, NEW x \in X, NEW s \in [Nat \X X -> X]
    PROVE  \E f : Runs(X, x, s, f)
<1> DEFINE UpTo(n, g) == /\ g \in [Nat -> X] /\ g[0] = x
                         /\ \A k \in Nat : k < n => g[k + 1] = s[<<k + 1, g[k]>>]
           S == {n \in Nat : \E g : UpTo(n, g)}
<1>1. \A n \in Nat : n \in S
  <2>1. 0 \in S
    <3>1. UpTo(0, [k \in Nat |-> x])
      OBVIOUS
    <3> QED
      BY <3>1
  <2>2. ASSUME NEW n \in Nat, n \in S PROVE n + 1 \in S
    <3>1. PICK g : UpTo(n, g)
      BY <2>2
    <3>2. PICK y \in X : y = s[<<n + 1, g[n]>>]
      BY <3>1
    <3> DEFINE h == [g EXCEPT ![n + 1] = y]
    <3>3. h \in [Nat -> X] /\ h[0] = x
      BY <3>1
    <3>4. ASSUME NEW k \in Nat, k < n + 1 PROVE h[k + 1] = s[<<k + 1, h[k]>>]
      <4>1. h[k] = g[k]
        BY <3>1, <3>4
      <4>2. CASE k = n
        BY <3>1, <3>2, <4>1, <4>2
      <4>3. CASE k < n
        BY <3>1, <4>1, <4>3
      <4> QED
        BY <3>4, <4>2, <4>3
    <3>5. UpTo(n + 1, h)
      BY <3>3, <3>4
    <3>6. n + 1 \in Nat
      OBVIOUS
    <3> HIDE DEF UpTo, h
    <3> QED
      BY <3>5, <3>6
  <2> HIDE DEF S
  <2> QED
    BY <2>1, <2>2, AllNumbers
<1>2. ASSUME NEW n \in Nat, NEW m \in Nat, NEW g, NEW h, UpTo(n, g), UpTo(m, h), NEW k \in Nat, k <= n, k <= m
      PROVE  g[k] = h[k]
  <2> DEFINE T == {j \in Nat : j <= n /\ j <= m => g[j] = h[j]}
  <2>1. 0 \in T
    BY <1>2
  <2>2. ASSUME NEW j \in Nat, j \in T PROVE j + 1 \in T
    <3>1. CASE j + 1 <= n /\ j + 1 <= m
      <4>1. j < n /\ j < m /\ g[j] = h[j]
        BY <2>2, <3>1
      <4>2. g[j + 1] = s[<<j + 1, g[j]>>]
        BY <1>2, <4>1
      <4>3. h[j + 1] = s[<<j + 1, h[j]>>]
        BY <1>2, <4>1
      <4>4. g[j + 1] = h[j + 1]
        BY <4>1, <4>2, <4>3
      <4> QED
        BY <4>4
    <3>2. CASE ~(j + 1 <= n /\ j + 1 <= m)
      BY <3>2
    <3> QED
      BY <3>1, <3>2
  <2>3. \A j \in Nat : j \in T
    <3> HIDE DEF T
    <3> QED
      BY <2>1, <2>2, AllNumbers
  <2> QED
    BY <1>2, <2>3
<1> DEFINE G(n) == CHOOSE g : UpTo(n, g)
           f == [n \in Nat |-> G(n)[n]]
<1>3. ASSUME NEW n \in Nat PROVE UpTo(n, G(n))
  <2>1. \E g : UpTo(n, g)
    BY <1>1
  <2> HIDE DEF UpTo
  <2> QED
    BY <2>1
<1> HIDE DEF G
<1>4. f \in [Nat -> X] /\ f[0] = x
  BY <1>3
<1>5. ASSUME NEW k \in Nat PROVE f[k + 1] = s[<<k + 1, f[k]>>]
  <2>1. UpTo(k + 1, G(k + 1)) /\ UpTo(k, G(k))
    BY <1>3
  <2>2. G(k + 1)[k] = G(k)[k]
    <3> HIDE DEF UpTo
    <3> QED
      BY <1>2, <2>1
  <2>3. f[k + 1] = G(k + 1)[k + 1] /\ f[k] = G(k)[k]
    OBVIOUS
  <2>4. G(k + 1)[k + 1] = s[<<k + 1, G(k + 1)[k]>>]
    BY <2>1
  <2> QED
    BY <2>2, <2>3, <2>4
<1>6. Runs(X, x, s, f)
  BY <1>4, <1>5 DEF Runs
<1> HIDE DEF f
<1> QED
  BY <1>6

-----------------------------------------------------------------------------
(* The tree and its walks. *)

\* What a node may hold.
TreeNodes ==
    [name : Names \cup {DotDot}, parent : Nat, type : {"dir", "file", "sym"},
     link : [abs : BOOLEAN, path : Seq(Names \cup {Dot, DotDot})], data : Nat]

\* A parent is older than its children, which have different names.
Tree(ns) ==
    /\ ns \in Seq(TreeNodes) /\ Len(ns) >= 1
    /\ ns[1].type = "dir" /\ ns[1].parent = 0
    /\ \A n \in 2..Len(ns) : ns[n].parent \in 1..(n - 1)
    /\ \A m, n \in DOMAIN ns : ns[m].parent = ns[n].parent /\ ns[m].name = ns[n].name => m = n

\* A node of the tree, or none.
Maybe(ns) == 0..Len(ns)

\* What a tree is, in the terms the walks need.
LEMMA TreeType ==
    ASSUME NEW ns, Tree(ns)
    PROVE  /\ Len(ns) \in Nat /\ DOMAIN ns = 1..Len(ns) /\ RootNode \in DOMAIN ns /\ ns[RootNode].type = "dir"
           /\ ns[RootNode].parent = 0 /\ DOMAIN ns \subseteq Maybe(ns) /\ 0 \in Maybe(ns)
           /\ \A n \in DOMAIN ns : /\ ns[n] \in TreeNodes /\ ns[n].parent \in Maybe(ns)
                                   /\ n # RootNode => ns[n].parent \in DOMAIN ns /\ ns[n].parent < n
           /\ \A n \in Maybe(ns) : n # 0 => n \in DOMAIN ns
<1>1. Len(ns) \in Nat /\ DOMAIN ns = 1..Len(ns) /\ Len(ns) >= 1 /\ \A n \in DOMAIN ns : ns[n] \in TreeNodes
  BY DEF Tree
<1>2. ASSUME NEW n \in DOMAIN ns
      PROVE  ns[n].parent \in Maybe(ns) /\ (n # RootNode => ns[n].parent \in DOMAIN ns /\ ns[n].parent < n)
  <2>1. CASE n = 1
    BY <1>1, <2>1 DEF Tree, Maybe, RootNode
  <2>2. CASE n # 1
    <3>1. n \in 2..Len(ns)
      BY <1>1, <2>2
    <3>2. ns[n].parent \in 1..(n - 1)
      BY <3>1 DEF Tree
    <3> QED
      BY <1>1, <3>1, <3>2 DEF Maybe
  <2> QED
    BY <2>1, <2>2
<1> QED
  BY <1>1, <1>2 DEF Tree, Maybe, RootNode

\* tarfs_find_child finds the one child of a name.
LEMMA FindChildIs ==
    ASSUME NEW ns, Tree(ns), NEW dir, NEW name
    PROVE  /\ FindChild(ns, dir, name) \in Maybe(ns)
           /\ FindChild(ns, dir, name) # 0 =>
                /\ FindChild(ns, dir, name) \in DOMAIN ns
                /\ ns[FindChild(ns, dir, name)].parent = dir
                /\ ns[FindChild(ns, dir, name)].name = name
           /\ \A n \in DOMAIN ns : ns[n].parent = dir /\ ns[n].name = name => FindChild(ns, dir, name) = n
<1> DEFINE c == {n \in DOMAIN ns : ns[n].parent = dir /\ ns[n].name = name}
<1>1. /\ DOMAIN ns = 1..Len(ns) /\ Len(ns) \in Nat
      /\ \A m, n \in DOMAIN ns : ns[m].parent = ns[n].parent /\ ns[m].name = ns[n].name => m = n
  BY TreeType DEF Tree
<1>2. FindChild(ns, dir, name) = IF c = {} THEN 0 ELSE CHOOSE n \in c : \A m \in c : n >= m
  BY DEF FindChild
<1>3. \A m, n \in c : m = n
  BY <1>1
<1>4. c # {} => \E n \in c : \A m \in c : n >= m
  BY <1>1, <1>3
<1>5. c # {} => FindChild(ns, dir, name) \in c
  BY <1>2, <1>4
<1>6. c = {} => FindChild(ns, dir, name) = 0
  BY <1>2
<1>7. \A n \in DOMAIN ns : n # 0 /\ n \in Maybe(ns)
  BY <1>1 DEF Maybe
<1>8. 0 \in Maybe(ns)
  BY <1>1 DEF Maybe
<1> QED
  BY <1>3, <1>5, <1>6, <1>7, <1>8

\* What tarfs_follow may be told about the links.
LinkMap(ns) == [Links(ns) -> Maybe(ns)]

\* A component leads to a node or to none.
LEMMA StepType ==
    ASSUME NEW ns, Tree(ns), NEW to \in LinkMap(ns), NEW cur \in Maybe(ns), NEW name
    PROVE  WalkStep(ns, to, cur, name) \in Maybe(ns) /\ VfsStep(ns, to, cur, name) \in Maybe(ns)
<1>1. /\ RootNode \in DOMAIN ns /\ DOMAIN ns \subseteq Maybe(ns) /\ 0 \in Maybe(ns)
      /\ \A n \in DOMAIN ns : ns[n].parent \in Maybe(ns)
      /\ \A n \in Maybe(ns) : n # 0 => n \in DOMAIN ns
  BY TreeType
<1>2. \A x : FindChild(ns, cur, x) \in Maybe(ns)
  BY FindChildIs
<1>3. \A c \in Maybe(ns) : Follow(ns, to, c) \in Maybe(ns)
  BY <1>1 DEF Follow, LinkMap, Links
<1>4. \A x : Follow(ns, to, FindChild(ns, cur, x)) \in Maybe(ns)
  BY <1>2, <1>3
<1> QED
  BY <1>1, <1>4 DEF WalkStep, VfsStep, Lookup

\* tarfs_walk visits one node after the other.
WalkTrack(ns, to, start, path, f) ==
    /\ f \in [Nat -> Maybe(ns)] /\ f[0] = start
    /\ \A k \in Nat : f[k + 1] = WalkStep(ns, to, f[k], path[k + 1])

\* tarfs_walk returns the last node it visits.
LEMMA WalkByIs ==
    ASSUME NEW ns, Tree(ns), NEW to \in LinkMap(ns), NEW start \in Maybe(ns), NEW path, Len(path) \in Nat
    PROVE  \E f : WalkTrack(ns, to, start, path, f) /\ WalkBy(ns, to, start, path) = f[Len(path)]
<1> DEFINE X == Maybe(ns)
           s == [p \in Nat \X X |-> WalkStep(ns, to, p[2], path[p[1]])]
           E(f) == f = [k \in Nat |-> IF k = 0 THEN start ELSE WalkStep(ns, to, f[k - 1], path[k])]
<1>1. s \in [Nat \X X -> X]
  BY StepType
<1>2. PICK g \in [Nat -> X] : g[0] = start /\ \A k \in Nat : g[k + 1] = s[<<k + 1, g[k]>>]
  <2>1. start \in X
    OBVIOUS
  <2> HIDE DEF s, X
  <2>2. PICK g : Runs(X, start, s, g)
    BY <1>1, <2>1, Recursion, Zenon
  <2> QED
    BY <2>2, Zenon DEF Runs
<1>3. \A k \in Nat : g[k + 1] = WalkStep(ns, to, g[k], path[k + 1])
  <2> SUFFICES ASSUME NEW k \in Nat PROVE g[k + 1] = WalkStep(ns, to, g[k], path[k + 1])
    OBVIOUS
  <2>1. <<k + 1, g[k]>> \in Nat \X X
    OBVIOUS
  <2> QED
    BY <1>2, <2>1
<1>4. E(g)
  <2>1. ASSUME NEW k \in Nat PROVE g[k] = IF k = 0 THEN start ELSE WalkStep(ns, to, g[k - 1], path[k])
    <3>1. CASE k = 0
      BY <1>2, <3>1
    <3>2. CASE k # 0
      <4>1. PICK j \in Nat : j = k - 1 /\ k = j + 1
        BY <3>2
      <4> QED
        BY <1>3, <3>2, <4>1
    <3> QED
      BY <3>1, <3>2
  <2> QED
    BY <1>2, <2>1
<1> DEFINE f == CHOOSE f : E(f)
<1>5. E(f)
  BY <1>4
<1>6. WalkBy(ns, to, start, path) = f[Len(path)]
  BY DEF WalkBy
<1> HIDE DEF f
<1>7. f[0] = start /\ \A k \in Nat : f[k + 1] = WalkStep(ns, to, f[k], path[k + 1])
  <2>1. f[0] = start
    BY <1>5
  <2>2. ASSUME NEW k \in Nat PROVE f[k + 1] = WalkStep(ns, to, f[k], path[k + 1])
    <3>1. PICK j \in Nat : j = k + 1 /\ j # 0 /\ j - 1 = k
      OBVIOUS
    <3> QED
      BY <1>5, <3>1
  <2> QED
    BY <2>1, <2>2
<1>8. \A k \in Nat : k \in {j \in Nat : f[j] \in X}
  <2> DEFINE T == {j \in Nat : f[j] \in X}
  <2>1. 0 \in T
    BY <1>7
  <2>2. ASSUME NEW k \in Nat, k \in T PROVE k + 1 \in T
    <3>1. WalkStep(ns, to, f[k], path[k + 1]) \in X
      BY <2>2, StepType
    <3>2. f[k + 1] = WalkStep(ns, to, f[k], path[k + 1])
      BY <1>7, Zenon
    <3>3. f[k + 1] \in X
      BY <3>1, <3>2, Zenon
    <3>4. k + 1 \in Nat
      OBVIOUS
    <3> QED
      BY <3>3, <3>4
  <2> HIDE DEF T
  <2>3. \A k \in Nat : k \in T
    BY <2>1, <2>2, AllNumbers
  <2> QED
    BY <2>3 DEF T
<1>9. f \in [Nat -> X]
  BY <1>5, <1>8
<1>10. WalkTrack(ns, to, start, path, f)
  BY <1>7, <1>9, Zenon DEF WalkTrack
<1> QED
  BY <1>6, <1>10

\* vfs_lookup does too.
VfsTrack(ns, path, f) ==
    /\ f \in [Nat -> Maybe(ns)] /\ f[0] = RootNode
    /\ \A k \in Nat : f[k + 1] = VfsStep(ns, LinksTo(ns), f[k], path[k + 1])

\* vfs_lookup returns the last node it visits.
LEMMA VfsIs ==
    ASSUME NEW ns, Tree(ns), NEW path, Len(path) \in Nat,
           LinksTo(ns) \in LinkMap(ns)
    PROVE  \E f : VfsTrack(ns, path, f) /\ VfsLookup(ns, path) = f[Len(path)]
<1> DEFINE to == LinksTo(ns)
           X == Maybe(ns)
           s == [p \in Nat \X X |-> VfsStep(ns, to, p[2], path[p[1]])]
           E(f) == f = [k \in Nat |-> IF k = 0 THEN RootNode ELSE VfsStep(ns, to, f[k - 1], path[k])]
<1>0. RootNode \in Maybe(ns) /\ to \in LinkMap(ns)
  BY TreeType
<1>1. s \in [Nat \X X -> X]
  BY StepType
<1>2. PICK g \in [Nat -> X] : g[0] = RootNode /\ \A k \in Nat : g[k + 1] = s[<<k + 1, g[k]>>]
  <2>1. RootNode \in X
    BY <1>0
  <2> HIDE DEF s, X
  <2>2. PICK g : Runs(X, RootNode, s, g)
    BY <1>1, <2>1, Recursion, Zenon
  <2> QED
    BY <2>2, Zenon DEF Runs
<1>3. \A k \in Nat : g[k + 1] = VfsStep(ns, to, g[k], path[k + 1])
  <2> SUFFICES ASSUME NEW k \in Nat PROVE g[k + 1] = VfsStep(ns, to, g[k], path[k + 1])
    OBVIOUS
  <2>1. <<k + 1, g[k]>> \in Nat \X X
    OBVIOUS
  <2> QED
    BY <1>2, <2>1
<1>4. E(g)
  <2>1. ASSUME NEW k \in Nat PROVE g[k] = IF k = 0 THEN RootNode ELSE VfsStep(ns, to, g[k - 1], path[k])
    <3>1. CASE k = 0
      BY <1>2, <3>1
    <3>2. CASE k # 0
      <4>1. PICK j \in Nat : j = k - 1 /\ k = j + 1
        BY <3>2
      <4> QED
        BY <1>3, <3>2, <4>1
    <3> QED
      BY <3>1, <3>2
  <2> QED
    BY <1>2, <2>1
<1> DEFINE f == CHOOSE f : E(f)
<1>5. E(f)
  BY <1>4
<1>6. VfsLookup(ns, path) = f[Len(path)]
  BY DEF VfsLookup
<1> HIDE DEF f, to
<1>7. f[0] = RootNode /\ \A k \in Nat : f[k + 1] = VfsStep(ns, to, f[k], path[k + 1])
  <2>1. f[0] = RootNode
    BY <1>5
  <2>2. ASSUME NEW k \in Nat PROVE f[k + 1] = VfsStep(ns, to, f[k], path[k + 1])
    <3>1. PICK j \in Nat : j = k + 1 /\ j # 0 /\ j - 1 = k
      OBVIOUS
    <3> QED
      BY <1>5, <3>1
  <2> QED
    BY <2>1, <2>2
<1>8. \A k \in Nat : k \in {j \in Nat : f[j] \in X}
  <2> DEFINE T == {j \in Nat : f[j] \in X}
  <2>1. 0 \in T
    BY <1>0, <1>7
  <2>2. ASSUME NEW k \in Nat, k \in T PROVE k + 1 \in T
    <3>1. VfsStep(ns, to, f[k], path[k + 1]) \in X
      BY <1>0, <2>2, StepType
    <3>2. f[k + 1] = VfsStep(ns, to, f[k], path[k + 1])
      BY <1>7, Zenon
    <3>3. f[k + 1] \in X
      BY <3>1, <3>2, Zenon
    <3>4. k + 1 \in Nat
      OBVIOUS
    <3> QED
      BY <3>3, <3>4
  <2> HIDE DEF T
  <2>3. \A k \in Nat : k \in T
    BY <2>1, <2>2, AllNumbers
  <2> QED
    BY <2>3 DEF T
<1>9. f \in [Nat -> X]
  BY <1>5, <1>8
<1>10. VfsTrack(ns, path, f)
  BY <1>7, <1>9, Zenon DEF VfsTrack, to
<1> QED
  BY <1>6, <1>10

\* tarfs_follow at each depth.
LinksTrack(ns, t) ==
    /\ t \in [Nat -> LinkMap(ns)] /\ t[0] = [n \in Links(ns) |-> 0]
    /\ \A k \in Nat : t[k + 1] = [n \in Links(ns) |-> WalkBy(ns, t[k], LinkStart(ns, n), ns[n].link.path)]

\* Following a link leads to a node or to none.
LEMMA LinkStep ==
    ASSUME NEW ns, Tree(ns), NEW n \in Links(ns)
    PROVE  /\ n \in DOMAIN ns /\ LinkStart(ns, n) \in Maybe(ns) /\ Len(ns[n].link.path) \in Nat
           /\ \A to \in LinkMap(ns) : WalkBy(ns, to, LinkStart(ns, n), ns[n].link.path) \in Maybe(ns)
<1>1. n \in DOMAIN ns /\ LinkStart(ns, n) \in Maybe(ns)
  BY TreeType DEF Links, LinkStart
<1>2. ns[n].link.path \in Seq(Names \cup {Dot, DotDot})
  BY <1>1, TreeType DEF TreeNodes
<1>3. Len(ns[n].link.path) \in Nat
  BY <1>2
<1>4. ASSUME NEW to \in LinkMap(ns) PROVE WalkBy(ns, to, LinkStart(ns, n), ns[n].link.path) \in Maybe(ns)
  <2>1. PICK f : /\ WalkTrack(ns, to, LinkStart(ns, n), ns[n].link.path, f)
                 /\ WalkBy(ns, to, LinkStart(ns, n), ns[n].link.path) = f[Len(ns[n].link.path)]
    BY <1>1, <1>3, WalkByIs
  <2>2. f \in [Nat -> Maybe(ns)]
    BY <2>1 DEF WalkTrack
  <2> QED
    BY <1>3, <2>1, <2>2
<1> QED
  BY <1>1, <1>3, <1>4

\* tarfs_follow has an answer for every link at every depth.
LEMMA LinksToIs ==
    ASSUME NEW ns, Tree(ns)
    PROVE  \E t : LinksTrack(ns, t) /\ LinksTo(ns) = t[MaxSymlinkDepth]
<1> DEFINE X == LinkMap(ns)
           Zero == [n \in Links(ns) |-> 0]
           Up(to) == [n \in Links(ns) |-> WalkBy(ns, to, LinkStart(ns, n), ns[n].link.path)]
           s == [p \in Nat \X X |-> Up(p[2])]
           E(f) == f = [k \in Nat |-> [n \in Links(ns) |->
                          IF k = 0 THEN 0 ELSE WalkBy(ns, f[k - 1], LinkStart(ns, n), ns[n].link.path)]]
<1>0. Zero \in X /\ \A to \in X : Up(to) \in X
  <2>1. Zero \in X
    BY TreeType DEF LinkMap
  <2>2. ASSUME NEW to \in X PROVE Up(to) \in X
    BY LinkStep DEF LinkMap
  <2> QED
    BY <2>1, <2>2
<1>1. s \in [Nat \X X -> X]
  <2> HIDE DEF X, Up
  <2> QED
    BY <1>0
<1>2. PICK g \in [Nat -> X] : g[0] = Zero /\ \A k \in Nat : g[k + 1] = s[<<k + 1, g[k]>>]
  <2> HIDE DEF s, X, Zero
  <2>2. PICK g : Runs(X, Zero, s, g)
    BY <1>0, <1>1, Recursion, Zenon
  <2> QED
    BY <2>2, Zenon DEF Runs
<1>3. \A k \in Nat : g[k + 1] = Up(g[k])
  <2> SUFFICES ASSUME NEW k \in Nat PROVE g[k + 1] = Up(g[k])
    OBVIOUS
  <2> HIDE DEF Up, X
  <2>1. <<k + 1, g[k]>> \in Nat \X X
    OBVIOUS
  <2> QED
    BY <1>2, <2>1
<1>4. E(g)
  <2>1. ASSUME NEW k \in Nat
        PROVE  g[k] = [n \in Links(ns) |->
                          IF k = 0 THEN 0 ELSE WalkBy(ns, g[k - 1], LinkStart(ns, n), ns[n].link.path)]
    <3>1. CASE k = 0
      BY <1>2, <3>1
    <3>2. CASE k # 0
      <4>1. PICK j \in Nat : j = k - 1 /\ k = j + 1
        BY <3>2
      <4>2. g[k] = Up(g[k - 1])
        BY <1>3, <4>1
      <4> QED
        BY <3>2, <4>2
    <3> QED
      BY <3>1, <3>2
  <2>2. DOMAIN g = Nat
    OBVIOUS
  <2> QED
    BY <2>1, <2>2
<1> DEFINE f == CHOOSE f : E(f)
<1>5. E(f)
  <2> HIDE DEF E
  <2> QED
    BY <1>4
<1>6. LinksTo(ns) = f[MaxSymlinkDepth]
  BY DEF LinksTo
<1> HIDE DEF f
<1>7. f[0] = Zero /\ \A k \in Nat : f[k + 1] = Up(f[k])
  <2>1. f[0] = Zero
    BY <1>5
  <2>2. ASSUME NEW k \in Nat PROVE f[k + 1] = Up(f[k])
    <3>1. PICK j \in Nat : j = k + 1 /\ j # 0 /\ j - 1 = k
      OBVIOUS
    <3> QED
      BY <1>5, <3>1
  <2> QED
    BY <2>1, <2>2
<1>8. \A k \in Nat : k \in {j \in Nat : f[j] \in X}
  <2> DEFINE T == {j \in Nat : f[j] \in X}
  <2>1. 0 \in T
    BY <1>0, <1>7
  <2>2. ASSUME NEW k \in Nat, k \in T PROVE k + 1 \in T
    <3> HIDE DEF Up, X
    <3>1. f[k + 1] \in X
      BY <1>0, <1>7, <2>2, Zenon
    <3>2. k + 1 \in Nat
      OBVIOUS
    <3> QED
      BY <3>1, <3>2
  <2> HIDE DEF T
  <2>3. \A k \in Nat : k \in T
    BY <2>1, <2>2, AllNumbers
  <2> QED
    BY <2>3 DEF T
<1>9. f \in [Nat -> X]
  <2>1. DOMAIN f = Nat /\ f = [k \in Nat |-> f[k]]
    BY <1>5
  <2> HIDE DEF X
  <2> QED
    BY <1>8, <2>1
<1>10. LinksTrack(ns, f)
  BY <1>7, <1>9, Zenon DEF LinksTrack
<1> QED
  BY <1>6, <1>10

\* The answers of tarfs_follow are nodes or none.
LEMMA LinksToType ==
    ASSUME NEW ns, Tree(ns)
    PROVE  LinksTo(ns) \in LinkMap(ns)
<1>1. PICK t : LinksTrack(ns, t) /\ LinksTo(ns) = t[MaxSymlinkDepth]
  BY LinksToIs
<1>2. t \in [Nat -> LinkMap(ns)] /\ MaxSymlinkDepth \in Nat
  BY <1>1, TarFsAssumption DEF LinksTrack
<1> QED
  BY <1>1, <1>2

\* The nodes whose ancestors are all directories: what a walk can reach.
Closed(ns, S) ==
    \A m \in S : m # RootNode => ns[m].parent \in S /\ ns[ns[m].parent].type = "dir"
Solid(ns) == {n \in DOMAIN ns : \E S \in SUBSET DOMAIN ns : n \in S /\ Closed(ns, S)}

\* What a walk can end at.
Ends(ns) == {0} \cup {n \in Solid(ns) : ns[n].type # "sym"}

\* The root is one of them, and so are their parents and the children of the directories.
LEMMA SolidIs ==
    ASSUME NEW ns, Tree(ns)
    PROVE  /\ RootNode \in Solid(ns) /\ RootNode \in Ends(ns)
           /\ \A n \in Solid(ns) : /\ n \in DOMAIN ns
                                   /\ n # RootNode => ns[n].parent \in Solid(ns) /\ ns[n].parent \in Ends(ns)
           /\ \A n \in DOMAIN ns : ns[n].parent \in Solid(ns) /\ ns[ns[n].parent].type = "dir" => n \in Solid(ns)
<1>1. RootNode \in DOMAIN ns /\ ns[RootNode].type = "dir"
  BY TreeType
<1>2. RootNode \in Solid(ns)
  <2>1. {RootNode} \in SUBSET DOMAIN ns /\ Closed(ns, {RootNode})
    BY <1>1 DEF Closed
  <2> QED
    BY <1>1, <2>1 DEF Solid
<1>3. ASSUME NEW n \in Solid(ns), n # RootNode PROVE ns[n].parent \in Solid(ns) /\ ns[n].parent \in Ends(ns)
  <2>1. PICK S \in SUBSET DOMAIN ns : n \in S /\ Closed(ns, S)
    BY DEF Solid
  <2>2. ns[n].parent \in S /\ ns[ns[n].parent].type = "dir"
    BY <1>3, <2>1 DEF Closed
  <2>3. ns[n].parent \in Solid(ns)
    BY <2>1, <2>2 DEF Solid
  <2> QED
    BY <2>2, <2>3 DEF Ends
<1>4. ASSUME NEW n \in DOMAIN ns, ns[n].parent \in Solid(ns), ns[ns[n].parent].type = "dir" PROVE n \in Solid(ns)
  <2>1. PICK S \in SUBSET DOMAIN ns : ns[n].parent \in S /\ Closed(ns, S)
    BY <1>4 DEF Solid
  <2>2. S \cup {n} \in SUBSET DOMAIN ns /\ Closed(ns, S \cup {n})
    BY <1>4, <2>1 DEF Closed
  <2> QED
    BY <2>2 DEF Solid
<1>5. RootNode \in Ends(ns)
  BY <1>1, <1>2 DEF Ends
<1>6. \A n \in Solid(ns) : n \in DOMAIN ns
  BY DEF Solid
<1> QED
  BY <1>2, <1>3, <1>4, <1>5, <1>6

\* What tarfs_follow may be told for a walk to end well.
EndsWell(ns, to) == to \in LinkMap(ns) /\ \A n \in Links(ns) : n \in Solid(ns) => to[n] \in Ends(ns)

\* A component never leads to a link or out of the nodes that can be reached.
LEMMA StepEndsWell ==
    ASSUME NEW ns, Tree(ns), NEW to, EndsWell(ns, to), NEW cur \in Ends(ns), NEW name
    PROVE  WalkStep(ns, to, cur, name) \in Ends(ns)
<1>0. 0 \in Ends(ns)
  BY DEF Ends
<1>1. CASE cur = 0 \/ ns[cur].type # "dir"
  BY <1>0, <1>1 DEF WalkStep
<1>2. CASE cur # 0 /\ ns[cur].type = "dir"
  <2>1. cur \in Solid(ns) /\ cur \in DOMAIN ns
    BY <1>2, SolidIs DEF Ends
  <2>2. CASE name = Dot
    BY <1>2, <2>2 DEF WalkStep
  <2>3. CASE name # Dot /\ name = DotDot
    <3>1. CASE cur = RootNode
      BY <1>2, <2>3, <3>1, TreeType DEF WalkStep
    <3>2. CASE cur # RootNode
      BY <1>2, <2>1, <2>3, <3>2, SolidIs DEF WalkStep
    <3> QED
      BY <3>1, <3>2
  <2>4. CASE name # Dot /\ name # DotDot
    <3>1. PICK c : c = FindChild(ns, cur, name)
      OBVIOUS
    <3>2. WalkStep(ns, to, cur, name) = Follow(ns, to, c)
      BY <1>2, <2>4, <3>1 DEF WalkStep
    <3>3. CASE c = 0
      BY <1>0, <3>2, <3>3 DEF Follow
    <3>4. CASE c # 0
      <4>1. c \in DOMAIN ns /\ ns[c].parent = cur
        BY <3>1, <3>4, FindChildIs
      <4>2. c \in Solid(ns)
        BY <1>2, <2>1, <4>1, SolidIs
      <4>3. CASE ns[c].type = "sym"
        BY <3>2, <3>4, <4>1, <4>2, <4>3 DEF Follow, EndsWell, Links
      <4>4. CASE ns[c].type # "sym"
        BY <3>2, <3>4, <4>2, <4>4 DEF Follow, Ends
      <4> QED
        BY <4>3, <4>4
    <3> QED
      BY <3>3, <3>4
  <2> QED
    BY <2>2, <2>3, <2>4
<1> QED
  BY <1>1, <1>2

\* Neither does a walk.
LEMMA WalkEndsWell ==
    ASSUME NEW ns, Tree(ns), NEW to, EndsWell(ns, to), NEW start \in Ends(ns), start \in Maybe(ns),
           NEW path, Len(path) \in Nat
    PROVE  WalkBy(ns, to, start, path) \in Ends(ns)
<1>0. to \in LinkMap(ns)
  BY DEF EndsWell
<1>1. PICK f : WalkTrack(ns, to, start, path, f) /\ WalkBy(ns, to, start, path) = f[Len(path)]
  BY <1>0, WalkByIs
<1> DEFINE T == {k \in Nat : f[k] \in Ends(ns)}
<1>2. 0 \in T
  BY <1>1 DEF WalkTrack
<1>3. ASSUME NEW k \in Nat, k \in T PROVE k + 1 \in T
  <2>1. WalkStep(ns, to, f[k], path[k + 1]) \in Ends(ns)
    BY <1>3, StepEndsWell
  <2>2. f[k + 1] = WalkStep(ns, to, f[k], path[k + 1])
    BY <1>1, Zenon DEF WalkTrack
  <2>3. f[k + 1] \in Ends(ns)
    BY <2>1, <2>2, Zenon
  <2> QED
    BY <2>3
<1>4. \A k \in Nat : k \in T
  <2> HIDE DEF T
  <2> QED
    BY <1>2, <1>3, AllNumbers
<1> QED
  BY <1>1, <1>4

\* Nor a link, at any depth.
LEMMA LinksEndWell ==
    ASSUME NEW ns, Tree(ns)
    PROVE  EndsWell(ns, LinksTo(ns))
<1>1. PICK t : LinksTrack(ns, t) /\ LinksTo(ns) = t[MaxSymlinkDepth]
  BY LinksToIs
<1>2. MaxSymlinkDepth \in Nat
  BY TarFsAssumption
<1> DEFINE T == {k \in Nat : EndsWell(ns, t[k])}
<1>3. 0 \in T
  BY <1>1 DEF LinksTrack, EndsWell, Ends
<1>4. ASSUME NEW k \in Nat, k \in T PROVE k + 1 \in T
  <2>1. t[k + 1] = [n \in Links(ns) |-> WalkBy(ns, t[k], LinkStart(ns, n), ns[n].link.path)]
    BY <1>1, Zenon DEF LinksTrack
  <2>2. ASSUME NEW n \in Links(ns), n \in Solid(ns) PROVE t[k + 1][n] \in Ends(ns)
    <3>1. LinkStart(ns, n) \in Ends(ns)
      <4>1. n # RootNode
        BY TreeType DEF Links
      <4> QED
        BY <2>2, <4>1, SolidIs DEF LinkStart
    <3>2. LinkStart(ns, n) \in Maybe(ns) /\ Len(ns[n].link.path) \in Nat
      BY LinkStep
    <3>3. WalkBy(ns, t[k], LinkStart(ns, n), ns[n].link.path) \in Ends(ns)
      BY <1>4, <3>1, <3>2, WalkEndsWell
    <3> QED
      BY <2>1, <3>3
  <2>3. t[k + 1] \in LinkMap(ns)
    BY <1>1 DEF LinksTrack
  <2>4. EndsWell(ns, t[k + 1])
    BY <2>2, <2>3 DEF EndsWell
  <2> QED
    BY <2>4
<1>5. \A k \in Nat : k \in T
  <2> HIDE DEF T
  <2> QED
    BY <1>3, <1>4, AllNumbers
<1> QED
  BY <1>1, <1>2, <1>5

\* A path in the archive is a sequence of names.
LEMMA PathIs ==
    ASSUME NEW p \in Paths
    PROVE  /\ p \in Seq(Names) /\ Len(p) \in 1..MaxPath /\ Len(p) \in Nat /\ DOMAIN p = 1..Len(p)
           /\ \A k \in 1..Len(p) : p[k] \in Names /\ p[k] # Dot /\ p[k] # DotDot
<1>1. PICK n \in 1..MaxPath : p \in [1..n -> Names]
  BY DEF Paths
<1>2. n \in Nat /\ MaxPath \in Nat
  BY <1>1, TarFsAssumption
<1>3. p \in Seq(Names) /\ Len(p) = n
  BY <1>1, <1>2
<1>4. DOMAIN p = 1..n /\ \A k \in 1..n : p[k] \in Names
  BY <1>1
<1>5. \A x \in Names : x # Dot /\ x # DotDot
  BY TarFsAssumption
<1> QED
  BY <1>1, <1>2, <1>3, <1>4, <1>5

\* The path that vfs_lookup asks tarfs for.
CutPath(path) == [k \in DOMAIN path |-> Cut[path[k]]]

\* It is a path of as many plain names.
LEMMA CutPathIs ==
    ASSUME NEW path \in Paths
    PROVE  /\ CutPath(path) \in Paths /\ Len(CutPath(path)) = Len(path)
           /\ \A k \in 1..Len(path) : CutPath(path)[k] = Token(path[k])
<1>1. PICK n \in 1..MaxPath : path \in [1..n -> Names]
  BY DEF Paths
<1>2. n \in Nat /\ MaxPath \in Nat /\ Cut \in [Names -> Names]
  BY <1>1, TarFsAssumption
<1>3. CutPath(path) \in [1..n -> Names] /\ \A k \in 1..n : CutPath(path)[k] = Token(path[k])
  BY <1>1, <1>2 DEF CutPath, Token
<1>4. CutPath(path) \in Paths
  BY <1>3 DEF Paths
<1>5. Len(path) = n /\ Len(CutPath(path)) = n
  BY <1>1, <1>2, <1>3
<1> QED
  BY <1>3, <1>4, <1>5

\* The two lookups agree on the paths of plain names, cut for one of them.
LEMMA Agreement ==
    ASSUME NEW ns, Tree(ns), NEW whole \in Paths
    PROVE  /\ VfsLookup(ns, whole) = Walk(ns, RootNode, CutPath(whole))
           /\ VfsLookup(ns, whole) # 0 => ns[VfsLookup(ns, whole)].type # "sym"
<1> DEFINE to == LinksTo(ns)
<1>01. PICK path \in Paths : path = CutPath(whole) /\ Len(path) = Len(whole)
  BY CutPathIs
<1>02. \A k \in 1..Len(path) : path[k] = Token(whole[k])
  BY <1>01, CutPathIs
<1>03. \A k \in 1..Len(whole) : whole[k] # Dot
  BY PathIs
<1>0. to \in LinkMap(ns) /\ EndsWell(ns, to) /\ RootNode \in Maybe(ns) /\ RootNode \in Ends(ns)
  BY LinksToType, LinksEndWell, TreeType, SolidIs
<1>1. Len(path) \in Nat /\ \A k \in 1..Len(path) : path[k] # Dot /\ path[k] # DotDot
  BY PathIs
<1>2. PICK f : WalkTrack(ns, to, RootNode, path, f) /\ Walk(ns, RootNode, path) = f[Len(path)]
  BY <1>0, <1>1, WalkByIs DEF Walk
<1>3. PICK g : VfsTrack(ns, whole, g) /\ VfsLookup(ns, whole) = g[Len(path)]
  BY <1>0, <1>01, <1>1, VfsIs
<1> DEFINE T == {k \in Nat : k <= Len(path) => f[k] = g[k]}
<1>4. 0 \in T
  BY <1>2, <1>3 DEF WalkTrack, VfsTrack
<1>5. ASSUME NEW k \in Nat, k \in T PROVE k + 1 \in T
  <2>1. CASE k + 1 <= Len(path)
    <3>1. f[k] = g[k] /\ k + 1 \in 1..Len(path)
      BY <1>1, <1>5, <2>1
    <3>2. PICK name : name = path[k + 1] /\ name # Dot /\ name # DotDot
      BY <1>1, <3>1
    <3>3. f[k + 1] = WalkStep(ns, to, f[k], path[k + 1])
      BY <1>2, Zenon DEF WalkTrack
    <3>4. g[k + 1] = VfsStep(ns, to, g[k], whole[k + 1])
      BY <1>3, Zenon DEF VfsTrack
    <3>5. PICK long : long = whole[k + 1] /\ long # Dot /\ Token(long) = name
      BY <1>01, <1>02, <1>03, <3>1, <3>2
    <3>6. WalkStep(ns, to, f[k], name) = VfsStep(ns, to, f[k], long)
      BY <3>2, <3>5 DEF WalkStep, VfsStep, Lookup
    <3>7. f[k + 1] = g[k + 1]
      BY <3>1, <3>2, <3>3, <3>4, <3>5, <3>6
    <3> QED
      BY <3>7
  <2>2. CASE ~(k + 1 <= Len(path))
    BY <2>2
  <2> QED
    BY <2>1, <2>2
<1>6. \A k \in Nat : k \in T
  <2> HIDE DEF T
  <2> QED
    BY <1>4, <1>5, AllNumbers
<1>7. VfsLookup(ns, whole) = Walk(ns, RootNode, path)
  BY <1>1, <1>2, <1>3, <1>6
<1>8. Walk(ns, RootNode, path) \in Ends(ns)
  BY <1>0, <1>1, WalkEndsWell DEF Walk
<1> QED
  BY <1>01, <1>7, <1>8 DEF Ends

-----------------------------------------------------------------------------
(* Growing the tree. *)

\* The tree ms has the nodes of ns and maybe more.
Grown(ns, ms) ==
    Tree(ns) /\ Tree(ms) /\ Len(ns) <= Len(ms) /\ \A n \in DOMAIN ns : ms[n] = ns[n]

\* What was found stays found.
Keeps(ns, to, so) == \A n \in Links(ns) : to[n] # 0 => so[n] = to[n]

\* A tree that has grown has the old links and children.
LEMMA GrownIs ==
    ASSUME NEW ns, NEW ms, Grown(ns, ms)
    PROVE  /\ DOMAIN ns \subseteq DOMAIN ms /\ Links(ns) \subseteq Links(ms)
           /\ Maybe(ns) \subseteq Maybe(ms)
           /\ \A n \in Links(ns) : LinkStart(ms, n) = LinkStart(ns, n) /\ ms[n].link = ns[n].link
           /\ \A d, x : FindChild(ns, d, x) # 0 => FindChild(ms, d, x) = FindChild(ns, d, x)
<1>1. Tree(ns) /\ Tree(ms) /\ Len(ns) <= Len(ms) /\ \A n \in DOMAIN ns : ms[n] = ns[n]
  BY DEF Grown
<1>2. DOMAIN ns = 1..Len(ns) /\ DOMAIN ms = 1..Len(ms) /\ Len(ns) \in Nat /\ Len(ms) \in Nat
  BY <1>1, TreeType
<1>3. DOMAIN ns \subseteq DOMAIN ms /\ Maybe(ns) \subseteq Maybe(ms)
  BY <1>1, <1>2 DEF Maybe
<1>4. Links(ns) \subseteq Links(ms) /\ \A n \in Links(ns) : LinkStart(ms, n) = LinkStart(ns, n) /\ ms[n].link = ns[n].link
  BY <1>1, <1>3 DEF Links, LinkStart
<1>5. ASSUME NEW d, NEW x, FindChild(ns, d, x) # 0 PROVE FindChild(ms, d, x) = FindChild(ns, d, x)
  <2>1. PICK c : c = FindChild(ns, d, x)
    OBVIOUS
  <2>2. c \in DOMAIN ns /\ ns[c].parent = d /\ ns[c].name = x
    BY <1>1, <1>5, <2>1, FindChildIs
  <2>3. c \in DOMAIN ms /\ ms[c].parent = d /\ ms[c].name = x
    BY <1>1, <1>3, <2>2
  <2> QED
    BY <1>1, <2>1, <2>3, FindChildIs
<1> QED
  BY <1>3, <1>4, <1>5

\* A component that led to a node leads to it in the grown tree.
LEMMA StepKeeps ==
    ASSUME NEW ns, NEW ms, Grown(ns, ms), NEW to \in LinkMap(ns), NEW so \in LinkMap(ms), Keeps(ns, to, so),
           NEW cur \in Maybe(ns), NEW name
    PROVE  /\ WalkStep(ns, to, cur, name) # 0 => WalkStep(ms, so, cur, name) = WalkStep(ns, to, cur, name)
           /\ VfsStep(ns, to, cur, name) # 0 => VfsStep(ms, so, cur, name) = VfsStep(ns, to, cur, name)
<1>1. CASE cur = 0
  BY <1>1 DEF WalkStep, VfsStep
<1>2. CASE cur # 0
  <2>1. cur \in DOMAIN ns /\ ms[cur] = ns[cur]
    BY <1>2, TreeType DEF Grown
  <2>2. ASSUME NEW x, Follow(ns, to, FindChild(ns, cur, x)) # 0
        PROVE  Follow(ms, so, FindChild(ms, cur, x)) = Follow(ns, to, FindChild(ns, cur, x))
    <3>1. PICK c : c = FindChild(ns, cur, x)
      OBVIOUS
    <3>2. PICK d : d = FindChild(ms, cur, x)
      OBVIOUS
    <3>3. c # 0 => d = c /\ c \in DOMAIN ns /\ ms[c] = ns[c]
      BY <3>1, <3>2, GrownIs, FindChildIs DEF Grown
    <3> QED
      BY <2>2, <3>1, <3>2, <3>3 DEF Follow, Keeps, Links
  <2> QED
    BY <1>2, <2>1, <2>2 DEF WalkStep, VfsStep, Lookup
<1> QED
  BY <1>1, <1>2

\* So does a walk.
LEMMA WalkKeeps ==
    ASSUME NEW ns, NEW ms, Grown(ns, ms), NEW to \in LinkMap(ns), NEW so \in LinkMap(ms), Keeps(ns, to, so),
           NEW start \in Maybe(ns), NEW path, Len(path) \in Nat, WalkBy(ns, to, start, path) # 0
    PROVE  WalkBy(ms, so, start, path) = WalkBy(ns, to, start, path)
<1>0. Tree(ns) /\ Tree(ms) /\ start \in Maybe(ms)
  BY GrownIs DEF Grown
<1>1. PICK f : WalkTrack(ns, to, start, path, f) /\ WalkBy(ns, to, start, path) = f[Len(path)]
  BY <1>0, WalkByIs
<1>2. PICK g : WalkTrack(ms, so, start, path, g) /\ WalkBy(ms, so, start, path) = g[Len(path)]
  BY <1>0, WalkByIs
<1> DEFINE T == {k \in Nat : f[k] # 0 => g[k] = f[k]}
<1>3. 0 \in T
  BY <1>1, <1>2 DEF WalkTrack
<1>4. ASSUME NEW k \in Nat, k \in T PROVE k + 1 \in T
  <2>1. f[k + 1] = WalkStep(ns, to, f[k], path[k + 1])
    BY <1>1, Zenon DEF WalkTrack
  <2>2. g[k + 1] = WalkStep(ms, so, g[k], path[k + 1])
    BY <1>2, Zenon DEF WalkTrack
  <2>3. f[k] \in Maybe(ns)
    BY <1>1 DEF WalkTrack
  <2>4. f[k] = 0 => WalkStep(ns, to, f[k], path[k + 1]) = 0
    BY DEF WalkStep
  <2>5. WalkStep(ns, to, f[k], path[k + 1]) # 0 =>
            WalkStep(ms, so, f[k], path[k + 1]) = WalkStep(ns, to, f[k], path[k + 1])
    BY <2>3, StepKeeps
  <2>6. f[k + 1] # 0 => g[k + 1] = f[k + 1]
    BY <1>4, <2>1, <2>2, <2>4, <2>5
  <2> QED
    BY <2>6
<1>5. \A k \in Nat : k \in T
  <2> HIDE DEF T
  <2> QED
    BY <1>3, <1>4, AllNumbers
<1> QED
  BY <1>1, <1>2, <1>5

\* So does a link, by induction on the depth.
LEMMA LinksKept ==
    ASSUME NEW ns, NEW ms, Grown(ns, ms)
    PROVE  Keeps(ns, LinksTo(ns), LinksTo(ms))
<1>0. Tree(ns) /\ Tree(ms) /\ MaxSymlinkDepth \in Nat
  BY TarFsAssumption DEF Grown
<1>1. PICK t : LinksTrack(ns, t) /\ LinksTo(ns) = t[MaxSymlinkDepth]
  BY <1>0, LinksToIs
<1>2. PICK u : LinksTrack(ms, u) /\ LinksTo(ms) = u[MaxSymlinkDepth]
  BY <1>0, LinksToIs
<1> DEFINE T == {k \in Nat : Keeps(ns, t[k], u[k])}
<1>3. 0 \in T
  BY <1>1, GrownIs DEF LinksTrack, Keeps
<1>4. ASSUME NEW k \in Nat, k \in T PROVE k + 1 \in T
  <2>1. t[k + 1] = [n \in Links(ns) |-> WalkBy(ns, t[k], LinkStart(ns, n), ns[n].link.path)]
    BY <1>1, Zenon DEF LinksTrack
  <2>2. u[k + 1] = [n \in Links(ms) |-> WalkBy(ms, u[k], LinkStart(ms, n), ms[n].link.path)]
    BY <1>2, Zenon DEF LinksTrack
  <2>3. t[k] \in LinkMap(ns) /\ u[k] \in LinkMap(ms)
    BY <1>1, <1>2 DEF LinksTrack
  <2>4. ASSUME NEW n \in Links(ns), t[k + 1][n] # 0 PROVE u[k + 1][n] = t[k + 1][n]
    <3>1. /\ n \in Links(ms) /\ LinkStart(ms, n) = LinkStart(ns, n)
          /\ ms[n].link.path = ns[n].link.path
      BY GrownIs
    <3>2. LinkStart(ns, n) \in Maybe(ns) /\ Len(ns[n].link.path) \in Nat
      BY <1>0, LinkStep
    <3>3. PICK p : p = ns[n].link.path
      OBVIOUS
    <3>4. t[k + 1][n] = WalkBy(ns, t[k], LinkStart(ns, n), p)
      BY <2>1, <3>3
    <3>5. u[k + 1][n] = WalkBy(ms, u[k], LinkStart(ns, n), p)
      BY <2>2, <3>1, <3>3
    <3>6. WalkBy(ms, u[k], LinkStart(ns, n), p) = WalkBy(ns, t[k], LinkStart(ns, n), p)
      BY <1>4, <2>3, <2>4, <3>2, <3>3, <3>4, WalkKeeps
    <3> QED
      BY <3>4, <3>5, <3>6
  <2>5. Keeps(ns, t[k + 1], u[k + 1])
    BY <2>4 DEF Keeps
  <2> QED
    BY <2>5
<1>5. \A k \in Nat : k \in T
  <2> HIDE DEF T
  <2> QED
    BY <1>3, <1>4, AllNumbers
<1> QED
  BY <1>0, <1>1, <1>2, <1>5

\* So does vfs_lookup.
LEMMA VfsKeeps ==
    ASSUME NEW ns, NEW ms, Grown(ns, ms), NEW path, Len(path) \in Nat, VfsLookup(ns, path) # 0
    PROVE  VfsLookup(ms, path) = VfsLookup(ns, path)
<1>0. Tree(ns) /\ Tree(ms)
  BY DEF Grown
<1>00. LinksTo(ns) \in LinkMap(ns) /\ LinksTo(ms) \in LinkMap(ms) /\ Keeps(ns, LinksTo(ns), LinksTo(ms))
  BY <1>0, LinksToType, LinksKept
<1>1. PICK f : VfsTrack(ns, path, f) /\ VfsLookup(ns, path) = f[Len(path)]
  BY <1>0, <1>00, VfsIs
<1>2. PICK g : VfsTrack(ms, path, g) /\ VfsLookup(ms, path) = g[Len(path)]
  BY <1>0, <1>00, VfsIs
<1> DEFINE T == {k \in Nat : f[k] # 0 => g[k] = f[k]}
<1>3. 0 \in T
  BY <1>1, <1>2 DEF VfsTrack
<1>4. ASSUME NEW k \in Nat, k \in T PROVE k + 1 \in T
  <2>1. f[k + 1] = VfsStep(ns, LinksTo(ns), f[k], path[k + 1])
    BY <1>1, Zenon DEF VfsTrack
  <2>2. g[k + 1] = VfsStep(ms, LinksTo(ms), g[k], path[k + 1])
    BY <1>2, Zenon DEF VfsTrack
  <2>3. f[k] \in Maybe(ns)
    BY <1>1 DEF VfsTrack
  <2>4. f[k] = 0 => VfsStep(ns, LinksTo(ns), f[k], path[k + 1]) = 0
    BY DEF VfsStep
  <2>5. VfsStep(ns, LinksTo(ns), f[k], path[k + 1]) # 0 =>
            VfsStep(ms, LinksTo(ms), f[k], path[k + 1]) = VfsStep(ns, LinksTo(ns), f[k], path[k + 1])
    BY <1>00, <2>3, StepKeeps
  <2>6. f[k + 1] # 0 => g[k + 1] = f[k + 1]
    BY <1>4, <2>1, <2>2, <2>4, <2>5
  <2> QED
    BY <2>6
<1>5. \A k \in Nat : k \in T
  <2> HIDE DEF T
  <2> QED
    BY <1>3, <1>4, AllNumbers
<1> QED
  BY <1>1, <1>2, <1>5

-----------------------------------------------------------------------------
(* Parsing a header. *)

\* The nodes of a path, child by child.
LEMMA ChainIs ==
    ASSUME NEW ns, Tree(ns), NEW path, Len(path) \in Nat
    PROVE  /\ Chain(ns, path) \in [0..Len(path) -> Maybe(ns)] /\ Chain(ns, path)[0] = RootNode
           /\ \A k \in Nat : k < Len(path) =>
                Chain(ns, path)[k + 1] =
                   IF Chain(ns, path)[k] = 0 THEN 0 ELSE FindChild(ns, Chain(ns, path)[k], path[k + 1])
<1> DEFINE X == Maybe(ns)
           Child(c, x) == IF c = 0 THEN 0 ELSE FindChild(ns, c, x)
           s == [p \in Nat \X X |-> Child(p[2], path[p[1]])]
           E(f) == f = [k \in Nat |-> IF k = 0 THEN RootNode
                                      ELSE IF f[k - 1] = 0 THEN 0 ELSE FindChild(ns, f[k - 1], path[k])]
<1>0. RootNode \in X /\ \A c \in X : \A x : Child(c, x) \in X
  BY TreeType, FindChildIs
<1>1. s \in [Nat \X X -> X]
  <2> HIDE DEF Child, X
  <2> QED
    BY <1>0
<1>2. PICK g \in [Nat -> X] : g[0] = RootNode /\ \A k \in Nat : g[k + 1] = s[<<k + 1, g[k]>>]
  <2> HIDE DEF s, X
  <2>2. PICK g : Runs(X, RootNode, s, g)
    BY <1>0, <1>1, Recursion, Zenon
  <2> QED
    BY <2>2, Zenon DEF Runs
<1>3. \A k \in Nat : g[k + 1] = Child(g[k], path[k + 1])
  <2> SUFFICES ASSUME NEW k \in Nat PROVE g[k + 1] = Child(g[k], path[k + 1])
    OBVIOUS
  <2> HIDE DEF Child, X
  <2>1. <<k + 1, g[k]>> \in Nat \X X
    OBVIOUS
  <2> QED
    BY <1>2, <2>1
<1>4. E(g)
  <2>1. ASSUME NEW k \in Nat
        PROVE  g[k] = IF k = 0 THEN RootNode ELSE IF g[k - 1] = 0 THEN 0 ELSE FindChild(ns, g[k - 1], path[k])
    <3>1. CASE k = 0
      BY <1>2, <3>1
    <3>2. CASE k # 0
      <4>1. PICK j \in Nat : j = k - 1 /\ k = j + 1
        BY <3>2
      <4> QED
        BY <1>3, <3>2, <4>1
    <3> QED
      BY <3>1, <3>2
  <2> QED
    BY <1>2, <2>1
<1> DEFINE f == CHOOSE f : E(f)
<1>5. E(f)
  <2> HIDE DEF E
  <2> QED
    BY <1>4
<1>6. Chain(ns, path) = [k \in 0..Len(path) |-> f[k]]
  BY DEF Chain
<1> HIDE DEF f
<1>7. f[0] = RootNode /\ \A k \in Nat : f[k + 1] = Child(f[k], path[k + 1])
  <2>1. f[0] = RootNode
    BY <1>5
  <2>2. ASSUME NEW k \in Nat PROVE f[k + 1] = Child(f[k], path[k + 1])
    <3>1. PICK j \in Nat : j = k + 1 /\ j # 0 /\ j - 1 = k
      OBVIOUS
    <3> QED
      BY <1>5, <3>1
  <2> QED
    BY <2>1, <2>2
<1>8. \A k \in Nat : k \in {j \in Nat : f[j] \in X}
  <2> DEFINE T == {j \in Nat : f[j] \in X}
  <2>1. 0 \in T
    BY <1>0, <1>7
  <2>2. ASSUME NEW k \in Nat, k \in T PROVE k + 1 \in T
    <3> HIDE DEF Child, X
    <3>1. f[k + 1] \in X
      BY <1>0, <1>7, <2>2, Zenon
    <3>2. k + 1 \in Nat
      OBVIOUS
    <3> QED
      BY <3>1, <3>2
  <2> HIDE DEF T
  <2>3. \A k \in Nat : k \in T
    BY <2>1, <2>2, AllNumbers
  <2> QED
    BY <2>3 DEF T
<1>9. \A k \in 0..Len(path) : Chain(ns, path)[k] = f[k] /\ k \in Nat /\ f[k] \in X
  BY <1>6, <1>8
<1>10. Chain(ns, path) \in [0..Len(path) -> X]
  BY <1>6, <1>9
<1>11. ASSUME NEW k \in Nat, k < Len(path)
       PROVE  Chain(ns, path)[k + 1] = Child(Chain(ns, path)[k], path[k + 1])
  <2>1. k \in 0..Len(path) /\ k + 1 \in 0..Len(path)
    BY <1>11
  <2>2. f[k + 1] = Child(f[k], path[k + 1])
    BY <1>7, Zenon
  <2> HIDE DEF Child
  <2> QED
    BY <1>9, <2>1, <2>2
<1>12. Chain(ns, path)[0] = RootNode
  BY <1>7, <1>9
<1> QED
  BY <1>10, <1>11, <1>12

\* The nodes c of the first d components of p.
Trail(ns, p, d, c) ==
    /\ c \in [0..d -> DOMAIN ns] /\ c[0] = RootNode
    /\ \A k \in Nat : k < d => ns[c[k + 1]].parent = c[k] /\ ns[c[k + 1]].name = p[k + 1]

\* tarfs_resolve_dir_path finds the nodes there are, and no more.
LEMMA ExistingIs ==
    ASSUME NEW ns, Tree(ns), NEW path, Len(path) \in Nat
    PROVE  \E d \in 0..Len(path) : \E c :
             /\ Trail(ns, path, d, c) /\ Existing(ns, path) = [depth |-> d, node |-> c[d]]
             /\ d < Len(path) => FindChild(ns, c[d], path[d + 1]) = 0
<1> DEFINE node == Chain(ns, path)
           Good(k) == node[k] # 0 /\ (k = Len(path) \/ node[k + 1] = 0)
           d == CHOOSE k \in 0..Len(path) : Good(k)
<1>1. node \in [0..Len(path) -> Maybe(ns)] /\ node[0] = RootNode
  BY ChainIs
<1>2. \A k \in Nat : k < Len(path) => node[k + 1] = IF node[k] = 0 THEN 0 ELSE FindChild(ns, node[k], path[k + 1])
  BY ChainIs
<1>3. Existing(ns, path) = [depth |-> d, node |-> node[d]]
  BY DEF Existing
<1> HIDE DEF node
<1>4. \E k \in 0..Len(path) : Good(k)
  <2>1. CASE \A k \in 0..Len(path) : node[k] # 0
    BY <2>1
  <2>2. CASE \E k \in 0..Len(path) : node[k] = 0
    <3> DEFINE Z == {k \in 0..Len(path) : node[k] = 0}
    <3>1. Z \in SUBSET Nat /\ Z # {}
      BY <2>2
    <3>2. PICK j \in Z : \A m \in Z : j <= m
      BY <3>1, LowestExists
    <3>3. node[j] = 0 /\ j \in 0..Len(path)
      BY <3>2
    <3>4. j # 0
      BY <1>1, <3>3 DEF RootNode
    <3>5. PICK i \in 0..Len(path) : i + 1 = j /\ i < j
      BY <3>3, <3>4
    <3>6. node[i] # 0
      BY <3>2, <3>5
    <3> QED
      BY <3>3, <3>5, <3>6
  <2> QED
    BY <2>1, <2>2
<1>5. d \in 0..Len(path) /\ Good(d)
  <2> HIDE DEF Good
  <2> QED
    BY <1>4
<1> HIDE DEF d
<1>6. ASSUME NEW j \in 0..d PROVE node[j] # 0
  <2> SUFFICES ASSUME node[j] = 0 PROVE FALSE
    OBVIOUS
  <2> DEFINE T == {i \in Nat : i >= j /\ i <= Len(path) => node[i] = 0}
  <2>1. 0 \in T
    OBVIOUS
  <2>2. ASSUME NEW i \in Nat, i \in T PROVE i + 1 \in T
    <3>1. CASE i + 1 >= j /\ i + 1 <= Len(path)
      <4>1. CASE i + 1 = j
        BY <4>1
      <4>2. CASE i >= j
        <5>1. node[i] = 0 /\ i < Len(path)
          BY <2>2, <3>1, <4>2
        <5>2. node[i + 1] = 0
          BY <1>2, <5>1
        <5> QED
          BY <5>2
      <4> QED
        BY <3>1, <4>1, <4>2, <1>5
    <3>2. CASE ~(i + 1 >= j /\ i + 1 <= Len(path))
      BY <3>2
    <3> QED
      BY <3>1, <3>2
  <2>3. \A i \in Nat : i \in T
    <3> HIDE DEF T
    <3> QED
      BY <2>1, <2>2, AllNumbers
  <2> QED
    BY <1>5, <2>3
<1> DEFINE c == [k \in 0..d |-> node[k]]
<1>7. \A k \in 0..d : c[k] = node[k] /\ c[k] # 0 /\ k \in 0..Len(path) /\ c[k] \in DOMAIN ns
  <2> SUFFICES ASSUME NEW k \in 0..d PROVE c[k] = node[k] /\ c[k] # 0 /\ k \in 0..Len(path) /\ c[k] \in DOMAIN ns
    OBVIOUS
  <2>1. k \in 0..Len(path) /\ node[k] # 0
    BY <1>5, <1>6
  <2>2. node[k] \in DOMAIN ns
    BY <1>1, <2>1, TreeType
  <2> QED
    BY <2>1, <2>2
<1>8. ASSUME NEW k \in Nat, k < d PROVE ns[c[k + 1]].parent = c[k] /\ ns[c[k + 1]].name = path[k + 1]
  <2>1. k \in 0..d /\ k + 1 \in 0..d /\ k < Len(path)
    BY <1>5, <1>8
  <2>2. c[k + 1] = FindChild(ns, c[k], path[k + 1]) /\ c[k + 1] # 0
    BY <1>2, <1>7, <2>1
  <2> HIDE DEF c
  <2> QED
    BY <2>2, FindChildIs
<1>9. Trail(ns, path, d, c)
  <2>1. c[0] = RootNode
    BY <1>1, <1>5, <1>7
  <2>2. c \in [0..d -> DOMAIN ns]
    BY <1>7
  <2> QED
    BY <1>8, <2>1, <2>2 DEF Trail
<1>10. d < Len(path) => FindChild(ns, c[d], path[d + 1]) = 0
  <2>1. c[d] = node[d] /\ c[d] # 0
    BY <1>5, <1>7
  <2> QED
    BY <1>2, <1>5, <2>1
<1>11. Existing(ns, path) = [depth |-> d, node |-> c[d]]
  BY <1>3, <1>5, <1>7
<1> HIDE DEF c
<1> QED
  BY <1>5, <1>9, <1>10, <1>11

\* The tree ms is ns with q more nodes, which continue the trail c of the path of h.
Grows(ns, ms, h, d, c, q) ==
    /\ d \in Nat /\ q \in Nat /\ d < Len(h.path) /\ d + q <= Len(h.path)
    /\ Trail(ns, h.path, d, c)
    /\ ms \in Seq(TreeNodes) /\ Len(ms) = Len(ns) + q
    /\ \A n \in DOMAIN ns : ms[n] = ns[n]
    /\ \A i \in 1..q : /\ ms[Len(ns) + i].parent = IF i = 1 THEN c[d] ELSE Len(ns) + i - 1
                       /\ ms[Len(ns) + i].name = h.path[d + i]
                       /\ ms[Len(ns) + i].type # "dir" => d + i = Len(h.path) /\ h.type # "dir"
    /\ q # 0 => FindChild(ns, c[d], h.path[d + 1]) = 0

\* What it has then is a tree: the new parents are older and the new names free.
LEMMA GrowsTree ==
    ASSUME NEW ns, Tree(ns), NEW ms, NEW h \in Headers, NEW d, NEW c, NEW q, Grows(ns, ms, h, d, c, q)
    PROVE  Grown(ns, ms)
<1>1. /\ d \in Nat /\ q \in Nat /\ ms \in Seq(TreeNodes) /\ Len(ms) = Len(ns) + q
      /\ \A n \in DOMAIN ns : ms[n] = ns[n]
  BY DEF Grows
<1>2. PICK L \in Nat : L = Len(ns) /\ L >= 1 /\ DOMAIN ns = 1..L /\ DOMAIN ms = 1..(L + q) /\ Len(ms) = L + q
  BY <1>1 DEF Tree
<1>3. c[d] \in 1..L
  <2>1. c \in [0..d -> DOMAIN ns]
    BY DEF Grows, Trail
  <2> QED
    BY <1>1, <1>2, <2>1
<1>4. \A i \in 1..q : ms[L + i].parent = (IF i = 1 THEN c[d] ELSE L + i - 1) /\ ms[L + i].name = h.path[d + i]
  BY <1>2 DEF Grows
<1>5. ms[1].type = "dir" /\ ms[1].parent = 0
  BY <1>1, <1>2 DEF Tree
<1>6. ASSUME NEW n \in 2..Len(ms) PROVE ms[n].parent \in 1..(n - 1)
  <2>1. CASE n <= L
    BY <1>1, <1>2, <2>1 DEF Tree
  <2>2. CASE n > L
    <3>1. PICK i \in 1..q : n = L + i
      BY <1>1, <1>2, <2>2
    <3>2. ms[n].parent = IF i = 1 THEN c[d] ELSE L + i - 1
      BY <1>4, <3>1
    <3> QED
      BY <1>2, <1>3, <3>1, <3>2
  <2> QED
    BY <1>2, <2>1, <2>2
<1>7. ASSUME NEW m \in DOMAIN ms, NEW n \in DOMAIN ms, m <= n,
             ms[m].parent = ms[n].parent, ms[m].name = ms[n].name
      PROVE  m = n
  <2>1. CASE n <= L
    <3>1. m \in DOMAIN ns /\ n \in DOMAIN ns
      BY <1>2, <1>7, <2>1
    <3>2. ns[m].parent = ns[n].parent /\ ns[m].name = ns[n].name
      BY <1>1, <1>7, <3>1
    <3> QED
      BY <3>1, <3>2 DEF Tree
  <2>2. CASE n > L
    <3>1. PICK i \in 1..q : n = L + i
      BY <1>1, <1>2, <2>2
    <3>2. ms[n].parent = (IF i = 1 THEN c[d] ELSE L + i - 1) /\ ms[n].name = h.path[d + i]
      BY <1>4, <3>1
    <3>3. CASE m > L
      <4>0. m \in 1..(L + q)
        BY <1>2
      <4>00. m - L \in 1..q /\ m = L + (m - L)
        BY <1>1, <3>3, <4>0
      <4>1. PICK j \in 1..q : m = L + j
        BY <4>00
      <4>2. ms[m].parent = IF j = 1 THEN c[d] ELSE L + j - 1
        BY <1>4, <4>1
      <4> QED
        BY <1>2, <1>3, <1>7, <3>1, <3>2, <4>1, <4>2
    <3>4. CASE m <= L
      <4>1. m \in DOMAIN ns
        BY <1>2, <3>4
      <4>2. ns[m].parent = ms[n].parent /\ ns[m].name = ms[n].name /\ ns[m].parent \in Maybe(ns)
        BY <1>1, <1>7, <4>1, TreeType
      <4>3. ns[m].parent \in 0..L
        BY <1>2, <4>2 DEF Maybe
      <4>4. CASE i = 1
        <5>1. ns[m].parent = c[d] /\ ns[m].name = h.path[d + 1]
          BY <3>2, <4>2, <4>4
        <5>2. FindChild(ns, c[d], h.path[d + 1]) = m
          BY <4>1, <5>1, FindChildIs
        <5>3. q # 0 /\ m # 0
          BY <1>1, <1>2, <4>1
        <5> QED
          BY <5>2, <5>3 DEF Grows
      <4>5. CASE i # 1
        BY <1>2, <3>1, <3>2, <4>2, <4>3, <4>5
      <4> QED
        BY <4>4, <4>5
    <3> QED
      BY <1>2, <3>3, <3>4
  <2> QED
    BY <1>2, <2>1, <2>2
<1>8. ASSUME NEW m \in DOMAIN ms, NEW n \in DOMAIN ms, ms[m].parent = ms[n].parent, ms[m].name = ms[n].name
      PROVE  m = n
  <2>1. m <= n \/ n <= m
    BY <1>2
  <2> QED
    BY <1>7, <1>8, <2>1
<1>9. Tree(ms)
  BY <1>1, <1>2, <1>5, <1>6, <1>8 DEF Tree
<1> QED
  BY <1>1, <1>2, <1>9 DEF Grown

\* The headers.
LEMMA HeaderIs ==
    ASSUME NEW h \in Headers
    PROVE  /\ h.path \in Paths /\ h.type \in {"file", "dir", "sym", "hard"}
           /\ h.link \in [abs : BOOLEAN, path : Seq(Names \cup {Dot, DotDot})]
<1>1. CASE h \in [path : EntryPaths, type : {"file", "dir"}, link : {[abs |-> TRUE, path |-> <<>>]}]
  <2>1. h.path \in Paths /\ h.type \in {"file", "dir"} /\ h.link = [abs |-> TRUE, path |-> <<>>]
    BY <1>1, TarFsAssumption
  <2>2. <<>> \in Seq(Names \cup {Dot, DotDot})
    OBVIOUS
  <2> QED
    BY <2>1, <2>2
<1>2. CASE h \in [path : EntryPaths, type : {"sym", "hard"}, link : Targets]
  BY <1>2, TarFsAssumption
<1> QED
  BY <1>1, <1>2 DEF Headers

\* A part of a sequence.
LEMMA Part ==
    ASSUME NEW S, NEW s \in Seq(S), NEW a \in Nat, NEW b \in Nat, 1 <= a, a <= b + 1, b <= Len(s)
    PROVE  /\ SubSeq(s, a, b) \in Seq(S) /\ Len(SubSeq(s, a, b)) = b - a + 1
           /\ \A i \in 1..(b - a + 1) : SubSeq(s, a, b)[i] = s[a + i - 1]
<1>1. \A i \in a..b : s[i] \in S
  BY ElementOfSeq
<1>2. a \in Int /\ b \in Int
  OBVIOUS
<1> QED
  BY <1>1, <1>2, SubSeqProperties

\* The directories of a path and its last name.
LEMMA FrontIs ==
    ASSUME NEW p \in Paths
    PROVE  /\ Len(Front(p)) = Len(p) - 1 /\ Len(Front(p)) \in Nat /\ Last(p) = p[Len(p)] /\ Last(p) \in Names
           /\ Front(p) \in Seq(Names)
           /\ \A k \in 1..(Len(p) - 1) : Front(p)[k] = p[k] /\ p[k] \in Names
<1>1. p \in Seq(Names) /\ Len(p) \in Nat /\ Len(p) >= 1 /\ \A k \in 1..Len(p) : p[k] \in Names
  BY PathIs
<1>2. Front(p) = SubSeq(p, 1, Len(p) - 1)
  BY DEF Front
<1>3. Len(Front(p)) = Len(p) - 1 /\ Front(p) \in Seq(Names) /\ \A k \in 1..(Len(p) - 1) : Front(p)[k] = p[k]
  <2>0. Len(p) \in Nat /\ Len(p) >= 1
    BY <1>1
  <2>1. PICK b \in Nat : b = Len(p) - 1 /\ 1 <= b + 1 /\ b <= Len(p)
    BY <2>0
  <2>2. /\ SubSeq(p, 1, b) \in Seq(Names) /\ Len(SubSeq(p, 1, b)) = b - 1 + 1
        /\ \A i \in 1..(b - 1 + 1) : SubSeq(p, 1, b)[i] = p[1 + i - 1]
    <3>1. p \in Seq(Names) /\ 1 \in Nat /\ 1 <= 1
      BY <1>1
    <3> QED
      BY <2>1, <3>1, Part
  <2> QED
    BY <1>1, <1>2, <2>1, <2>2
<1> QED
  BY <1>1, <1>3 DEF Last

\* tarfs_resolve_dir_path continues the trail of the directories, as far as memory goes.
LEMMA ResolveGrows ==
    ASSUME NEW ns, Tree(ns), NEW h \in Headers, NEW made \in Nat,
           NEW r, r = ResolveDir(ns, Front(h.path), made)
    PROVE  \E d, c, q :
             /\ Grows(ns, r.tree, h, d, c, q) /\ d + q < Len(h.path)
             /\ made >= MaxPath => d + q = Len(h.path) - 1
             /\ r.dir = IF d + q < Len(h.path) - 1 THEN 0 ELSE IF q = 0 THEN c[d] ELSE Len(ns) + q
<1> DEFINE path == Front(h.path)
<1>1. h.path \in Paths
  BY HeaderIs
<1>2. /\ Len(path) = Len(h.path) - 1 /\ Len(path) \in Nat /\ path \in Seq(Names)
      /\ \A k \in 1..(Len(h.path) - 1) : path[k] = h.path[k] /\ h.path[k] \in Names
      /\ Len(h.path) \in Nat /\ Len(h.path) <= MaxPath /\ MaxPath \in Nat
  BY <1>1, FrontIs, PathIs, TarFsAssumption
<1> HIDE DEF path
<1>3. PICK d \in 0..Len(path) : \E c :
             /\ Trail(ns, path, d, c) /\ Existing(ns, path) = [depth |-> d, node |-> c[d]]
             /\ d < Len(path) => FindChild(ns, c[d], path[d + 1]) = 0
  BY <1>2, ExistingIs
<1>4. PICK c : /\ Trail(ns, path, d, c) /\ Existing(ns, path) = [depth |-> d, node |-> c[d]]
               /\ d < Len(path) => FindChild(ns, c[d], path[d + 1]) = 0
  BY <1>3
<1>5. d \in Nat /\ d < Len(h.path) /\ c[d] \in DOMAIN ns /\ c[d] \in Nat
  BY <1>2, <1>3, <1>4, TreeType DEF Trail
<1>6. Trail(ns, h.path, d, c)
  <2>1. ASSUME NEW k \in Nat, k < d PROVE ns[c[k + 1]].parent = c[k] /\ ns[c[k + 1]].name = h.path[k + 1]
    <3>1. path[k + 1] = h.path[k + 1]
      BY <1>2, <1>3, <2>1
    <3> QED
      BY <1>4, <2>1, <3>1 DEF Trail
  <2> QED
    BY <1>4, <2>1 DEF Trail
<1> DEFINE todo == SubSeq(path, d + 1, Len(path))
           q == IF made < Len(todo) THEN made ELSE Len(todo)
           Empty == [abs |-> TRUE, path |-> <<>>]
           dir(i) == Node(todo[i], IF i = 1 THEN c[d] ELSE Len(ns) + i - 1, "dir", Empty, 0)
           new == [i \in 1..q |-> dir(i)]
<1>7. Len(todo) = Len(path) - d /\ \A i \in 1..(Len(path) - d) : todo[i] = path[d + i]
  <2>1. PICK a \in Nat : a = d + 1 /\ 1 <= a /\ a <= Len(path) + 1
    BY <1>2, <1>3
  <2>2. /\ Len(SubSeq(path, a, Len(path))) = Len(path) - a + 1
        /\ \A i \in 1..(Len(path) - a + 1) : SubSeq(path, a, Len(path))[i] = path[a + i - 1]
    BY <1>2, <2>1, Part
  <2>3. PICK l \in Nat : l = Len(path) /\ d <= l
    BY <1>2, <1>3
  <2>4. l - a + 1 = l - d /\ \A i \in 1..(l - d) : a + i - 1 = d + i
    BY <1>3, <2>1, <2>3
  <2> QED
    BY <2>1, <2>2, <2>3, <2>4
<1>8. r.tree = ns \o new /\ r.dir = IF q < Len(todo) THEN 0 ELSE IF q = 0 THEN c[d] ELSE Len(ns \o new)
  <2>1. Existing(ns, path).depth = d /\ Existing(ns, path).node = c[d]
    BY <1>4
  <2>2. r = [tree |-> ns \o new, dir |-> IF q < Len(todo) THEN 0 ELSE IF q = 0 THEN c[d] ELSE Len(ns \o new)]
    BY <2>1 DEF ResolveDir, path
  <2> HIDE DEF new, q, todo
  <2> QED
    BY <2>2
<1> HIDE DEF todo
<1>9. q \in Nat /\ q <= Len(path) - d /\ (made >= MaxPath => q = Len(path) - d)
      /\ (q < Len(todo) <=> d + q < Len(h.path) - 1)
  BY <1>2, <1>3, <1>7
<1> HIDE DEF q
<1>10. Empty \in [abs : BOOLEAN, path : Seq(Names \cup {Dot, DotDot})]
  <2>1. <<>> \in Seq(Names \cup {Dot, DotDot})
    OBVIOUS
  <2> QED
    BY <2>1
<1>11. PICK L \in Nat : L = Len(ns) /\ DOMAIN ns = 1..L /\ ns \in Seq(TreeNodes)
  BY DEF Tree
<1>12. ASSUME NEW i \in 1..q
       PROVE  /\ dir(i) \in TreeNodes /\ dir(i).name = h.path[d + i] /\ dir(i).type = "dir"
              /\ dir(i).parent = IF i = 1 THEN c[d] ELSE L + i - 1
  <2>1. todo[i] = h.path[d + i] /\ h.path[d + i] \in Names
    <3>0. i \in Nat /\ 1 <= i /\ i <= q
      BY <1>9
    <3>00. Len(path) = Len(h.path) - 1 /\ Len(path) \in Nat /\ Len(h.path) \in Nat /\ d \in Nat
      BY <1>2, <1>3
    <3>000. q \in Nat /\ q <= Len(path) - d
      BY <1>9
    <3>1. i \in 1..(Len(path) - d) /\ d + i \in 1..(Len(h.path) - 1)
      BY <3>0, <3>00, <3>000
    <3> QED
      BY <1>2, <1>7, <3>1
  <2>2. PICK u \in Nat : u = IF i = 1 THEN c[d] ELSE Len(ns) + i - 1
    <3>0. i \in Nat /\ 1 <= i
      BY <1>9
    <3>1. c[d] \in Nat /\ Len(ns) \in Nat /\ Len(ns) + i - 1 \in Nat
      BY <1>5, <1>11, <3>0
    <3> QED
      BY <3>1
  <2> HIDE DEF Empty
  <2>3. dir(i) = Node(todo[i], u, "dir", Empty, 0)
    BY <2>2
  <2> QED
    BY <1>10, <1>11, <2>1, <2>2, <2>3 DEF Node, TreeNodes
<1> HIDE DEF Empty
<1>13. new \in Seq(TreeNodes) /\ Len(new) = q /\ \A i \in 1..q : new[i] = dir(i)
  <2>1. new \in [1..q -> TreeNodes]
    BY <1>12
  <2> HIDE DEF new
  <2>2. new \in Seq(TreeNodes) /\ Len(new) = q
    BY <1>9, <2>1
  <2> QED
    BY <2>2 DEF new
<1> HIDE DEF new
<1>14. /\ r.tree \in Seq(TreeNodes) /\ Len(r.tree) = L + q
       /\ \A n \in DOMAIN ns : r.tree[n] = ns[n]
       /\ \A i \in 1..q : r.tree[L + i] = new[i]
  <2>1. /\ ns \o new \in Seq(TreeNodes) /\ Len(ns \o new) = Len(ns) + Len(new)
        /\ \A i \in 1..(Len(ns) + Len(new)) :
              (ns \o new)[i] = IF i <= Len(ns) THEN ns[i] ELSE new[i - Len(ns)]
    BY <1>11, <1>13, ConcatProperties
  <2>2. \A n \in 1..L : (ns \o new)[n] = ns[n]
    BY <1>9, <1>11, <1>13, <2>1
  <2>3. ASSUME NEW i \in 1..q PROVE (ns \o new)[L + i] = new[i]
    <3>1. i \in Nat /\ L + i \in 1..(Len(ns) + Len(new)) /\ ~(L + i <= Len(ns)) /\ L + i - Len(ns) = i
      BY <1>9, <1>11, <1>13
    <3> QED
      BY <2>1, <3>1
  <2> QED
    BY <1>8, <1>11, <1>13, <2>1, <2>2, <2>3
<1>15. q # 0 => FindChild(ns, c[d], h.path[d + 1]) = 0
  <2>1. q # 0 => d < Len(path) /\ d + 1 \in 1..(Len(h.path) - 1)
    BY <1>2, <1>3, <1>9
  <2> QED
    BY <1>2, <1>4, <2>1
<1>16. \A i \in 1..q : /\ r.tree[L + i].parent = IF i = 1 THEN c[d] ELSE L + i - 1
                       /\ r.tree[L + i].name = h.path[d + i] /\ r.tree[L + i].type = "dir"
  <2> SUFFICES ASSUME NEW i \in 1..q
               PROVE  /\ r.tree[L + i].parent = IF i = 1 THEN c[d] ELSE L + i - 1
                      /\ r.tree[L + i].name = h.path[d + i] /\ r.tree[L + i].type = "dir"
    OBVIOUS
  <2>1. r.tree[L + i] = dir(i)
    BY <1>13, <1>14
  <2>2. /\ dir(i).name = h.path[d + i] /\ dir(i).type = "dir"
        /\ dir(i).parent = IF i = 1 THEN c[d] ELSE L + i - 1
    BY <1>12
  <2> HIDE DEF dir
  <2> QED
    BY <2>1, <2>2
<1>17. d + q <= Len(h.path) /\ d + q < Len(h.path)
  BY <1>2, <1>3, <1>9
<1>18. Grows(ns, r.tree, h, d, c, q)
  BY <1>5, <1>6, <1>9, <1>11, <1>14, <1>15, <1>16, <1>17 DEF Grows
<1>19. made >= MaxPath => d + q = Len(h.path) - 1
  BY <1>2, <1>3, <1>9
<1>20. r.dir = IF d + q < Len(h.path) - 1 THEN 0 ELSE IF q = 0 THEN c[d] ELSE Len(ns) + q
  <2>1. Len(ns \o new) = Len(ns) + q
    BY <1>8, <1>11, <1>14
  <2> QED
    BY <1>8, <1>9, <2>1
<1> QED
  BY <1>17, <1>18, <1>19, <1>20

\* tarfs_add_entry adds the node of the entry, unless the name is taken.
LEMMA AddGrows ==
    ASSUME NEW ns, Tree(ns), NEW h \in Headers, NEW e \in Nat,
           NEW r, r = ResolveDir(ns, Front(h.path), MaxPath), NEW ms, ms = AddEntry(r.tree, r.dir, h, e)
    PROVE  \E d, c, q :
             /\ Grows(ns, ms, h, d, c, q)
             /\ h.type \in {"file", "dir"} =>
                  \/ /\ d + q = Len(h.path) /\ ms[Len(ms)].type = h.type
                     /\ h.type = "file" => ms[Len(ms)].data = e
                  \/ \E b : Trail(ns, h.path, Len(h.path), b)
<1>0. MaxPath \in Nat /\ h.path \in Paths
  BY TarFsAssumption, HeaderIs
<1>1. PICK d, c, q : /\ Grows(ns, r.tree, h, d, c, q) /\ d + q < Len(h.path) /\ d + q = Len(h.path) - 1
                     /\ r.dir = IF d + q < Len(h.path) - 1 THEN 0 ELSE IF q = 0 THEN c[d] ELSE Len(ns) + q
  BY <1>0, ResolveGrows
<1>2. PICK l \in Nat : l = Len(h.path) /\ l >= 1 /\ h.path[l] \in Names /\ Last(h.path) = h.path[l]
  BY <1>0, PathIs, FrontIs
<1>3. d \in Nat /\ q \in Nat /\ d < l /\ d + q = l - 1 /\ Trail(ns, h.path, d, c) /\ c \in [0..d -> DOMAIN ns]
  BY <1>1, <1>2 DEF Grows, Trail
<1>4. PICK L \in Nat : L = Len(ns) /\ DOMAIN ns = 1..L
  BY TreeType
<1>5. r.dir = (IF q = 0 THEN c[d] ELSE L + q) /\ r.dir # 0 /\ r.dir \in 1..(L + q) /\ c[d] \in 1..L
  BY <1>1, <1>2, <1>3, <1>4
<1>6. Tree(r.tree) /\ Grown(ns, r.tree)
  BY <1>1, GrowsTree DEF Grown
<1>7. r.tree \in Seq(TreeNodes) /\ Len(r.tree) = L + q /\ DOMAIN r.tree = 1..(L + q)
      /\ \A n \in DOMAIN ns : r.tree[n] = ns[n]
  BY <1>1, <1>4, <1>6, TreeType DEF Grows
<1>8. CASE FindChild(r.tree, r.dir, Last(h.path)) # 0
  <2>1. ms = r.tree
    BY <1>8 DEF AddEntry
  <2>2. PICK x : x \in DOMAIN r.tree /\ r.tree[x].parent = r.dir /\ r.tree[x].name = h.path[l]
    BY <1>2, <1>6, <1>8, FindChildIs
  <2>3. x # RootNode
    BY <1>5, <1>6, <2>2, TreeType
  <2>4. r.dir < x /\ x \in 1..(L + q)
    BY <1>6, <1>7, <2>2, <2>3, TreeType
  <2>5. q = 0 /\ d = l - 1
    BY <1>3, <1>4, <1>5, <2>4
  <2>6. x \in DOMAIN ns /\ ns[x].parent = c[d] /\ ns[x].name = h.path[d + 1]
    <3>1. x \in DOMAIN ns
      BY <1>4, <2>4, <2>5
    <3> QED
      BY <1>3, <1>5, <1>7, <2>2, <2>5, <3>1
  <2> DEFINE b == [k \in 0..l |-> IF k <= d THEN c[k] ELSE x]
  <2>7. b \in [0..l -> DOMAIN ns]
    BY <1>3, <2>6
  <2>8. b[0] = RootNode
    BY <1>3 DEF Trail
  <2>9. ASSUME NEW k \in Nat, k < l PROVE ns[b[k + 1]].parent = b[k] /\ ns[b[k + 1]].name = h.path[k + 1]
    <3>1. b[k] = c[k] /\ k <= d
      BY <1>3, <2>5, <2>9
    <3>2. CASE k < d
      <4>1. b[k + 1] = c[k + 1]
        BY <1>3, <2>9, <3>2
      <4> QED
        BY <1>3, <3>1, <3>2, <4>1 DEF Trail
    <3>3. CASE k = d
      <4>1. b[k + 1] = x
        BY <1>3, <2>9, <3>3
      <4> QED
        BY <2>6, <3>1, <3>3, <4>1
    <3> QED
      BY <1>3, <3>1, <3>2, <3>3
  <2>10. Trail(ns, h.path, l, b)
    BY <2>7, <2>8, <2>9 DEF Trail
  <2> HIDE DEF b
  <2> QED
    BY <1>1, <1>2, <2>1, <2>10
<1>9. CASE FindChild(r.tree, r.dir, Last(h.path)) = 0
  <2> DEFINE en == EntryNode(r.tree, r.dir, Last(h.path), h, e)
  <2>1. ms = r.tree \o en
    BY <1>5, <1>9 DEF AddEntry
  <2>2. CASE en = <<>>
    <3>1. ms = r.tree
      BY <1>7, <2>1, <2>2, ConcatEmptySeq
    <3>2. h.type = "hard"
      BY <2>2 DEF EntryNode
    <3> QED
      BY <1>1, <3>1, <3>2
  <2>3. CASE en # <<>>
    <3>1. PICK nd \in TreeNodes : /\ en = <<nd>> /\ nd.parent = r.dir /\ nd.name = h.path[l]
                                  /\ nd.type # "dir" => h.type # "dir"
                                  /\ h.type \in {"file", "dir"} => nd.type = h.type /\ (h.type = "file" => nd.data = e)
      <4>0. /\ h.link \in [abs : BOOLEAN, path : Seq(Names \cup {Dot, DotDot})]
            /\ h.type \in {"file", "dir", "sym", "hard"} /\ r.dir \in Nat /\ Last(h.path) \in Names \cup {DotDot}
        BY <1>2, <1>3, <1>4, <1>5, HeaderIs
      <4>1. CASE h.type = "hard"
        <5>1. PICK t : t = Walk(r.tree, RootNode, h.link.path)
          OBVIOUS
        <5>2. t # 0 /\ en = <<Node(Last(h.path), r.dir, r.tree[t].type, h.link, r.tree[t].data)>>
          BY <2>3, <4>1, <5>1 DEF EntryNode
        <5>3. Len(h.link.path) \in Nat /\ LinksTo(r.tree) \in LinkMap(r.tree) /\ RootNode \in Maybe(r.tree)
          BY <1>6, <4>0, LinksToType, TreeType
        <5>4. PICK f : WalkTrack(r.tree, LinksTo(r.tree), RootNode, h.link.path, f) /\ t = f[Len(h.link.path)]
          BY <1>6, <5>1, <5>3, WalkByIs DEF Walk
        <5>5. t \in Maybe(r.tree)
          BY <5>3, <5>4 DEF WalkTrack
        <5>6. r.tree[t] \in TreeNodes
          BY <1>6, <5>2, <5>5, TreeType
        <5>7. r.tree[t].type \in {"dir", "file", "sym"} /\ r.tree[t].data \in Nat
          BY <5>6 DEF TreeNodes
        <5>8. Node(Last(h.path), r.dir, r.tree[t].type, h.link, r.tree[t].data) \in TreeNodes
          BY <4>0, <5>7 DEF Node, TreeNodes
        <5> QED
          BY <1>2, <4>1, <5>2, <5>8 DEF Node
      <4>2. CASE h.type # "hard"
        <5>1. PICK z \in Nat : z = IF h.type = "dir" THEN 0 ELSE e
          OBVIOUS
        <5>2. en = <<Node(Last(h.path), r.dir, h.type, h.link, z)>>
          BY <4>2, <5>1 DEF EntryNode
        <5>3. Node(Last(h.path), r.dir, h.type, h.link, z) \in TreeNodes
          BY <4>0, <4>2 DEF Node, TreeNodes
        <5> QED
          BY <1>2, <5>1, <5>2, <5>3 DEF Node
      <4> QED
        BY <4>1, <4>2
    <3> HIDE DEF en
    <3>2. en \in Seq(TreeNodes) /\ Len(en) = 1 /\ en[1] = nd
      BY <3>1
    <3>3. /\ r.tree \o en \in Seq(TreeNodes) /\ Len(r.tree \o en) = Len(r.tree) + Len(en)
          /\ \A i \in 1..(Len(r.tree) + Len(en)) :
                (r.tree \o en)[i] = IF i <= Len(r.tree) THEN r.tree[i] ELSE en[i - Len(r.tree)]
      <4>1. PICK tr \in Seq(TreeNodes) : tr = r.tree
        BY <1>7
      <4>2. PICK one \in Seq(TreeNodes) : one = en
        BY <3>2
      <4>3. /\ tr \o one \in Seq(TreeNodes) /\ Len(tr \o one) = Len(tr) + Len(one)
            /\ \A i \in 1..(Len(tr) + Len(one)) :
                  (tr \o one)[i] = IF i <= Len(tr) THEN tr[i] ELSE one[i - Len(tr)]
        BY ConcatProperties
      <4> QED
        BY <4>1, <4>2, <4>3
    <3>4. Len(ms) = L + q + 1 /\ ms \in Seq(TreeNodes) /\ Len(r.tree) = L + q
      BY <1>3, <1>7, <2>1, <3>2, <3>3
    <3>5. ms[L + q + 1] = nd
      <4>1. L + q + 1 \in 1..(Len(r.tree) + Len(en)) /\ ~(L + q + 1 <= Len(r.tree)) /\ L + q + 1 - Len(r.tree) = 1
        BY <1>3, <3>2, <3>4
      <4> QED
        BY <2>1, <3>2, <3>3, <4>1
    <3>6. \A i \in 1..(L + q) : ms[i] = r.tree[i]
      <4> SUFFICES ASSUME NEW i \in 1..(L + q) PROVE ms[i] = r.tree[i]
        OBVIOUS
      <4>1. i \in 1..(Len(r.tree) + Len(en)) /\ i <= Len(r.tree)
        BY <1>3, <3>2, <3>4
      <4> QED
        BY <2>1, <3>3, <4>1
    <3>7. \A n \in DOMAIN ns : ms[n] = ns[n]
      <4> SUFFICES ASSUME NEW n \in DOMAIN ns PROVE ms[n] = ns[n]
        OBVIOUS
      <4>1. n \in 1..(L + q)
        BY <1>3, <1>4
      <4> QED
        BY <1>7, <3>6, <4>1
    <3>8. ASSUME NEW i \in 1..(q + 1)
          PROVE  /\ ms[L + i].parent = IF i = 1 THEN c[d] ELSE L + i - 1
                 /\ ms[L + i].name = h.path[d + i]
                 /\ ms[L + i].type # "dir" => d + i = Len(h.path) /\ h.type # "dir"
      <4>1. CASE i <= q
        <5>1. i \in 1..q /\ L + i \in 1..(L + q)
          BY <1>3, <4>1
        <5>2. ms[L + i] = r.tree[L + i]
          BY <3>6, <5>1
        <5> QED
          BY <1>1, <1>4, <5>1, <5>2 DEF Grows
      <4>2. CASE i = q + 1
        <5>1. L + i = L + q + 1 /\ d + i = l /\ (i = 1 <=> q = 0) /\ L + i - 1 = L + q
          BY <1>3, <4>2
        <5>2. ms[L + i] = nd
          BY <3>5, <5>1
        <5> QED
          BY <1>2, <1>5, <3>1, <5>1, <5>2
      <4> QED
        BY <1>3, <4>1, <4>2
    <3>9. FindChild(ns, c[d], h.path[d + 1]) = 0
      <4>1. CASE q = 0
        <5>1. r.dir = c[d] /\ Last(h.path) = h.path[d + 1]
          BY <1>2, <1>3, <1>5, <4>1
        <5>2. FindChild(r.tree, c[d], h.path[d + 1]) = 0
          BY <1>9, <5>1
        <5>3. FindChild(ns, c[d], h.path[d + 1]) # 0 =>
                 FindChild(r.tree, c[d], h.path[d + 1]) = FindChild(ns, c[d], h.path[d + 1])
          BY <1>6, GrownIs
        <5> QED
          BY <5>2, <5>3
      <4>2. CASE q # 0
        BY <1>1, <4>2 DEF Grows
      <4> QED
        BY <4>1, <4>2
    <3>10. Grows(ns, ms, h, d, c, q + 1)
      <4>1. q + 1 \in Nat /\ d + (q + 1) <= Len(h.path) /\ d < Len(h.path) /\ Len(ms) = Len(ns) + (q + 1)
        <5>1. d \in Nat /\ q \in Nat /\ d + q = l - 1 /\ d < l
          BY <1>3
        <5>2. l \in Nat /\ l = Len(h.path) /\ L \in Nat /\ L = Len(ns) /\ Len(ms) = L + q + 1
          BY <1>2, <1>4, <3>4
        <5> QED
          BY <5>1, <5>2
      <4>2. \A i \in 1..(q + 1) : /\ ms[Len(ns) + i].parent = IF i = 1 THEN c[d] ELSE Len(ns) + i - 1
                                  /\ ms[Len(ns) + i].name = h.path[d + i]
                                  /\ ms[Len(ns) + i].type # "dir" => d + i = Len(h.path) /\ h.type # "dir"
        BY <1>4, <3>8
      <4> QED
        BY <1>3, <3>4, <3>7, <3>9, <4>1, <4>2 DEF Grows
    <3>11. d + (q + 1) = Len(h.path) /\ ms[Len(ms)] = nd
      BY <1>2, <1>3, <3>4, <3>5
    <3> QED
      BY <3>1, <3>10, <3>11
  <2> QED
    BY <2>2, <2>3
<1> QED
  BY <1>8, <1>9

-----------------------------------------------------------------------------
(* What a node stands for. *)

\* The beginnings of a path.
LEMMA Beginnings ==
    ASSUME NEW p \in Seq(Names), NEW k \in Nat, k <= Len(p)
    PROVE  /\ SubSeq(p, 1, k) \in Seq(Names) /\ Len(SubSeq(p, 1, k)) = k /\ IsPrefix(SubSeq(p, 1, k), p)
           /\ k = 0 => SubSeq(p, 1, k) = <<>>
           /\ k < Len(p) => Append(SubSeq(p, 1, k), p[k + 1]) = SubSeq(p, 1, k + 1) /\ SubSeq(p, 1, k) # p
           /\ k = Len(p) => SubSeq(p, 1, k) = p
<1>1. PICK s : s = SubSeq(p, 1, k)
  OBVIOUS
<1>2. s \in Seq(Names) /\ Len(s) = k /\ \A i \in 1..k : s[i] = p[i]
  <2>1. /\ SubSeq(p, 1, k) \in Seq(Names) /\ Len(SubSeq(p, 1, k)) = k - 1 + 1
        /\ \A i \in 1..(k - 1 + 1) : SubSeq(p, 1, k)[i] = p[1 + i - 1]
    BY Part
  <2> QED
    BY <1>1, <2>1
<1>3. Len(p) \in Nat
  OBVIOUS
<1>4. SubSeq(s, 1, Len(s)) = s
  <2>1. PICK u : u = SubSeq(s, 1, k)
    OBVIOUS
  <2>2. u \in Seq(Names) /\ Len(u) = k - 1 + 1 /\ \A i \in 1..(k - 1 + 1) : u[i] = s[1 + i - 1]
    BY <1>2, <2>1, Part
  <2>3. Len(u) = Len(s) /\ \A i \in 1..Len(u) : u[i] = s[i]
    <3>1. Len(u) = k /\ Len(s) = k
      BY <1>2, <2>2
    <3>2. ASSUME NEW i \in 1..k PROVE u[i] = s[i]
      <4>1. i \in 1..(k - 1 + 1) /\ 1 + i - 1 = i
        OBVIOUS
      <4> QED
        BY <2>2, <4>1
    <3> QED
      BY <3>1, <3>2
  <2>4. u = s
    BY <1>2, <2>2, <2>3, SeqEqual
  <2> QED
    BY <1>2, <2>1, <2>4
<1>5. IsPrefix(s, p)
  BY <1>1, <1>2, <1>3, <1>4 DEF IsPrefix
<1>6. k = 0 => s = <<>>
  BY <1>2
<1>7. ASSUME k < Len(p) PROVE Append(s, p[k + 1]) = SubSeq(p, 1, k + 1)
  <2>1. PICK u : u = SubSeq(p, 1, k + 1)
    OBVIOUS
  <2>2. k + 1 \in Nat /\ k + 1 <= Len(p) /\ 1 <= (k + 1) + 1 /\ k + 1 \in 1..Len(p)
    BY <1>3, <1>7
  <2>3. /\ u \in Seq(Names) /\ Len(u) = (k + 1) - 1 + 1
        /\ \A i \in 1..((k + 1) - 1 + 1) : u[i] = p[1 + i - 1]
    BY <2>1, <2>2, Part
  <2>4. Len(u) = k + 1 /\ \A i \in 1..(k + 1) : u[i] = p[i]
    BY <2>3
  <2>5. PICK x \in Names : x = p[k + 1]
    BY <2>2, ElementOfSeq
  <2>6. PICK v : v = Append(s, x)
    OBVIOUS
  <2>7. v \in Seq(Names) /\ Len(v) = k + 1 /\ v[k + 1] = x /\ \A i \in 1..k : v[i] = s[i]
    BY <1>2, <2>6, AppendProperties
  <2>8. \A i \in 1..Len(v) : v[i] = u[i]
    <3> SUFFICES ASSUME NEW i \in 1..(k + 1) PROVE v[i] = u[i]
      BY <2>7
    <3>1. CASE i = k + 1
      BY <2>4, <2>5, <2>7, <3>1
    <3>2. CASE i \in 1..k
      BY <1>2, <2>4, <2>7, <3>2
    <3> QED
      BY <3>1, <3>2
  <2>9. v = u
    BY <2>3, <2>4, <2>7, <2>8, SeqEqual
  <2> QED
    BY <2>1, <2>5, <2>6, <2>9
<1>8. k = Len(p) => s = p
  BY <1>2, SeqEqual
<1>9. k < Len(p) => s # p
  BY <1>2, <1>3
<1> QED
  BY <1>1, <1>2, <1>5, <1>6, <1>7, <1>8, <1>9

\* P[n] is the path of n, which is one of the archive or leads to one; only an
\* entry of that very path makes it something other than a directory.
Labels(ns, ar, P) ==
    /\ P \in [DOMAIN ns -> Seq(Names)] /\ P[RootNode] = <<>>
    /\ \A n \in DOMAIN ns : n # RootNode =>
         /\ P[n] = Append(P[ns[n].parent], ns[n].name)
         /\ \E j \in DOMAIN ar : IsPrefix(P[n], ar[j].path)
         /\ ns[n].type # "dir" => \E j \in DOMAIN ar : ar[j].path = P[n] /\ ar[j].type # "dir"

\* The nodes of a trail have the beginnings of its path.
LEMMA TrailLabels ==
    ASSUME NEW ns, Tree(ns), NEW ar, NEW P, Labels(ns, ar, P), NEW p \in Seq(Names),
           NEW d \in Nat, d <= Len(p), NEW c, Trail(ns, p, d, c)
    PROVE  \A k \in 0..d : /\ P[c[k]] = SubSeq(p, 1, k) /\ c[k] \in DOMAIN ns
                           /\ k # 0 => c[k] # RootNode
<1>1. c \in [0..d -> DOMAIN ns] /\ c[0] = RootNode
  BY DEF Trail
<1>2. ASSUME NEW k \in Nat, k < d
      PROVE  /\ c[k] \in DOMAIN ns /\ c[k + 1] \in DOMAIN ns /\ c[k + 1] # RootNode
             /\ ns[c[k + 1]].parent = c[k] /\ ns[c[k + 1]].name = p[k + 1]
  <2>1. ns[c[k + 1]].parent = c[k] /\ ns[c[k + 1]].name = p[k + 1]
    BY <1>2 DEF Trail
  <2>2. k \in 0..d /\ k + 1 \in 0..d
    BY <1>2
  <2>3. c[k] \in DOMAIN ns /\ c[k + 1] \in DOMAIN ns
    BY <1>1, <2>2
  <2>4. c[k] # 0
    BY <2>3, TreeType
  <2> QED
    BY <2>1, <2>3, <2>4, TreeType
<1> DEFINE T == {k \in Nat : k <= d => P[c[k]] = SubSeq(p, 1, k)}
<1>3. 0 \in T
  BY <1>1, Beginnings DEF Labels
<1>4. ASSUME NEW k \in Nat, k \in T PROVE k + 1 \in T
  <2>1. CASE k < d
    <3>1. P[c[k]] = SubSeq(p, 1, k)
      BY <1>4, <2>1
    <3>2. PICK m \in DOMAIN ns : /\ m = c[k + 1] /\ m # RootNode /\ ns[m].parent = c[k]
                                 /\ ns[m].name = p[k + 1]
      BY <1>2, <2>1
    <3>3. P[m] = Append(P[ns[m].parent], ns[m].name)
      BY <3>2 DEF Labels
    <3>4. k < Len(p) /\ k <= Len(p)
      <4>1. Len(p) \in Nat
        OBVIOUS
      <4> QED
        BY <2>1, <4>1
    <3>5. Append(SubSeq(p, 1, k), p[k + 1]) = SubSeq(p, 1, k + 1)
      BY <3>4, Beginnings
    <3>6. P[c[k + 1]] = SubSeq(p, 1, k + 1)
      BY <3>1, <3>2, <3>3, <3>5
    <3> QED
      BY <3>6
  <2>2. CASE ~(k < d)
    BY <2>2
  <2> QED
    BY <2>1, <2>2
<1>5. \A k \in Nat : k \in T
  <2> HIDE DEF T
  <2> QED
    BY <1>3, <1>4, AllNumbers
<1>6. ASSUME NEW k \in 0..d PROVE k # 0 => c[k] # RootNode
  <2>1. CASE k # 0
    <3>1. PICK j \in Nat : j + 1 = k /\ j < d
      BY <2>1
    <3> QED
      BY <1>2, <3>1
  <2> QED
    BY <2>1
<1> QED
  BY <1>1, <1>5, <1>6

\* A step of the parser labels the new nodes.
LEMMA LabelsGrow ==
    ASSUME NEW ns, Tree(ns), NEW ar \in Seq(Headers), NEW P, Labels(ns, ar, P), NEW h \in Headers,
           NEW ms, NEW d, NEW c, NEW q, Grows(ns, ms, h, d, c, q)
    PROVE  \E Q : Labels(ms, Append(ar, h), Q)
<1>1. PICK l \in Nat : l = Len(h.path) /\ h.path \in Seq(Names) /\ h.path \in Paths
  BY HeaderIs, PathIs
<1>2. /\ d \in Nat /\ q \in Nat /\ d < l /\ d + q <= l /\ Trail(ns, h.path, d, c) /\ c \in [0..d -> DOMAIN ns]
      /\ \A n \in DOMAIN ns : ms[n] = ns[n]
  BY <1>1 DEF Grows, Trail
<1>3. PICK L \in Nat : /\ L = Len(ns) /\ DOMAIN ns = 1..L /\ RootNode \in 1..L /\ Len(ms) = L + q
                       /\ \A n \in DOMAIN ns : n # RootNode => ns[n].parent \in DOMAIN ns
  BY TreeType DEF Grows
<1>4. Grown(ns, ms) /\ DOMAIN ms = 1..(L + q)
  BY <1>3, GrowsTree, TreeType DEF Grown
<1>5. P[c[d]] = SubSeq(h.path, 1, d) /\ c[d] \in DOMAIN ns
  <2>1. d <= Len(h.path) /\ d \in 0..d
    BY <1>1, <1>2
  <2> QED
    BY <1>1, <1>2, <2>1, TrailLabels
<1> DEFINE Q == [m \in DOMAIN ms |-> IF m <= L THEN P[m] ELSE SubSeq(h.path, 1, d + (m - L))]
           br == Append(ar, h)
<1>6. PICK a \in Nat : /\ a = Len(ar) /\ DOMAIN ar = 1..a /\ DOMAIN br = 1..(a + 1) /\ br[a + 1] = h
                       /\ \A j \in 1..a : br[j] = ar[j]
  <2>1. /\ Append(ar, h) \in Seq(Headers) /\ Len(Append(ar, h)) = Len(ar) + 1
        /\ \A j \in 1..Len(ar) : Append(ar, h)[j] = ar[j]
        /\ Append(ar, h)[Len(ar) + 1] = h
    BY AppendProperties
  <2>2. Len(ar) \in Nat /\ DOMAIN ar = 1..Len(ar) /\ DOMAIN br = 1..Len(br)
    BY <2>1
  <2> QED
    BY <2>1, <2>2
<1> HIDE DEF br
<1>7. P \in [DOMAIN ns -> Seq(Names)] /\ P[RootNode] = <<>>
  BY DEF Labels
<1>8. \A m \in DOMAIN ns : Q[m] = P[m]
  BY <1>2, <1>3, <1>4
<1>9. \A i \in 1..q : Q[L + i] = SubSeq(h.path, 1, d + i) /\ d + i \in Nat /\ d + i <= l /\ L + i \in DOMAIN ms
  <2> SUFFICES ASSUME NEW i \in 1..q
               PROVE  Q[L + i] = SubSeq(h.path, 1, d + i) /\ d + i \in Nat /\ d + i <= l /\ L + i \in DOMAIN ms
    OBVIOUS
  <2>1. i \in Nat /\ i >= 1 /\ i <= q
    BY <1>2
  <2>2. L + i \in DOMAIN ms /\ ~(L + i <= L) /\ (L + i) - L = i
    BY <1>2, <1>3, <1>4, <2>1
  <2>3. d + i \in Nat /\ d + i <= l
    BY <1>2, <2>1
  <2> QED
    BY <2>2, <2>3
<1>10. Q \in [DOMAIN ms -> Seq(Names)]
  <2>1. ASSUME NEW m \in DOMAIN ms PROVE Q[m] \in Seq(Names)
    <3>1. CASE m \in DOMAIN ns
      BY <1>7, <1>8, <3>1
    <3>2. CASE m \notin DOMAIN ns
      <4>1. PICK i \in 1..q : m = L + i
        <5>1. m \in 1..(L + q) /\ m > L
          BY <1>2, <1>3, <1>4, <3>2
        <5>2. m - L \in 1..q /\ m = L + (m - L)
          BY <1>2, <5>1
        <5> QED
          BY <5>2
      <4>2. PICK k \in Nat : k = d + i /\ k <= Len(h.path) /\ Q[m] = SubSeq(h.path, 1, k)
        BY <1>1, <1>9, <4>1
      <4>3. SubSeq(h.path, 1, k) \in Seq(Names)
        BY <1>1, <4>2, Beginnings
      <4> QED
        BY <4>2, <4>3
    <3> QED
      BY <3>1, <3>2
  <2> QED
    BY <2>1
<1>11. Q[RootNode] = <<>>
  BY <1>3, <1>7, <1>8
<1> HIDE DEF Q
<1>12. ASSUME NEW n \in DOMAIN ms, n # RootNode
       PROVE  /\ Q[n] = Append(Q[ms[n].parent], ms[n].name)
              /\ \E j \in DOMAIN br : IsPrefix(Q[n], br[j].path)
              /\ ms[n].type # "dir" => \E j \in DOMAIN br : br[j].path = Q[n] /\ br[j].type # "dir"
  <2>1. CASE n \in DOMAIN ns
    <3>1. ms[n] = ns[n] /\ ns[n].parent \in DOMAIN ns /\ Q[n] = P[n] /\ Q[ns[n].parent] = P[ns[n].parent]
      BY <1>2, <1>3, <1>8, <1>12, <2>1
    <3>2. P[n] = Append(P[ns[n].parent], ns[n].name)
      BY <1>12, <2>1 DEF Labels
    <3>3. \E j \in DOMAIN ar : IsPrefix(P[n], ar[j].path)
      BY <1>12, <2>1 DEF Labels
    <3>4. ns[n].type # "dir" => \E j \in DOMAIN ar : ar[j].path = P[n] /\ ar[j].type # "dir"
      BY <1>12, <2>1 DEF Labels
    <3>5. \A j \in DOMAIN ar : j \in DOMAIN br /\ br[j] = ar[j]
      BY <1>6
    <3> QED
      BY <3>1, <3>2, <3>3, <3>4, <3>5
  <2>2. CASE n \notin DOMAIN ns
    <3>1. PICK i \in 1..q : n = L + i
      <4>1. n \in 1..(L + q) /\ n > L
        BY <1>2, <1>3, <1>4, <2>2
      <4>2. n - L \in 1..q /\ n = L + (n - L)
        BY <1>2, <4>1
      <4> QED
        BY <4>2
    <3>2. Q[n] = SubSeq(h.path, 1, d + i) /\ d + i \in Nat /\ d + i <= l
      BY <1>9, <3>1
    <3>3. /\ ms[n].parent = IF i = 1 THEN c[d] ELSE L + i - 1
          /\ ms[n].name = h.path[d + i]
          /\ ms[n].type # "dir" => d + i = l /\ h.type # "dir"
      BY <1>1, <1>3, <3>1 DEF Grows
    <3>4. PICK k \in Nat : k + 1 = d + i /\ k < l /\ k <= l
      BY <1>2, <3>1, <3>2
    <3>5. Q[ms[n].parent] = SubSeq(h.path, 1, k)
      <4>1. CASE i = 1
        <5>1. k = d
          BY <1>2, <3>4, <4>1
        <5> QED
          BY <1>5, <1>8, <3>3, <4>1, <5>1
      <4>2. CASE i # 1
        <5>0. /\ i - 1 \in 1..q /\ (i - 1) + 1 = i /\ L + i - 1 = L + (i - 1) /\ k = d + (i - 1)
          <6>1. d \in Nat /\ q \in Nat /\ k \in Nat /\ k + 1 = d + i /\ i \in 1..q
            BY <1>2, <3>4
          <6> QED
            BY <4>2, <6>1
        <5>1. PICK o \in 1..q : o + 1 = i /\ L + i - 1 = L + o /\ k = d + o
          BY <5>0
        <5>2. Q[L + o] = SubSeq(h.path, 1, d + o)
          BY <1>9, <5>1
        <5> QED
          BY <3>3, <4>2, <5>1, <5>2
      <4> QED
        BY <4>1, <4>2
    <3>6. Append(SubSeq(h.path, 1, k), h.path[k + 1]) = SubSeq(h.path, 1, k + 1)
      BY <1>1, <3>4, Beginnings
    <3>7. Q[n] = Append(Q[ms[n].parent], ms[n].name)
      BY <3>2, <3>3, <3>4, <3>5, <3>6
    <3>8. IsPrefix(Q[n], h.path) /\ (d + i = l => Q[n] = h.path)
      BY <1>1, <3>2, Beginnings
    <3>9. a + 1 \in DOMAIN br /\ br[a + 1] = h
      BY <1>6
    <3> QED
      BY <3>3, <3>7, <3>8, <3>9
  <2> QED
    BY <2>1, <2>2
<1>13. Labels(ms, br, Q)
  BY <1>10, <1>11, <1>12 DEF Labels
<1> QED
  BY <1>13 DEF br

-----------------------------------------------------------------------------
(* Entries that decide what their path means. *)

\* Decides of the model, for any archive.
DecidesIn(ar, i) ==
    \A j \in 1..(i - 1) :
        /\ ~IsPrefix(ar[i].path, ar[j].path)
        /\ IsStrictPrefix(ar[j].path, ar[i].path) => ar[j].type = "dir"

\* Entry i has its own node at the end of a trail of directories.
Placed(ns, ar, i) ==
    LET p == ar[i].path
    IN  \E c : /\ Trail(ns, p, Len(p), c) /\ \A k \in Nat : k < Len(p) => ns[c[k]].type = "dir"
               /\ ns[c[Len(p)]].type = ar[i].type /\ (ar[i].type = "file" => ns[c[Len(p)]].data = i)

\* A node at the end of a trail of directories is what vfs_lookup returns.
LEMMA TrailFound ==
    ASSUME NEW ns, Tree(ns), NEW p \in Paths, Fits(p), NEW c, Trail(ns, p, Len(p), c),
           \A k \in Nat : k < Len(p) => ns[c[k]].type = "dir", ns[c[Len(p)]].type # "sym"
    PROVE  VfsLookup(ns, p) = c[Len(p)]
<1>1. Len(p) \in Nat /\ \A k \in 1..Len(p) : p[k] # Dot
  BY PathIs
<1>11. \A k \in 1..Len(p) : Token(p[k]) = p[k]
  <2>1. DOMAIN p = 1..Len(p)
    BY <1>1, PathIs
  <2> QED
    BY <2>1 DEF Fits, Token
<1>2. LinksTo(ns) \in LinkMap(ns)
  BY LinksToType
<1>3. PICK f : VfsTrack(ns, p, f) /\ VfsLookup(ns, p) = f[Len(p)]
  BY <1>1, <1>2, VfsIs
<1>4. c \in [0..Len(p) -> DOMAIN ns] /\ c[0] = RootNode
  BY DEF Trail
<1> DEFINE T == {k \in Nat : k <= Len(p) => f[k] = c[k]}
<1>5. 0 \in T
  BY <1>3, <1>4 DEF VfsTrack
<1>6. ASSUME NEW k \in Nat, k \in T PROVE k + 1 \in T
  <2>1. CASE k + 1 <= Len(p)
    <3>1. k < Len(p) /\ k \in 0..Len(p) /\ k + 1 \in 0..Len(p) /\ k + 1 \in 1..Len(p) /\ f[k] = c[k]
      BY <1>1, <1>6, <2>1
    <3>2. PICK x \in DOMAIN ns : x = c[k] /\ x # 0 /\ ns[x].type = "dir"
      BY <1>4, <3>1, TreeType
    <3>3. PICK y \in DOMAIN ns : y = c[k + 1] /\ y # 0 /\ ns[y].parent = x /\ ns[y].name = p[k + 1]
      BY <1>4, <3>1, <3>2, TreeType DEF Trail
    <3>4. ns[y].type # "sym"
      <4>1. CASE k + 1 = Len(p)
        BY <3>3, <4>1
      <4>2. CASE k + 1 # Len(p)
        <5>1. k + 1 \in Nat /\ k + 1 < Len(p)
          BY <1>1, <2>1, <4>2
        <5> QED
          BY <3>3, <5>1
      <4> QED
        BY <4>1, <4>2
    <3>5. FindChild(ns, x, p[k + 1]) = y
      BY <3>3, FindChildIs
    <3>6. PICK name : name = p[k + 1] /\ name # Dot /\ Token(name) = name
      BY <1>1, <1>11, <3>1
    <3>7. VfsStep(ns, LinksTo(ns), x, name) = y
      BY <3>2, <3>3, <3>4, <3>5, <3>6 DEF VfsStep, Lookup, Follow
    <3>8. f[k + 1] = VfsStep(ns, LinksTo(ns), f[k], p[k + 1])
      BY <1>3, Zenon DEF VfsTrack
    <3>9. f[k + 1] = c[k + 1]
      BY <3>1, <3>2, <3>3, <3>6, <3>7, <3>8
    <3> QED
      BY <3>9
  <2>2. CASE ~(k + 1 <= Len(p))
    BY <2>2
  <2> QED
    BY <2>1, <2>2
<1>7. \A k \in Nat : k \in T
  <2> HIDE DEF T
  <2> QED
    BY <1>5, <1>6, AllNumbers
<1> QED
  BY <1>1, <1>3, <1>7

\* A trail is still there when the tree has grown.
LEMMA TrailGrown ==
    ASSUME NEW ns, NEW ms, Grown(ns, ms), NEW p, NEW d \in Nat, NEW c, Trail(ns, p, d, c)
    PROVE  Trail(ms, p, d, c) /\ \A k \in 0..d : c[k] \in DOMAIN ns /\ ms[c[k]] = ns[c[k]]
<1>1. c \in [0..d -> DOMAIN ns] /\ c[0] = RootNode
  BY DEF Trail
<1>2. DOMAIN ns \subseteq DOMAIN ms /\ \A n \in DOMAIN ns : ms[n] = ns[n]
  BY GrownIs DEF Grown
<1>3. \A k \in 0..d : c[k] \in DOMAIN ns /\ ms[c[k]] = ns[c[k]]
  BY <1>1, <1>2
<1>4. ASSUME NEW k \in Nat, k < d PROVE ms[c[k + 1]].parent = c[k] /\ ms[c[k + 1]].name = p[k + 1]
  <2>1. k + 1 \in 0..d
    BY <1>4
  <2>2. ms[c[k + 1]] = ns[c[k + 1]]
    BY <1>3, <2>1
  <2> QED
    BY <1>4, <2>2 DEF Trail
<1>5. c \in [0..d -> DOMAIN ms]
  BY <1>1, <1>2
<1> QED
  BY <1>1, <1>3, <1>4, <1>5 DEF Trail

\* An entry keeps its node.
LEMMA PlacedStays ==
    ASSUME NEW ns, NEW ms, Grown(ns, ms), NEW ar, NEW br, NEW i, br[i] = ar[i], ar[i].path \in Paths,
           Placed(ns, ar, i)
    PROVE  Placed(ms, br, i)
<1>1. PICK p \in Paths : p = ar[i].path
  OBVIOUS
<1>2. PICK l \in Nat : l = Len(p)
  BY <1>1, PathIs
<1>3. PICK c : /\ Trail(ns, p, l, c) /\ \A k \in Nat : k < l => ns[c[k]].type = "dir"
               /\ ns[c[l]].type = ar[i].type /\ (ar[i].type = "file" => ns[c[l]].data = i)
  BY <1>1, <1>2 DEF Placed
<1>4. Trail(ms, p, l, c) /\ \A k \in 0..l : ms[c[k]] = ns[c[k]]
  BY <1>3, TrailGrown
<1>5. \A k \in Nat : k < l => ms[c[k]].type = "dir"
  BY <1>3, <1>4
<1>6. ms[c[l]] = ns[c[l]]
  BY <1>4
<1> QED
  BY <1>1, <1>2, <1>3, <1>4, <1>5, <1>6 DEF Placed

\* A file or directory that decides what its path means gets its own node.
LEMMA NewPlaced ==
    ASSUME NEW ns, Tree(ns), NEW ar \in Seq(Headers), NEW P, Labels(ns, ar, P), NEW h \in Headers,
           NEW ms, NEW e, e = Len(ar) + 1, NEW d, NEW c, NEW q, Grows(ns, ms, h, d, c, q),
           \/ /\ d + q = Len(h.path) /\ ms[Len(ms)].type = h.type
              /\ h.type = "file" => ms[Len(ms)].data = e
           \/ \E b : Trail(ns, h.path, Len(h.path), b),
           DecidesIn(Append(ar, h), e)
    PROVE  Placed(ms, Append(ar, h), e)
<1>1. PICK l \in Nat : l = Len(h.path) /\ l >= 1 /\ h.path \in Seq(Names) /\ h.path \in Paths
  BY HeaderIs, PathIs
<1>2. /\ Len(ar) \in Nat /\ DOMAIN ar = 1..(e - 1) /\ Append(ar, h)[e] = h
      /\ \A j \in 1..(e - 1) : Append(ar, h)[j] = ar[j]
  BY AppendProperties
<1>3. \A j \in DOMAIN ar : /\ ~IsPrefix(h.path, ar[j].path)
                           /\ IsStrictPrefix(ar[j].path, h.path) => ar[j].type = "dir"
  BY <1>2 DEF DecidesIn
<1>4. ASSUME NEW b, Trail(ns, h.path, l, b) PROVE FALSE
  <2>1. l \in 0..l /\ l <= Len(h.path)
    BY <1>1
  <2>2. P[b[l]] = SubSeq(h.path, 1, l) /\ b[l] \in DOMAIN ns /\ b[l] # RootNode
    BY <1>1, <1>4, <2>1, TrailLabels
  <2>3. P[b[l]] = h.path
    BY <1>1, <2>2, Beginnings
  <2>4. \E j \in DOMAIN ar : IsPrefix(P[b[l]], ar[j].path)
    BY <2>2 DEF Labels
  <2> QED
    BY <1>3, <2>3, <2>4
<1>5. /\ d + q = l /\ ms[Len(ms)].type = h.type
      /\ h.type = "file" => ms[Len(ms)].data = e
  BY <1>1, <1>4
<1>6. /\ d \in Nat /\ q \in Nat /\ d < l /\ Trail(ns, h.path, d, c) /\ c \in [0..d -> DOMAIN ns] /\ c[0] = RootNode
      /\ \A n \in DOMAIN ns : ms[n] = ns[n]
  BY <1>1 DEF Grows, Trail
<1>7. PICK L \in Nat : L = Len(ns) /\ DOMAIN ns = 1..L /\ Len(ms) = L + q
  BY TreeType DEF Grows
<1>8. Grown(ns, ms) /\ DOMAIN ms = 1..(L + q)
  BY <1>7, GrowsTree, TreeType DEF Grown
<1>9. \A i \in 1..q : /\ ms[L + i].parent = IF i = 1 THEN c[d] ELSE L + i - 1
                      /\ ms[L + i].name = h.path[d + i]
                      /\ ms[L + i].type # "dir" => d + i = l
  BY <1>1, <1>7 DEF Grows
<1> DEFINE b == [k \in 0..l |-> IF k <= d THEN c[k] ELSE L + (k - d)]
<1>10. \A k \in 0..d : b[k] = c[k] /\ c[k] \in DOMAIN ns /\ ms[c[k]] = ns[c[k]]
  <2> SUFFICES ASSUME NEW k \in 0..d PROVE b[k] = c[k] /\ c[k] \in DOMAIN ns /\ ms[c[k]] = ns[c[k]]
    OBVIOUS
  <2>1. k \in 0..l /\ k <= d
    BY <1>1, <1>6
  <2> QED
    BY <1>6, <2>1
<1>11. ASSUME NEW i \in 1..q PROVE b[d + i] = L + i /\ d + i \in 0..l
  <2>1. i \in Nat /\ 1 <= i /\ i <= q
    BY <1>6
  <2>2. d + i \in 0..l /\ ~(d + i <= d) /\ (d + i) - d = i
    BY <1>5, <1>6, <2>1
  <2> QED
    BY <2>2
<1>12. ASSUME NEW k \in 0..l, ~(k \in 0..d) PROVE \E i \in 1..q : k = d + i
  <2>1. k - d \in 1..q /\ k = d + (k - d)
    BY <1>5, <1>6, <1>12
  <2> QED
    BY <2>1
<1>13. b \in [0..l -> DOMAIN ms]
  <2>1. ASSUME NEW k \in 0..l PROVE b[k] \in DOMAIN ms
    <3>1. CASE k \in 0..d
      BY <1>6, <1>7, <1>8, <1>10, <3>1
    <3>2. CASE ~(k \in 0..d)
      <4>1. PICK i \in 1..q : k = d + i
        BY <1>12, <3>2
      <4>2. b[k] = L + i
        BY <1>11, <4>1
      <4> QED
        BY <1>6, <1>7, <1>8, <4>2
    <3> QED
      BY <3>1, <3>2
  <2> HIDE DEF b
  <2>2. DOMAIN b = 0..l /\ b = [k \in 0..l |-> b[k]]
    BY DEF b
  <2> QED
    BY <2>1, <2>2
<1>14. b[0] = RootNode
  BY <1>6, <1>10
<1> HIDE DEF b
<1>15. ASSUME NEW k \in Nat, k < l PROVE ms[b[k + 1]].parent = b[k] /\ ms[b[k + 1]].name = h.path[k + 1]
  <2>1. CASE k < d
    <3>1. k \in 0..d /\ k + 1 \in 0..d
      BY <1>6, <2>1
    <3>2. b[k] = c[k] /\ b[k + 1] = c[k + 1] /\ ms[c[k + 1]] = ns[c[k + 1]]
      BY <1>10, <3>1
    <3> QED
      BY <1>6, <2>1, <3>2 DEF Trail
  <2>2. CASE k = d
    <3>1. d \in 0..d /\ 1 \in 1..q
      BY <1>5, <1>6, <1>15, <2>2
    <3>2. b[k] = c[d] /\ b[k + 1] = L + 1
      BY <1>10, <1>11, <2>2, <3>1
    <3> QED
      BY <1>9, <2>2, <3>1, <3>2
  <2>3. CASE k > d
    <3>1. PICK i \in Nat : i = k - d /\ k = d + i /\ k + 1 = d + (i + 1) /\ i \in 1..q /\ i + 1 \in 1..q /\ i + 1 # 1
      BY <1>5, <1>6, <1>15, <2>3
    <3>2. b[k] = L + i /\ b[k + 1] = L + (i + 1)
      BY <1>11, <3>1
    <3>3. ms[L + (i + 1)].parent = L + (i + 1) - 1 /\ ms[L + (i + 1)].name = h.path[d + (i + 1)]
      BY <1>9, <3>1
    <3>4. L + (i + 1) - 1 = L + i
      BY <1>7, <3>1
    <3> QED
      BY <3>1, <3>2, <3>3, <3>4
  <2> QED
    BY <1>6, <2>1, <2>2, <2>3
<1>16. Trail(ms, h.path, l, b)
  BY <1>13, <1>14, <1>15 DEF Trail
<1>17. ASSUME NEW k \in Nat, k < l PROVE ms[b[k]].type = "dir"
  <2>1. CASE k \in 0..d
    <3>1. b[k] = c[k] /\ ms[b[k]] = ns[c[k]] /\ c[k] \in DOMAIN ns
      BY <1>10, <2>1
    <3>2. CASE k = 0
      BY <1>6, <3>1, <3>2, TreeType
    <3>3. CASE k # 0
      <4> SUFFICES ASSUME ns[c[k]].type # "dir" PROVE FALSE
        BY <3>1
      <4>1. P[c[k]] = SubSeq(h.path, 1, k) /\ c[k] # RootNode
        <5>1. d <= Len(h.path)
          BY <1>1, <1>6
        <5>2. \A m \in 0..d : P[c[m]] = SubSeq(h.path, 1, m) /\ c[m] \in DOMAIN ns /\ (m # 0 => c[m] # RootNode)
          BY <1>1, <1>6, <5>1, TrailLabels
        <5> QED
          BY <2>1, <3>3, <5>2
      <4>2. PICK j \in DOMAIN ar : ar[j].path = P[c[k]] /\ ar[j].type # "dir"
        BY <3>1, <4>1 DEF Labels
      <4>3. IsPrefix(SubSeq(h.path, 1, k), h.path) /\ SubSeq(h.path, 1, k) # h.path
        BY <1>1, <1>17, Beginnings
      <4> QED
        BY <1>3, <4>1, <4>2, <4>3 DEF IsStrictPrefix
    <3> QED
      BY <3>2, <3>3
  <2>2. CASE ~(k \in 0..d)
    <3>1. PICK i \in 1..q : k = d + i
      BY <1>1, <1>12, <1>17, <2>2
    <3>2. b[k] = L + i /\ d + i # l
      BY <1>6, <1>11, <1>17, <3>1
    <3> QED
      BY <1>9, <3>1, <3>2
  <2> QED
    BY <2>1, <2>2
<1>18. b[l] = Len(ms)
  <2>1. q \in 1..q /\ d + q = l
    BY <1>5, <1>6
  <2> QED
    BY <1>7, <1>11, <2>1
<1> QED
  BY <1>1, <1>2, <1>5, <1>16, <1>17, <1>18 DEF Placed

-----------------------------------------------------------------------------
(* The invariant. *)

\* The nodes form a tree, each stands for a path of the archive, and while memory
\* lasts the entries that decide what their path means have their own node.
TarInv ==
    /\ Tree(nodes) /\ archive \in Seq(Headers)
    /\ \E P : Labels(nodes, archive, P)
    /\ ~short => \A i \in DOMAIN archive :
         archive[i].type \in {"file", "dir"} /\ DecidesIn(archive, i) => Placed(nodes, archive, i)

\* tarfs_mount establishes it.
LEMMA TarInit ==
    ASSUME MountInit PROVE TarInv
<1> DEFINE root == Node(DotDot, 0, "dir", [abs |-> TRUE, path |-> <<>>], 0)
<1>1. nodes = <<root>> /\ archive = <<>>
  BY DEF MountInit
<1>2. root \in TreeNodes /\ root.type = "dir" /\ root.parent = 0
  <2>1. <<>> \in Seq(Names \cup {Dot, DotDot})
    OBVIOUS
  <2> QED
    BY <2>1 DEF Node, TreeNodes
<1> HIDE DEF root
<1>3. nodes \in Seq(TreeNodes) /\ Len(nodes) = 1 /\ DOMAIN nodes = {1} /\ nodes[1] = root
  BY <1>1, <1>2
<1>4. Tree(nodes)
  BY <1>2, <1>3 DEF Tree
<1>5. archive \in Seq(Headers) /\ DOMAIN archive = {}
  BY <1>1
<1>6. Labels(nodes, archive, [n \in DOMAIN nodes |-> <<>>])
  BY <1>3 DEF Labels, RootNode
<1> QED
  BY <1>4, <1>5, <1>6 DEF TarInv

\* A step of the parser grows the tree.
LEMMA ParseGrows ==
    ASSUME TarInv, NEW h \in Headers, NEW made \in Nat, ParseEntry(h) \/ ParseShort(h, made)
    PROVE  Grown(nodes, nodes') /\ TarInv'
<1>1. Tree(nodes) /\ archive \in Seq(Headers)
  BY DEF TarInv
<1>2. PICK P : Labels(nodes, archive, P)
  BY DEF TarInv
<1>3. archive' = Append(archive, h)
  BY DEF ParseEntry, ParseShort
<1>4. PICK e \in Nat : e = Len(archive) + 1 /\ DOMAIN archive = 1..(e - 1)
  BY <1>1
<1>5. /\ archive' \in Seq(Headers) /\ DOMAIN archive' = 1..e /\ archive'[e] = h
      /\ \A j \in 1..(e - 1) : archive'[j] = archive[j]
  BY <1>1, <1>3, <1>4, AppendProperties
<1>6. PICK d, c, q :
         /\ Grows(nodes, nodes', h, d, c, q)
         /\ ~short' /\ h.type \in {"file", "dir"} =>
              \/ /\ d + q = Len(h.path) /\ nodes'[Len(nodes')].type = h.type
                 /\ h.type = "file" => nodes'[Len(nodes')].data = e
              \/ \E b : Trail(nodes, h.path, Len(h.path), b)
  <2>1. CASE ParseEntry(h)
    <3>1. PICK r : r = ResolveDir(nodes, Front(h.path), MaxPath)
      OBVIOUS
    <3>2. PICK ms : ms = nodes' /\ ms = AddEntry(r.tree, r.dir, h, e)
      BY <1>4, <2>1, <3>1 DEF ParseEntry
    <3>3. PICK d, c, q :
             /\ Grows(nodes, ms, h, d, c, q)
             /\ h.type \in {"file", "dir"} =>
                  \/ /\ d + q = Len(h.path) /\ ms[Len(ms)].type = h.type
                     /\ h.type = "file" => ms[Len(ms)].data = e
                  \/ \E b : Trail(nodes, h.path, Len(h.path), b)
      BY <1>1, <3>1, <3>2, AddGrows
    <3> QED
      BY <3>2, <3>3
  <2>2. CASE ParseShort(h, made)
    <3>1. PICK r : r = ResolveDir(nodes, Front(h.path), made)
      OBVIOUS
    <3>2. nodes' = r.tree /\ short'
      BY <2>2, <3>1 DEF ParseShort
    <3>3. PICK d, c, q : Grows(nodes, r.tree, h, d, c, q)
      BY <1>1, <3>1, ResolveGrows
    <3> QED
      BY <3>2, <3>3
  <2> QED
    BY <2>1, <2>2
<1>7. PICK ms : ms = nodes'
  OBVIOUS
<1>8. Grows(nodes, ms, h, d, c, q)
  BY <1>6, <1>7
<1>9. Grown(nodes, ms) /\ Tree(ms)
  BY <1>1, <1>8, GrowsTree DEF Grown
<1>10. PICK br : br = archive' /\ br = Append(archive, h)
  BY <1>3
<1>11. PICK Q : Labels(ms, br, Q)
  BY <1>1, <1>2, <1>8, <1>10, LabelsGrow
<1>12. ASSUME ~short', NEW i \in DOMAIN br, br[i].type \in {"file", "dir"}, DecidesIn(br, i)
       PROVE  Placed(ms, br, i)
  <2>1. CASE i = e
    <3>1. br[e] = h
      BY <1>5, <1>10
    <3>2. \/ /\ d + q = Len(h.path) /\ ms[Len(ms)].type = h.type
             /\ h.type = "file" => ms[Len(ms)].data = e
          \/ \E b : Trail(nodes, h.path, Len(h.path), b)
      BY <1>6, <1>7, <1>12, <2>1, <3>1
    <3>3. DecidesIn(Append(archive, h), e)
      BY <1>10, <1>12, <2>1
    <3>4. Placed(ms, Append(archive, h), e)
      BY <1>1, <1>2, <1>4, <1>8, <3>2, <3>3, NewPlaced
    <3> QED
      BY <1>10, <2>1, <3>4
  <2>2. CASE i # e
    <3>1. i \in 1..(e - 1) /\ i \in DOMAIN archive /\ br[i] = archive[i]
      BY <1>4, <1>5, <1>10, <2>2
    <3>2. \A j \in 1..(i - 1) : br[j] = archive[j]
      BY <1>4, <1>5, <1>10, <3>1
    <3>3. DecidesIn(archive, i)
      BY <1>12, <3>1, <3>2 DEF DecidesIn
    <3>4. ~short
      BY <1>12 DEF ParseEntry, ParseShort
    <3>5. Placed(nodes, archive, i)
      BY <1>12, <3>1, <3>3, <3>4 DEF TarInv
    <3>6. archive[i].path \in Paths
      <4>1. archive[i] \in Headers
        BY <1>1, <3>1, ElementOfSeq
      <4> QED
        BY <4>1, HeaderIs
    <3> QED
      BY <1>9, <3>1, <3>5, <3>6, PlacedStays
  <2> QED
    BY <2>1, <2>2
<1>13. TarInv'
  BY <1>5, <1>7, <1>9, <1>10, <1>11, <1>12 DEF TarInv
<1> QED
  BY <1>7, <1>9, <1>13

\* Every step keeps it and grows the tree.
LEMMA TarStep ==
    ASSUME TarInv, [ParseNext]_treeVars
    PROVE  TarInv' /\ (Grown(nodes, nodes') \/ UNCHANGED treeVars)
<1>1. CASE UNCHANGED treeVars
  BY <1>1 DEF TarInv, treeVars
<1>2. ASSUME NEW h \in Headers, ParseEntry(h) PROVE Grown(nodes, nodes') /\ TarInv'
  BY <1>2, ParseGrows, 0 \in Nat
<1>3. ASSUME NEW h \in Headers, NEW made \in 0..(Len(h.path) - 1), ParseShort(h, made)
      PROVE  Grown(nodes, nodes') /\ TarInv'
  <2>1. made \in Nat
    OBVIOUS
  <2> QED
    BY <1>3, <2>1, ParseGrows
<1> QED
  BY <1>1, <1>2, <1>3 DEF ParseNext, Parsed

\* The nodes that tarfs_parse_archive makes are a tree in which every node stands for
\* a path of the archive and every deciding entry has its node.
THEOREM TarInvariant == MountSpec => []TarInv
BY TarInit, TarStep, PTL DEF MountSpec

\* It says that the files are found.
LEMMA TarFound ==
    ASSUME TarInv PROVE FilesAreFound
<1> SUFFICES ASSUME ~short, NEW i \in DOMAIN archive, Fits(archive[i].path),
                    archive[i].type \in {"file", "dir"}, Decides(i)
             PROVE  /\ VfsLookup(nodes, archive[i].path) # 0
                    /\ nodes[VfsLookup(nodes, archive[i].path)].type = archive[i].type
                    /\ archive[i].type = "file" => nodes[VfsLookup(nodes, archive[i].path)].data = i
  BY DEF FilesAreFound
<1>1. Tree(nodes) /\ archive[i] \in Headers
  BY ElementOfSeq DEF TarInv
<1>2. PICK p \in Paths : p = archive[i].path
  BY <1>1, HeaderIs
<1>3. PICK l \in Nat : l = Len(p)
  BY PathIs
<1>4. DecidesIn(archive, i)
  BY DEF Decides, DecidesIn
<1>5. Placed(nodes, archive, i)
  BY <1>4 DEF TarInv
<1>6. PICK c : /\ Trail(nodes, p, l, c) /\ \A k \in Nat : k < l => nodes[c[k]].type = "dir"
               /\ nodes[c[l]].type = archive[i].type /\ (archive[i].type = "file" => nodes[c[l]].data = i)
  BY <1>2, <1>3, <1>5 DEF Placed
<1>7. VfsLookup(nodes, p) = c[l]
  BY <1>1, <1>2, <1>3, <1>6, TrailFound
<1>8. c[l] # 0
  <2>1. c[l] \in DOMAIN nodes
    BY <1>3, <1>6 DEF Trail
  <2> QED
    BY <1>1, <2>1, TreeType
<1> QED
  BY <1>2, <1>6, <1>7, <1>8

\* Every file and directory of the archive whose names fit the token of vfs_lookup is
\* found by it under its path and with its own contents, unless an earlier entry took the
\* path, for any archive and links.
THEOREM FilesAreFoundAlways == MountSpec => []FilesAreFound
BY TarInvariant, TarFound, PTL

\* vfs_lookup finds for every path of plain names what tarfs_walk finds for the path cut to
\* what fits a token, and neither returns a symbolic link, whatever
\* TARFS_MAX_SYMLINK_DEPTH is.
THEOREM LookupsAgreeAlways == MountSpec => []LookupsAgree
<1>1. TarInv => LookupsAgree
  BY Agreement DEF TarInv, LookupsAgree, CutPath
<1> QED
  BY <1>1, TarInvariant, PTL

\* What vfs_lookup finds under a path stays what it finds while the archive is parsed on,
\* also when malloc fails half way.
THEOREM LookupsStableAlways == MountSpec => LookupsStable
<1> DEFINE Stable == \A path \in Paths : VfsLookup(nodes, path) # 0 =>
                        VfsLookup(nodes', path) = VfsLookup(nodes, path)
<1>1. TarInv /\ [ParseNext]_treeVars => [Stable]_treeVars
  <2> SUFFICES ASSUME TarInv, [ParseNext]_treeVars, ~UNCHANGED treeVars,
                      NEW path \in Paths, VfsLookup(nodes, path) # 0
               PROVE  VfsLookup(nodes', path) = VfsLookup(nodes, path)
    OBVIOUS
  <2>1. PICK ms : ms = nodes' /\ Grown(nodes, ms)
    BY TarStep
  <2>2. VfsLookup(ms, path) = VfsLookup(nodes, path)
    BY <2>1, PathIs, VfsKeeps
  <2> QED
    BY <2>1, <2>2
<1> QED
  BY <1>1, TarInvariant, PTL DEF LookupsStable, MountSpec
=============================================================================
