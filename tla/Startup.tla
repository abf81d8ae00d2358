------------------------------ MODULE Startup ------------------------------
(***************************************************************************)
(* The start of the system on several CPUs: boot_all_aps and boot_ap in    *)
(* arch/x86_64/smp/boot.c, the trampoline, ap_main and the end of kmain in *)
(* core/main.c, with the console and the panic of module Console.          *)
(*                                                                         *)
(* The boot CPU starts the others one after another over one trampoline    *)
(* page, which it fills anew for each; it waits for the answer of each for *)
(* a limited time.  As soon as init is enqueued every CPU that has its     *)
(* idle thread may run it, in user mode or in a system call.               *)
(***************************************************************************)
EXTENDS Console, Sequences

CONSTANTS
    Bsp,      \* the boot CPU
    Machines  \* what the system may start on: the other CPUs in the order of
              \* core_apic_ids, whether the TSC is invariant, and as bounds the CPUs
              \* that may meet an exception and the number of user threads

ASSUME StartupAssumption ==
    /\ Bsp \in Cpus /\ None \notin Cpus /\ None \notin Calls
    /\ Machines \subseteq [aps : Seq(Cpus \ {Bsp}), tsc : BOOLEAN, faulty : SUBSET Cpus, threads : Nat]

VARIABLES
    machine,         \* the machine it does start on
    pc,              \* where kmain is on the boot CPU, and ap_main on the others
    next,            \* index of the AP that boot_all_aps boots
    trampoline,      \* ap_stack and ap_main_f in the trampoline page
    stack,           \* the stack that a CPU runs on
    ap_alive_table,
    gaveUp,          \* (history) APs that boot_ap did not wait for any longer
    mode,            \* what a CPU executes: its "own" code above, or a thread
    init,            \* the thread of init is enqueued
    tooLate,         \* (history) kmain suspended the console after a panic
    down             \* the machine was reset by a triple fault

bootVars == <<machine, pc, next, trampoline, stack, ap_alive_table, gaveUp, init, tooLate>>
vars == <<consoleVars, bootVars, mode, down>>

TypeOK ==
    /\ ConsoleType
    /\ pc \in [Cpus -> {"boot", "copied", "filled", "kicked", "kmain", "suspend", "suspending", "idle",
                        "off", "sipi", "trampoline", "jump", "main", "alive", "timer", "hlt", "umip", "register", "unregistered"}]
    /\ machine \in Machines /\ next \in 1..(Len(machine.aps) + 1)
    /\ trampoline \in [stack : Cpus \cup {None}, main : BOOLEAN]
    /\ stack \in [Cpus -> Cpus \cup {None}]
    /\ ap_alive_table \subseteq Cpus /\ gaveUp \subseteq Cpus
    /\ mode \in [Cpus -> {"own", "switching", "user", "system call"}]
    /\ init \in BOOLEAN /\ tooLate \in BOOLEAN /\ down \in BOOLEAN

\* What memcpy of the trampoline leaves in ap_shared_data.
Blank == [stack |-> None, main |-> FALSE]

Init ==
    /\ machine \in Machines
    /\ ConsoleInit({Bsp})
    /\ pc = [c \in Cpus |-> IF c = Bsp THEN "boot" ELSE "off"]
    /\ next = 1 /\ trampoline = Blank
    /\ stack = [c \in Cpus |-> IF c = Bsp THEN Bsp ELSE None]
    /\ ap_alive_table = {} /\ gaveUp = {}
    /\ mode = [c \in Cpus |-> "own"]
    /\ init = FALSE /\ tooLate = FALSE /\ down = FALSE

\* c executes kmain or ap_main and is at l.
At(c, l) == pc[c] = l /\ mode[c] = "own" /\ Free(c) /\ panic[c] = "no"
Goto(c, l) == pc' = [pc EXCEPT ![c] = l]

-----------------------------------------------------------------------------
(* The boot CPU. *)

Target == machine.aps[next]

\* boot_ap copies the trampoline,
BootCopy ==
    /\ At(Bsp, "boot") /\ next <= Len(machine.aps)
    /\ trampoline' = Blank
    /\ Goto(Bsp, "copied")
    /\ UNCHANGED <<consoleVars, machine, next, stack, ap_alive_table, gaveUp, mode, init, tooLate, down>>

\* fills its variables,
BootFill ==
    /\ At(Bsp, "copied")
    /\ trampoline' = [stack |-> Target, main |-> TRUE]
    /\ ap_alive_table' = ap_alive_table \ {Target}
    /\ Goto(Bsp, "filled")
    /\ UNCHANGED <<consoleVars, machine, next, stack, gaveUp, mode, init, tooLate, down>>

\* and sends INIT and SIPI.
BootKick ==
    /\ At(Bsp, "filled")
    /\ pc' = [pc EXCEPT ![Bsp] = "kicked", ![Target] = "sipi"]
    /\ UNCHANGED <<consoleVars, machine, next, trampoline, stack, ap_alive_table, gaveUp, mode, init, tooLate, down>>

\* boot_all_aps reports the AP and goes on.
BootNext ==
    /\ Printk(Bsp)
    /\ Goto(Bsp, "boot") /\ next' = next + 1
    /\ UNCHANGED <<fb_spinlock, last, panicVars, console_suspended, unlocked, masked, reported>>
    /\ UNCHANGED <<machine, trampoline, stack, ap_alive_table, mode, init, tooLate, down>>

\* (mutant) the entry is compared with 0
BootAlive_Inverted ==
    /\ At(Bsp, "kicked") /\ Target \notin ap_alive_table
    /\ BootNext /\ UNCHANGED gaveUp

\* The AP has answered,
BootAlive ==
    /\ At(Bsp, "kicked") /\ Target \in ap_alive_table
    /\ BootNext /\ UNCHANGED gaveUp

\* or the loop has come to its end.
BootGivesUp ==
    /\ At(Bsp, "kicked") /\ Target \notin ap_alive_table
    /\ gaveUp' = gaveUp \cup {Target}
    /\ BootNext

\* The last message of boot_all_aps.
BootEnds ==
    /\ At(Bsp, "boot") /\ next > Len(machine.aps)
    /\ Printk(Bsp) /\ Goto(Bsp, "kmain")
    /\ UNCHANGED <<fb_spinlock, last, panicVars, console_suspended, unlocked, masked, reported>>
    /\ UNCHANGED <<machine, next, trampoline, stack, ap_alive_table, gaveUp, mode, init, tooLate, down>>

\* The file systems are mounted and elf_start has enqueued init.  Without init
\* kmain panics (Exception).  A short read of /init, after which kmain would go on
\* with no init and no message (main.c:102), is left out: tarfs_read gives the
\* whole of a file.
KmainInit ==
    /\ At(Bsp, "kmain")
    /\ init' = TRUE /\ Goto(Bsp, "suspend")
    /\ UNCHANGED <<consoleVars, machine, next, trampoline, stack, ap_alive_table, gaveUp, mode, tooLate, down>>

\* printk_suspend_console: the message, then the flag.
SuspendPrints ==
    /\ At(Bsp, "suspend")
    /\ Printk(Bsp) /\ Goto(Bsp, "suspending")
    /\ UNCHANGED <<fb_spinlock, last, panicVars, console_suspended, unlocked, masked, reported>>
    /\ UNCHANGED <<machine, next, trampoline, stack, ap_alive_table, gaveUp, mode, init, tooLate, down>>

Suspend ==
    /\ At(Bsp, "suspending")
    /\ console_suspended' = TRUE /\ Goto(Bsp, "idle")
    /\ tooLate' = panicked
    /\ UNCHANGED <<lock, panicVars, unlocked, masked, reported>>
    /\ UNCHANGED <<machine, next, trampoline, stack, ap_alive_table, gaveUp, mode, init, down>>

-----------------------------------------------------------------------------
(* An application processor. *)

ApStarts(c) ==
    /\ At(c, "sipi") /\ Goto(c, "trampoline")
    /\ UNCHANGED <<consoleVars, machine, next, trampoline, stack, ap_alive_table, gaveUp, mode, init, tooLate, down>>

\* mov rsp, [0x70F18]
ApStack(c) ==
    /\ At(c, "trampoline") /\ Goto(c, "jump")
    /\ stack' = [stack EXCEPT ![c] = trampoline.stack]
    /\ UNCHANGED <<consoleVars, machine, next, trampoline, ap_alive_table, gaveUp, mode, init, tooLate, down>>

\* jmp [0x70F10]; without ap_main or without a stack the CPU faults, and it has
\* no interrupt table yet.
ApJump(c) ==
    /\ At(c, "jump") /\ Goto(c, "main")
    /\ down' = ~(trampoline.main /\ stack[c] # None)
    /\ UNCHANGED <<consoleVars, machine, next, trampoline, stack, ap_alive_table, gaveUp, mode, init, tooLate>>

\* ap_main answers before it does anything else.
ApAlive(c) ==
    /\ At(c, "main") /\ Goto(c, "alive")
    /\ ap_alive_table' = ap_alive_table \cup {c}
    /\ UNCHANGED <<consoleVars, machine, next, trampoline, stack, gaveUp, mode, init, tooLate, down>>

\* arch_ap_init up to timer_init; idt_init sets the interrupt flag.
ApInterrupts(c) ==
    /\ At(c, "alive") /\ Goto(c, "timer")
    /\ interrupts' = interrupts \cup {c}
    /\ UNCHANGED <<fb_spinlock, printing, last, panicVars, console_suspended, unlocked, masked, reported>>
    /\ UNCHANGED <<machine, next, trampoline, stack, ap_alive_table, gaveUp, mode, init, tooLate, down>>

\* timer_init: lapic_calibrate measures with the TSC.  If that is not invariant it
\* sleeps until the next tick of the PIT, which only the boot CPU receives.
ApTimer(c) ==
    /\ At(c, "timer") /\ Goto(c, IF machine.tsc THEN "umip" ELSE "hlt")
    /\ UNCHANGED <<consoleVars, machine, next, trampoline, stack, ap_alive_table, gaveUp, mode, init, tooLate, down>>

\* enable_umip prints in either case.
ApUmip(c) ==
    /\ At(c, "umip") /\ Goto(c, "register")
    /\ Printk(c)
    /\ UNCHANGED <<fb_spinlock, last, panicVars, console_suspended, unlocked, masked, reported>>
    /\ UNCHANGED <<machine, next, trampoline, stack, ap_alive_table, gaveUp, mode, init, tooLate, down>>

\* scheduler_ap_init; without memory the CPU gets no idle thread and never
\* switches.
ApRegisters(c) ==
    /\ At(c, "register")
    /\ \/ Goto(c, "idle") /\ UNCHANGED <<printing, interrupts>>
       \/ Goto(c, "unregistered") /\ Printk(c)
    /\ UNCHANGED <<fb_spinlock, last, panicVars, console_suspended, unlocked, masked, reported>>
    /\ UNCHANGED <<machine, next, trampoline, stack, ap_alive_table, gaveUp, mode, init, tooLate, down>>

-----------------------------------------------------------------------------
(* Threads. *)

\* c has its idle thread: scheduler_init, or scheduler_ap_init.
Registered(c) == c = Bsp \/ pc[c] = "idle"

\* A timer interrupt, up to the test of context_switch_lock in scheduler_schedule.
\* As long as there is no other thread it returns to the idle thread.
Tick(c) ==
    /\ c \in interrupts \ halted /\ Registered(c) /\ mode[c] \in {"own", "user"}
    /\ init /\ ~context_switch_lock
    /\ mode' = [mode EXCEPT ![c] = "switching"]
    /\ interrupts' = interrupts \ {c}
    /\ UNCHANGED <<fb_spinlock, printing, last, panicVars, console_suspended, unlocked, masked, reported, bootVars, down>>

\* The rest of scheduler_schedule: c runs the thread of init, or its idle thread
\* where it was interrupted.
Switch(c) ==
    /\ mode[c] = "switching" /\ Free(c) /\ panic[c] = "no"
    /\ \/ mode' = [mode EXCEPT ![c] = "own"]
       \/ /\ init /\ Cardinality({d \in Cpus : mode[d] \in {"user", "system call"}}) < machine.threads
          /\ mode' = [mode EXCEPT ![c] = "user"]
    /\ interrupts' = interrupts \cup {c}
    /\ UNCHANGED <<fb_spinlock, printing, last, panicVars, console_suspended, unlocked, masked, reported, bootVars, down>>

\* A system call, or a fault of the program.
Syscall(c) ==
    /\ mode[c] = "user" /\ c \notin halted
    /\ mode' = [mode EXCEPT ![c] = "system call"]
    /\ interrupts' = interrupts \ {c}
    /\ UNCHANGED <<fb_spinlock, printing, last, panicVars, console_suspended, unlocked, masked, reported, bootVars, down>>

InSyscall(c) == mode[c] = "system call" /\ Free(c) /\ panic[c] = "no"

\* It prints: user_print and locked_printf, or printk.
SyscallPrints(c) ==
    /\ InSyscall(c)
    /\ UserPrint(c) \/ Printk(c)
    /\ UNCHANGED <<fb_spinlock, last, panicVars, console_suspended, unlocked, masked, reported, bootVars, mode, down>>

SyscallWrites(c) ==
    /\ InSyscall(c) /\ WriteUnlocked(c)
    /\ UNCHANGED <<bootVars, mode, down>>

SyscallReturns(c) ==
    /\ InSyscall(c)
    /\ mode' = [mode EXCEPT ![c] = "user"]
    /\ interrupts' = interrupts \cup {c}
    /\ UNCHANGED <<fb_spinlock, printing, last, panicVars, console_suspended, unlocked, masked, reported, bootVars, down>>

-----------------------------------------------------------------------------
(* Panic. *)

\* APs from the SIPI until idt_init have no interrupt table.
NoTable(c) == pc[c] \in {"trampoline", "jump", "main", "alive"}

\* An exception in kernel code, or kmain finds no init.
Exception(c) ==
    /\ mode[c] # "user" /\ pc[c] \notin {"off", "sipi"} /\ ~NoTable(c)
    /\ c \in machine.faulty
    /\ PanicBegins(c)
    /\ UNCHANGED <<bootVars, mode, down>>

\* A CPU that waits for its SIPI ignores an NMI.
Broadcast(c) ==
    /\ PanicBroadcast(c, {d \in Cpus : pc[d] \notin {"off", "sipi"}})
    /\ UNCHANGED <<bootVars, mode, down>>

NmiStops(c) == Nmi(c) /\ down' = NoTable(c) /\ UNCHANGED <<bootVars, mode>>

Console(c) == (PrintStep(c) \/ PanicStep(c)) /\ UNCHANGED <<bootVars, mode, down>>

Boot ==
    BootCopy \/ BootFill \/ BootKick \/ BootAlive \/ BootGivesUp \/ BootEnds
    \/ KmainInit \/ SuspendPrints \/ Suspend

ApStep(c) ==
    ApStarts(c) \/ ApStack(c) \/ ApJump(c) \/ ApAlive(c) \/ ApInterrupts(c) \/ ApTimer(c) \/ ApUmip(c) \/ ApRegisters(c)

\* After a triple fault nothing is left to observe.
Reset == down /\ UNCHANGED vars

Next ==
    \/ /\ ~down
       /\ \/ Boot
          \/ \E c \in Cpus :
                \/ c # Bsp /\ ApStep(c)
                \/ Console(c) \/ Tick(c) \/ Switch(c)
                \/ Syscall(c) \/ SyscallPrints(c) \/ SyscallWrites(c) \/ SyscallReturns(c)
                \/ Exception(c) \/ Broadcast(c) \/ NmiStops(c)
    \/ Reset

Spec == Init /\ [][Next]_vars

\* Kernel code goes on, and a pending NMI arrives.  Nobody must make a system
\* call, an AP need not start, and no exception must happen.
FairSpec ==
    /\ Spec
    /\ \A c \in Cpus :
        /\ WF_vars(~down /\ c # Bsp /\ pc[c] # "sipi" /\ ApStep(c))
        /\ WF_vars(~down /\ Console(c)) /\ WF_vars(~down /\ Broadcast(c)) /\ WF_vars(~down /\ NmiStops(c))
        /\ WF_vars(~down /\ Switch(c))

-----------------------------------------------------------------------------
(* Properties *)

\* No two CPUs run on one stack and no AP falls over a blank trampoline, as long
\* as every AP that started was waited for: boot_ap overwrites the trampoline of
\* an AP that answers too late.  And the machine is not reset unless there was a
\* panic, whose NMI may meet an AP without an interrupt table, or such a late AP.
OwnStack ==
    /\ \A c, d \in Cpus :
          c # d /\ stack[c] # None /\ stack[c] = stack[d] => \E a \in gaveUp : stack[a] # None
    /\ down => panicked \/ \E a \in gaveUp : pc[a] # "sipi"

\* The message of a panic reaches the screen, unless the console is held by a CPU
\* that was stopped or panicked itself, kmain suspended the console just then,
\* or the machine was reset.
PanicReported ==
    panicked ~> (\/ reported \/ down \/ tooLate
                 \/ \E c \in Cpus : fb_spinlock = c /\ (c \in halted \/ panic[c] # "no"))

\* An AP that has answered comes to its idle loop, where it reaps and takes
\* threads, although all of them print through one lock on their way, and takes
\* interrupts there; unless it printed after kmain had suspended the console, has
\* no invariant TSC or no memory, the machine was reset, a panic stops it or takes
\* the lock away, or programs run already, whose output can keep the lock busy.
ApsArrive ==
    \A c \in Cpus \ {Bsp} :
        pc[c] = "alive" ~> (\/ pc[c] = "idle" /\ c \in interrupts \cup masked
                           \/ pc[c] = "unregistered"
                           \/ ~machine.tsc
                           \/ down
                           \/ context_switch_lock
                           \/ (init /\ machine.threads > 0))

\* After a panic all user code ends for ever.
UserCodeEnds == panicked ~> [](down \/ \A c \in Cpus \ halted : mode[c] # "user")
=============================================================================
