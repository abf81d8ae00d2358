------------------------------ MODULE Console ------------------------------
(***************************************************************************)
(* The kernel console of several CPUs (lib/screen.c) and the panic that    *)
(* stops them (core/panic.c): one spin lock around the frame buffer, a     *)
(* console that can be suspended, and a panic that must be readable        *)
(* although it stops the other CPUs wherever they are.                     *)
(*                                                                         *)
(* What a CPU does between two messages is left to the module that extends *)
(* this one (Startup).  A message is two pieces of output.                 *)
(***************************************************************************)
EXTENDS Naturals, FiniteSets

CONSTANTS Cpus, None

VARIABLES
    fb_spinlock,          \* the CPU that holds it, or None
    console_suspended,
    printing,             \* the call that a CPU is in: None or a record
    interrupts,           \* CPUs whose interrupt flag is set
    panicked,             \* static variable of panic
    context_switch_lock,
    panic,                \* where in panic a CPU is, "no" before
    nmi,                  \* CPUs with a pending non-maskable interrupt
    halted,               \* CPUs that loop on cli and hlt for ever
    last,                 \* (history) who wrote the last character of an unfinished message
    unlocked,             \* (history) somebody wrote without the lock
    masked,               \* (history) CPUs a suspended printk left without interrupts
    reported              \* (history) the message of the panic is on the screen

lock == <<fb_spinlock, printing, interrupts, last>>
panicVars == <<panicked, context_switch_lock, panic, nmi, halted>>
consoleVars == <<lock, panicVars, console_suspended, unlocked, masked, reported>>

Calls == [kind : {"printk", "user"}, at : {"acquire", "write"}, flags : BOOLEAN]

ConsoleType ==
    /\ fb_spinlock \in Cpus \cup {None} /\ last \in Cpus \cup {None}
    /\ console_suspended \in BOOLEAN /\ panicked \in BOOLEAN /\ context_switch_lock \in BOOLEAN
    /\ unlocked \in BOOLEAN /\ reported \in BOOLEAN
    /\ printing \in [Cpus -> Calls \cup {None}]
    /\ panic \in [Cpus -> {"no", "exchange", "broadcast", "resume", "report",
                           "dump", "double", "halt"}]
    /\ interrupts \subseteq Cpus /\ nmi \subseteq Cpus /\ halted \subseteq Cpus /\ masked \subseteq Cpus

ConsoleInit(withInterrupts) ==
    /\ fb_spinlock = None /\ printing = [c \in Cpus |-> None] /\ last = None
    /\ interrupts = withInterrupts
    /\ console_suspended = FALSE
    /\ panicked = FALSE /\ context_switch_lock = FALSE
    /\ panic = [c \in Cpus |-> "no"] /\ nmi = {} /\ halted = {}
    /\ unlocked = FALSE /\ masked = {} /\ reported = FALSE

\* c executes its own code: it is not stopped, and in no call of the console.
Free(c) == c \notin halted /\ printing[c] = None

-----------------------------------------------------------------------------
(* Printing. *)

Call(kind, flags) == [kind |-> kind, at |-> "acquire", flags |-> flags]

\* (mutant) interrupts stay as they are
Printk_KeepsInterrupts(c) ==
    /\ printing' = [printing EXCEPT ![c] = Call("printk", c \in interrupts)]
    /\ UNCHANGED interrupts

\* The start of printk.
Printk(c) ==
    /\ printing' = [printing EXCEPT ![c] = Call("printk", c \in interrupts)]
    /\ interrupts' = interrupts \ {c}

\* The start of user_print and of locked_printf, with the flag as it is.
UserPrint(c) ==
    /\ printing' = [printing EXCEPT ![c] = Call("user", c \in interrupts)]
    /\ UNCHANGED interrupts

Printing(c, at) == c \notin halted /\ printing[c] # None /\ printing[c].at = at

\* spinlock_acquire succeeds.
Available(c) == fb_spinlock = None

\* The lock is taken and the first half of the message written.
Acquire(c) ==
    /\ Printing(c, "acquire") /\ Available(c)
    /\ printing[c].kind = "printk" => ~console_suspended
    /\ fb_spinlock' = c /\ last' = c
    /\ printing' = [printing EXCEPT ![c].at = "write"]
    /\ UNCHANGED <<interrupts, panicVars, console_suspended, unlocked, masked, reported>>

\* printk with the console suspended takes and releases the lock, and returns
\* without restoring the interrupt flag.
Suppressed(c) ==
    /\ Printing(c, "acquire") /\ Available(c)
    /\ printing[c].kind = "printk" /\ console_suspended
    /\ printing' = [printing EXCEPT ![c] = None]
    /\ masked' = IF printing[c].flags THEN masked \cup {c} ELSE masked
    /\ UNCHANGED <<fb_spinlock, interrupts, last, panicVars, console_suspended, unlocked, reported>>

\* (mutant) the flag is not restored
Release_KeepsMasked(c) ==
    /\ Printing(c, "write")
    /\ fb_spinlock' = None
    /\ printing' = [printing EXCEPT ![c] = None]
    /\ last' = None /\ reported' = (reported \/ panic[c] = "dump")
    /\ UNCHANGED <<interrupts, panicVars, console_suspended, unlocked, masked>>

\* The second half, spinlock_release, and arch_restore_interrupts in printk.
Release(c) ==
    /\ Printing(c, "write")
    /\ fb_spinlock' = None
    /\ printing' = [printing EXCEPT ![c] = None]
    /\ interrupts' = IF printing[c].flags THEN interrupts \cup {c} ELSE interrupts
    /\ last' = None /\ reported' = (reported \/ panic[c] = "dump")
    /\ UNCHANGED <<panicVars, console_suspended, unlocked, masked>>

\* tgkill and the echo in keyboard_handle_keypress write without the lock.
WriteUnlocked(c) ==
    /\ last' = c /\ unlocked' = TRUE
    /\ UNCHANGED <<fb_spinlock, printing, interrupts, panicVars, console_suspended, masked, reported>>

PrintStep(c) == Acquire(c) \/ Suppressed(c) \/ Release(c)

-----------------------------------------------------------------------------
(* Panic. *)

Panic(c, step) == panic[c] = step /\ Free(c)

\* panic up to its exchange.  An exception in the middle of a message abandons
\* it, with the lock if c holds it.
PanicBegins(c) ==
    /\ (c \notin halted /\ panic[c] = "no") \/ Panic(c, "dump")
    /\ panic' = [panic EXCEPT ![c] = "exchange"]
    /\ interrupts' = interrupts \ {c} /\ context_switch_lock' = TRUE
    /\ printing' = [printing EXCEPT ![c] = None]
    /\ UNCHANGED <<fb_spinlock, last, panicked, nmi, halted, console_suspended, unlocked, masked, reported>>

PanicExchange(c) ==
    /\ Panic(c, "exchange")
    /\ panicked' = TRUE
    /\ IF panicked THEN Printk(c) /\ panic' = [panic EXCEPT ![c] = "double"]
                   ELSE panic' = [panic EXCEPT ![c] = "broadcast"] /\ UNCHANGED <<printing, interrupts>>
    /\ UNCHANGED <<fb_spinlock, last, context_switch_lock, nmi, halted, console_suspended, unlocked, masked, reported>>

\* (mutant) nothing is sent
PanicBroadcast_Silent(c, reach) ==
    /\ Panic(c, "broadcast")
    /\ panicked' = TRUE
    /\ panic' = [panic EXCEPT ![c] = "resume"]
    /\ UNCHANGED <<lock, context_switch_lock, nmi, halted, console_suspended, unlocked, masked, reported>>

\* lapic_broadcast_nmi; a CPU outside of reach has not been started.
PanicBroadcast(c, reach) ==
    /\ Panic(c, "broadcast")
    /\ nmi' = nmi \cup (reach \ {c})
    /\ panicked' = TRUE
    /\ panic' = [panic EXCEPT ![c] = "resume"]
    /\ UNCHANGED <<lock, context_switch_lock, halted, console_suspended, unlocked, masked, reported>>

\* (mutant) the console stays suspended
PanicResume_Forgets(c) ==
    /\ Panic(c, "resume")
    /\ panic' = [panic EXCEPT ![c] = "report"]
    /\ UNCHANGED <<lock, panicked, context_switch_lock, nmi, halted, console_suspended, unlocked, masked, reported>>

\* printk_remove_console_suspension.
PanicResume(c) ==
    /\ Panic(c, "resume")
    /\ console_suspended' = FALSE
    /\ panic' = [panic EXCEPT ![c] = "report"]
    /\ IF console_suspended THEN Printk(c) ELSE UNCHANGED <<printing, interrupts>>
    /\ UNCHANGED <<fb_spinlock, last, panicked, context_switch_lock, nmi, halted, unlocked, masked, reported>>

\* The message, and then the dump of the stack, which may be unmapped.
PanicReport(c) ==
    /\ Panic(c, "report")
    /\ Printk(c) /\ panic' = [panic EXCEPT ![c] = "dump"]
    /\ UNCHANGED <<fb_spinlock, last, panicked, context_switch_lock, nmi, halted, console_suspended, unlocked, masked, reported>>

\* The loop on cli and hlt.
PanicHalts(c) ==
    /\ Panic(c, "dump") \/ Panic(c, "double")
    /\ panic' = [panic EXCEPT ![c] = "halt"] /\ halted' = halted \cup {c}
    /\ UNCHANGED <<lock, panicked, context_switch_lock, nmi, console_suspended, unlocked, masked, reported>>

\* isr_handler with interrupt 2: c stops where it is.
Nmi(c) ==
    /\ c \in nmi /\ c \notin halted
    /\ nmi' = nmi \ {c} /\ halted' = halted \cup {c}
    /\ UNCHANGED <<lock, panicked, context_switch_lock, panic, console_suspended, unlocked, masked, reported>>

PanicStep(c) == PanicExchange(c) \/ PanicResume(c) \/ PanicReport(c) \/ PanicHalts(c)

-----------------------------------------------------------------------------
(* Properties *)

\* Nothing comes between the halves of a message.  The CPU that holds
\* fb_spinlock cannot be interrupted, so that no handler on that CPU waits for the
\* lock that the code below it holds; and no other CPU writes meanwhile, unless it
\* is one that writes past the lock (tgkill, the echo of the keyboard).
HolderUndisturbed ==
    /\ \A c \in Cpus : fb_spinlock = c => c \notin interrupts
    /\ unlocked \/ \A c \in Cpus : Printing(c, "write") => last = c
=============================================================================
