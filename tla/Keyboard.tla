------------------------------ MODULE Keyboard -------------------------------
(***************************************************************************)
(* Keyboard input: the PS/2 and serial interrupt handlers fill a ring      *)
(* buffer (src/drivers/keyboard), read(0, ...) drains it and sleeps on     *)
(* kbd_wq while there is nothing to read.                                  *)
(*                                                                         *)
(* Both interrupts go through the PIC to the boot processor and run with   *)
(* interrupts off, so one handler runs at a time; readers run on any CPU.  *)
(* kbd_push and kbd_pop are one step each (kbd_lock); the wake-up after a  *)
(* push is a step of its own.                                              *)
(***************************************************************************)
EXTENDS Naturals, Sequences

CONSTANTS
    Readers,       \* threads that read standard input
    Sizes,         \* sizes they ask for
    KBD_BUF_SIZE,  \* 256 in the code
    MaxKeys,       \* bound on the characters pushed
    None, KbdWq    \* NULL, and the name of kbd_wq

ASSUME KeyboardAssumption ==
    /\ KBD_BUF_SIZE \in Nat \ {0, 1}
    /\ Sizes \subseteq Nat
    /\ MaxKeys \in Nat
    /\ KbdWq # None

VARIABLES
    kbd_buf, kbd_head, kbd_tail,
    shifts,     \* which of SHIFT_LEFT_PRESSED, SHIFT_RIGHT_PRESSED are set
    irq,        \* the handler: idle, push or wake
    key,        \* the character it handles
    pushed,     \* how many characters were pushed
    pc,         \* reader: user, read (in the loop), sleep, asleep
    size, got,  \* reader: arguments and buffer contents of keyboard_read
    seq, asleep, ticketq, ticket, stopped

WQ == INSTANCE WaitQueue WITH Threads <- Readers, WaitQueues <- {KbdWq}

ring   == <<kbd_buf, kbd_head, kbd_tail>>
source == <<shifts, irq, key, pushed>>
reader == <<pc, size, got>>
waitq  == <<seq, asleep, ticketq, ticket, stopped>>
vars   == <<ring, source, reader, waitq>>

\* What matters of a character: a letter in either case, line ends, the NUL that
\* the keymaps hold for keys without a character.
Chars == {"a", "A", "LF", "CR", "NUL"}

\* The key positions of the PS/2 keymaps, one per kind.
Keys == {"letter", "enter", "dead", "lshift", "rshift"}
keymap       == [letter |-> "a", enter |-> "LF", dead |-> "NUL"]
shift_keymap == [letter |-> "A", enter |-> "LF", dead |-> "NUL"]

Init ==
    /\ kbd_buf = [i \in 0..(KBD_BUF_SIZE - 1) |-> "NUL"]
    /\ kbd_head = 0 /\ kbd_tail = 0
    /\ shifts = {}
    /\ irq = "idle" /\ key = "NUL" /\ pushed = 0
    /\ pc = [r \in Readers |-> "user"]
    /\ size = [r \in Readers |-> 0]
    /\ got = [r \in Readers |-> <<>>]
    /\ WQ!Init

Succ(i) == (i + 1) % KBD_BUF_SIZE

-----------------------------------------------------------------------------
(* The interrupt handlers. *)

\* keyboard_handle_keypress up to kbd_push: NUL is ignored, carriage return
\* becomes a line feed.
HandleKeypress(ch) ==
    /\ irq = "idle"
    /\ pushed < MaxKeys
    /\ IF ch = "NUL" THEN UNCHANGED <<irq, key>>
                     ELSE irq' = "push" /\ key' = IF ch = "CR" THEN "LF" ELSE ch

\* ps2_interrupt_handler: scan code k, released or pressed.
Ps2Interrupt(k, released) ==
    /\ irq = "idle"
    /\ \/ /\ k \in {"lshift", "rshift"}
          /\ shifts' = IF released THEN shifts \ {k} ELSE shifts \cup {k}
          /\ UNCHANGED <<irq, key>>
       \/ /\ k \notin {"lshift", "rshift"} /\ ~released
          /\ HandleKeypress(IF shifts # {} THEN shift_keymap[k] ELSE keymap[k])
          /\ UNCHANGED shifts
    /\ UNCHANGED <<pushed, ring, reader, waitq>>

\* arch_com1_handler: any byte.
Com1Interrupt(ch) ==
    /\ HandleKeypress(ch)
    /\ UNCHANGED <<shifts, pushed, ring, reader, waitq>>

\* (mutant) the full test is missing
KbdPush_NoFullTest ==
    /\ irq = "push"
    /\ irq' = "wake"
    /\ pushed' = pushed + 1
    /\ kbd_buf' = [kbd_buf EXCEPT ![kbd_head] = key]
    /\ kbd_head' = Succ(kbd_head)
    /\ UNCHANGED <<shifts, key, kbd_tail, reader, waitq>>

\* kbd_push, its critical section: dropped when full.
KbdPush ==
    /\ irq = "push"
    /\ irq' = "wake"
    /\ pushed' = pushed + 1
    /\ IF Succ(kbd_head) # kbd_tail
         THEN /\ kbd_buf' = [kbd_buf EXCEPT ![kbd_head] = key]
              /\ kbd_head' = Succ(kbd_head)
         ELSE UNCHANGED <<kbd_buf, kbd_head>>
    /\ UNCHANGED <<shifts, key, kbd_tail, reader, waitq>>

\* kbd_push: scheduler_wake_all after the unlock.
KbdWake ==
    /\ irq = "wake"
    /\ irq' = "idle" /\ key' = "NUL"
    /\ WQ!WakeAll(KbdWq)
    /\ UNCHANGED <<shifts, pushed, ring, reader>>

-----------------------------------------------------------------------------
(* keyboard_read. *)

\* The call; with size 0 it returns at once.
ReadEnter(r, n) ==
    /\ pc[r] = "user"
    /\ n # 0
    /\ pc' = [pc EXCEPT ![r] = "read"]
    /\ size' = [size EXCEPT ![r] = n]
    /\ got' = [got EXCEPT ![r] = <<>>]
    /\ WQ!Snapshot(r, KbdWq)
    /\ UNCHANGED <<ring, source>>

\* The call is over: a line is complete or the caller's buffer is full.
ReadReturn(r) ==
    /\ pc' = [pc EXCEPT ![r] = "user"]
    /\ size' = [size EXCEPT ![r] = 0]

\* One character: kbd_pop and what keyboard_read does with it.
KbdPop(r) ==
    /\ pc[r] = "read"
    /\ kbd_head # kbd_tail
    /\ kbd_tail' = Succ(kbd_tail)
    /\ got' = [got EXCEPT ![r] = Append(@, kbd_buf[kbd_tail])]
    /\ IF kbd_buf[kbd_tail] = "LF" \/ Len(got'[r]) = size[r]
         THEN ReadReturn(r) ELSE UNCHANGED <<pc, size>>
    /\ UNCHANGED <<kbd_buf, kbd_head, source, waitq>>

\* kbd_pop found nothing: on to scheduler_wait.
KbdPopEmpty(r) ==
    /\ pc[r] = "read"
    /\ kbd_head = kbd_tail
    /\ pc' = [pc EXCEPT ![r] = "sleep"]
    /\ UNCHANGED <<ring, source, size, got, waitq>>

\* (mutant) the ticket is taken only when going to sleep
ReadSleep_LateTicket(r) ==
    /\ pc[r] = "sleep"
    /\ pc' = [pc EXCEPT ![r] = "asleep"]
    /\ asleep' = [asleep EXCEPT ![r] = KbdWq]
    /\ ticket' = [ticket EXCEPT ![r] = seq[KbdWq]]
    /\ UNCHANGED <<ring, source, size, got, seq, ticketq, stopped>>

\* scheduler_wait.
ReadSleep(r) ==
    /\ pc[r] = "sleep"
    /\ pc' = [pc EXCEPT ![r] = "asleep"]
    /\ WQ!Sleep(r) \/ (~WQ!TicketValid(r) /\ UNCHANGED waitq)
    /\ UNCHANGED <<ring, source, size, got>>

\* (mutant) the loop goes on with the old ticket and looks at nothing
ReadAgain_OldTicket(r) ==
    /\ pc[r] = "asleep" /\ asleep[r] = None
    /\ pc' = [pc EXCEPT ![r] = "sleep"]
    /\ UNCHANGED <<ring, source, size, got, waitq>>

\* Awake: the next turn of the loop takes a new ticket.
ReadAgain(r) ==
    /\ pc[r] = "asleep"
    /\ WQ!Snapshot(r, KbdWq)
    /\ pc' = [pc EXCEPT ![r] = "read"]
    /\ UNCHANGED <<ring, source, size, got>>

-----------------------------------------------------------------------------

ReaderStep(r) == KbdPop(r) \/ KbdPopEmpty(r) \/ ReadSleep(r) \/ ReadAgain(r)

Next ==
    \/ \E k \in Keys, released \in BOOLEAN : Ps2Interrupt(k, released)
    \/ \E ch \in Chars : Com1Interrupt(ch)
    \/ KbdPush
    \/ KbdWake
    \/ \E r \in Readers : ReaderStep(r) \/ \E n \in Sizes : ReadEnter(r, n)

Spec == Init /\ [][Next]_vars

\* The handlers and the system calls run on; nobody has to type.
FairSpec ==
    /\ Spec
    /\ WF_vars(KbdPush) /\ WF_vars(KbdWake)
    /\ \A r \in Readers : WF_vars(ReaderStep(r))

-----------------------------------------------------------------------------
(* Properties. *)

\* Indices stay inside the buffer, everything else has its type.
TypeOK ==
    /\ kbd_buf \in [0..(KBD_BUF_SIZE - 1) -> Chars]
    /\ kbd_head \in 0..(KBD_BUF_SIZE - 1) /\ kbd_tail \in 0..(KBD_BUF_SIZE - 1)
    /\ shifts \subseteq {"lshift", "rshift"}
    /\ irq \in {"idle", "push", "wake"}
    /\ key \in Chars
    /\ pushed \in 0..MaxKeys
    /\ pc \in [Readers -> {"user", "read", "sleep", "asleep"}]
    /\ size \in [Readers -> Sizes \cup {0}]
    /\ got \in [Readers -> Seq(Chars)]
    /\ seq \in [{KbdWq} -> Nat]
    /\ asleep \in [Readers -> {KbdWq, None}]
    /\ ticketq \in [Readers -> {KbdWq, None}]
    /\ ticket \in [Readers -> Nat]
    /\ stopped \in BOOLEAN

\* No keypress is slept through: a reader is asleep only while the buffer is
\* empty or the wake-up for what is in it is under way, whoever else reads.
SleeperMissedNothing ==
    \A r \in Readers : asleep[r] # None => kbd_head = kbd_tail \/ irq = "wake"

\* The ring between tail and head, read as a queue.
Contents ==
    [i \in 1..((kbd_head + KBD_BUF_SIZE - kbd_tail) % KBD_BUF_SIZE) |->
        kbd_buf[(kbd_tail + i - 1) % KBD_BUF_SIZE]]

Fifo == INSTANCE CharQueue WITH
    Capacity <- KBD_BUF_SIZE - 1, queue <- Contents, received <- got

\* The ring buffer is a bounded queue: no character is lost, duplicated or
\* reordered while there is room, whatever the wrap-around and the readers do.
RingIsFifo == Fifo!Spec

\* What is typed is read as long as somebody reads.
InputIsRead ==
    (kbd_head # kbd_tail /\ \E r \in Readers : pc[r] # "user")
        ~> (kbd_head = kbd_tail \/ \A r \in Readers : pc[r] = "user")
=============================================================================
