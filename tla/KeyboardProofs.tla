--------------------------- MODULE KeyboardProofs ----------------------------
(***************************************************************************)
(* Proofs about Keyboard, for any number of readers, any buffer size of at *)
(* least two and any number of keys: the types, that no reader sleeps      *)
(* through a keypress, and that the ring buffer is a bounded FIFO queue.   *)
(***************************************************************************)
EXTENDS Keyboard, SequenceTheorems, TLAPS

\* A character under way has been counted before it is pushed; the bound of the
\* model is kept by the test in HandleKeypress.
HandlerInv == irq = "push" => pushed < MaxKeys

\* Only a reader that called scheduler_wait sleeps.
SleepInv == \A r \in Readers : asleep[r] # None => pc[r] = "asleep"

\* No reader holds a ticket that kbd_wq has not reached: a wake-up outdates all.
TicketInv == \A r \in Readers : ticketq[r] # None => ticket[r] <= seq[KbdWq]

\* Between kbd_pop and scheduler_wait: a reader that found the buffer empty and
\* whose ticket is still good has missed nothing but what is being announced.
PromiseInv ==
    \A r \in Readers :
        pc[r] = "sleep" /\ WQ!TicketValid(r) => kbd_head = kbd_tail \/ irq = "wake"

IInv ==
    /\ TypeOK
    /\ HandlerInv
    /\ SleepInv
    /\ TicketInv
    /\ PromiseInv
    /\ SleeperMissedNothing

-----------------------------------------------------------------------------
(* Arithmetic modulo the size of the buffer. *)

LEMMA ModSmall ==
    ASSUME NEW N \in Nat \ {0}, NEW x \in 0..(N - 1)
    PROVE  x % N = x
  OBVIOUS

LEMMA ModOnce ==
    ASSUME NEW N \in Nat \ {0}, NEW x \in N..(2 * N - 1)
    PROVE  x % N = x - N
  OBVIOUS

\* The next index of the ring.
LEMMA SuccIs ==
    ASSUME NEW i \in 0..(KBD_BUF_SIZE - 1)
    PROVE  /\ Succ(i) = IF i = KBD_BUF_SIZE - 1 THEN 0 ELSE i + 1
           /\ Succ(i) \in 0..(KBD_BUF_SIZE - 1)
<1> USE KeyboardAssumption
<1>1. CASE i = KBD_BUF_SIZE - 1
  <2>1. (i + 1) % KBD_BUF_SIZE = (i + 1) - KBD_BUF_SIZE
    BY <1>1, ModOnce
  <2> QED
    BY <1>1, <2>1 DEF Succ
<1>2. CASE i # KBD_BUF_SIZE - 1
  <2>1. (i + 1) % KBD_BUF_SIZE = i + 1
    BY <1>2, ModSmall
  <2> QED
    BY <1>2, <2>1 DEF Succ
<1> QED
  BY <1>1, <1>2

-----------------------------------------------------------------------------
(* The inductive invariant. *)

LEMMA InitIInv == Init => IInv
<1> SUFFICES ASSUME Init PROVE IInv
  OBVIOUS
<1> USE KeyboardAssumption
<1>1. TypeOK
  BY DEF Init, WQ!Init, TypeOK, Chars
<1> QED
  BY <1>1 DEF Init, WQ!Init, WQ!TicketValid, IInv, HandlerInv, SleepInv, TicketInv, PromiseInv,
              SleeperMissedNothing

\* The interrupt handlers up to kbd_push change only the handler's own state.
LEMMA HandlerStep ==
    ASSUME IInv,
           \/ \E k \in Keys, released \in BOOLEAN : Ps2Interrupt(k, released)
           \/ \E ch \in Chars : Com1Interrupt(ch)
    PROVE  IInv'
<1> USE KeyboardAssumption
<1> DEFINE HandlerOnly ==
               /\ irq = "idle" /\ irq' \in {"idle", "push"}
               /\ irq' = "push" => pushed < MaxKeys
               /\ key' \in Chars /\ shifts' \subseteq {"lshift", "rshift"}
               /\ UNCHANGED <<pushed, ring, reader, waitq>>
<1>1. HandlerOnly
  <2>0. key \in Chars /\ shifts \subseteq {"lshift", "rshift"}
    BY DEF IInv, TypeOK
  <2>1. ASSUME NEW ch \in Chars, HandleKeypress(ch)
        PROVE  /\ irq = "idle" /\ irq' \in {"idle", "push"}
               /\ irq' = "push" => pushed < MaxKeys
               /\ key' \in Chars
    BY <2>0, <2>1 DEF HandleKeypress, Chars
  <2>2. ASSUME NEW ch \in Chars, Com1Interrupt(ch)
        PROVE  HandlerOnly
    BY <2>0, <2>1, <2>2 DEF Com1Interrupt
  <2>3. ASSUME NEW k \in Keys, NEW released \in BOOLEAN, Ps2Interrupt(k, released)
        PROVE  HandlerOnly
    <3>1. CASE k \in {"lshift", "rshift"}
      BY <2>0, <2>3, <3>1 DEF Ps2Interrupt
    <3>2. CASE k \notin {"lshift", "rshift"}
      <4>1. k \in {"letter", "enter", "dead"}
        BY <3>2 DEF Keys
      <4>2. (IF shifts # {} THEN shift_keymap[k] ELSE keymap[k]) \in Chars
        BY <4>1 DEF shift_keymap, keymap, Chars
      <4>3. HandleKeypress(IF shifts # {} THEN shift_keymap[k] ELSE keymap[k])
            /\ UNCHANGED <<shifts, pushed, ring, reader, waitq>>
        BY <2>3, <3>2 DEF Ps2Interrupt
      <4> QED
        BY <2>0, <2>1, <4>2, <4>3
    <3> QED
      BY <3>1, <3>2
  <2> QED
    BY <2>2, <2>3
<1> USE <1>1 DEF ring, reader, waitq
<1>2. TypeOK'
  BY DEF IInv, TypeOK
<1>3. HandlerInv' /\ SleepInv' /\ TicketInv'
  BY DEF IInv, HandlerInv, SleepInv, TicketInv
<1>4. PromiseInv' /\ SleeperMissedNothing'
  BY DEF IInv, PromiseInv, SleeperMissedNothing, WQ!TicketValid
<1> QED
  BY <1>2, <1>3, <1>4 DEF IInv

LEMMA KbdPushStep == ASSUME IInv, KbdPush PROVE IInv'
<1> USE KeyboardAssumption DEF reader, waitq
<1>1. TypeOK /\ HandlerInv
  BY DEF IInv
<1>2. Succ(kbd_head) \in 0..(KBD_BUF_SIZE - 1)
  BY <1>1, SuccIs DEF TypeOK
<1>3. TypeOK'
  <2>1. /\ kbd_buf' \in [0..(KBD_BUF_SIZE - 1) -> Chars]
        /\ kbd_head' \in 0..(KBD_BUF_SIZE - 1)
    BY <1>1, <1>2 DEF KbdPush, TypeOK
  <2>2. pushed' \in 0..MaxKeys
    BY <1>1 DEF KbdPush, TypeOK, HandlerInv
  <2> QED
    BY <1>1, <2>1, <2>2 DEF KbdPush, TypeOK
<1>4. irq' = "wake" /\ UNCHANGED <<reader, waitq>>
  BY DEF KbdPush
<1> QED
  BY <1>3, <1>4 DEF IInv, HandlerInv, SleepInv, TicketInv, PromiseInv, SleeperMissedNothing

\* The wake-up: all tickets are outdated and nobody sleeps.
LEMMA KbdWakeStep == ASSUME IInv, KbdWake PROVE IInv'
<1> USE KeyboardAssumption DEF ring, reader
<1>1. TypeOK /\ SleepInv /\ TicketInv
  BY DEF IInv
<1>2. /\ irq' = "idle" /\ key' = "NUL"
      /\ seq' = [seq EXCEPT ![KbdWq] = @ + 1]
      /\ asleep' = [r \in Readers |-> IF asleep[r] = KbdWq THEN None ELSE asleep[r]]
      /\ UNCHANGED <<shifts, pushed, ring, reader, ticketq, ticket, stopped>>
  BY DEF KbdWake, WQ!WakeAll
<1>3. TypeOK'
  BY <1>1, <1>2 DEF TypeOK, Chars
<1>4. \A r \in Readers : asleep'[r] = None
  BY <1>1, <1>2 DEF TypeOK
<1>5. seq[KbdWq] \in Nat /\ seq'[KbdWq] = seq[KbdWq] + 1
  BY <1>1, <1>2 DEF TypeOK
<1>6. \A r \in Readers : ticket[r] \in Nat /\ ticketq[r] \in {KbdWq, None}
  BY <1>1 DEF TypeOK
<1>7. TicketInv' /\ \A r \in Readers : ~WQ!TicketValid(r)'
  BY <1>1, <1>2, <1>5, <1>6 DEF TicketInv, WQ!TicketValid
<1>8. HandlerInv'
  BY <1>2 DEF HandlerInv
<1> QED
  BY <1>3, <1>4, <1>7, <1>8 DEF IInv, SleepInv, PromiseInv, SleeperMissedNothing

\* The call, and the next turn of the loop: a new ticket and nothing looked at.
LEMMA TicketStep ==
    ASSUME IInv, NEW r \in Readers,
           ReadAgain(r) \/ \E n \in Sizes : ReadEnter(r, n)
    PROVE  IInv'
<1> USE KeyboardAssumption DEF ring, source
<1>1. TypeOK /\ HandlerInv /\ SleepInv /\ TicketInv /\ PromiseInv /\ SleeperMissedNothing
  BY DEF IInv
<1>2. /\ pc' = [pc EXCEPT ![r] = "read"]
      /\ asleep[r] = None
      /\ ticketq' = [ticketq EXCEPT ![r] = KbdWq]
      /\ ticket' = [ticket EXCEPT ![r] = seq[KbdWq]]
      /\ UNCHANGED <<ring, source, seq, asleep, stopped>>
  BY DEF ReadAgain, ReadEnter, WQ!Snapshot
<1>3. size' \in [Readers -> Sizes \cup {0}] /\ got' \in [Readers -> Seq(Chars)]
  <2>1. CASE ReadAgain(r)
    BY <1>1, <2>1 DEF ReadAgain, TypeOK
  <2>2. ASSUME NEW n \in Sizes, ReadEnter(r, n)
        PROVE  size' \in [Readers -> Sizes \cup {0}] /\ got' \in [Readers -> Seq(Chars)]
    <3>1. size' = [size EXCEPT ![r] = n] /\ got' = [got EXCEPT ![r] = <<>>]
      BY <2>2 DEF ReadEnter
    <3>2. <<>> \in Seq(Chars)
      OBVIOUS
    <3> QED
      BY <1>1, <3>1, <3>2 DEF TypeOK
  <2> QED
    BY <2>1, <2>2
<1>4. TypeOK'
  BY <1>1, <1>2, <1>3 DEF TypeOK
<1>5. SleepInv' /\ SleeperMissedNothing' /\ HandlerInv'
  BY <1>1, <1>2 DEF TypeOK, SleepInv, SleeperMissedNothing, HandlerInv
<1>6. TicketInv'
  BY <1>1, <1>2 DEF TypeOK, TicketInv
<1>7. PromiseInv'
  <2> SUFFICES ASSUME NEW q \in Readers, pc'[q] = "sleep", WQ!TicketValid(q)'
               PROVE  (kbd_head = kbd_tail \/ irq = "wake")'
    BY DEF PromiseInv
  <2>1. q # r
    BY <1>1, <1>2 DEF TypeOK
  <2>2. pc[q] = "sleep" /\ WQ!TicketValid(q)
    BY <1>1, <1>2, <2>1 DEF TypeOK, WQ!TicketValid
  <2> QED
    BY <1>1, <1>2, <2>2 DEF PromiseInv
<1> QED
  BY <1>4, <1>5, <1>6, <1>7 DEF IInv

LEMMA KbdPopStep == ASSUME IInv, NEW r \in Readers, KbdPop(r) PROVE IInv'
<1> USE KeyboardAssumption DEF source, waitq
<1>1. TypeOK /\ HandlerInv /\ SleepInv /\ TicketInv /\ PromiseInv /\ SleeperMissedNothing
  BY DEF IInv
<1>2. kbd_tail' = Succ(kbd_tail) /\ kbd_tail' \in 0..(KBD_BUF_SIZE - 1)
  BY <1>1, SuccIs DEF KbdPop, TypeOK
<1>3. got' \in [Readers -> Seq(Chars)]
  BY <1>1 DEF KbdPop, TypeOK
<1>4. pc' \in [Readers -> {"user", "read", "sleep", "asleep"}] /\ size' \in [Readers -> Sizes \cup {0}]
  BY <1>1 DEF KbdPop, ReadReturn, TypeOK
<1>5. /\ kbd_head # kbd_tail
      /\ UNCHANGED <<kbd_buf, kbd_head, source, waitq>>
  BY DEF KbdPop
<1>6. TypeOK'
  BY <1>1, <1>2, <1>3, <1>4, <1>5 DEF TypeOK
<1>7. pc[r] = "read" /\ \A q \in Readers : q # r => pc'[q] = pc[q]
  BY <1>1 DEF KbdPop, ReadReturn, TypeOK
<1>8. pc'[r] \in {"read", "user"}
  BY <1>1, <1>7 DEF KbdPop, ReadReturn, TypeOK
<1>9. HandlerInv' /\ SleepInv' /\ TicketInv'
  BY <1>1, <1>5, <1>7 DEF HandlerInv, SleepInv, TicketInv
<1>10. PromiseInv' /\ SleeperMissedNothing'
  BY <1>1, <1>5, <1>7, <1>8 DEF PromiseInv, SleeperMissedNothing, WQ!TicketValid
<1> QED
  BY <1>6, <1>9, <1>10 DEF IInv

LEMMA KbdPopEmptyStep == ASSUME IInv, NEW r \in Readers, KbdPopEmpty(r) PROVE IInv'
<1> USE KeyboardAssumption DEF ring, source, waitq
<1>1. TypeOK /\ HandlerInv /\ SleepInv /\ TicketInv /\ PromiseInv /\ SleeperMissedNothing
  BY DEF IInv
<1>2. /\ pc[r] = "read" /\ kbd_head = kbd_tail
      /\ pc' = [pc EXCEPT ![r] = "sleep"]
      /\ UNCHANGED <<ring, source, size, got, waitq>>
  BY DEF KbdPopEmpty
<1>3. TypeOK'
  BY <1>1, <1>2 DEF TypeOK
<1>4. HandlerInv' /\ SleepInv' /\ TicketInv'
  BY <1>1, <1>2 DEF TypeOK, HandlerInv, SleepInv, TicketInv
<1>5. PromiseInv' /\ SleeperMissedNothing'
  BY <1>2 DEF PromiseInv, SleeperMissedNothing
<1> QED
  BY <1>3, <1>4, <1>5 DEF IInv

\* scheduler_wait: it is the promise that lets the reader fall asleep.
LEMMA ReadSleepStep == ASSUME IInv, NEW r \in Readers, ReadSleep(r) PROVE IInv'
<1> USE KeyboardAssumption DEF ring, source, waitq
<1>1. TypeOK /\ HandlerInv /\ SleepInv /\ TicketInv /\ PromiseInv /\ SleeperMissedNothing
  BY DEF IInv
<1>2. /\ pc[r] = "sleep"
      /\ pc' = [pc EXCEPT ![r] = "asleep"]
      /\ UNCHANGED <<ring, source, size, got, seq, ticketq, ticket, stopped>>
  BY DEF ReadSleep, WQ!Sleep
<1>3. \/ asleep' = asleep
      \/ WQ!TicketValid(r) /\ asleep' = [asleep EXCEPT ![r] = ticketq[r]]
  BY DEF ReadSleep, WQ!Sleep
<1>4. TypeOK'
  <2>1. asleep' \in [Readers -> {KbdWq, None}]
    BY <1>1, <1>3 DEF TypeOK
  <2> QED
    BY <1>1, <1>2, <2>1 DEF TypeOK
<1>5. \A q \in Readers : q # r => pc'[q] = pc[q] /\ asleep'[q] = asleep[q]
  BY <1>1, <1>2, <1>3 DEF TypeOK
<1>6. pc'[r] = "asleep"
  BY <1>1, <1>2 DEF TypeOK
<1>7. HandlerInv' /\ SleepInv' /\ TicketInv'
  BY <1>1, <1>2, <1>5, <1>6 DEF HandlerInv, SleepInv, TicketInv
<1>8. PromiseInv'
  BY <1>1, <1>2, <1>5, <1>6 DEF PromiseInv, WQ!TicketValid
<1>9. SleeperMissedNothing'
  BY <1>1, <1>2, <1>3, <1>5 DEF PromiseInv, SleeperMissedNothing
<1> QED
  BY <1>4, <1>7, <1>8, <1>9 DEF IInv

LEMMA NextIInv == IInv /\ [Next]_vars => IInv'
<1> SUFFICES ASSUME IInv, [Next]_vars PROVE IInv'
  OBVIOUS
<1>1. CASE UNCHANGED vars
  <2>1. UNCHANGED <<ring, source, reader, waitq>>
    BY <1>1 DEF vars
  <2>2. TypeOK'
    BY <2>1 DEF ring, source, reader, waitq, IInv, TypeOK
  <2> QED
    BY <2>1, <2>2 DEF ring, source, reader, waitq, IInv, HandlerInv, SleepInv, TicketInv,
                      PromiseInv, SleeperMissedNothing, WQ!TicketValid
<1>2. CASE Next
  BY <1>2, HandlerStep, KbdPushStep, KbdWakeStep, TicketStep, KbdPopStep, KbdPopEmptyStep,
     ReadSleepStep DEF Next, ReaderStep
<1> QED
  BY <1>1, <1>2

LEMMA InductiveInvariant == Spec => []IInv
  BY InitIInv, NextIInv, PTL DEF Spec

\* The indices of the ring stay inside kbd_buf, and every variable has its type.
THEOREM TypeCorrect == Spec => []TypeOK
<1>1. IInv => TypeOK
  BY DEF IInv
<1> QED
  BY <1>1, InductiveInvariant, PTL

\* keyboard_read does not sleep through a keypress: its loop of ticket, kbd_pop
\* and scheduler_wait leaves no window, whatever the other readers take.
THEOREM NothingSleptThrough == Spec => []SleeperMissedNothing
<1>1. IInv => SleeperMissedNothing
  BY DEF IInv
<1> QED
  BY <1>1, InductiveInvariant, PTL

-----------------------------------------------------------------------------
(* The ring is a queue. *)

\* The number of characters between tail t and head h, and the index of the i-th.
Filled(h, t) == (h + KBD_BUF_SIZE - t) % KBD_BUF_SIZE
Slot(t, i) == (t + i - 1) % KBD_BUF_SIZE

LEMMA FilledIs ==
    ASSUME NEW h \in 0..(KBD_BUF_SIZE - 1), NEW t \in 0..(KBD_BUF_SIZE - 1)
    PROVE  /\ Filled(h, t) = IF t <= h THEN h - t ELSE h + KBD_BUF_SIZE - t
           /\ Filled(h, t) \in 0..(KBD_BUF_SIZE - 1)
<1> USE KeyboardAssumption
<1>1. CASE t <= h
  <2>1. h + KBD_BUF_SIZE - t \in KBD_BUF_SIZE..(2 * KBD_BUF_SIZE - 1)
    BY <1>1
  <2>2. Filled(h, t) = (h + KBD_BUF_SIZE - t) - KBD_BUF_SIZE
    BY <2>1, ModOnce DEF Filled
  <2> QED
    BY <1>1, <2>2
<1>2. CASE ~(t <= h)
  <2>1. h + KBD_BUF_SIZE - t \in 0..(KBD_BUF_SIZE - 1)
    BY <1>2
  <2>2. Filled(h, t) = h + KBD_BUF_SIZE - t
    BY <2>1, ModSmall DEF Filled
  <2> QED
    BY <1>2, <2>1, <2>2
<1> QED
  BY <1>1, <1>2

LEMMA SlotIs ==
    ASSUME NEW t \in 0..(KBD_BUF_SIZE - 1), NEW i \in 1..KBD_BUF_SIZE
    PROVE  /\ Slot(t, i) = IF t + i - 1 < KBD_BUF_SIZE THEN t + i - 1 ELSE t + i - 1 - KBD_BUF_SIZE
           /\ Slot(t, i) \in 0..(KBD_BUF_SIZE - 1)
<1> USE KeyboardAssumption
<1>1. CASE t + i - 1 < KBD_BUF_SIZE
  <2>1. t + i - 1 \in 0..(KBD_BUF_SIZE - 1)
    BY <1>1
  <2>2. Slot(t, i) = t + i - 1
    BY <2>1, ModSmall DEF Slot
  <2> QED
    BY <1>1, <2>1, <2>2
<1>2. CASE ~(t + i - 1 < KBD_BUF_SIZE)
  <2>1. t + i - 1 \in KBD_BUF_SIZE..(2 * KBD_BUF_SIZE - 1)
    BY <1>2
  <2>2. Slot(t, i) = (t + i - 1) - KBD_BUF_SIZE
    BY <2>1, ModOnce DEF Slot
  <2> QED
    BY <1>2, <2>1, <2>2
<1> QED
  BY <1>1, <1>2

\* The ring with head h and tail t over the cells buf, read as a sequence.
Read(buf, h, t) == [i \in 1..Filled(h, t) |-> buf[Slot(t, i)]]

LEMMA ReadIs ==
    ASSUME NEW h \in 0..(KBD_BUF_SIZE - 1), NEW t \in 0..(KBD_BUF_SIZE - 1),
           NEW buf \in [0..(KBD_BUF_SIZE - 1) -> Chars]
    PROVE  Read(buf, h, t) \in Seq(Chars) /\ Len(Read(buf, h, t)) = Filled(h, t)
<1> DEFINE n == Filled(h, t)
<1>1. n \in 0..(KBD_BUF_SIZE - 1) /\ n \in Nat
  <2>1. n \in 0..(KBD_BUF_SIZE - 1)
    BY FilledIs
  <2> HIDE DEF n
  <2> QED
    BY <2>1, KeyboardAssumption
<1>2. \A i \in 1..n : buf[Slot(t, i)] \in Chars
  <2> SUFFICES ASSUME NEW i \in 1..n PROVE buf[Slot(t, i)] \in Chars
    OBVIOUS
  <2>1. i \in 1..KBD_BUF_SIZE
    BY <1>1, KeyboardAssumption
  <2> QED
    BY <2>1, SlotIs
<1> HIDE DEF n
<1> DEFINE s == [i \in 1..n |-> buf[Slot(t, i)]]
<1>3. s \in Seq(Chars) /\ Len(s) = n
  BY <1>1, <1>2
<1> QED
  BY <1>3 DEF Read, n

\* A character written at the head is appended.
LEMMA ReadAppend ==
    ASSUME NEW h \in 0..(KBD_BUF_SIZE - 1), NEW t \in 0..(KBD_BUF_SIZE - 1),
           NEW buf \in [0..(KBD_BUF_SIZE - 1) -> Chars], NEW ch \in Chars, Succ(h) # t
    PROVE  /\ Filled(h, t) < KBD_BUF_SIZE - 1
           /\ Read([buf EXCEPT ![h] = ch], Succ(h), t) = Append(Read(buf, h, t), ch)
<1> USE KeyboardAssumption
<1> DEFINE N == KBD_BUF_SIZE
           n == Filled(h, t)
           b == [buf EXCEPT ![h] = ch]
<1>1. Succ(h) \in 0..(N - 1) /\ Succ(h) = IF h = N - 1 THEN 0 ELSE h + 1
  BY SuccIs
<1>2. n \in 0..(N - 1) /\ n = IF t <= h THEN h - t ELSE h + N - t
  BY FilledIs
<1>3. Filled(Succ(h), t) = IF t <= Succ(h) THEN Succ(h) - t ELSE Succ(h) + N - t
  BY <1>1, FilledIs
<1>4. n < N - 1 /\ Filled(Succ(h), t) = n + 1
  <2> HIDE DEF n
  <2> QED
    BY <1>1, <1>2, <1>3
<1>5. \A i \in 1..n : b[Slot(t, i)] = buf[Slot(t, i)]
  <2> SUFFICES ASSUME NEW i \in 1..n PROVE b[Slot(t, i)] = buf[Slot(t, i)]
    OBVIOUS
  <2>1. /\ Slot(t, i) = IF t + i - 1 < N THEN t + i - 1 ELSE t + i - 1 - N
        /\ Slot(t, i) \in 0..(N - 1)
    BY <1>2, SlotIs
  <2>2. Slot(t, i) # h
    <3> HIDE DEF n
    <3> QED
      BY <1>2, <2>1
  <2> QED
    BY <2>1, <2>2
<1>6. b[Slot(t, n + 1)] = ch
  <2>1. n + 1 \in 1..N
    BY <1>2
  <2>2. Slot(t, n + 1) = IF t + (n + 1) - 1 < N THEN t + (n + 1) - 1 ELSE t + (n + 1) - 1 - N
    BY <2>1, SlotIs
  <2>3. Slot(t, n + 1) = h
    <3> HIDE DEF n
    <3> QED
      BY <1>2, <2>2
  <2> QED
    BY <2>3
<1> DEFINE s == Read(buf, h, t)
           u == Read(b, Succ(h), t)
<1>7. s \in Seq(Chars) /\ Len(s) = n /\ \A i \in 1..n : s[i] = buf[Slot(t, i)]
  BY ReadIs DEF Read
<1>8. u \in Seq(Chars) /\ Len(u) = n + 1 /\ \A i \in 1..(n + 1) : u[i] = b[Slot(t, i)]
  <2>1. b \in [0..(N - 1) -> Chars]
    OBVIOUS
  <2> HIDE DEF b
  <2> QED
    BY <1>1, <1>4, <2>1, ReadIs DEF Read
<1> HIDE DEF n, b, s, u
<1>9. /\ Append(s, ch) \in Seq(Chars) /\ Len(Append(s, ch)) = n + 1
      /\ \A i \in 1..n : Append(s, ch)[i] = s[i]
      /\ Append(s, ch)[n + 1] = ch
  BY <1>7, AppendProperties
<1>10. \A i \in 1..(n + 1) : i = n + 1 \/ i \in 1..n
  BY <1>2
<1>11. \A i \in 1..Len(u) : u[i] = Append(s, ch)[i]
  BY <1>5, <1>6, <1>7, <1>8, <1>9, <1>10
<1>12. u = Append(s, ch)
  BY <1>8, <1>9, <1>11, SeqEqual
<1> QED
  BY <1>4, <1>12 DEF n, b, s, u

\* Moving the tail removes the oldest character.
LEMMA ReadTail ==
    ASSUME NEW h \in 0..(KBD_BUF_SIZE - 1), NEW t \in 0..(KBD_BUF_SIZE - 1),
           NEW buf \in [0..(KBD_BUF_SIZE - 1) -> Chars], h # t
    PROVE  /\ Read(buf, h, t) # <<>>
           /\ Head(Read(buf, h, t)) = buf[t]
           /\ Read(buf, h, Succ(t)) = Tail(Read(buf, h, t))
<1> USE KeyboardAssumption
<1> DEFINE N == KBD_BUF_SIZE
           n == Filled(h, t)
           s == Read(buf, h, t)
<1>1. Succ(t) \in 0..(N - 1) /\ Succ(t) = IF t = N - 1 THEN 0 ELSE t + 1
  BY SuccIs
<1>2. n \in 0..(N - 1) /\ n = IF t <= h THEN h - t ELSE h + N - t
  BY FilledIs
<1>3. Filled(h, Succ(t)) = IF Succ(t) <= h THEN h - Succ(t) ELSE h + N - Succ(t)
  BY <1>1, FilledIs
<1>4. n > 0 /\ Filled(h, Succ(t)) = n - 1
  <2> HIDE DEF n
  <2> QED
    BY <1>1, <1>2, <1>3
<1>5. \A i \in 1..(n - 1) : Slot(Succ(t), i) = Slot(t, i + 1)
  <2> SUFFICES ASSUME NEW i \in 1..(n - 1) PROVE Slot(Succ(t), i) = Slot(t, i + 1)
    OBVIOUS
  <2>1. i \in 1..N /\ i + 1 \in 1..N
    BY <1>2
  <2>2. Slot(Succ(t), i) = IF Succ(t) + i - 1 < N THEN Succ(t) + i - 1 ELSE Succ(t) + i - 1 - N
    BY <1>1, <2>1, SlotIs
  <2>3. Slot(t, i + 1) = IF t + (i + 1) - 1 < N THEN t + (i + 1) - 1 ELSE t + (i + 1) - 1 - N
    BY <2>1, SlotIs
  <2> QED
    BY <1>1, <2>1, <2>2, <2>3
<1>6. Slot(t, 1) = t
  <2>1. 1 \in 1..N
    OBVIOUS
  <2> QED
    BY <2>1, SlotIs
<1> DEFINE u == Read(buf, h, Succ(t))
<1>7. s \in Seq(Chars) /\ Len(s) = n /\ \A i \in 1..n : s[i] = buf[Slot(t, i)]
  BY ReadIs DEF Read
<1>8. u \in Seq(Chars) /\ Len(u) = n - 1 /\ \A i \in 1..(n - 1) : u[i] = buf[Slot(Succ(t), i)]
  BY <1>1, <1>4, ReadIs DEF Read
<1> HIDE DEF n, s, u
<1>9. 1 \in 1..n /\ \A i \in 1..(n - 1) : i + 1 \in 1..n
  BY <1>2, <1>4
<1>10. s # <<>> /\ Head(s) = buf[t]
  BY <1>4, <1>6, <1>7, <1>9
<1>11. /\ Tail(s) \in Seq(Chars) /\ Len(Tail(s)) = n - 1
       /\ \A i \in 1..(n - 1) : Tail(s)[i] = s[i + 1]
  BY <1>7, <1>10, HeadTailProperties
<1>12. \A i \in 1..Len(u) : u[i] = Tail(s)[i]
  BY <1>5, <1>7, <1>8, <1>9, <1>11
<1>13. u = Tail(s)
  BY <1>8, <1>11, <1>12, SeqEqual
<1> QED
  BY <1>10, <1>13 DEF s, u

\* kbd_push appends the character, or drops it because the queue is full.
LEMMA PushIs == ASSUME IInv, KbdPush PROVE Fifo!Type(key)
<1> USE KeyboardAssumption
<1>1. /\ kbd_head \in 0..(KBD_BUF_SIZE - 1) /\ kbd_tail \in 0..(KBD_BUF_SIZE - 1)
      /\ kbd_buf \in [0..(KBD_BUF_SIZE - 1) -> Chars] /\ key \in Chars
  BY DEF IInv, TypeOK
<1>2. kbd_tail' = kbd_tail /\ got' = got
  BY DEF KbdPush, reader
<1>3. Contents = Read(kbd_buf, kbd_head, kbd_tail) /\ Contents' = Read(kbd_buf', kbd_head', kbd_tail')
  BY DEF Contents, Read, Filled, Slot
<1>4. Len(Contents) = Filled(kbd_head, kbd_tail)
  BY <1>1, <1>3, ReadIs
<1>5. CASE Succ(kbd_head) # kbd_tail
  <2>1. kbd_buf' = [kbd_buf EXCEPT ![kbd_head] = key] /\ kbd_head' = Succ(kbd_head)
    BY <1>5 DEF KbdPush
  <2>2. Len(Contents) < KBD_BUF_SIZE - 1 /\ Contents' = Append(Contents, key)
    BY <1>1, <1>2, <1>3, <1>4, <1>5, <2>1, ReadAppend
  <2> QED
    BY <1>2, <2>2 DEF Fifo!Type
<1>6. CASE Succ(kbd_head) = kbd_tail
  <2>1. UNCHANGED <<kbd_buf, kbd_head>>
    BY <1>6 DEF KbdPush
  <2>2. Contents' = Contents
    BY <1>2, <1>3, <2>1
  <2>3. Succ(kbd_head) = IF kbd_head = KBD_BUF_SIZE - 1 THEN 0 ELSE kbd_head + 1
    BY <1>1, SuccIs
  <2>4. Filled(kbd_head, kbd_tail) = IF kbd_tail <= kbd_head THEN kbd_head - kbd_tail
                                     ELSE kbd_head + KBD_BUF_SIZE - kbd_tail
    BY <1>1, FilledIs
  <2>5. Len(Contents) = KBD_BUF_SIZE - 1
    BY <1>1, <1>4, <1>6, <2>3, <2>4
  <2> QED
    BY <1>2, <2>2, <2>5 DEF Fifo!Type
<1> QED
  BY <1>5, <1>6

\* kbd_pop hands the oldest character to the reader.
LEMMA PopIs == ASSUME IInv, NEW r \in Readers, KbdPop(r) PROVE Fifo!Take(r)
<1>1. /\ kbd_head \in 0..(KBD_BUF_SIZE - 1) /\ kbd_tail \in 0..(KBD_BUF_SIZE - 1)
      /\ kbd_buf \in [0..(KBD_BUF_SIZE - 1) -> Chars]
  BY DEF IInv, TypeOK
<1>2. /\ kbd_head # kbd_tail
      /\ kbd_head' = kbd_head /\ kbd_buf' = kbd_buf /\ kbd_tail' = Succ(kbd_tail)
      /\ got' = [got EXCEPT ![r] = Append(@, kbd_buf[kbd_tail])]
  BY DEF KbdPop
<1>3. Contents = Read(kbd_buf, kbd_head, kbd_tail) /\ Contents' = Read(kbd_buf', kbd_head', kbd_tail')
  BY DEF Contents, Read, Filled, Slot
<1>4. Contents # <<>> /\ Head(Contents) = kbd_buf[kbd_tail] /\ Contents' = Tail(Contents)
  BY <1>1, <1>2, <1>3, ReadTail
<1> QED
  BY <1>2, <1>4 DEF Fifo!Take

LEMMA NextIsFifo == IInv /\ [Next]_vars => [Fifo!Next]_(Fifo!fifoVars)
<1> SUFFICES ASSUME IInv, [Next]_vars PROVE Fifo!Next \/ UNCHANGED Fifo!fifoVars
  OBVIOUS
<1> USE DEF ring, source, reader, waitq
<1>1. ASSUME UNCHANGED ring, UNCHANGED got
      PROVE  UNCHANGED Fifo!fifoVars
  BY <1>1 DEF Contents, Fifo!fifoVars
<1>2. CASE UNCHANGED vars
  BY <1>1, <1>2 DEF vars
<1>3. CASE \/ \E k \in Keys, released \in BOOLEAN : Ps2Interrupt(k, released)
           \/ \E ch \in Chars : Com1Interrupt(ch)
           \/ KbdWake
           \/ \E r \in Readers : KbdPopEmpty(r) \/ ReadSleep(r) \/ ReadAgain(r)
  BY <1>1, <1>3 DEF Ps2Interrupt, Com1Interrupt, KbdWake, KbdPopEmpty, ReadSleep, ReadAgain
<1>4. CASE KbdPush
  <2>1. key \in Chars
    BY DEF IInv, TypeOK
  <2> QED
    BY <1>4, <2>1, PushIs DEF Fifo!Next
<1>5. ASSUME NEW r \in Readers, KbdPop(r)
      PROVE  Fifo!Next
  BY <1>5, PopIs DEF Fifo!Next
<1>6. ASSUME NEW r \in Readers, NEW n \in Sizes, ReadEnter(r, n)
      PROVE  Fifo!Next
  <2>1. Contents' = Contents
    BY <1>6 DEF ReadEnter, Contents
  <2>2. Fifo!Restart(r)
    BY <1>6, <2>1 DEF ReadEnter, Fifo!Restart
  <2> QED
    BY <2>2 DEF Fifo!Next
<1> QED
  BY <1>2, <1>3, <1>4, <1>5, <1>6 DEF Next, ReaderStep

\* kbd_push and kbd_pop implement a queue of KBD_BUF_SIZE - 1 characters: what is
\* typed while there is room is read once and in order, across every wrap-around
\* of the indices, by whichever readers there are.
THEOREM RingImplementsFifo == Spec => RingIsFifo
<1>1. Init => Fifo!Init
  <2> SUFFICES ASSUME Init PROVE Contents = <<>> /\ got = [r \in Readers |-> <<>>]
    BY DEF Fifo!Init
  <2>1. /\ kbd_head = 0 /\ kbd_tail = 0 /\ 0 \in 0..(KBD_BUF_SIZE - 1)
        /\ kbd_buf \in [0..(KBD_BUF_SIZE - 1) -> Chars]
    BY KeyboardAssumption DEF Init, Chars
  <2>2. Contents = Read(kbd_buf, kbd_head, kbd_tail)
    BY DEF Contents, Read, Filled, Slot
  <2>3. Filled(0, 0) = 0
    BY <2>1, FilledIs
  <2>4. Contents = <<>>
    <3>1. Contents \in Seq(Chars) /\ Len(Contents) = 0
      BY <2>1, <2>2, <2>3, ReadIs
    <3> HIDE DEF Contents
    <3> QED
      BY <3>1
  <2> QED
    BY <2>4 DEF Init
<1>2. IInv /\ [Next]_vars => [Fifo!Next]_(Fifo!fifoVars)
  BY NextIsFifo
<1> QED
  BY <1>1, <1>2, InitIInv, NextIInv, PTL DEF Spec, RingIsFifo, Fifo!Spec
=============================================================================
