------------------------------ MODULE CharQueue ------------------------------
(***************************************************************************)
(* What the keyboard buffer promises: a queue of at most Capacity          *)
(* characters.  A character typed into a full queue is dropped; otherwise  *)
(* it is handed, in typing order, to exactly one reader.                   *)
(***************************************************************************)
EXTENDS Naturals, Sequences

CONSTANTS Capacity, Chars, Readers

VARIABLES
    queue,     \* characters typed and not read yet
    received   \* what each reader has read in its current call

fifoVars == <<queue, received>>

Init ==
    /\ queue = <<>>
    /\ received = [r \in Readers |-> <<>>]

Type(ch) ==
    /\ queue' = IF Len(queue) < Capacity THEN Append(queue, ch) ELSE queue
    /\ UNCHANGED received

Take(r) ==
    /\ queue # <<>>
    /\ queue' = Tail(queue)
    /\ received' = [received EXCEPT ![r] = Append(@, Head(queue))]

\* The reader's next call starts with an empty buffer.
Restart(r) ==
    /\ received' = [received EXCEPT ![r] = <<>>]
    /\ UNCHANGED queue

Next ==
    \/ \E ch \in Chars : Type(ch)
    \/ \E r \in Readers : Take(r) \/ Restart(r)

Spec == Init /\ [][Next]_fifoVars
=============================================================================
