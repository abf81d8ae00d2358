------------------------------ MODULE WaitQueue ------------------------------
(***************************************************************************)
(* What wait_queue_snapshot, scheduler_wait and scheduler_wake_all promise *)
(* the code that sleeps on events (wait4, keyboard_read), whatever the     *)
(* CPUs, the run queue and the deferred parking underneath do.             *)
(*                                                                         *)
(* A caller takes a ticket (the queue's sequence number), looks for what   *)
(* it wants and, not finding it, goes to sleep on its ticket.  A wake-up   *)
(* outdates all tickets and wakes every sleeper in the same step.          *)
(***************************************************************************)
EXTENDS Naturals

CONSTANTS Threads, WaitQueues, None

VARIABLES
    seq,      \* wq->seq
    asleep,   \* the queue a thread sleeps on, or None
    ticketq,  \* the queue of the last snapshot of a thread
    ticket,   \* and the value it read
    stopped   \* the kernel panicked

wqVars == <<seq, asleep, ticketq, ticket, stopped>>

Init ==
    /\ seq = [w \in WaitQueues |-> 0]
    /\ asleep = [t \in Threads |-> None]
    /\ ticketq = [t \in Threads |-> None]
    /\ ticket = [t \in Threads |-> 0]
    /\ stopped = FALSE

\* wait_queue_snapshot.
Snapshot(t, w) ==
    /\ asleep[t] = None
    /\ ticketq' = [ticketq EXCEPT ![t] = w]
    /\ ticket' = [ticket EXCEPT ![t] = seq[w]]
    /\ UNCHANGED <<seq, asleep, stopped>>

\* The ticket of t is still good.
TicketValid(t) == ticketq[t] # None /\ ticket[t] = seq[ticketq[t]]

\* scheduler_wait with a good ticket; with an outdated one it returns at once.
Sleep(t) ==
    /\ asleep[t] = None
    /\ TicketValid(t)
    /\ asleep' = [asleep EXCEPT ![t] = ticketq[t]]
    /\ UNCHANGED <<seq, ticketq, ticket, stopped>>

\* scheduler_wake_all.
WakeAll(w) ==
    /\ seq' = [seq EXCEPT ![w] = @ + 1]
    /\ asleep' = [t \in Threads |-> IF asleep[t] = w THEN None ELSE asleep[t]]
    /\ UNCHANGED <<ticketq, ticket, stopped>>

\* A new thread starts without a ticket.
Fresh(t) ==
    /\ asleep[t] = None
    /\ ticketq' = [ticketq EXCEPT ![t] = None]
    /\ ticket' = [ticket EXCEPT ![t] = 0]
    /\ UNCHANGED <<seq, asleep, stopped>>

\* Memory holding a queue nobody sleeps on is reused for a new, zeroed queue;
\* no ticket of the old one survives.
FreshQueue(w) ==
    /\ \A t \in Threads : asleep[t] # w
    /\ seq' = [seq EXCEPT ![w] = 0]
    /\ ticketq' = [t \in Threads |-> IF ticketq[t] = w THEN None ELSE ticketq[t]]
    /\ UNCHANGED <<asleep, ticket, stopped>>

\* A panic stops all switching; scheduler_wait then returns without a wake-up.
Stop ==
    /\ stopped' = TRUE
    /\ UNCHANGED <<seq, asleep, ticketq, ticket>>

SpuriousReturn(t) ==
    /\ stopped
    /\ asleep' = [asleep EXCEPT ![t] = None]
    /\ UNCHANGED <<seq, ticketq, ticket, stopped>>

Next ==
    \/ Stop
    \/ \E w \in WaitQueues : WakeAll(w) \/ FreshQueue(w)
    \/ \E t \in Threads :
        \/ \E w \in WaitQueues : Snapshot(t, w)
        \/ Sleep(t)
        \/ Fresh(t)
        \/ SpuriousReturn(t)

Spec == Init /\ [][Next]_wqVars
=============================================================================
