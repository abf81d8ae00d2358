------------------------------ MODULE MCProcess ------------------------------
(* Process for TLC, in three instances: three processes that do everything; two   *)
(* addresses for four processes, so that one is used again; and four processes of *)
(* which the first and the third fork and init waits: a child of init, a process   *)
(* that is nobody's child, and a child of that one.                                *)
EXTENDS Process
CONSTANTS p1, p2, p3, p4
MCLimits == {[procs |-> {p1, p2, p3}, forking |-> Procs, waiting |-> Procs, pids |-> 3],
             [procs |-> {p1, p2}, forking |-> Procs, waiting |-> Procs, pids |-> 4],
             [procs |-> Procs, forking |-> {p1, p3}, waiting |-> {p1}, pids |-> 4]}
=============================================================================
