------------------------------ MODULE MCStartup ------------------------------
(* Three machines for TLC: two application processors that come up while      *)
(* nothing else happens, one application processor with a user thread and     *)
(* panics, and one without an invariant TSC.                                  *)
EXTENDS Startup
CONSTANTS c1, c2, c3
MCMachines == {[aps |-> <<c2, c3>>, tsc |-> TRUE, faulty |-> {}, threads |-> 0],
               [aps |-> <<c2>>, tsc |-> TRUE, faulty |-> {c1, c2}, threads |-> 1],
               [aps |-> <<c2>>, tsc |-> FALSE, faulty |-> {c1}, threads |-> 0]}
=============================================================================
