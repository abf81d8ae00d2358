------------------------------ MODULE MCPaging -------------------------------
(* Two entries per table, four levels, two processes. *)
EXTENDS Paging
=============================================================================
