------------------------------- MODULE PageMap -------------------------------
(***************************************************************************)
(* What page tables promise: every address space is a flat map from pages  *)
(* to frames and rights.  A call changes one page of one space or nothing, *)
(* or one page of the kernel half, which all spaces share; a new space has *)
(* that half and a copied one has the rights of the original.              *)
(***************************************************************************)
CONSTANTS
    Spaces,  \* address spaces besides the kernel's
    Kernel,  \* the kernel's own space, page_table_l4
    UserVa, KernelVa,  \* pages of the two halves
    Skip,              \* pages that a copy leaves out
    Frames, Rights,    \* what may be mapped, and how
    Boot,    \* the kernel's map at boot
    None     \* not mapped; no such space

VARIABLE view

Init == view = [s \in Spaces \cup {Kernel} |-> IF s = Kernel THEN Boot ELSE None]

Exists(s) == view[s] # None

\* The spaces in which a change of this page by space s is seen: the spaces share the
\* kernel half.
Sharers(s, va) == {t \in Spaces \cup {Kernel} : Exists(t) /\ (t = s \/ va \in KernelVa)}

\* A call of space s changes this page and no other.
Change(s, va) ==
    /\ Exists(s) /\ Exists(s)'
    /\ \A t \in Sharers(s, va) : view'[t] = [view[t] EXCEPT ![va] = view'[s][va]]
    /\ view' = [t \in Spaces \cup {Kernel} |-> IF t \in Sharers(s, va) THEN view'[t] ELSE view[t]]

\* What the call makes of it.
Map(s, va) == \E f \in Frames, r \in Rights : view'[s][va] = [frame |-> f, rights |-> r]

Protect(s, va) ==
    /\ s # Kernel /\ view[s][va] # None
    /\ \E r \in Rights : view'[s][va] = [frame |-> view[s][va].frame, rights |-> r]

Unmap(s, va) == s # Kernel /\ view'[s][va] = None

\* Space t appears, with the kernel half of the kernel.
Appears(t) ==
    /\ ~Exists(t) /\ view'[t] # None
    /\ view' = [view EXCEPT ![t] = view'[t]]
    /\ \A va \in KernelVa : view'[t][va] = view[Kernel][va]

Create(t) == Appears(t) /\ \A va \in UserVa : view'[t][va] = None

\* Page q is a copy of page p: in a frame of its own, with the same rights.
IsCopy(p, q) == IF p = None THEN q = None
                ELSE q # None /\ q.rights = p.rights /\ q.frame # p.frame

Copy(s, t) ==
    /\ Exists(s) /\ Appears(t)
    /\ \A va \in UserVa \ Skip : IsCopy(view[s][va], view'[t][va])
    /\ \A va \in Skip : view'[t][va] = None
    /\ \A va, wa \in UserVa : va # wa /\ view'[t][va] # None /\ view'[t][wa] # None
                                => view'[t][va].frame # view'[t][wa].frame

Drop(s) == Exists(s) /\ view' = [view EXCEPT ![s] = None]

Next ==
    \/ \E s \in Spaces \cup {Kernel}, va \in UserVa \cup KernelVa :
          Change(s, va) /\ (Map(s, va) \/ Protect(s, va) \/ Unmap(s, va))
    \/ \E s, t \in Spaces : Copy(s, t)
    \/ \E s \in Spaces : Create(s) \/ Drop(s)

Spec == Init /\ [][Next]_view
=============================================================================
