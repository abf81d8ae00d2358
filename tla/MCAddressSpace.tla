--------------------------- MODULE MCAddressSpace ---------------------------
\* A small machine for TLC: one image page, visited by two segments.
EXTENDS AddressSpace, TLC

MCImage == <<0, 0>>

\* Address spaces are interchangeable.
MCSymmetry == Permutations(Spaces)
=============================================================================
