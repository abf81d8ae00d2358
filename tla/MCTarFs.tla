------------------------------- MODULE MCTarFs -------------------------------
\* Names of which the one called "long" does not fit a token and begins with "a",
\* in entries at the top and in a directory, and an absolute and a relative link
\* target, so that links can form chains and loops.
EXTENDS TarFs

MCCut == [name \in Names |-> IF name = "long" THEN "a" ELSE name]
MCEntryPaths ==
    {<<"a">>, <<"b">>, <<"long">>, <<"a", "a">>, <<"a", "b">>, <<"a", "long">>, <<"b", "a">>}
MCTargets == {[abs |-> TRUE, path |-> <<"a">>], [abs |-> FALSE, path |-> <<"..", "b">>]}
=============================================================================
