---------------------------- MODULE MCHBSearch -----------------------------
(* All directed graphs on three nodes, self-loops and cycles included.      *)
EXTENDS HBSearch, Integers

CONSTANT N

MCGraphs == [1..N -> SUBSET (1..N)]
=============================================================================
