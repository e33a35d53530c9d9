----------------------------- MODULE MCHeapCache -----------------------------
(* HeapCache for TLC.  Addresses are numbers: CHOOSE takes one of the free      *)
(* ones, so no symmetry is declared.                                            *)
EXTENDS HeapCache

CONSTANTS k1, k2, v1

MCIds == 1 .. 3
MCTTLs == {0, 1, 2}
=============================================================================
