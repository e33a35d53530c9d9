--------------------------- MODULE MCGoroutinePool ---------------------------
(* GoroutinePool for TLC: a small pool whose divisors let it grow and shrink by  *)
(* one or two workers at a time, and whose channel nil tasks and a few           *)
(* connections can fill.                                                         *)
EXTENDS GoroutinePool

CONSTANTS c1, c2, c3

ThreeConns == {c1, c2, c3}
=============================================================================
