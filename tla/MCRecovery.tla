------------------------------ MODULE MCRecovery ------------------------------
(* Recovery for TLC: two strings, without a ttl and with one of a single unit.   *)
(* Addresses are numbers, picked by CHOOSE.                                      *)
EXTENDS Recovery, TLC

CONSTANTS k1, a, b

MCValues == {[data |-> a, type |-> "string"], [data |-> b, type |-> "string"]}
AllValues == MCValues \cup {Untyped(v) : v \in MCValues}
MCIds == 1 .. 8
MCTTLs == {0, 1}
MCSymmetry == Permutations({a, b})
=============================================================================
