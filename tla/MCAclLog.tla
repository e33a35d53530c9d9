------------------------------ MODULE MCAclLog ------------------------------
(***************************************************************************)
(* AclLog for TLC: the keys are model values, and interchangeable.         *)
(***************************************************************************)
EXTENDS AclLog, TLC

MCSymmetry == Permutations(Keys)
=============================================================================
