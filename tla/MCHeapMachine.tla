---------------------------- MODULE MCHeapMachine ----------------------------
(* HeapMachine for TLC: up to six items, the shortest heap in which Remove can *)
(* bring an item under a parent that is later than it.                         *)
EXTENDS HeapMachine

SixIds == 1 .. 6
ThreeDeadlines == 1 .. 3
=============================================================================
