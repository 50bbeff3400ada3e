---------------------------- MODULE MCRandomSet ----------------------------
(* RandomSet with as many slots as items: append never needs another one.   *)
EXTENDS RandomSet, TLC

Symmetry == Permutations(Item)
=============================================================================
