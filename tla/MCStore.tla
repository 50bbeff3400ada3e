------------------------------ MODULE MCStore ------------------------------
(* Instances of Store for TLC.                                              *)
EXTENDS Store, TLC

Symmetry == Permutations(Tx) \cup Permutations(Key) \cup Permutations(Value)
=============================================================================
