------------------------------ MODULE MCTokens ------------------------------
(* Two clients on two tokens and two owners, over a few milliseconds.         *)
EXTENDS Tokens, TLC

Symmetry == Permutations(Client) \cup Permutations(Token) \cup Permutations(Owner)
=============================================================================
