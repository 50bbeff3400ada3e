---------------------------- MODULE MCMigrations ----------------------------
(* Two processes of this repository's release and one of a later one.        *)
EXTENDS Migrations

CONSTANTS a, b, new

MCFiles ==
  LET released == {<<0, 1, 0>>, <<0, 2, 0>>, <<0, 2, 1>>} IN
  [p \in {a, b, new} |-> IF p = new THEN released \cup {<<1, 0, 0>>} ELSE released]
=============================================================================
