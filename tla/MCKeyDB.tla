------------------------------ MODULE MCKeyDB ------------------------------
(* Two sessions on the three rows of one key.                               *)
EXTENDS KeyDB, TLC

CONSTANTS pk, c1, c2, p, q, h1, r1, MaxEntries

MCKey == {"key", "key-perm", "key-reg"} \X {pk}
MCLists == UNION {[1..n -> {p, q}] : n \in 0..MaxEntries}
MCValue == {c1, c2, r1} \cup MCLists
MCTime == 0..2
\* c1 is valid at 1 only, c2 always but for no host.
MCValidFrom == (c1 :> 1) @@ (c2 :> 0)
MCExpiresAt == (c1 :> 1) @@ (c2 :> 2)
MCAllowedHosts == (c1 :> {h1}) @@ (c2 :> {})
MCKeyOf == r1 :> pk

\* What the last call returned is read by the caller in the same step only.
WithoutReply == <<db, ops, kv, writes, lock, stuck, seen, call>>

Symmetry == Permutations(Tx) \cup Permutations(Permission)
=============================================================================
