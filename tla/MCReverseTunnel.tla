-------------------------- MODULE MCReverseTunnel --------------------------
(* ReverseTunnel on small instances.  Connections, registrations and calls  *)
(* are interchangeable, and so are endpoints: no definition prefers one.    *)
EXTENDS ReverseTunnel, TLC

Symmetry ==
  Permutations(Conn) \cup Permutations(Endpoint)
    \cup Permutations(Registration) \cup Permutations(Call)

(* What may still be read: the locals of a channel that is over may not, so *)
(* states that differ in them only have the same future.                    *)
WithoutOver ==
  <<closed, gateway, reg, cancelling, tunnel,
    [k \in Call |->
       IF call[k].pc = "over" THEN [NoCall EXCEPT !.pc = "over"] ELSE call[k]]>>
=============================================================================
