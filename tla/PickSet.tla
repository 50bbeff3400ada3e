------------------------------ MODULE PickSet ------------------------------
(***************************************************************************)
(* What internal/set promises of a RandomSet: a set, to which Add and      *)
(* Remove report whether they changed it, and from which Pick returns some *)
(* member.  RandomSet implements it with a slice.                          *)
(***************************************************************************)
CONSTANTS Item, Zero

VARIABLES
  members,  \* the set
  result    \* what the last call returned: an item (Pick's) and a Boolean

vars == <<members, result>>

Returned(v, ok) == [item |-> v, ok |-> ok]

Init ==
  /\ members = {}
  /\ result = Returned(Zero, FALSE)

Add(x) ==
  /\ members' = members \cup {x}
  /\ result' = Returned(Zero, x \notin members)

Remove(x) ==
  /\ members' = members \ {x}
  /\ result' = Returned(Zero, x \in members)

Pick ==
  /\ UNCHANGED members
  /\ IF members = {} THEN result' = Returned(Zero, FALSE)
     ELSE \E x \in members : result' = Returned(x, TRUE)

Next == Pick \/ \E x \in Item : Add(x) \/ Remove(x)

Spec == Init /\ [][Next]_vars
=============================================================================
