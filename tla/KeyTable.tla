------------------------------ MODULE KeyTable ------------------------------
(***************************************************************************)
(* What the key database promises of the calls that change it: each one    *)
(* works on its row as it stands when the change is applied, is applied at *)
(* most once and touches nothing else; a call that is given up has changed *)
(* nothing.  KeyDB implements it.                                          *)
(***************************************************************************)
CONSTANTS
  Session,  \* who asks, one request at a time
  Request,
  Key,
  None,     \* no request, no value
  Row,      \* Row[r]: the row that r changes
  Effect    \* Effect[r][v]: what r may leave in a row that holds v

VARIABLES rows, asked

vars == <<rows, asked>>

Init ==
  /\ rows = [k \in Key |-> None]
  /\ asked = [s \in Session |-> None]

Ask(s) ==
  /\ asked[s] = None
  /\ \E r \in Request : asked' = [asked EXCEPT ![s] = r]
  /\ UNCHANGED rows

Apply(s) ==
  LET r == asked[s] IN
  /\ r # None
  /\ \E v \in Effect[r][rows[Row[r]]] : rows' = [rows EXCEPT ![Row[r]] = v]
  /\ asked' = [asked EXCEPT ![s] = None]

\* Failed, or lost in a crash: one request or all of them.
GiveUp(S) ==
  /\ asked' = [s \in Session |-> IF s \in S THEN None ELSE asked[s]]
  /\ UNCHANGED rows

Next ==
  \/ \E s \in Session : Ask(s) \/ Apply(s)
  \/ \E S \in SUBSET Session : GiveUp(S)

Spec == Init /\ [][Next]_vars
=============================================================================
