----------------------------- MODULE RandomSet -----------------------------
(***************************************************************************)
(* internal/set/random.go: the set of workers of a load balancer, kept as  *)
(* a slice.  The slice is r.items: its length, and the array behind it, of *)
(* which slots beyond the length stay allocated and are overwritten by     *)
(* later appends.  A worker is a Go channel, so what stays in such a slot  *)
(* is never collected.                                                     *)
(*                                                                         *)
(* Each call runs under the mutex of its LB (ReverseTunnel), so a call is  *)
(* one step.                                                               *)
(***************************************************************************)
EXTENDS Integers

CONSTANTS
  Item,  \* what may be added
  Zero,  \* the zero value of Item's type
  Cap    \* slots of the array that are modelled; append never needs more

ASSUME CapAssumption == Cap \in Nat
ASSUME ZeroAssumption == Zero \notin Item

VARIABLES
  len,    \* len(r.items)
  array,  \* the array of r.items, from its first slot
  result  \* what the last call returned

vars == <<len, array, result>>

Returned(v, ok) == [item |-> v, ok |-> ok]

TypeOK ==
  /\ len \in 0..Cap
  /\ array \in [1..Cap -> Item \cup {Zero}]
  /\ result \in [item : Item \cup {Zero}, ok : BOOLEAN]

Init ==
  /\ len = 0
  /\ array = [i \in 1..Cap |-> Zero]
  /\ result = Returned(Zero, FALSE)

Members == {array[i] : i \in 1..len}

-----------------------------------------------------------------------------
\* Fault: the scan for v == item misses the last element.
ScannedShort(x) == \E i \in 1..len-1 : array[i] = x

Scanned(x) == \E i \in 1..len : array[i] = x

Add(x) ==
  IF Scanned(x)
  THEN /\ result' = Returned(Zero, FALSE)
       /\ UNCHANGED <<len, array>>
  ELSE /\ len < Cap
       /\ len' = len + 1
       /\ array' = [array EXCEPT ![len + 1] = x]
       /\ result' = Returned(Zero, TRUE)

\* rand.Shuffle: some permutation of the first len slots.
Shuffles ==
  {p \in [1..len -> 1..len] :
     /\ \A i, j \in 1..len : p[i] = p[j] => i = j
     /\ \A j \in 1..len : \E i \in 1..len : p[i] = j}

\* Fault: Shuffle is called with the capacity instead of the length.
PickBeyond ==
  IF len = 0
  THEN result' = Returned(Zero, FALSE) /\ UNCHANGED <<len, array>>
  ELSE \E j \in 1..Cap :
         /\ array' = [array EXCEPT ![1] = array[j], ![j] = array[1]]
         /\ result' = Returned(array[j], TRUE)
         /\ UNCHANGED len

Pick ==
  IF len = 0
  THEN result' = Returned(Zero, FALSE) /\ UNCHANGED <<len, array>>
  ELSE \E p \in Shuffles :
         /\ array' = [i \in 1..Cap |-> IF i <= len THEN array[p[i]] ELSE array[i]]
         /\ result' = Returned(array[p[1]], TRUE)
         /\ UNCHANGED len

\* Fault: the slot that append leaves behind is not cleared.
ShiftKeepingLast(k) ==
  [i \in 1..Cap |-> IF k <= i /\ i < len THEN array[i + 1] ELSE array[i]]

\* append(r.items[:k], r.items[k+1:]...), then all[len(all)-1] = zero.
ShiftLeft(k) ==
  [i \in 1..Cap |-> IF i = len THEN Zero
                    ELSE IF k <= i /\ i < len THEN array[i + 1]
                    ELSE array[i]]

IsFirst(k, x) == array[k] = x /\ \A i \in 1..k-1 : array[i] # x

\* Fault: the length shrinks whether or not the item was found.
RemoveUnseen(x) ==
  /\ len' = len - 1
  /\ result' = Returned(Zero, Scanned(x))
  /\ array' = array

Remove(x) ==
  IF Scanned(x)
  THEN \E k \in 1..len :
         /\ IsFirst(k, x)
         /\ array' = ShiftLeft(k)
         /\ len' = len - 1
         /\ result' = Returned(Zero, TRUE)
  ELSE /\ result' = Returned(Zero, FALSE)
       /\ UNCHANGED <<len, array>>

Next == Pick \/ \E x \in Item : Add(x) \/ Remove(x)

Spec == Init /\ [][Next]_vars

-----------------------------------------------------------------------------
(* An item is in the slice once, or a worker that left would still be there  *)
(* after the one Remove of its cleanup and would be picked forever.          *)
NoDuplicates ==
  \A i, j \in 1..len : array[i] = array[j] => i = j

(* The array keeps no item the set has not: slots of the slice hold items,   *)
(* slots beyond it the zero value, so that a removed worker is collectable.  *)
NothingRetained ==
  \A i \in 1..Cap : array[i] = Zero <=> i > len

Abstract == INSTANCE PickSet WITH members <- Members

(* The slice is a set to its callers: what Add, Remove and Pick return and   *)
(* what they leave in the slice, through any sequence of shuffles and        *)
(* shifts, is what they do to the set of its elements.                       *)
ImplementsPickSet == Abstract!Spec
=============================================================================
