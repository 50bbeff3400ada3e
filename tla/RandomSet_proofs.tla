-------------------------- MODULE RandomSet_proofs --------------------------
(***************************************************************************)
(* The slice of internal/set is a set, whatever may be added to it and     *)
(* however many slots its array has.                                       *)
(***************************************************************************)
EXTENDS RandomSet, FiniteSetTheorems, TLAPS

IInv == TypeOK /\ NoDuplicates /\ NothingRetained

\* A call that leaves the slice alone and returns something sensible.
LEMMA SliceUnchanged ==
  ASSUME IInv, UNCHANGED <<len, array>>,
         NEW v \in Item \cup {Zero}, NEW b \in BOOLEAN, result' = Returned(v, b)
  PROVE  IInv'
<1>1. TypeOK'
  BY DEF IInv, TypeOK, Returned
<1>2. NoDuplicates'
  BY DEF IInv, NoDuplicates
<1>3. NothingRetained'
  BY DEF IInv, NothingRetained
<1> QED BY <1>1, <1>2, <1>3 DEF IInv

LEMMA InductiveInvariant == Spec => []IInv
<1>1. Init => IInv
  BY CapAssumption, ZeroAssumption
     DEF Init, IInv, TypeOK, NoDuplicates, NothingRetained, Returned
<1>2. IInv /\ [Next]_vars => IInv'
  <2> SUFFICES ASSUME IInv, [Next]_vars PROVE IInv'
    OBVIOUS
  <2> USE CapAssumption, ZeroAssumption DEF IInv
  <2>1. ASSUME NEW x \in Item, Add(x) PROVE IInv'
    <3>1. CASE Scanned(x)
      BY <2>1, <3>1, SliceUnchanged DEF Add
    <3>2. CASE ~Scanned(x)
      <4>1. /\ len < Cap /\ len' = len + 1
            /\ array' = [array EXCEPT ![len + 1] = x]
            /\ result' = Returned(Zero, TRUE)
        BY <2>1, <3>2 DEF Add
      <4>2. TypeOK'
        BY <4>1 DEF TypeOK, Returned
      <4>3. NoDuplicates'
        BY <3>2, <4>1 DEF TypeOK, NoDuplicates, Scanned
      <4>4. NothingRetained'
        BY <4>1 DEF TypeOK, NothingRetained
      <4> QED BY <4>2, <4>3, <4>4
    <3> QED BY <3>1, <3>2
  <2>2. ASSUME NEW x \in Item, Remove(x) PROVE IInv'
    <3>1. CASE ~Scanned(x)
      BY <2>2, <3>1, SliceUnchanged DEF Remove
    <3>2. CASE Scanned(x)
      <4>1. PICK k \in 1..len : /\ array' = ShiftLeft(k)
                                /\ len' = len - 1
                                /\ result' = Returned(Zero, TRUE)
        BY <2>2, <3>2 DEF Remove
      <4>2. TypeOK'
        BY <4>1 DEF ShiftLeft, TypeOK, Returned
      <4>3. NoDuplicates'
        BY <4>1 DEF ShiftLeft, TypeOK, NoDuplicates
      <4>4. NothingRetained'
        BY <4>1 DEF ShiftLeft, TypeOK, NothingRetained
      <4> QED BY <4>2, <4>3, <4>4
    <3> QED BY <3>1, <3>2
  <2>3. CASE Pick
    <3>1. CASE len = 0
      BY <2>3, <3>1, SliceUnchanged DEF Pick
    <3>2. CASE len # 0
      <4>1. PICK p \in Shuffles :
              /\ array' = [i \in 1..Cap |-> IF i <= len THEN array[p[i]] ELSE array[i]]
              /\ result' = Returned(array[p[1]], TRUE)
              /\ len' = len
        BY <2>3, <3>2 DEF Pick
      <4>2. /\ p \in [1..len -> 1..len]
            /\ \A i, j \in 1..len : p[i] = p[j] => i = j
        BY DEF Shuffles
      <4>3. TypeOK'
        BY <3>2, <4>1, <4>2 DEF TypeOK, Returned
      <4>4. NoDuplicates'
        BY <4>1, <4>2 DEF TypeOK, NoDuplicates
      <4>5. NothingRetained'
        BY <4>1, <4>2 DEF TypeOK, NothingRetained
      <4> QED BY <4>3, <4>4, <4>5
    <3> QED BY <3>1, <3>2
  <2>4. CASE UNCHANGED vars
    BY <2>4 DEF vars, TypeOK, NoDuplicates, NothingRetained
  <2> QED
    BY <2>1, <2>2, <2>3, <2>4 DEF Next
<1> QED
  BY <1>1, <1>2, PTL DEF Spec

(* Every variable keeps its type; no index ever leaves the array.            *)
THEOREM TypeCorrect == Spec => []TypeOK
<1>1. IInv => TypeOK
  BY DEF IInv
<1> QED
  BY <1>1, InductiveInvariant, PTL

(* No item is ever in the slice twice.                                       *)
THEOREM NeverTwice == Spec => []NoDuplicates
<1>1. IInv => NoDuplicates
  BY DEF IInv
<1> QED
  BY <1>1, InductiveInvariant, PTL

(* The array never keeps an item that was removed.                           *)
THEOREM NeverRetained == Spec => []NothingRetained
<1>1. IInv => NothingRetained
  BY DEF IInv
<1> QED
  BY <1>1, InductiveInvariant, PTL

-----------------------------------------------------------------------------
(* The refinement                                                            *)

\* What each call is to the abstract set.
LEMMA AddRefines ==
  ASSUME IInv, NEW x \in Item, Add(x)
  PROVE  Abstract!Add(x)
<1> USE CapAssumption DEF IInv, TypeOK, Add, Abstract!Add, Abstract!Returned, Returned
<1>1. CASE Scanned(x)
  BY <1>1 DEF Scanned, Members
<1>2. CASE ~Scanned(x)
  <2>1. Members' = Members \cup {x}
    BY <1>2 DEF Members
  <2>2. x \notin Members
    BY <1>2 DEF Members, Scanned
  <2> QED BY <1>2, <2>1, <2>2
<1> QED BY <1>1, <1>2

LEMMA RemoveRefines ==
  ASSUME IInv, NEW x \in Item, Remove(x)
  PROVE  Abstract!Remove(x)
<1> USE CapAssumption DEF IInv, TypeOK
<1>1. CASE ~Scanned(x)
  <2>1. UNCHANGED <<len, array>> /\ result' = Returned(Zero, FALSE)
    BY <1>1 DEF Remove
  <2>2. x \notin Members /\ Members' = Members
    BY <1>1, <2>1 DEF Scanned, Members
  <2>3. Members' = Members \ {x} /\ (x \in Members) = FALSE
    BY <2>2
  <2> QED
    BY <2>1, <2>3 DEF Abstract!Remove, Abstract!Returned, Returned
<1>2. CASE Scanned(x)
  <2>1. PICK k \in 1..len : /\ array[k] = x
                            /\ array' = ShiftLeft(k)
                            /\ len' = len - 1
                            /\ result' = Returned(Zero, TRUE)
    BY <1>2 DEF Remove, IsFirst
  <2>2. ASSUME NEW i \in 1..len' PROVE array'[i] \in Members \ {x}
    <3>1. /\ i \in 1..len /\ i + 1 \in 1..len
          /\ array'[i] = IF k <= i THEN array[i + 1] ELSE array[i]
      BY <2>1, <2>2 DEF ShiftLeft
    <3>2. \A j \in 1..len : j # k => array[j] # x
      BY <2>1 DEF NoDuplicates
    <3> QED BY <2>1, <3>1, <3>2 DEF Members
  <2>3. ASSUME NEW i \in 1..len, i # k PROVE array[i] \in Members'
    <3>1. PICK j \in 1..len' : array'[j] = array[i]
      <4>1. CASE i < k
        <5>1. i \in 1..len' /\ array'[i] = array[i]
          BY <2>1, <4>1 DEF ShiftLeft
        <5> QED BY <5>1
      <4>2. CASE k < i
        <5>1. i - 1 \in 1..len' /\ array'[i - 1] = array[i]
          BY <2>1, <4>2 DEF ShiftLeft
        <5> QED BY <5>1
      <4> QED BY <2>3, <4>1, <4>2
    <3> QED BY <3>1 DEF Members
  <2>4. Members' = Members \ {x}
    BY <2>1, <2>2, <2>3 DEF Members
  <2>5. x \in Members
    BY <2>1 DEF Members
  <2> QED
    BY <2>1, <2>4, <2>5 DEF Abstract!Remove, Abstract!Returned, Returned
<1> QED BY <1>1, <1>2

LEMMA PickRefines ==
  ASSUME IInv, Pick
  PROVE  Abstract!Pick
<1>1. CASE len = 0
  BY <1>1 DEF Members, Pick, Abstract!Pick, Abstract!Returned, Returned
<1>2. CASE len # 0
  <2>1. PICK p \in Shuffles :
          /\ array' = [i \in 1..Cap |-> IF i <= len THEN array[p[i]] ELSE array[i]]
          /\ result' = Returned(array[p[1]], TRUE)
          /\ len' = len
    BY <1>2 DEF Pick
  <2>2. /\ p \in [1..len -> 1..len]
        /\ \A j \in 1..len : \E i \in 1..len : p[i] = j
    BY DEF Shuffles
  <2>3. len \in Nat /\ 1 \in 1..len /\ \A i \in 1..len : array'[i] = array[p[i]]
    BY <1>2, <2>1, CapAssumption DEF IInv, TypeOK
  <2>4. \A i \in 1..len : array'[i] \in Members
    BY <2>2, <2>3 DEF Members
  <2>5. \A j \in 1..len : \E i \in 1..len : array'[i] = array[j]
    <3> TAKE j \in 1..len
    <3>1. PICK i \in 1..len : p[i] = j
      BY <2>2
    <3>2. array'[i] = array[j]
      BY <2>3, <3>1
    <3> QED BY <3>2
  <2>6. Members' = Members
    BY <2>1, <2>4, <2>5 DEF Members
  <2>7. array[p[1]] \in Members
    BY <2>2, <2>3 DEF Members
  <2> QED
    BY <2>1, <2>6, <2>7 DEF Abstract!Pick, Abstract!Returned, Returned
<1> QED BY <1>1, <1>2

(* The slice implements the set: to its callers, and in what is left to pick *)
(* from, the shuffles and shifts cannot be told from set operations.         *)
THEOREM Refinement == Spec => ImplementsPickSet
<1>1. Init => Abstract!Init
  BY DEF Init, Abstract!Init, Abstract!Returned, Returned, Members
<1>2. IInv /\ [Next]_vars => [Abstract!Next]_(Abstract!vars)
  <2>1. UNCHANGED vars => UNCHANGED Abstract!vars
    BY DEF vars, Abstract!vars, Members
  <2> QED
    BY <2>1, AddRefines, RemoveRefines, PickRefines DEF Next, Abstract!Next
<1> QED
  BY <1>1, <1>2, InductiveInvariant, PTL
     DEF Spec, ImplementsPickSet, Abstract!Spec

-----------------------------------------------------------------------------
(* The bound of the model                                                    *)

\* The array is full only when there is nothing left to add.
RoomForAll == len = Cap => \A x \in Item : Scanned(x)

(* With as many slots as there are items, Cap is never what stops an Add:    *)
(* the slice of random.go 33-41 grows as append does.                        *)
THEOREM CapNeverBinds ==
  ASSUME IsFiniteSet(Item), Cardinality(Item) <= Cap
  PROVE  Spec => []RoomForAll
<1>1. ASSUME IInv, len = Cap, NEW x \in Item PROVE Scanned(x)
  <2> DEFINE f == [i \in 1..Cap |-> array[i]]
  <2>1. f \in [1..Cap -> Item]
    BY <1>1, ZeroAssumption DEF IInv, TypeOK, NothingRetained
  <2>2. \A i, j \in 1..Cap : f[i] = f[j] => i = j
    BY <1>1 DEF IInv, NoDuplicates
  <2>3. f \in Injection(1..Cap, Item)
    BY <2>1, <2>2 DEF Injection, IsInjective
  <2>4. Cardinality(1..Cap) = Cap /\ Cap \in Nat
    <3>1. Cardinality(1..Cap) = IF 1 > Cap THEN 0 ELSE Cap - 1 + 1
      BY CapAssumption, FS_Interval
    <3> QED BY <3>1, CapAssumption
  <2> HIDE DEF f
  <2>5. /\ Cardinality(1..Cap) <= Cardinality(Item)
        /\ Cardinality(1..Cap) = Cardinality(Item) <=> f \in Surjection(1..Cap, Item)
    BY <2>3, FS_Injection
  <2>6. Cardinality(Item) \in Nat
    BY FS_CardinalityType
  <2>7. f \in Surjection(1..Cap, Item)
    BY <2>4, <2>5, <2>6
  <2>8. \E i \in 1..Cap : f[i] = x
    BY <2>7 DEF Surjection
  <2> QED BY <1>1, <2>8 DEF f, Scanned
<1>2. IInv => RoomForAll
  BY <1>1 DEF RoomForAll
<1> QED BY <1>2, InductiveInvariant, PTL
=============================================================================
