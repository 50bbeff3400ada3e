---------------------------- MODULE Grants_proofs ----------------------------
(***************************************************************************)
(* What SetPermission does to a list of entries, counted entry by entry,   *)
(* and that no interleaving of the sessions loses a grant otherwise.       *)
(***************************************************************************)
EXTENDS KeyDB_proofs, FiniteSetTheorems, SequenceTheorems

-----------------------------------------------------------------------------
(* Counting the entries of a list                                            *)

Places(es, p) == {i \in DOMAIN es : es[i] = p}

Times(es, p) == Cardinality(Places(es, p))

LEMMA PlacesFinite ==
  ASSUME NEW es \in Seq(Permission), NEW p
  PROVE  IsFiniteSet(DOMAIN es) /\ IsFiniteSet(Places(es, p)) /\ Times(es, p) \in Nat
<1>1. DOMAIN es = 1..Len(es) /\ Len(es) \in Int
  OBVIOUS
<1>2. IsFiniteSet(DOMAIN es)
  BY <1>1, FS_Interval
<1>3. Places(es, p) \in SUBSET DOMAIN es
  BY DEF Places
<1>4. IsFiniteSet(Places(es, p))
  BY <1>2, <1>3, FS_Subset
<1> QED BY <1>2, <1>4, FS_CardinalityType DEF Times

\* s holds the entries of es but those at D, in the order of g.
Moves(s, es, D, g) ==
  /\ g \in Bijection(DOMAIN s, DOMAIN es \ D)
  /\ \A j \in DOMAIN s : s[j] = es[g[j]]

\* A list made of the entries of another but those at D, in any order, has
\* each of them as often.
LEMMA Moved ==
  ASSUME NEW es \in Seq(Permission), NEW s \in Seq(Permission), NEW D, NEW p,
         \E g : Moves(s, es, D, g)
  PROVE  Times(s, p) = Cardinality(Places(es, p) \ D)
<1>0. PICK g : Moves(s, es, D, g)
  OBVIOUS
<1> DEFINE S == Places(s, p)
           T == Places(es, p) \ D
           h == [j \in S |-> g[j]]
<1>1. /\ g \in [DOMAIN s -> DOMAIN es \ D]
      /\ \A a, b \in DOMAIN s : g[a] = g[b] => a = b
      /\ \A k \in DOMAIN es \ D : \E j \in DOMAIN s : g[j] = k
  BY <1>0 DEF Moves, Bijection, Injection, Surjection, IsInjective
<1>2. \A j \in S : j \in DOMAIN s /\ g[j] \in T
  BY <1>0, <1>1 DEF Moves, Places
<1>3. h \in [S -> T]
  BY <1>2
<1>4. \A a, b \in S : h[a] = h[b] => a = b
  BY <1>1, <1>2
<1>5. \A k \in T : \E j \in S : h[j] = k
  <2> TAKE k \in T
  <2>1. PICK j \in DOMAIN s : g[j] = k
    BY <1>1 DEF Places
  <2>2. j \in S
    BY <1>0, <2>1 DEF Moves, Places
  <2> QED BY <2>1, <2>2
<1> HIDE DEF h
<1>6. h \in Bijection(S, T)
  BY <1>3, <1>4, <1>5 DEF Bijection, Injection, Surjection, IsInjective
<1>7. IsFiniteSet(S)
  BY PlacesFinite
<1>8. ExistsBijection(S, T)
  BY <1>6 DEF ExistsBijection
<1> HIDE DEF S, T
<1>9. Cardinality(T) = Cardinality(S)
  BY <1>7, <1>8, FS_Bijection
<1> QED BY <1>9 DEF S, T, Times

\* An unstable sort loses nothing.
LEMMA OrdersTimes ==
  ASSUME NEW es \in Seq(Permission), NEW s \in Orders(es), NEW p
  PROVE  Times(s, p) = Times(es, p)
<1>1. PICK f \in Bijection(DOMAIN es, DOMAIN es) : s = [i \in DOMAIN es |-> es[f[i]]]
  BY DEF Orders
<1>2. DOMAIN s = DOMAIN es /\ \A j \in DOMAIN s : s[j] = es[f[j]]
  BY <1>1
<1>3. s \in Seq(Permission)
  BY OrdersSeq
<1>4. f \in Bijection(DOMAIN s, DOMAIN es \ {})
  <2>1. DOMAIN es \ {} = DOMAIN es
    OBVIOUS
  <2> QED BY <1>2, <2>1
<1>5. Moves(s, es, {}, f)
  BY <1>2, <1>4 DEF Moves
<1>6. Times(s, p) = Cardinality(Places(es, p) \ {})
  BY <1>3, <1>5, Moved
<1>7. Places(es, p) \ {} = Places(es, p)
  OBVIOUS
<1> QED BY <1>6, <1>7 DEF Times

LEMMA TailTimes ==
  ASSUME NEW es \in Seq(Permission), es # << >>, NEW p
  PROVE  Times(Tail(es), p) = Cardinality(Places(es, p) \ {1})
<1> DEFINE s == Tail(es)
           g == [j \in DOMAIN s |-> j + 1]
<1>1. /\ s \in Seq(Permission) /\ Len(es) \in Nat \ {0} /\ DOMAIN es = 1..Len(es)
      /\ DOMAIN s = 1..(Len(es) - 1)
      /\ \A j \in 1..(Len(es) - 1) : s[j] = es[j + 1]
  OBVIOUS
<1> HIDE DEF s
<1>2. g \in [DOMAIN s -> DOMAIN es \ {1}]
  BY <1>1
<1>3. \A a, b \in DOMAIN s : g[a] = g[b] => a = b
  BY <1>1
<1>4. \A k \in DOMAIN es \ {1} : \E j \in DOMAIN s : g[j] = k
  <2> TAKE k \in DOMAIN es \ {1}
  <2>1. k - 1 \in DOMAIN s /\ g[k - 1] = k
    BY <1>1
  <2> QED BY <2>1
<1>5. \A j \in DOMAIN s : s[j] = es[g[j]]
  BY <1>1
<1> HIDE DEF g
<1>6. Moves(s, es, {1}, g)
  BY <1>2, <1>3, <1>4, <1>5 DEF Moves, Bijection, Injection, Surjection, IsInjective
<1>7. Times(s, p) = Cardinality(Places(es, p) \ {1})
  BY <1>1, <1>6, Moved
<1> QED BY <1>7 DEF s

LEMMA MoveLastTimes ==
  ASSUME NEW es \in Seq(Permission), NEW i \in DOMAIN es, i # Len(es), NEW p
  PROVE  /\ MoveLast(es, i) \in Seq(Permission)
         /\ Times(MoveLast(es, i), p) = Cardinality(Places(es, p) \ {i})
<1> DEFINE moved == [es EXCEPT ![i] = es[Len(es)]]
           s == MoveLast(es, i)
           g == [j \in DOMAIN s |-> IF j = i THEN Len(es) ELSE j]
<1>1. /\ Len(es) \in Nat /\ DOMAIN es = 1..Len(es) /\ i \in 1..(Len(es) - 1)
      /\ \A j \in 1..Len(es) : es[j] \in Permission
  OBVIOUS
<1>2. /\ moved \in Seq(Permission) /\ Len(moved) = Len(es)
      /\ \A j \in 1..Len(es) : moved[j] = IF j = i THEN es[Len(es)] ELSE es[j]
  BY <1>1
<1>3. s = SubSeq(moved, 1, Len(es) - 1)
  BY DEF MoveLast
<1> HIDE DEF moved, s
<1>4. /\ s \in Seq(Permission) /\ DOMAIN s = 1..(Len(es) - 1)
      /\ \A j \in 1..(Len(es) - 1) : s[j] = moved[j]
  BY <1>1, <1>2, <1>3
<1>5. g \in [DOMAIN s -> DOMAIN es \ {i}]
  BY <1>1, <1>4
<1>6. \A a, b \in DOMAIN s : g[a] = g[b] => a = b
  BY <1>1, <1>4
<1>7. \A k \in DOMAIN es \ {i} : \E j \in DOMAIN s : g[j] = k
  <2> TAKE k \in DOMAIN es \ {i}
  <2>1. CASE k = Len(es)
    <3>1. i \in DOMAIN s /\ g[i] = k
      BY <1>1, <1>4, <2>1
    <3> QED BY <3>1
  <2>2. CASE k # Len(es)
    <3>1. k \in DOMAIN s /\ g[k] = k
      BY <1>1, <1>4, <2>2
    <3> QED BY <3>1
  <2> QED BY <2>1, <2>2
<1>8. \A j \in DOMAIN s : s[j] = es[g[j]]
  BY <1>1, <1>2, <1>4
<1> HIDE DEF g
<1>9. Moves(s, es, {i}, g)
  BY <1>5, <1>6, <1>7, <1>8 DEF Moves, Bijection, Injection, Surjection, IsInjective
<1>10. Times(s, p) = Cardinality(Places(es, p) \ {i})
  BY <1>4, <1>9, Moved
<1> QED BY <1>4, <1>10 DEF s

LEMMA CutTwoTimes ==
  ASSUME NEW es \in Seq(Permission), Len(es) >= 2, NEW p
  PROVE  /\ SubSeq(es, 1, Len(es) - 2) \in Seq(Permission)
         /\ Times(SubSeq(es, 1, Len(es) - 2), p)
              = Cardinality(Places(es, p) \ {Len(es), Len(es) - 1})
<1> DEFINE D == {Len(es), Len(es) - 1}
           s == SubSeq(es, 1, Len(es) - 2)
           g == [j \in DOMAIN s |-> j]
<1>1. Len(es) \in Nat /\ DOMAIN es = 1..Len(es)
  OBVIOUS
<1>2. /\ s \in Seq(Permission) /\ DOMAIN s = 1..(Len(es) - 2)
      /\ \A j \in 1..(Len(es) - 2) : s[j] = es[j]
  BY <1>1
<1> HIDE DEF s
<1>3. DOMAIN s = DOMAIN es \ D
  BY <1>1, <1>2
<1>4. \A j \in DOMAIN s : s[j] = es[g[j]]
  BY <1>1, <1>2
<1>5. Moves(s, es, D, g)
  BY <1>3, <1>4 DEF Moves, Bijection, Injection, Surjection, IsInjective
<1> HIDE DEF g, D
<1>6. Times(s, p) = Cardinality(Places(es, p) \ D)
  BY <1>2, <1>5, Moved
<1> QED BY <1>2, <1>6 DEF s, D

\* An entry that is appended takes no other away.
LEMMA AppendTimes ==
  ASSUME NEW es \in Seq(Permission), NEW q \in Permission, NEW p
  PROVE  Times(Append(es, q), p) >= Times(es, p)
<1>1. Append(es, q) \in Seq(Permission)
  OBVIOUS
<1>2. Places(es, p) \in SUBSET Places(Append(es, q), p)
  BY DEF Places
<1>3. IsFiniteSet(Places(Append(es, q), p))
  BY <1>1, PlacesFinite
<1>4. Cardinality(Places(es, p)) <= Cardinality(Places(Append(es, q), p))
  BY <1>2, <1>3, FS_Subset
<1> QED BY <1>4, <1>1, PlacesFinite DEF Times

\* What SetPermission takes from a list: one entry, the one it denies or, when
\* that is the last one, the one before it.
LEMMA EntryLost ==
  ASSUME NEW es \in Seq(Permission), NEW q \in Permission, NEW action \in {"allow", "deny"},
         NEW s \in SetEntries(es, q, action), NEW p, Times(s, p) < Times(es, p)
  PROVE  /\ action = "deny" /\ Times(s, p) = Times(es, p) - 1
         /\ q = p \/ (q = es[Len(es)] /\ p = es[Len(es) - 1])
<1>1. /\ s \in Seq(Permission) /\ Times(s, p) \in Nat /\ Times(es, p) \in Nat
      /\ IsFiniteSet(Places(es, p))
  BY EntriesSeq, PlacesFinite
<1>2. action = "deny" /\ FirstOf(es, q) # {}
  <2>1. action # "allow"
    <3>1. SUFFICES ASSUME action = "allow" PROVE FALSE
      OBVIOUS
    <3>2. s = Append(es, q)
      BY <3>1 DEF SetEntries
    <3> QED BY <1>1, <3>2, AppendTimes
  <2>2. s # es
    BY <1>1
  <2> QED BY <2>1, <2>2 DEF SetEntries
<1>3. PICK i \in FirstOf(es, q) : s \in Removed(es, i)
  BY <1>2 DEF SetEntries
<1>4. /\ Len(es) \in Nat /\ DOMAIN es = 1..Len(es) /\ i \in 1..Len(es)
      /\ es[i] = q /\ \A j \in 1..(i - 1) : es[j] # q
  BY DEF FirstOf
<1>5. CASE i = Len(es)
  <2>1. i # 1 /\ s \in Orders(SubSeq(es, 1, Len(es) - 2))
    BY <1>3, <1>5 DEF Removed
  <2>2. /\ SubSeq(es, 1, Len(es) - 2) \in Seq(Permission)
        /\ Times(SubSeq(es, 1, Len(es) - 2), p)
             = Cardinality(Places(es, p) \ {Len(es), Len(es) - 1})
    <3>1. Len(es) >= 2
      BY <1>4, <1>5, <2>1
    <3> QED BY <3>1, CutTwoTimes
  <2>3. Times(s, p) = Cardinality(Places(es, p) \ {Len(es), Len(es) - 1})
    BY <2>1, <2>2, OrdersTimes
  <2> DEFINE rest == Places(es, p) \ {Len(es)}
  <2>4. Places(es, p) \ {Len(es), Len(es) - 1} = rest \ {Len(es) - 1}
    OBVIOUS
  <2>5. /\ IsFiniteSet(rest)
        /\ Cardinality(rest) = IF Len(es) \in Places(es, p) THEN Times(es, p) - 1
                                                            ELSE Times(es, p)
    BY <1>1, FS_RemoveElement DEF Times
  <2>6. Len(es) - 1 \in rest <=> es[Len(es) - 1] = p
    <3>1. Len(es) \in Nat /\ Len(es) > 1
      BY <1>4, <1>5, <2>1
    <3>2. \A n \in Nat : n > 1 => n - 1 \in 1..n /\ n - 1 # n
      OBVIOUS
    <3> QED BY <1>4, <3>1, <3>2 DEF Places
  <2>7. Len(es) \in Places(es, p) <=> q = p
    BY <1>4, <1>5 DEF Places
  <2> HIDE DEF rest
  <2>8. Cardinality(rest \ {Len(es) - 1}) =
          IF Len(es) - 1 \in rest THEN Cardinality(rest) - 1 ELSE Cardinality(rest)
    BY <2>5, FS_RemoveElement
  <2>9. es[Len(es) - 1] # q
    BY <1>4, <1>5, <2>1
  <2>10. Times(s, p) = Cardinality(rest \ {Len(es) - 1})
    BY <2>3, <2>4
  <2>11. CASE q = p
    <3>1. Times(s, p) = Times(es, p) - 1
      BY <2>5, <2>6, <2>7, <2>8, <2>9, <2>10, <2>11
    <3> QED BY <1>2, <2>11, <3>1
  <2>12. CASE q # p
    <3>1. Cardinality(rest) = Times(es, p)
      BY <2>5, <2>7, <2>12
    <3>2. Len(es) - 1 \in rest
      BY <1>1, <2>8, <2>10, <3>1
    <3>3. Times(s, p) = Times(es, p) - 1
      BY <2>8, <2>10, <3>1, <3>2
    <3> QED BY <1>2, <1>4, <1>5, <2>6, <3>2, <3>3
  <2> QED BY <2>11, <2>12
<1>6. CASE i # Len(es)
  <2>1. Times(s, p) = Cardinality(Places(es, p) \ {i})
    <3>1. CASE i = 1
      <4>1. s \in Orders(Tail(es)) /\ es # << >> /\ Tail(es) \in Seq(Permission)
        BY <1>3, <1>4, <1>6, <3>1 DEF Removed
      <4> QED BY <3>1, <4>1, OrdersTimes, TailTimes
    <3>2. CASE i # 1
      <4>1. s \in Orders(MoveLast(es, i))
        BY <1>3, <1>6, <3>2 DEF Removed
      <4>2. i \in DOMAIN es
        BY <1>4
      <4>3. /\ MoveLast(es, i) \in Seq(Permission)
            /\ Times(MoveLast(es, i), p) = Cardinality(Places(es, p) \ {i})
        BY <1>6, <4>2, MoveLastTimes
      <4> QED BY <4>1, <4>3, OrdersTimes
    <3> QED BY <3>1, <3>2
  <2>2. Cardinality(Places(es, p) \ {i}) =
          IF i \in Places(es, p) THEN Times(es, p) - 1 ELSE Times(es, p)
    BY <1>1, FS_RemoveElement DEF Times
  <2>3. i \in Places(es, p) => q = p
    BY <1>4 DEF Places
  <2> QED BY <1>1, <1>2, <2>1, <2>2, <2>3
<1> QED BY <1>5, <1>6
-----------------------------------------------------------------------------
(* The list of a key                                                         *)

\* The entries that a row stands for.
EntriesOf(v) == IF v = None THEN << >> ELSE v

\* The rows change when a call commits, and then only.
LEMMA OnlyCommits ==
  ASSUME KdbIInv, [KdbNext]_kdbVars, db' # db
  PROVE  \E t \in Tx : CommitCall(t)
<1>1. ASSUME NEW t \in Tx, \/ OpsCall(t) \/ SetCall(t) \/ FailCall(t) \/ GetCall(t)
                           \/ RefuseOperation(t) \/ GivesUp(t) \/ Answer(t)
                           \/ \E r \in Request : Call(t, r)
                           \/ \E now \in Time : Verify(t, now)
      PROVE  db' = db
  BY <1>1 DEF OpsCall, Ops, OpenHandle, SetCall, SetBytes, SetStored, SetFails, FailCall, Fail,
              GetCall, GetBytes, GetCached, GetStored, GetFails,
              RefuseOperation, GivesUp, Answer, Call, Verify, vars
<1>2. ASSUME NEW t \in Tx, CloseCall(t) PROVE db' = db
  BY <1>2, CloseTells DEF CloseCall, KdbIInv, Prepared
<1>3. ~KdbCrash /\ ~UNCHANGED kdbVars
  BY DEF KdbCrash, Crash, kdbVars
<1> QED BY <1>1, <1>2, <1>3 DEF KdbNext

LEMMA GrantLost ==
  ASSUME KdbIInv, [KdbNext]_kdbVars, NEW pk \in PubKey, NEW p \in Permission,
         Granted(db, pk, p)' < Granted(db, pk, p)
  PROVE  /\ Granted(db, pk, p)' = Granted(db, pk, p) - 1
         /\ \E t \in Tx, q \in Permission :
              /\ Denies(t, pk, q)
              /\ LET es == db[<<"key-perm", pk>>] IN
                 q = p \/ (q = es[Len(es)] /\ p = es[Len(es) - 1])
<1> DEFINE row == <<"key-perm", pk>>
<1>1. row \in Key /\ row[1] = "key-perm" /\ row[2] = pk
  BY RowsAssumption
<1>2. Granted(db, pk, p) = Times(EntriesOf(db[row]), p)
  BY DEF Granted, EntriesOf, Times, Places
<1>3. Granted(db, pk, p)' = Times(EntriesOf(db'[row]), p)
  BY DEF Granted, EntriesOf, Times, Places
<1> HIDE DEF row
<1>4. EntriesOf(db[row]) \in Seq(Permission)
  BY <1>1 DEF KdbIInv, RowsOK, RowValue, Entries, EntriesOf
<1>5. Times(EntriesOf(db[row]), p) \in Nat
  BY <1>4, PlacesFinite
<1>6. db'[row] # db[row]
  BY <1>2, <1>3, <1>5
<1>7. PICK t \in Tx : CommitCall(t)
  BY <1>6, OnlyCommits
<1>8. PICK v \in Written(call[t].req, db[RowOf(t)]) \cap Value :
        db' = [db EXCEPT ![RowOf(t)] = v]
  BY <1>6, <1>7, CommitCallRows
<1>9. RowOf(t) = row /\ db'[row] = v
  BY <1>1, <1>6, <1>8 DEF KdbIInv, IInv, TypeOK
<1>10. call[t].req \in Request /\ ~Checks(call[t].req)
  BY <1>7 DEF KdbIInv, Flow, CommitCall, At
<1>11. /\ call[t].req.op \in {"allow", "deny"} /\ call[t].req.key = pk
       /\ call[t].req.arg \in Permission
  <2>1. computeKeyLookup(call[t].req)[1] = "key-perm" /\ call[t].req.key = pk
    BY <1>1, <1>9, <1>10, RowKind DEF RowOf
  <2>2. call[t].req.op \in {"allow", "deny"}
    BY <1>10, <2>1, RowKind DEF Checks
  <2> QED BY <1>10, <2>1, <2>2, RowKind
<1> DEFINE q == call[t].req.arg
<1>12. v \in SetEntries(EntriesOf(db[row]), q, call[t].req.op)
  BY <1>8, <1>9, <1>11 DEF Written, EntriesOf
<1>13. EntriesOf(db'[row]) = v
  BY <1>8, <1>9, NoneAssumption DEF EntriesOf
<1>14. /\ call[t].req.op = "deny" /\ Times(v, p) = Times(EntriesOf(db[row]), p) - 1
       /\ \/ q = p
          \/ /\ q = EntriesOf(db[row])[Len(EntriesOf(db[row]))]
             /\ p = EntriesOf(db[row])[Len(EntriesOf(db[row])) - 1]
  BY <1>2, <1>3, <1>4, <1>11, <1>12, <1>13, EntryLost
<1>15. db[row] # None
  <2>1. Places(<< >>, p) = {} /\ Times(<< >>, p) = 0
    BY FS_EmptySet DEF Places, Times
  <2>2. Times(v, p) \in Nat
    BY <1>4, <1>11, <1>12, EntriesSeq, PlacesFinite
  <2> QED BY <1>14, <2>1, <2>2 DEF EntriesOf
<1>16. call[t].req = [op |-> "deny", key |-> pk, arg |-> q]
  BY <1>10, <1>11, <1>14 DEF Request, AdminRequest, CheckRequest, HTTPRequest
<1>17. Denies(t, pk, q)
  BY <1>7, <1>16 DEF Denies, CommitCall
<1>18. EntriesOf(db[row]) = db[<<"key-perm", pk>>]
  BY <1>15 DEF EntriesOf, row
<1> QED BY <1>2, <1>3, <1>11, <1>13, <1>14, <1>17, <1>18

(* A grant is lost one at a time, and only to a call that denies it, or that *)
(* denies the last entry and takes the one before it, however the sessions   *)
(* interleave (static_keydb.go 98-146).                                      *)
THEOREM GrantsSurviving == KdbSpec => GrantsSurvive
<1> DEFINE P(pk, p) ==
       Granted(db, pk, p)' < Granted(db, pk, p) =>
         /\ Granted(db, pk, p)' = Granted(db, pk, p) - 1
         /\ \E t \in Tx, q \in Permission :
              /\ Denies(t, pk, q)
              /\ LET es == db[<<"key-perm", pk>>] IN
                 q = p \/ (q = es[Len(es)] /\ p = es[Len(es) - 1])
<1>1. KdbIInv /\ [KdbNext]_kdbVars
        => [\A pk \in PubKey, p \in Permission : P(pk, p)]_kdbVars
  BY GrantLost
<1> QED BY <1>1, KdbInvariant, PTL DEF KdbSpec, GrantsSurvive
=============================================================================
