---------------------------- MODULE Store_proofs ----------------------------
(***************************************************************************)
(* The store keeps its transactions atomic and their reads true, for any   *)
(* number of handles, keys and values.                                     *)
(***************************************************************************)
EXTENDS Store, TLAPS

(* Why no commit can change what another transaction has read: a commit that *)
(* writes needs everybody else's lock gone, and who has read holds one.      *)
Locking ==
  /\ \A t \in Tx : ~Active(t) => writes[t] = Nothing /\ seen[t] = Unseen
  /\ \A t \in Tx, k \in Key : seen[t][k] # Absent => lock[t] # "none"
  /\ \A t \in Tx : writes[t] # Nothing => lock[t] # "none"

\* Why the handle's error can be trusted: Fail only copies the error of the
\* kvops, and that says ErrTxDone of a finished transaction only.
Handles ==
  /\ HandleTellsTx
  /\ \A t \in Tx : kv[t].err = "ErrTxDone" => ~Active(t)

IInv ==
  TypeOK /\ Locking /\ ReadsStayTrue /\ LocksReleased /\ Handles

TxState == {"none", "nil", "active", "done"}

HandlesTypeOK == ops \in [Tx -> Handle] /\ kv \in [Tx -> KVOps]

-----------------------------------------------------------------------------
(* Handles                                                                   *)

LEMMA NewHandle ==
  ASSUME NEW err \in Err
  PROVE  /\ NewKV(err) \in KVOps
         /\ NoOps \in Handle
         /\ \A tx \in TxState, a \in BOOLEAN :
              [tx |-> tx, err |-> err, autocommit |-> a] \in Handle
  BY DEF NewKV, Unseen, KVOps, NoOps, Handle, TxState, Err

LEMMA LeftHandle ==
  ASSUME TypeOK, NEW t \in Tx, NEW tx \in TxState, NEW err \in Err,
         NEW closing \in BOOLEAN, Left(t, tx, err, closing)
  PROVE  /\ HandlesTypeOK'
         /\ \A u \in Tx \ {t} : ops'[u] = ops[u] /\ kv'[u] = kv[u]
         /\ closing => ops'[t] = NoOps /\ kv'[t] = NewKV("nil")
         /\ ~closing => ops'[t].tx = tx /\ ops'[t].err = err /\ kv'[t] = kv[t]
<1>1. NewKV("nil") \in KVOps /\ NoOps \in Handle
  BY NewHandle DEF Err
<1>2. ops[t].autocommit \in BOOLEAN
  BY DEF TypeOK, Handle
<1>3. [tx |-> tx, err |-> err, autocommit |-> ops[t].autocommit] \in Handle
  BY <1>2, NewHandle
<1>4. HandlesTypeOK'
  BY <1>1, <1>3 DEF Left, TypeOK, HandlesTypeOK
<1> QED BY <1>4 DEF Left, TypeOK

\* A step that leaves the database alone and every live handle alive.
LEMMA HandlesOnly ==
  ASSUME IInv, HandlesTypeOK', Handles',
         reply' \in [value : Value \cup {None}, err : Err \cup {"panic"}],
         \A t \in Tx : Active(t) => Active(t)',
         UNCHANGED <<db, writes, lock, stuck, seen>>
  PROVE  IInv'
<1>1. TypeOK'
  BY DEF IInv, TypeOK, HandlesTypeOK, TxState
<1>2. Locking'
  BY DEF IInv, Locking, Active
<1>3. ReadsStayTrue' /\ LocksReleased'
  BY DEF IInv, ReadsStayTrue, LocksReleased, Active
<1> QED BY <1>1, <1>2, <1>3 DEF IInv

LEMMA OpsStep ==
  ASSUME IInv, NEW t \in Tx, NEW a \in BOOLEAN, Ops(t, a)
  PROVE  IInv'
<1> USE DEF IInv
<1>1. ASSUME NEW tx \in {"active", "nil"}, NEW err \in {"nil", "fault"},
             NEW b \in BOOLEAN, tx = "active" \/ err = "fault", OpenHandle(t, tx, err, b)
      PROVE  IInv'
  <2>1. HandlesTypeOK'
    <3>1. NewKV(err) \in KVOps /\ [tx |-> tx, err |-> err, autocommit |-> b] \in Handle
      BY <1>1, NewHandle DEF Err, TxState
    <3> QED BY <1>1, <3>1 DEF OpenHandle, TypeOK, HandlesTypeOK
  <2>2. reply' \in [value : Value \cup {None}, err : Err \cup {"panic"}]
    BY <1>1 DEF OpenHandle, Returned, Err
  <2>3. /\ ops'[t].tx = tx /\ ops'[t].err = err /\ kv'[t].err = err
        /\ \A u \in Tx \ {t} : ops'[u] = ops[u] /\ kv'[u] = kv[u]
    BY <1>1 DEF OpenHandle, TypeOK, NewKV
  <2>4. Handles' /\ \A u \in Tx : Active(u) => Active(u)'
    BY <1>1, <2>3 DEF Handles, HandleTellsTx, Active, Ops
  <2> QED BY <1>1, <2>1, <2>2, <2>4, HandlesOnly DEF OpenHandle
<1> QED BY <1>1 DEF Ops

LEMMA FailStep ==
  ASSUME IInv, NEW t \in Tx, Fail(t)
  PROVE  IInv'
<1> USE DEF IInv
<1>1. HandlesTypeOK'
  <2>1. ops[t] \in Handle /\ kv[t].err \in Err
    BY DEF TypeOK, KVOps
  <2>2. [ops[t] EXCEPT !.err = IF @ = "nil" THEN kv[t].err ELSE @] \in Handle
    BY <2>1 DEF Handle
  <2> QED BY <2>2 DEF Fail, TypeOK, HandlesTypeOK
<1>2. /\ ops'[t].tx = ops[t].tx
      /\ ops'[t].err = "nil" => ops[t].err = "nil"
      /\ ops'[t].err = "ErrTxDone" => "ErrTxDone" \in {ops[t].err, kv[t].err}
      /\ \A u \in Tx \ {t} : ops'[u] = ops[u]
  BY DEF Fail, TypeOK, Handle
<1>3. Handles' /\ \A u \in Tx : Active(u) => Active(u)'
  BY <1>2 DEF Fail, Handles, HandleTellsTx, Active
<1>4. reply' \in [value : Value \cup {None}, err : Err \cup {"panic"}]
  BY DEF Fail, TypeOK
<1> QED BY <1>1, <1>3, <1>4, HandlesOnly DEF Fail

-----------------------------------------------------------------------------
(* Reading and writing                                                       *)

LEMMA StickyError ==
  ASSUME TypeOK, Handles, NEW t \in Tx, NEW err \in Err,
         kv' = [kv EXCEPT ![t].err = err], UNCHANGED ops,
         err = "ErrTxDone" => ~Active(t)
  PROVE  HandlesTypeOK' /\ Handles'
<1>1. [kv[t] EXCEPT !.err = err] \in KVOps
  <2>1. kv[t] \in KVOps
    BY DEF TypeOK
  <2> QED BY <2>1 DEF KVOps
<1>2. HandlesTypeOK'
  BY <1>1 DEF TypeOK, HandlesTypeOK
<1>3. kv'[t].err = err /\ \A u \in Tx \ {t} : kv'[u] = kv[u]
  BY DEF TypeOK, KVOps
<1> QED BY <1>2, <1>3 DEF Handles, HandleTellsTx, Active

LEMMA GetStep ==
  ASSUME IInv, NEW t \in Tx, NEW k \in Key, GetBytes(t, k)
  PROVE  IInv'
<1> USE DEF IInv
<1>1. kv[t] \in KVOps /\ Visible(t, k) \in Value \cup {None}
  BY DEF TypeOK, Visible
<1>2. CASE GetCached(t, k)
  <2>1. reply' \in [value : Value \cup {None}, err : Err \cup {"panic"}]
    BY <1>1, <1>2 DEF GetCached, Returned, KVOps, Err
  <2>2. HandlesTypeOK' /\ Handles'
    BY <1>2 DEF GetCached, TypeOK, HandlesTypeOK, Handles, HandleTellsTx, Active
  <2> QED BY <1>2, <2>1, <2>2, HandlesOnly DEF GetCached, Active
<1>3. CASE GetFails(t, k)
  <2>1. PICK err \in Err :
          /\ kv' = [kv EXCEPT ![t].err = err]
          /\ reply' = Returned(None, err)
          /\ err = "ErrTxDone" => ~Active(t)
    BY <1>1, <1>3 DEF GetFails, Refused, KVOps, Err, Handles, Active
  <2>2. HandlesTypeOK' /\ Handles'
    BY <1>3, <2>1, StickyError DEF GetFails
  <2>3. reply' \in [value : Value \cup {None}, err : Err \cup {"panic"}]
    BY <2>1 DEF Returned
  <2> QED BY <1>3, <2>2, <2>3, HandlesOnly DEF GetFails, Active
<1>4. CASE GetStored(t, k)
  <2>1. /\ lock' \in [Tx -> {"none", "shared", "reserved"}]
        /\ lock'[t] # "none" /\ \A u \in Tx \ {t} : lock'[u] = lock[u]
    BY <1>4 DEF GetStored, ReadLocked, Share, TypeOK
  <2> DEFINE v == IF writes[t][k] = None THEN db[k] ELSE seen[t][k]
  <2>2. /\ seen' = [seen EXCEPT ![t][k] = v]
        /\ v \in Value \cup {None, Absent}
        /\ v = db[k] \/ v = seen[t][k]
    BY <1>4 DEF GetStored, TypeOK
  <2> HIDE DEF v
  <2>3. /\ seen' \in [Tx -> [Key -> Value \cup {None, Absent}]]
        /\ \A u \in Tx, j \in Key : seen'[u][j] = IF u = t /\ j = k THEN v ELSE seen[u][j]
    BY <2>2 DEF TypeOK
  <2>4. kv' \in [Tx -> KVOps] /\ \A u \in Tx : kv'[u].err = kv[u].err
    <3> DEFINE new == [kv[t] EXCEPT !.cached[k] =
                         IF Visible(t, k) = None THEN Absent ELSE None]
    <3>1. new \in KVOps /\ new.err = kv[t].err
      BY <1>1 DEF KVOps
    <3>2. kv' = [kv EXCEPT ![t] = new]
      BY <1>4 DEF GetStored
    <3> HIDE DEF new
    <3> QED BY <3>1, <3>2 DEF TypeOK
  <2>5. TypeOK'
    BY <1>1, <1>4, <2>1, <2>3, <2>4 DEF GetStored, TypeOK, Returned, Err
  <2>6. Locking'
    <3>1. \A u \in Tx \ {t} : seen'[u] = seen[u]
      BY <2>2 DEF TypeOK
    <3> QED BY <1>4, <2>1, <2>3, <3>1 DEF GetStored, Locking, Active, TypeOK
  <2>7. ReadsStayTrue'
    BY <1>4, <2>2, <2>3 DEF GetStored, ReadsStayTrue, TypeOK
  <2>8. LocksReleased' /\ Handles'
    BY <1>4, <2>1, <2>4 DEF GetStored, LocksReleased, Handles, HandleTellsTx, Active
  <2> QED BY <2>5, <2>6, <2>7, <2>8
<1> QED BY <1>2, <1>3, <1>4 DEF GetBytes

LEMMA SetStep ==
  ASSUME IInv, NEW t \in Tx, NEW k \in Key, NEW v \in Value, SetBytes(t, k, v)
  PROVE  IInv'
<1> USE DEF IInv
<1>1. kv[t] \in KVOps
  BY DEF TypeOK
<1>2. CASE SetFails(t)
  <2>1. PICK err \in Err :
          /\ kv' = [kv EXCEPT ![t].err = err]
          /\ reply' = Returned(None, err)
          /\ err = "ErrTxDone" => ~Active(t)
    BY <1>1, <1>2 DEF SetFails, Refused, KVOps, Err, Handles, Active
  <2>2. HandlesTypeOK' /\ Handles'
    BY <1>2, <2>1, StickyError DEF SetFails
  <2>3. reply' \in [value : Value \cup {None}, err : Err \cup {"panic"}]
    BY <2>1 DEF Returned
  <2> QED BY <1>2, <2>2, <2>3, HandlesOnly DEF SetFails, Active
<1>3. CASE SetStored(t, k, v)
  <2>1. /\ lock' \in [Tx -> {"none", "shared", "reserved"}]
        /\ lock'[t] = "reserved" /\ \A u \in Tx \ {t} : lock'[u] = lock[u]
    BY <1>3 DEF SetStored, Reserve, TypeOK
  <2>2. /\ writes' \in [Tx -> [Key -> Value \cup {None}]]
        /\ \A u \in Tx \ {t} : writes'[u] = writes[u]
    BY <1>3 DEF SetStored, TypeOK
  <2>3. kv' \in [Tx -> KVOps] /\ \A u \in Tx : kv'[u].err = kv[u].err
    <3> DEFINE new == [kv[t] EXCEPT !.cached[k] = v]
    <3>1. new \in KVOps /\ new.err = kv[t].err
      BY <1>1 DEF KVOps
    <3>2. kv' = [kv EXCEPT ![t] = new]
      BY <1>3 DEF SetStored
    <3> HIDE DEF new
    <3> QED BY <3>1, <3>2 DEF TypeOK
  <2>4. TypeOK'
    BY <1>3, <2>1, <2>2, <2>3 DEF SetStored, TypeOK, Returned, Err
  <2>5. Locking'
    BY <1>3, <2>1, <2>2 DEF SetStored, Locking, Active
  <2>6. ReadsStayTrue' /\ LocksReleased' /\ Handles'
    BY <1>3, <2>1, <2>3 DEF SetStored, ReadsStayTrue, LocksReleased, Handles, HandleTellsTx, Active
  <2> QED BY <2>4, <2>5, <2>6
<1> QED BY <1>2, <1>3 DEF SetBytes

-----------------------------------------------------------------------------
(* Ending a transaction                                                      *)

ReplyOK == reply \in [value : Value \cup {None}, err : Err \cup {"panic"}]

\* What the end of the transaction of t does to the database and its locks.
Over(t) ==
  /\ writes' = [writes EXCEPT ![t] = Nothing]
  /\ seen' = [seen EXCEPT ![t] = Unseen]
  /\ \/ lock' = [lock EXCEPT ![t] = "none"] /\ stuck' = stuck
     \/ lock' = lock /\ stuck' = stuck \cup {t}
  /\ db' \in [Key -> Value \cup {None}]
  /\ \A u \in Tx \ {t} : seen[u] # Unseen => db' = db

\* What it does to the handles: closed, or failed and done.
Ended(t) ==
  /\ HandlesTypeOK'
  /\ \A u \in Tx \ {t} : ops'[u] = ops[u] /\ kv'[u] = kv[u]
  /\ \/ ops'[t] = NoOps
     \/ ops'[t].tx # "active" /\ ops'[t].err # "nil"

LEMMA TxOver ==
  ASSUME IInv, NEW t \in Tx, Over(t), Ended(t), ReplyOK'
  PROVE  IInv'
<1> USE DEF IInv
<1>1. TypeOK'
  <2>1. writes' \in [Tx -> [Key -> Value \cup {None}]]
    BY DEF Over, TypeOK, Nothing
  <2>2. seen' \in [Tx -> [Key -> Value \cup {None, Absent}]]
    BY DEF Over, TypeOK, Unseen
  <2>3. lock' \in [Tx -> {"none", "shared", "reserved"}] /\ stuck' \in SUBSET Tx
    BY DEF Over, TypeOK
  <2> QED BY <2>1, <2>2, <2>3 DEF Over, Ended, HandlesTypeOK, ReplyOK, TypeOK
<1>2. /\ writes'[t] = Nothing /\ seen'[t] = Unseen /\ ~Active(t)'
      /\ \A u \in Tx \ {t} : writes'[u] = writes[u] /\ seen'[u] = seen[u]
                             /\ lock'[u] = lock[u] /\ Active(u)' = Active(u)
  BY DEF Over, Ended, TypeOK, Active, NoOps
<1>3. Locking'
  BY <1>2 DEF Locking, Unseen
<1>4. ReadsStayTrue'
  <2> SUFFICES ASSUME NEW u \in Tx, NEW k \in Key, seen'[u][k] # Absent
               PROVE  seen'[u][k] = db'[k]
    BY DEF ReadsStayTrue
  <2>1. u # t
    BY <1>2 DEF Unseen
  <2>2. seen[u][k] # Absent /\ seen[u] # Unseen
    BY <1>2, <2>1 DEF Unseen
  <2> QED BY <1>2, <2>1, <2>2 DEF Over, ReadsStayTrue
<1>5. LocksReleased'
  BY <1>2 DEF LocksReleased, Over, TypeOK
<1>6. Handles'
  BY <1>2 DEF Handles, HandleTellsTx, Ended, NoOps, Active
<1> QED BY <1>1, <1>3, <1>4, <1>5, <1>6

\* The handle's side: a call that leaves it closed, or failed and done.
LEMMA LeftEnds ==
  ASSUME IInv, NEW t \in Tx, NEW tx \in TxState \ {"active"}, NEW err \in Err \ {"nil"},
         NEW closing \in BOOLEAN, Left(t, tx, err, closing)
  PROVE  Ended(t)
BY LeftHandle DEF IInv, Ended

LEMMA AppliedEnds ==
  ASSUME IInv, NEW t \in Tx, NEW closing \in BOOLEAN, Applied(t, closing)
  PROVE  Over(t) /\ Ended(t)
<1>1. Ended(t)
  BY LeftEnds DEF Applied, TxState, Err
<1>2. db' \in [Key -> Value \cup {None}]
  BY DEF Applied, Visible, IInv, TypeOK
<1>3. ASSUME NEW u \in Tx \ {t}, seen[u] # Unseen PROVE db' = db
  <2>1. CASE writes[t] = Nothing
    BY <2>1 DEF Applied, Visible, Nothing, IInv, TypeOK
  <2>2. CASE ~OthersHold(t, {"shared", "reserved"})
    <3>1. PICK k \in Key : seen[u][k] # Absent
      BY <1>3 DEF IInv, TypeOK, Unseen
    <3>2. lock[u] \in {"shared", "reserved"}
      BY <3>1 DEF IInv, TypeOK, Locking
    <3> QED BY <2>2, <3>2 DEF OthersHold
  <2> QED BY <2>1, <2>2 DEF Applied
<1> QED BY <1>1, <1>2, <1>3 DEF Applied, Release, Over

LEMMA NotAppliedEnds ==
  ASSUME IInv, NEW t \in Tx, NEW closing \in BOOLEAN, NotApplied(t, closing)
  PROVE  Over(t) /\ Ended(t)
<1>1. Ended(t)
  BY LeftEnds DEF NotApplied, TxState, Err
<1> QED BY <1>1 DEF NotApplied, Release, Over, IInv, TypeOK

LEMMA RolledBackEnds ==
  ASSUME IInv, NEW t \in Tx, NEW err \in Err \ {"nil"}, NEW closing \in BOOLEAN,
         RolledBack(t, err, closing)
  PROVE  Over(t) /\ Ended(t)
<1>1. CASE Release(t) /\ Left(t, "done", err, closing) /\ UNCHANGED <<db, stuck>>
  <2>1. Ended(t)
    BY <1>1, LeftEnds DEF TxState, Err
  <2> QED BY <1>1, <2>1 DEF Release, Over, IInv, TypeOK
<1> QED BY <1>1, NotAppliedEnds DEF RolledBack

\* A call that returns an error, or panics, on a handle with no live
\* transaction or without giving the handle up.
LEMMA ReturnsStep ==
  ASSUME IInv, NEW t \in Tx, NEW err \in Err \cup {"panic"}, NEW closing \in BOOLEAN,
         Returns(t, err, closing), Active(t) => ~closing
  PROVE  IInv'
<1>1. ops[t].tx \in TxState /\ ops[t].err \in Err
  BY DEF IInv, TypeOK, Handle, TxState
<1>2. /\ HandlesTypeOK'
      /\ \A u \in Tx \ {t} : ops'[u] = ops[u] /\ kv'[u] = kv[u]
      /\ closing => ops'[t] = NoOps /\ kv'[t] = NewKV("nil")
      /\ ~closing => /\ ops'[t].tx = ops[t].tx /\ ops'[t].err = ops[t].err
                     /\ kv'[t] = kv[t]
  BY <1>1, LeftHandle DEF Returns, IInv
<1>3. Handles' /\ \A u \in Tx : Active(u) => Active(u)'
  BY <1>2 DEF Handles, HandleTellsTx, Active, IInv, NoOps, NewKV
<1>4. reply' \in [value : Value \cup {None}, err : Err \cup {"panic"}]
  BY DEF Returns, Returned
<1> QED BY <1>2, <1>3, <1>4, HandlesOnly DEF Returns

LEMMA CommitStep ==
  ASSUME IInv, NEW t \in Tx, NEW closing \in BOOLEAN, CommitThen(t, closing),
         closing => ops[t].err = "nil"
  PROVE  IInv'
<1>1. CASE ~MayCommit(t) /\ Returns(t, ops[t].err, closing)
  <2>1. ops[t].err \in Err
    BY DEF IInv, TypeOK, Handle
  <2> QED BY <1>1, <2>1, ReturnsStep DEF MayCommit
<1>2. CASE /\ Applied(t, closing) \/ NotApplied(t, closing)
           /\ reply' = Returned(None, "nil")
  <2>1. Over(t) /\ Ended(t)
    BY <1>2, AppliedEnds, NotAppliedEnds
  <2>2. ReplyOK'
    BY <1>2 DEF ReplyOK, Returned, Err
  <2> QED BY <2>1, <2>2, TxOver
<1> QED BY <1>1, <1>2 DEF CommitThen

LEMMA RollbackStep ==
  ASSUME IInv, NEW t \in Tx, NEW closing \in BOOLEAN, RollbackThen(t, closing)
  PROVE  IInv'
<1>1. ops[t].err \in Err
  BY DEF IInv, TypeOK, Handle
<1>2. CASE /\ ops[t].err = "ErrTxDone" \/ (ops[t].err # "nil" /\ ops[t].tx = "done")
           /\ Returns(t, ops[t].err, closing)
  BY <1>1, <1>2, ReturnsStep DEF IInv, Handles, HandleTellsTx, Active
<1>3. CASE ops[t].tx = "nil" /\ Returns(t, "panic", TRUE)
  BY <1>3, ReturnsStep DEF Active
<1>4. CASE /\ RolledBack(t, IF ops[t].err = "nil" THEN "ErrTxDone" ELSE ops[t].err, closing)
           /\ reply' = Returned(None, ops[t].err)
  <2>1. Over(t) /\ Ended(t)
    BY <1>1, <1>4, RolledBackEnds DEF Err
  <2>2. ReplyOK'
    BY <1>1, <1>4 DEF ReplyOK, Returned
  <2> QED BY <2>1, <2>2, TxOver
<1> QED BY <1>2, <1>3, <1>4 DEF RollbackThen

-----------------------------------------------------------------------------
(* Theorems                                                                  *)

LEMMA CrashStep ==
  ASSUME IInv, Crash
  PROVE  IInv'
<1>1. NewKV("nil") \in KVOps /\ NoOps \in Handle
  BY NewHandle DEF Err
<1>2. TypeOK'
  BY <1>1 DEF Crash, IInv, TypeOK, Nothing, Unseen, Returned, Err
<1>3. Locking' /\ ReadsStayTrue' /\ LocksReleased'
  BY DEF Crash, Locking, ReadsStayTrue, LocksReleased, Unseen
<1>4. Handles'
  BY DEF Crash, Handles, HandleTellsTx, Active, NoOps, NewKV
<1> QED BY <1>2, <1>3, <1>4 DEF IInv

LEMMA InductiveInvariant == Spec => []IInv
<1>1. Init => IInv
  <2> SUFFICES ASSUME Init PROVE IInv
    OBVIOUS
  <2>1. NewKV("nil") \in KVOps /\ NoOps \in Handle
    BY NewHandle DEF Err
  <2>2. TypeOK
    BY <2>1 DEF Init, TypeOK, Nothing, Unseen, Returned, Err
  <2>3. Locking /\ ReadsStayTrue /\ LocksReleased
    BY DEF Init, Locking, ReadsStayTrue, LocksReleased, Unseen
  <2>4. Handles
    BY DEF Init, Handles, HandleTellsTx, Active, NoOps, NewKV
  <2> QED BY <2>2, <2>3, <2>4 DEF IInv
<1>2. IInv /\ [Next]_vars => IInv'
  <2> SUFFICES ASSUME IInv, [Next]_vars PROVE IInv'
    OBVIOUS
  <2>1. ASSUME NEW t \in Tx, NEW a \in BOOLEAN, Ops(t, a) PROVE IInv'
    BY <2>1, OpsStep
  <2>2. ASSUME NEW t \in Tx, NEW k \in Key, GetBytes(t, k) PROVE IInv'
    BY <2>2, GetStep
  <2>3. ASSUME NEW t \in Tx, NEW k \in Key, NEW v \in Value, SetBytes(t, k, v)
        PROVE  IInv'
    BY <2>3, SetStep
  <2>4. ASSUME NEW t \in Tx, Fail(t) PROVE IInv'
    BY <2>4, FailStep
  <2>5. ASSUME NEW t \in Tx, Commit(t) PROVE IInv'
    BY <2>5, CommitStep DEF Commit
  <2>6. ASSUME NEW t \in Tx, Rollback(t) PROVE IInv'
    BY <2>6, RollbackStep DEF Rollback
  <2>7. ASSUME NEW t \in Tx, Close(t) PROVE IInv'
    BY <2>7, CommitStep, RollbackStep DEF Close
  <2>8. CASE Crash
    BY <2>8, CrashStep
  <2>9. CASE UNCHANGED vars
    BY <2>9 DEF vars, IInv, TypeOK, Locking, ReadsStayTrue, LocksReleased, Handles,
                HandleTellsTx, Active
  <2> QED
    BY <2>1, <2>2, <2>3, <2>4, <2>5, <2>6, <2>7, <2>8, <2>9 DEF Next
<1> QED BY <1>1, <1>2, PTL DEF Spec

(* Every variable of the store keeps its type.                               *)
THEOREM TypeCorrect == Spec => []TypeOK
<1>1. IInv => TypeOK
  BY DEF IInv
<1> QED BY <1>1, InductiveInvariant, PTL

(* What a transaction has read stays true until it ends (kv.go 27-67 over    *)
(* the handle's sql.Tx), whoever reads, writes, commits or crashes meanwhile.*)
THEOREM ReadsCorrect == Spec => []ReadsStayTrue
<1>1. IInv => ReadsStayTrue
  BY DEF IInv
<1> QED BY <1>1, InductiveInvariant, PTL

(* No lock outlives its transaction except after a failed end: every path    *)
(* through Commit, Rollback and Close ends the sql.Tx (ops.go 36-82).        *)
THEOREM LocksCorrect == Spec => []LocksReleased
<1>1. IInv => LocksReleased
  BY DEF IInv
<1> QED BY <1>1, InductiveInvariant, PTL

(* The handle's error says whether there is a live sql.Tx (ops.go 36-67).    *)
THEOREM HandlesCorrect == Spec => []HandleTellsTx
<1>1. IInv => HandleTellsTx
  BY DEF IInv, Handles
<1> QED BY <1>1, InductiveInvariant, PTL

-----------------------------------------------------------------------------
(* The store implements AtomicStore                                          *)

Opened == {t \in Tx : Active(t)}

LEMMA SameOpened ==
  ASSUME \A t \in Tx : Active(t)' = Active(t)
  PROVE  Opened' = Opened
  BY DEF Opened

LEMMA OpsRefines ==
  ASSUME IInv, NEW t \in Tx, NEW a \in BOOLEAN, Ops(t, a)
  PROVE  [Abstract!Next]_(Abstract!vars)
<1>1. UNCHANGED <<db, writes>> /\ \A u \in Tx \ {t} : Active(u)' = Active(u)
  BY DEF Ops, OpenHandle, IInv, TypeOK, Active
<1>2. ~Active(t)
  BY DEF Ops, Active
<1>3. CASE Active(t)'
  <2>1. t \notin Opened /\ Opened' = Opened \cup {t}
    BY <1>1, <1>2, <1>3 DEF Opened
  <2> QED BY <1>1, <2>1 DEF Opened, Abstract!Next, Abstract!Begin
<1>4. CASE ~Active(t)'
  <2>1. Opened' = Opened
    BY <1>1, <1>2, <1>4 DEF Opened
  <2> QED BY <1>1, <2>1 DEF Opened, Abstract!vars
<1> QED BY <1>3, <1>4

LEMMA SetRefines ==
  ASSUME IInv, NEW t \in Tx, NEW k \in Key, NEW v \in Value, SetBytes(t, k, v)
  PROVE  [Abstract!Next]_(Abstract!vars)
<1>1. Opened' = Opened
  BY SameOpened DEF SetBytes, SetStored, SetFails, Active
<1>2. CASE SetStored(t, k, v)
  <2>1. t \in Opened
    BY <1>2 DEF SetStored, Opened, Active
  <2>2. db' = db /\ writes' = [writes EXCEPT ![t][k] = v]
    BY <1>2 DEF SetStored
  <2>3. Abstract!Write(t, k, v)
    BY <1>1, <2>1, <2>2 DEF Abstract!Write, Opened
  <2> QED BY <2>3 DEF Abstract!Next
<1>3. CASE SetFails(t)
  BY <1>1, <1>3 DEF SetFails, Opened, Abstract!vars
<1> QED BY <1>2, <1>3 DEF SetBytes

\* The end of the transaction of t, applied or not.
LEMMA EndedOpened ==
  ASSUME IInv, NEW t \in Tx, Ended(t)
  PROVE  Opened' = Opened \ {t}
  BY DEF Ended, NoOps, Opened, Active

LEMMA DropRefines ==
  ASSUME IInv, NEW t \in Tx, Over(t), Ended(t), UNCHANGED db
  PROVE  [Abstract!Next]_(Abstract!vars)
<1>1. Opened' = Opened \ {t}
  BY EndedOpened
<1>2. writes' = [u \in Tx |-> IF u \in {t} THEN Nothing ELSE writes[u]]
  BY DEF Over, IInv, TypeOK
<1>3. Nothing = Abstract!Nothing
  BY DEF Nothing, Abstract!Nothing
<1>4. Abstract!Drop({t})
  BY <1>1, <1>2, <1>3 DEF Abstract!Drop, Opened
<1> QED BY <1>4 DEF Abstract!Next

LEMMA AppliedRefines ==
  ASSUME IInv, NEW t \in Tx, NEW closing \in BOOLEAN, Applied(t, closing), Active(t)
  PROVE  [Abstract!Next]_(Abstract!vars)
<1>1. Opened' = Opened \ {t} /\ t \in Opened
  BY AppliedEnds, EndedOpened DEF Opened
<1>2. db' = Abstract!Overlay(db, writes[t])
  BY DEF Applied, Visible, Abstract!Overlay
<1>3. writes' = [writes EXCEPT ![t] = Abstract!Nothing]
  BY DEF Applied, Release, Nothing, Abstract!Nothing
<1>4. Abstract!Apply(t)
  BY <1>1, <1>2, <1>3 DEF Abstract!Apply, Opened
<1> QED BY <1>4 DEF Abstract!Next

\* An error returned: a handle that is closed had no live transaction.
LEMMA ReturnsRefines ==
  ASSUME IInv, NEW t \in Tx, NEW err, NEW closing \in BOOLEAN,
         Returns(t, err, closing), Active(t) => ~closing
  PROVE  [Abstract!Next]_(Abstract!vars)
<1>1. \A u \in Tx : Active(u)' = Active(u)
  BY DEF Returns, Left, NoOps, Active, IInv, TypeOK
<1>2. Opened' = Opened
  BY <1>1, SameOpened
<1> QED BY <1>2 DEF Returns, Opened, Abstract!vars

LEMMA CommitRefines ==
  ASSUME IInv, NEW t \in Tx, NEW closing \in BOOLEAN, CommitThen(t, closing),
         ops[t].tx # "none", closing => ops[t].err = "nil"
  PROVE  [Abstract!Next]_(Abstract!vars)
<1>1. CASE ~MayCommit(t) /\ Returns(t, ops[t].err, closing)
  BY <1>1, ReturnsRefines DEF MayCommit
<1>2. CASE MayCommit(t) /\ Applied(t, closing)
  <2>1. Active(t)
    BY <1>2 DEF MayCommit, IInv, Handles, HandleTellsTx
  <2> QED BY <1>2, <2>1, AppliedRefines
<1>3. CASE NotApplied(t, closing)
  BY <1>3, NotAppliedEnds, DropRefines DEF NotApplied
<1> QED BY <1>1, <1>2, <1>3 DEF CommitThen

LEMMA RollbackRefines ==
  ASSUME IInv, NEW t \in Tx, NEW closing \in BOOLEAN, RollbackThen(t, closing)
  PROVE  [Abstract!Next]_(Abstract!vars)
<1>1. CASE /\ ops[t].err = "ErrTxDone" \/ (ops[t].err # "nil" /\ ops[t].tx = "done")
           /\ Returns(t, ops[t].err, closing)
  BY <1>1, ReturnsRefines DEF IInv, Handles, HandleTellsTx, Active
<1>2. CASE ops[t].tx = "nil" /\ Returns(t, "panic", TRUE)
  BY <1>2, ReturnsRefines DEF Active
<1>3. CASE RolledBack(t, IF ops[t].err = "nil" THEN "ErrTxDone" ELSE ops[t].err, closing)
  <2>1. ops[t].err \in Err
    BY DEF IInv, TypeOK, Handle
  <2>2. Over(t) /\ Ended(t)
    BY <1>3, <2>1, RolledBackEnds DEF Err
  <2>3. UNCHANGED db
    BY <1>3 DEF RolledBack, NotApplied
  <2> QED BY <2>2, <2>3, DropRefines
<1> QED BY <1>1, <1>2, <1>3 DEF RollbackThen

LEMMA CrashRefines ==
  ASSUME IInv, Crash
  PROVE  [Abstract!Next]_(Abstract!vars)
<1>1. Opened' = {}
  BY DEF Crash, NoOps, Opened, Active
<1>2. writes' = [u \in Tx |-> IF u \in Tx THEN Abstract!Nothing ELSE writes[u]]
  BY DEF Crash, Nothing, Abstract!Nothing
<1>3. Abstract!Drop(Tx)
  BY <1>1, <1>2 DEF Abstract!Drop, Opened, Crash
<1> QED BY <1>3 DEF Abstract!Next

(* The store implements atomic transactions (ops.go, kv.go): the content     *)
(* changes by all the writes of one live handle's commit or not at all.      *)
THEOREM Refinement == Spec => ImplementsAtomicStore
<1>1. Init => Abstract!Init
  BY DEF Init, Abstract!Init, Nothing, Abstract!Nothing, Active, NoOps
<1>2. IInv /\ [Next]_vars => [Abstract!Next]_(Abstract!vars)
  <2> SUFFICES ASSUME IInv, [Next]_vars PROVE [Abstract!Next]_(Abstract!vars)
    OBVIOUS
  <2>1. ASSUME NEW t \in Tx, \/ \E k \in Key : GetBytes(t, k)
                             \/ Fail(t) \/ UNCHANGED vars
        PROVE  [Abstract!Next]_(Abstract!vars)
    <3>1. \A u \in Tx : Active(u)' = Active(u)
      <4>1. CASE Fail(t)
        BY <4>1 DEF Fail, Active, IInv, TypeOK, Handle
      <4>2. CASE UNCHANGED ops
        BY <4>2 DEF Active
      <4> QED
        BY <2>1, <4>1, <4>2 DEF GetBytes, GetCached, GetStored, GetFails, vars
    <3>2. Opened' = Opened
      BY <3>1, SameOpened
    <3> QED
      BY <2>1, <3>2 DEF GetBytes, GetCached, GetStored, GetFails, Fail, vars, Opened, Abstract!vars
  <2>2. ASSUME NEW t \in Tx, Commit(t) \/ Rollback(t) \/ Close(t)
        PROVE  [Abstract!Next]_(Abstract!vars)
    BY <2>2, CommitRefines, RollbackRefines DEF Commit, Rollback, Close
  <2>3. CASE UNCHANGED vars
    BY <2>3 DEF vars, Abstract!vars, Active
  <2> QED
    BY <2>1, <2>2, <2>3, OpsRefines, SetRefines, CrashRefines DEF Next
<1> QED
  BY <1>1, <1>2, InductiveInvariant, PTL
     DEF Spec, ImplementsAtomicStore, Abstract!Spec
=============================================================================
