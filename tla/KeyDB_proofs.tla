---------------------------- MODULE KeyDB_proofs ----------------------------
(***************************************************************************)
(* The key database keeps its promises for any number of sessions, keys,   *)
(* configurations, permissions and registrations.                          *)
(***************************************************************************)
EXTENDS KeyDB, Store_proofs

RowOf(t) == computeKeyLookup(call[t].req)

\* The one row that t has written, made from the value that it has read.
Put(t) ==
  \E old \in Value \cup {None} :
    /\ call[t].req.op \in {"allow", "deny"} => seen[t][RowOf(t)] = old
    /\ \E v \in Written(call[t].req, old) \cap Value :
         writes[t] = [Nothing EXCEPT ![RowOf(t)] = v]

\* What a session holds at each step of its call.
Prepared(t) ==
  /\ ops[t].autocommit = FALSE
  /\ call[t].pc \in {"get", "set", "verify"} => writes[t] = Nothing
  /\ At(t, "get") => kv[t].cached = Unseen
  /\ call[t].pc \in {"verify", "close"} /\ call[t].got # None
       => seen[t][RowOf(t)] = call[t].got
  /\ At(t, "set") /\ call[t].req.op \in {"allow", "deny"} /\ kv[t].err = "nil"
       => seen[t][RowOf(t)] = call[t].got
  /\ At(t, "fail") /\ kv[t].err = "nil" => Put(t)
  /\ At(t, "commit") /\ ops[t].err = "nil" => Put(t)

\* Where a call of each kind can be.
Flow(t) ==
  /\ At(t, "idle") => call[t] = Answered(call[t].ok)
  /\ ~At(t, "idle") => call[t].req \in Request
  /\ call[t].pc \in {"set", "fail", "commit"} => ~Checks(call[t].req)
  /\ call[t].pc \in {"verify", "answer"} => Checks(call[t].req)
  /\ ~At(t, "idle") => ~call[t].ok
  /\ At(t, "answer") /\ call[t].got # None => \E now \in Time : Valid(call[t].got, now)
  /\ At(t, "close") /\ Checks(call[t].req) /\ call[t].got # None
       => \E now \in Time : Valid(call[t].got, now)
  /\ At(t, "get") => call[t].req.op # "put"
  /\ At(t, "set") /\ call[t].req.op = "put" => call[t].got = None

RowsOK == \A k \in Key : db[k] \in RowValue(k) \cup {None}

KdbIInv ==
  /\ IInv
  /\ call \in [Tx -> CallState]
  /\ \A t \in Tx : Flow(t) /\ Prepared(t)
  /\ RowsOK

-----------------------------------------------------------------------------
(* Rows and what is written to them                                          *)

LEMMA RowKind ==
  ASSUME NEW r \in Request
  PROVE  /\ computeKeyLookup(r) \in Key
         /\ computeKeyLookup(r)[2] = r.key
         /\ r.op \in {"put", "allow", "deny", "authN", "authZ", "request"}
         /\ r.op \in {"allow", "deny"} => computeKeyLookup(r)[1] = "key-perm" /\ r.arg \in Permission
         /\ r.op = "request" => /\ computeKeyLookup(r)[1] = "key-reg"
                                /\ r.arg \in Registration /\ KeyOf[r.arg] = r.key
         /\ r.op = "put" => computeKeyLookup(r)[1] = "key" /\ r.arg \in Config
         /\ Checks(r) => computeKeyLookup(r)[1] = "key"
<1>1. r.key \in PubKey
  BY FieldsAssumption DEF Request, AdminRequest, CheckRequest, HTTPRequest
<1>2. \A kind \in {"key", "key-perm", "key-reg"} : <<kind, r.key>> \in Key
  BY <1>1, RowsAssumption
<1> QED
  BY <1>2 DEF Request, AdminRequest, CheckRequest, HTTPRequest, computeKeyLookup, Checks

LEMMA OrdersSeq ==
  ASSUME NEW es \in Seq(Permission), NEW s \in Orders(es)
  PROVE  s \in Seq(Permission)
<1>1. PICK f \in Bijection(DOMAIN es, DOMAIN es) : s = [i \in DOMAIN es |-> es[f[i]]]
  BY DEF Orders
<1>2. f \in [DOMAIN es -> DOMAIN es]
  BY <1>1 DEF Bijection, Injection
<1>3. DOMAIN es = 1..Len(es) /\ Len(es) \in Nat /\ \A i \in 1..Len(es) : es[i] \in Permission
  OBVIOUS
<1>4. s \in [1..Len(es) -> Permission]
  BY <1>1, <1>2, <1>3
<1> QED BY <1>3, <1>4

LEMMA EntriesSeq ==
  ASSUME NEW es \in Seq(Permission), NEW p \in Permission, NEW action \in {"allow", "deny"},
         NEW s \in SetEntries(es, p, action)
  PROVE  s \in Seq(Permission)
<1>1. CASE action = "allow"
  BY <1>1 DEF SetEntries
<1>2. CASE action = "deny" /\ FirstOf(es, p) # {}
  <2>1. PICK i \in FirstOf(es, p) : s \in Removed(es, i)
    BY <1>2 DEF SetEntries
  <2>2. /\ Len(es) \in Nat /\ DOMAIN es = 1..Len(es)
        /\ \A j \in 1..Len(es) : es[j] \in Permission
        /\ i \in 1..Len(es)
    BY DEF FirstOf
  <2>3. CASE i = Len(es)
    <3>1. i # 1 /\ s \in Orders(SubSeq(es, 1, i - 2))
      BY <2>1, <2>3 DEF Removed
    <3>2. SubSeq(es, 1, i - 2) \in Seq(Permission)
      BY <2>2, <3>1
    <3> QED BY <3>1, <3>2, OrdersSeq
  <2>4. CASE i = 1 /\ i # Len(es)
    <3>1. Tail(es) \in Seq(Permission)
      BY <2>2
    <3> QED BY <2>1, <2>4, <3>1, OrdersSeq DEF Removed
  <2>5. CASE i # 1 /\ i # Len(es)
    <3> DEFINE moved == [es EXCEPT ![i] = es[Len(es)]]
    <3>1. moved \in Seq(Permission) /\ Len(moved) = Len(es)
      BY <2>2
    <3>2. SubSeq(moved, 1, Len(es) - 1) \in Seq(Permission)
      <4> HIDE DEF moved
      <4> QED BY <2>2, <3>1
    <3>3. s \in Orders(SubSeq(moved, 1, Len(es) - 1))
      BY <2>1, <2>5 DEF Removed, MoveLast
    <3> QED BY <3>2, <3>3, OrdersSeq
  <2> QED BY <2>3, <2>4, <2>5
<1>3. CASE action = "deny" /\ FirstOf(es, p) = {}
  BY <1>3 DEF SetEntries
<1> QED BY <1>1, <1>2, <1>3

\* What a request writes is of the type of its row.
LEMMA WrittenRow ==
  ASSUME NEW r \in Request, NEW old \in RowValue(computeKeyLookup(r)) \cup {None},
         NEW v \in Written(r, old) \cap Value
  PROVE  v \in RowValue(computeKeyLookup(r))
<1>1. CASE r.op \in {"put", "request"}
  <2>1. v = r.arg
    BY <1>1 DEF Written
  <2> QED BY <1>1, <2>1, RowKind DEF RowValue
<1>2. CASE r.op \in {"allow", "deny"}
  <2>1. old \in Entries \cup {None} /\ r.arg \in Permission
    BY <1>2, RowKind DEF RowValue
  <2> DEFINE es == IF old = None THEN << >> ELSE old
  <2>2. es \in Seq(Permission)
    BY <2>1 DEF Entries
  <2>3. v \in SetEntries(es, r.arg, r.op)
    BY <1>2 DEF Written
  <2> HIDE DEF es
  <2>4. v \in Seq(Permission)
    BY <1>2, <2>1, <2>2, <2>3, EntriesSeq
  <2> QED BY <1>2, <2>4, RowKind DEF RowValue, Entries
<1>3. CASE Checks(r)
  BY <1>3 DEF Checks, Written
<1> QED BY <1>1, <1>2, <1>3, RowKind DEF Checks
-----------------------------------------------------------------------------
(* What a call of the store does to its own handle, and to no other          *)

OthersKept(t) ==
  \A u \in Tx \ {t} : /\ ops'[u] = ops[u] /\ kv'[u] = kv[u]
                      /\ writes'[u] = writes[u] /\ seen'[u] = seen[u]

LEMMA OpsTells ==
  ASSUME IInv, NEW t \in Tx, Ops(t, FALSE)
  PROVE  /\ OthersKept(t) /\ UNCHANGED <<db, writes>>
         /\ ops'[t].autocommit = FALSE /\ kv'[t].cached = Unseen
         /\ writes[t] = Nothing
<1>1. writes[t] = Nothing
  BY DEF Ops, IInv, Locking, Active
<1> QED BY <1>1 DEF Ops, OpenHandle, OthersKept, NewKV, IInv, TypeOK

LEMMA GetTells ==
  ASSUME IInv, NEW t \in Tx, NEW k \in Key, GetBytes(t, k),
         writes[t] = Nothing, kv[t].cached = Unseen
  PROVE  /\ OthersKept(t) /\ UNCHANGED <<db, ops, writes>>
         /\ reply'.value \in Value \cup {None}
         /\ kv'[t].err = "nil" \/ reply'.value # None => seen'[t][k] = reply'.value
<1>1. Visible(t, k) = db[k] /\ db[k] \in Value \cup {None} /\ kv[t].cached[k] = Absent
  BY DEF Visible, Nothing, Unseen, IInv, TypeOK
<1>2. kv[t] \in KVOps
  BY DEF IInv, TypeOK
<1>3. CASE GetStored(t, k)
  <2>1. reply'.value = db[k]
    BY <1>1, <1>3 DEF GetStored, Returned
  <2>2. seen'[t][k] = db[k]
    BY <1>3 DEF GetStored, IInv, TypeOK, Nothing
  <2>3. \A u \in Tx \ {t} : kv'[u] = kv[u] /\ seen'[u] = seen[u]
    BY <1>3 DEF GetStored, IInv, TypeOK
  <2> QED BY <1>1, <1>3, <2>1, <2>2, <2>3 DEF GetStored, OthersKept
<1>4. CASE GetFails(t, k)
  <2>1. PICK err \in Err \ {"nil"} :
          kv' = [kv EXCEPT ![t].err = err] /\ reply' = Returned(None, err)
    BY <1>2, <1>4 DEF GetFails, Refused, KVOps, Err
  <2>2. kv'[t].err = err /\ \A u \in Tx \ {t} : kv'[u] = kv[u]
    BY <1>2, <2>1 DEF IInv, TypeOK, KVOps
  <2> QED BY <1>4, <2>1, <2>2 DEF GetFails, OthersKept, Returned
<1> QED BY <1>1, <1>3, <1>4 DEF GetBytes, GetCached

LEMMA SetTells ==
  ASSUME IInv, NEW t \in Tx, NEW k \in Key, NEW v \in Value, SetBytes(t, k, v),
         writes[t] = Nothing
  PROVE  /\ OthersKept(t) /\ UNCHANGED <<db, ops, seen>>
         /\ kv'[t].err = "nil" => writes'[t] = [Nothing EXCEPT ![k] = v]
<1>1. kv[t] \in KVOps
  BY DEF IInv, TypeOK
<1>2. CASE SetStored(t, k, v)
  BY <1>2 DEF SetStored, OthersKept, IInv, TypeOK
<1>3. CASE SetFails(t)
  <2>1. PICK err \in Err \ {"nil"} : kv' = [kv EXCEPT ![t].err = err]
    BY <1>1, <1>3 DEF SetFails, Refused, KVOps, Err
  <2>2. kv'[t].err = err /\ \A u \in Tx \ {t} : kv'[u] = kv[u]
    BY <1>1, <2>1 DEF IInv, TypeOK, KVOps
  <2> QED BY <1>3, <2>2 DEF SetFails, OthersKept
<1> QED BY <1>2, <1>3 DEF SetBytes

LEMMA FailTells ==
  ASSUME IInv, NEW t \in Tx, Fail(t)
  PROVE  /\ OthersKept(t) /\ UNCHANGED <<db, writes, seen>>
         /\ ops'[t].autocommit = ops[t].autocommit
         /\ ops'[t].err = "nil" => kv[t].err = "nil"
BY DEF Fail, OthersKept, IInv, TypeOK, Handle

LEMMA LeftKeeps ==
  ASSUME IInv, NEW t \in Tx, NEW tx, NEW err, NEW closing \in BOOLEAN,
         Left(t, tx, err, closing), ops[t].autocommit = FALSE
  PROVE  /\ ops'[t].autocommit = FALSE
         /\ \A u \in Tx \ {t} : ops'[u] = ops[u] /\ kv'[u] = kv[u]
BY DEF Left, NoOps, IInv, TypeOK

LEMMA NotAppliedTells ==
  ASSUME IInv, NEW t \in Tx, NEW closing \in BOOLEAN, NotApplied(t, closing),
         ops[t].autocommit = FALSE
  PROVE  OthersKept(t) /\ UNCHANGED db /\ ops'[t].autocommit = FALSE
<1>0. Left(t, "done", "fault", closing)
  BY DEF NotApplied
<1>1. /\ ops'[t].autocommit = FALSE
      /\ \A u \in Tx \ {t} : ops'[u] = ops[u] /\ kv'[u] = kv[u]
  BY <1>0, LeftKeeps
<1>2. writes' = [writes EXCEPT ![t] = Nothing] /\ seen' = [seen EXCEPT ![t] = Unseen]
  BY DEF NotApplied, Release
<1> QED BY <1>1, <1>2 DEF NotApplied, OthersKept, IInv, TypeOK

LEMMA CommitTellsAll ==
  ASSUME IInv, NEW t \in Tx, Commit(t), ops[t].autocommit = FALSE
  PROVE  /\ OthersKept(t) /\ ops'[t].autocommit = FALSE
         /\ \/ UNCHANGED db
            \/ ops[t].err = "nil" /\ db' = [k \in Key |-> Visible(t, k)]
<1>1. CASE Returns(t, ops[t].err, FALSE)
  BY <1>1, LeftKeeps DEF Returns, OthersKept
<1>2. CASE ops[t].err = "nil" /\ Applied(t, FALSE)
  BY <1>2, LeftKeeps DEF Applied, Release, OthersKept, IInv, TypeOK
<1>3. CASE NotApplied(t, FALSE)
  BY <1>3, NotAppliedTells
<1> QED BY <1>1, <1>2, <1>3 DEF Commit, CommitThen, MayCommit

LEMMA CloseTells ==
  ASSUME IInv, NEW t \in Tx, Close(t), ops[t].autocommit = FALSE
  PROVE  OthersKept(t) /\ ops'[t].autocommit = FALSE /\ UNCHANGED db
<1>1. ASSUME NEW err, Returns(t, err, TRUE)
      PROVE  OthersKept(t) /\ ops'[t].autocommit = FALSE /\ UNCHANGED db
  BY <1>1, LeftKeeps DEF Returns, OthersKept
<1>2. ASSUME NEW err, Release(t), Left(t, "done", err, TRUE), UNCHANGED db
      PROVE  OthersKept(t) /\ ops'[t].autocommit = FALSE
  BY <1>2, LeftKeeps DEF Release, OthersKept, IInv, TypeOK
<1> QED BY <1>1, <1>2, NotAppliedTells DEF Close, RollbackThen, RolledBack
-----------------------------------------------------------------------------
(* The steps of a call keep the invariant                                    *)

\* Nobody's step disturbs what another session holds.
LEMMA OthersPrepared ==
  ASSUME NEW t \in Tx, NEW u \in Tx \ {t}, OthersKept(t), call'[u] = call[u],
         Flow(u), Prepared(u)
  PROVE  Flow(u)' /\ Prepared(u)'
<1>1. /\ ops'[u] = ops[u] /\ kv'[u] = kv[u] /\ writes'[u] = writes[u] /\ seen'[u] = seen[u]
  BY DEF OthersKept
<1>2. Flow(u)'
  BY DEF Flow, At
<1>3. Put(u) => Put(u)'
  BY <1>1 DEF Put, RowOf
<1>4. Prepared(u)'
  BY <1>1, <1>3 DEF Prepared, At, RowOf
<1> QED BY <1>2, <1>4

\* What is left to show of a step of t.
LEMMA StepKeeps ==
  ASSUME KdbIInv, NEW t \in Tx, OthersKept(t), IInv',
         NEW c \in CallState, call' = [call EXCEPT ![t] = c],
         Flow(t)', Prepared(t)', RowsOK'
  PROVE  KdbIInv'
<1>1. call' \in [Tx -> CallState]
  BY DEF KdbIInv
<1>2. ASSUME NEW u \in Tx \ {t} PROVE Flow(u)' /\ Prepared(u)'
  <2>1. call'[u] = call[u]
    BY DEF KdbIInv
  <2> QED BY <2>1, OthersPrepared DEF KdbIInv
<1> QED BY <1>1, <1>2 DEF KdbIInv

LEMMA SameStore ==
  ASSUME KdbIInv, UNCHANGED vars
  PROVE  IInv' /\ RowsOK' /\ \A t \in Tx : OthersKept(t)
<1>1. UNCHANGED <<db, ops, kv, writes, lock, stuck, seen, reply>>
  BY DEF vars
<1>2. IInv'
  BY <1>1 DEF KdbIInv, IInv, TypeOK, Locking, ReadsStayTrue, LocksReleased, Handles,
              HandleTellsTx, Active
<1> QED BY <1>1, <1>2 DEF KdbIInv, RowsOK, OthersKept

LEMMA GotoState ==
  ASSUME KdbIInv, NEW t \in Tx,
         NEW pc \in {"get", "set", "fail", "commit", "verify", "close"}, Goto(t, pc)
  PROVE  \E c \in CallState :
           /\ call' = [call EXCEPT ![t] = c] /\ call'[t] = c
           /\ c.pc = pc /\ c.req = call[t].req /\ c.got = None /\ c.ok = call[t].ok
<1> DEFINE c == Doing(pc, call[t].req, None, call[t].ok)
<1>1. call[t] \in CallState
  BY DEF KdbIInv
<1>2. c \in CallState
  BY <1>1 DEF CallState, Doing
<1>3. c.pc = pc /\ c.req = call[t].req /\ c.got = None /\ c.ok = call[t].ok
  BY DEF Doing
<1>4. call' = [call EXCEPT ![t] = c]
  BY DEF Goto
<1> HIDE DEF c
<1> QED BY <1>2, <1>3, <1>4 DEF KdbIInv

LEMMA CallStep ==
  ASSUME KdbIInv, NEW t \in Tx, NEW r \in Request, Call(t, r)
  PROVE  KdbIInv'
<1> DEFINE c == Doing("ops", r, None, FALSE)
<1>1. c \in CallState
  BY DEF CallState, Doing
<1>2. call' = [call EXCEPT ![t] = c]
  BY DEF Call
<1>3. c.pc = "ops" /\ c.req = r /\ ~c.ok
  BY DEF Doing
<1> HIDE DEF c
<1>4. call'[t] = c
  BY <1>2 DEF KdbIInv
<1>5. Flow(t)'
  BY <1>3, <1>4 DEF Flow, At
<1>6. Prepared(t)'
  BY <1>3, <1>4 DEF Prepared, At, Call, vars, KdbIInv
<1> QED BY <1>1, <1>2, <1>5, <1>6, SameStore, StepKeeps DEF Call

LEMMA OpsCallStep ==
  ASSUME KdbIInv, NEW t \in Tx, OpsCall(t)
  PROVE  KdbIInv'
<1> DEFINE pc == IF call[t].req.op = "put" THEN "set" ELSE "get"
<1>1. PICK c \in CallState :
        /\ call' = [call EXCEPT ![t] = c] /\ call'[t] = c
        /\ c.pc = pc /\ c.req = call[t].req /\ c.got = None /\ c.ok = call[t].ok
  BY GotoState DEF OpsCall
<1>2. /\ OthersKept(t) /\ UNCHANGED <<db, writes>>
      /\ ops'[t].autocommit = FALSE /\ kv'[t].cached = Unseen
      /\ writes[t] = Nothing
  BY OpsTells DEF OpsCall, KdbIInv
<1>3. call[t].req \in Request
  BY DEF KdbIInv, Flow, OpsCall, At
<1>4. Flow(t)'
  BY <1>1, <1>3 DEF Flow, At, Checks, KdbIInv, OpsCall
<1>5. Prepared(t)'
  BY <1>1, <1>2 DEF Prepared, At
<1>6. IInv' /\ RowsOK'
  BY <1>2, OpsStep DEF OpsCall, KdbIInv, RowsOK
<1> QED BY <1>1, <1>2, <1>4, <1>5, <1>6, StepKeeps

LEMMA GetCallStep ==
  ASSUME KdbIInv, NEW t \in Tx, GetCall(t)
  PROVE  KdbIInv'
<1> DEFINE pc == IF Checks(call[t].req) THEN "verify" ELSE "set"
           c == Doing(pc, call[t].req, Decoded(call[t].req, reply'.value), FALSE)
<1>1. call[t].req \in Request /\ RowOf(t) \in Key /\ call[t] \in CallState
  BY RowKind DEF KdbIInv, Flow, GetCall, At, RowOf
<1>2. /\ OthersKept(t) /\ UNCHANGED <<db, ops, writes>>
      /\ reply'.value \in Value \cup {None}
      /\ kv'[t].err = "nil" \/ reply'.value # None => seen'[t][RowOf(t)] = reply'.value
      /\ writes[t] = Nothing /\ ops[t].autocommit = FALSE
  BY <1>1, GetTells DEF GetCall, KdbIInv, Prepared, At, RowOf
<1>3. c \in CallState
  BY <1>1, <1>2 DEF CallState, Doing, Decoded
<1>4. call' = [call EXCEPT ![t] = c]
  BY DEF GetCall
<1>5. /\ c.pc = pc /\ c.req = call[t].req /\ ~c.ok
      /\ c.got = IF call[t].req.op = "request" THEN None ELSE reply'.value
  BY DEF Doing, Decoded
<1> HIDE DEF c
<1>6. call'[t] = c
  BY <1>4 DEF KdbIInv
<1>7. RowOf(t)' = RowOf(t)
  BY <1>5, <1>6 DEF RowOf
<1>8. Flow(t)'
  <2>1. call[t].req.op # "put"
    BY DEF KdbIInv, Flow, GetCall, At
  <2> QED BY <1>1, <1>5, <1>6, <2>1 DEF Flow, At, Idle, Answered, Doing
<1>9. Prepared(t)'
  BY <1>2, <1>5, <1>6, <1>7 DEF Prepared, At
<1>10. IInv' /\ RowsOK'
  BY <1>1, <1>2, GetStep DEF GetCall, KdbIInv, RowsOK, RowOf
<1> QED BY <1>2, <1>3, <1>4, <1>8, <1>9, <1>10, StepKeeps

\* What was read is what the row still holds.
LEMMA ReadIsCurrent ==
  ASSUME KdbIInv, NEW t \in Tx, NEW k \in Key, NEW v \in Value \cup {None}, seen[t][k] = v
  PROVE  db[k] = v
BY AbsentAssumption DEF KdbIInv, IInv, ReadsStayTrue

LEMMA SetCallStep ==
  ASSUME KdbIInv, NEW t \in Tx, SetCall(t)
  PROVE  KdbIInv'
<1>1. call[t].req \in Request /\ ~Checks(call[t].req) /\ RowOf(t) \in Key
  BY RowKind DEF KdbIInv, Flow, SetCall, At, RowOf
<1>2. PICK c \in CallState :
        /\ call' = [call EXCEPT ![t] = c] /\ call'[t] = c
        /\ c.pc = "fail" /\ c.req = call[t].req /\ c.got = None /\ c.ok = call[t].ok
  BY GotoState DEF SetCall
<1>3. PICK v \in Written(call[t].req, call[t].got) \cap Value : SetBytes(t, RowOf(t), v)
  BY DEF SetCall, RowOf
<1>4. /\ OthersKept(t) /\ UNCHANGED <<db, ops, seen>>
      /\ kv'[t].err = "nil" => writes'[t] = [Nothing EXCEPT ![RowOf(t)] = v]
      /\ ops[t].autocommit = FALSE
  BY <1>1, <1>3, SetTells DEF KdbIInv, Prepared, SetCall, At
<1>5. RowOf(t)' = RowOf(t)
  BY <1>2 DEF RowOf
<1>6. kv'[t].err = "nil" => kv[t].err = "nil"
  <2>1. kv[t] \in KVOps
    BY DEF KdbIInv, IInv, TypeOK
  <2>2. CASE SetFails(t)
    <3>1. PICK err \in Err \ {"nil"} : kv' = [kv EXCEPT ![t].err = err]
      BY <2>1, <2>2 DEF SetFails, Refused, KVOps, Err
    <3> QED BY <2>1, <3>1 DEF KdbIInv, IInv, TypeOK, KVOps
  <2> QED BY <1>3, <2>2 DEF SetBytes, SetStored
<1>7. kv'[t].err = "nil" => Put(t)'
  <2> SUFFICES ASSUME kv'[t].err = "nil" PROVE Put(t)'
    OBVIOUS
  <2>1. call[t].got \in Value \cup {None}
    BY DEF KdbIInv, CallState
  <2>2. call[t].req.op \in {"allow", "deny"} => seen'[t][RowOf(t)] = call[t].got
    BY <1>4, <1>6 DEF KdbIInv, Prepared, SetCall, At
  <2> QED BY <1>2, <1>3, <1>4, <1>5, <2>1, <2>2 DEF Put
<1>8. Flow(t)'
  BY <1>1, <1>2 DEF Flow, At, KdbIInv, SetCall
<1>9. Prepared(t)'
  BY <1>2, <1>4, <1>7 DEF Prepared, At
<1>10. IInv' /\ RowsOK'
  BY <1>1, <1>3, <1>4, SetStep DEF KdbIInv, RowsOK
<1> QED BY <1>2, <1>4, <1>8, <1>9, <1>10, StepKeeps

LEMMA GivesUpStep ==
  ASSUME KdbIInv, NEW t \in Tx, GivesUp(t)
  PROVE  KdbIInv'
<1>1. PICK c \in CallState :
        /\ call' = [call EXCEPT ![t] = c] /\ call'[t] = c
        /\ c.pc = "close" /\ c.req = call[t].req /\ c.got = None /\ c.ok = call[t].ok
  BY GotoState DEF GivesUp
<1>2. Flow(t)' /\ Prepared(t)'
  BY <1>1 DEF Flow, Prepared, At, Idle, Answered, Doing, KdbIInv, GivesUp, vars
<1> QED BY <1>1, <1>2, SameStore, StepKeeps DEF GivesUp

LEMMA FailCallStep ==
  ASSUME KdbIInv, NEW t \in Tx, FailCall(t)
  PROVE  KdbIInv'
<1>1. PICK c \in CallState :
        /\ call' = [call EXCEPT ![t] = c] /\ call'[t] = c
        /\ c.pc = "commit" /\ c.req = call[t].req /\ c.got = None /\ c.ok = call[t].ok
  BY GotoState DEF FailCall
<1>2. /\ OthersKept(t) /\ UNCHANGED <<db, writes, seen>>
      /\ ops'[t].autocommit = FALSE
      /\ ops'[t].err = "nil" => kv[t].err = "nil"
  BY FailTells DEF FailCall, KdbIInv, Prepared
<1>3. Put(t) => Put(t)'
  BY <1>1, <1>2 DEF Put, RowOf
<1>4. Flow(t)' /\ Prepared(t)'
  BY <1>1, <1>2, <1>3 DEF Flow, Prepared, At, Idle, Answered, Doing, KdbIInv, FailCall
<1>5. IInv' /\ RowsOK'
  BY <1>2, FailStep DEF FailCall, KdbIInv, RowsOK
<1> QED BY <1>1, <1>2, <1>4, <1>5, StepKeeps

\* What the commit of t does to the rows.
LEMMA CommitCallRows ==
  ASSUME KdbIInv, NEW t \in Tx, CommitCall(t)
  PROVE  \/ UNCHANGED db
         \/ \E v \in Written(call[t].req, db[RowOf(t)]) \cap Value :
              db' = [db EXCEPT ![RowOf(t)] = v]
<1> SUFFICES ASSUME db' # db
             PROVE  \E v \in Written(call[t].req, db[RowOf(t)]) \cap Value :
                      db' = [db EXCEPT ![RowOf(t)] = v]
  OBVIOUS
<1>1. call[t].req \in Request /\ ~Checks(call[t].req) /\ RowOf(t) \in Key
  BY RowKind DEF KdbIInv, Flow, CommitCall, At, RowOf
<1>2. ops[t].err = "nil" /\ db' = [k \in Key |-> Visible(t, k)]
  BY CommitTellsAll DEF CommitCall, KdbIInv, Prepared
<1>3. Put(t)
  BY <1>2 DEF KdbIInv, Prepared, CommitCall
<1>4. PICK old \in Value \cup {None} :
        /\ call[t].req.op \in {"allow", "deny"} => seen[t][RowOf(t)] = old
        /\ \E v \in Written(call[t].req, old) \cap Value :
             writes[t] = [Nothing EXCEPT ![RowOf(t)] = v]
  BY <1>3 DEF Put
<1>5. PICK v \in Written(call[t].req, old) \cap Value :
        writes[t] = [Nothing EXCEPT ![RowOf(t)] = v]
  BY <1>4
<1>6. db' = [db EXCEPT ![RowOf(t)] = v]
  BY <1>1, <1>2, <1>5, NoneAssumption DEF Visible, Nothing, KdbIInv, IInv, TypeOK
<1>7. v \in Written(call[t].req, db[RowOf(t)])
  <2>1. CASE call[t].req.op \in {"allow", "deny"}
    BY <1>1, <1>4, <1>5, <2>1, ReadIsCurrent
  <2>2. CASE call[t].req.op \in {"put", "request"}
    BY <1>5, <2>2 DEF Written
  <2> QED BY <1>1, <2>1, <2>2, RowKind DEF Checks
<1> QED BY <1>5, <1>6, <1>7

LEMMA CommitCallStep ==
  ASSUME KdbIInv, NEW t \in Tx, CommitCall(t)
  PROVE  KdbIInv'
<1>1. PICK c \in CallState :
        /\ call' = [call EXCEPT ![t] = c] /\ call'[t] = c
        /\ c.pc = "close" /\ c.req = call[t].req /\ c.got = None /\ c.ok = call[t].ok
  BY GotoState DEF CommitCall
<1>2. OthersKept(t) /\ ops'[t].autocommit = FALSE
  BY CommitTellsAll DEF CommitCall, KdbIInv, Prepared
<1>3. Flow(t)' /\ Prepared(t)'
  BY <1>1, <1>2 DEF Flow, Prepared, At, Idle, Answered, Doing, KdbIInv, CommitCall
<1>4. IInv'
  BY CommitStep DEF CommitCall, Commit, KdbIInv
<1>5. RowsOK'
  <2>1. CASE UNCHANGED db
    BY <2>1 DEF KdbIInv, RowsOK
  <2>2. ASSUME NEW v \in Written(call[t].req, db[RowOf(t)]) \cap Value,
               db' = [db EXCEPT ![RowOf(t)] = v]
        PROVE  RowsOK'
    <3>1. call[t].req \in Request /\ RowOf(t) \in Key
      BY RowKind DEF KdbIInv, Flow, CommitCall, At, RowOf
    <3>2. v \in RowValue(RowOf(t))
      BY <2>2, <3>1, WrittenRow DEF KdbIInv, RowsOK, RowOf
    <3> QED BY <2>2, <3>1, <3>2 DEF KdbIInv, RowsOK, IInv, TypeOK
  <2> QED BY <2>1, <2>2, CommitCallRows
<1> QED BY <1>1, <1>2, <1>3, <1>4, <1>5, StepKeeps

\* A step of t that ends its request.
LEMMA AnsweredStep ==
  ASSUME KdbIInv, NEW t \in Tx, NEW ok \in BOOLEAN,
         call' = [call EXCEPT ![t] = Answered(ok)],
         OthersKept(t), ops'[t].autocommit = FALSE, IInv', RowsOK'
  PROVE  KdbIInv'
<1>1. Answered(ok) \in CallState /\ call'[t] = Answered(ok)
  BY DEF Answered, Doing, CallState, KdbIInv
<1>2. Flow(t)' /\ Prepared(t)'
  BY <1>1 DEF Flow, Prepared, At, Answered, Doing
<1> QED BY <1>1, <1>2, StepKeeps

LEMMA RefuseOperationStep ==
  ASSUME KdbIInv, NEW t \in Tx, RefuseOperation(t)
  PROVE  KdbIInv'
<1>1. ops'[t].autocommit = FALSE
  BY DEF RefuseOperation, vars, KdbIInv, Prepared
<1> QED BY <1>1, SameStore, AnsweredStep DEF RefuseOperation

LEMMA AnswerStep ==
  ASSUME KdbIInv, NEW t \in Tx, Answer(t)
  PROVE  KdbIInv'
<1>1. ops'[t].autocommit = FALSE
  BY DEF Answer, vars, KdbIInv, Prepared
<1>2. Grants(call[t].req, call[t].got) \in BOOLEAN
  BY DEF Grants
<1>3. call' = [call EXCEPT ![t] = Answered(Grants(call[t].req, call[t].got))]
  BY DEF Answer
<1> QED BY <1>1, <1>2, <1>3, SameStore, AnsweredStep DEF Answer

LEMMA CloseCallStep ==
  ASSUME KdbIInv, NEW t \in Tx, CloseCall(t)
  PROVE  KdbIInv'
<1>1. OthersKept(t) /\ ops'[t].autocommit = FALSE /\ UNCHANGED db
  BY CloseTells DEF CloseCall, KdbIInv, Prepared
<1>2. IInv' /\ RowsOK'
  BY <1>1, CommitStep, RollbackStep DEF CloseCall, Close, KdbIInv, RowsOK
<1>3. CASE Checks(call[t].req)
  <2> DEFINE c == Doing("answer", call[t].req, call[t].got, FALSE)
  <2>1. call[t] \in CallState
    BY DEF KdbIInv
  <2>2. c \in CallState
    BY <2>1 DEF CallState, Doing
  <2>3. call' = [call EXCEPT ![t] = c]
    BY <1>3 DEF CloseCall
  <2>4. c.pc = "answer" /\ c.req = call[t].req /\ c.got = call[t].got /\ ~c.ok
    BY DEF Doing
  <2> HIDE DEF c
  <2>5. call'[t] = c
    BY <2>3 DEF KdbIInv
  <2>6. Flow(t)'
    BY <1>3, <2>4, <2>5 DEF Flow, At, KdbIInv, CloseCall
  <2>7. Prepared(t)'
    BY <1>1, <2>4, <2>5 DEF Prepared, At
  <2> QED BY <1>1, <1>2, <2>2, <2>3, <2>6, <2>7, StepKeeps
<1>4. CASE ~Checks(call[t].req)
  BY <1>1, <1>2, <1>4, AnsweredStep DEF CloseCall, Idle
<1> QED BY <1>3, <1>4

LEMMA VerifyStep ==
  ASSUME KdbIInv, NEW t \in Tx, NEW now \in Time, Verify(t, now)
  PROVE  KdbIInv'
<1> DEFINE got == IF Valid(call[t].got, now) THEN call[t].got ELSE None
           c == Doing("close", call[t].req, got, FALSE)
<1>1. call[t] \in CallState
  BY DEF KdbIInv
<1>2. c \in CallState
  BY <1>1 DEF CallState, Doing
<1>3. call' = [call EXCEPT ![t] = c]
  BY DEF Verify
<1>4. c.pc = "close" /\ c.req = call[t].req /\ c.got = got /\ ~c.ok
  BY DEF Doing
<1> HIDE DEF c
<1>5. call'[t] = c
  BY <1>3 DEF KdbIInv
<1>6. Flow(t)'
  BY <1>4, <1>5 DEF Flow, At, KdbIInv, Verify
<1>7. Prepared(t)'
  <2>1. UNCHANGED <<ops, kv, writes, seen>>
    BY DEF Verify, vars
  <2>2. got # None => seen[t][RowOf(t)] = got
    BY DEF KdbIInv, Prepared, Verify, At
  <2> QED BY <1>4, <1>5, <2>1, <2>2 DEF Prepared, At, KdbIInv, RowOf
<1> QED BY <1>2, <1>3, <1>6, <1>7, SameStore, StepKeeps DEF Verify

LEMMA KdbCrashStep ==
  ASSUME KdbIInv, KdbCrash
  PROVE  KdbIInv'
<1>1. call' \in [Tx -> CallState] /\ \A t \in Tx : call'[t] = Idle
  BY DEF KdbCrash, Idle, Answered, Doing, CallState
<1>2. \A t \in Tx : ops'[t].autocommit = FALSE
  BY DEF KdbCrash, Crash, NoOps
<1>3. \A t \in Tx : Flow(t)' /\ Prepared(t)'
  BY <1>1, <1>2 DEF Flow, Prepared, At, Idle, Answered, Doing
<1> QED BY <1>1, <1>3, CrashStep DEF KdbCrash, Crash, KdbIInv, RowsOK

-----------------------------------------------------------------------------
(* Theorems                                                                  *)

LEMMA InitKdb ==
  ASSUME KdbInit
  PROVE  KdbIInv
<1>1. NewKV("nil") \in KVOps /\ NoOps \in Handle
  BY NewHandle DEF Err
<1>2. TypeOK
  BY <1>1 DEF KdbInit, Init, TypeOK, Nothing, Unseen, Returned, Err
<1>3. Locking /\ ReadsStayTrue /\ LocksReleased
  BY DEF KdbInit, Init, Locking, ReadsStayTrue, LocksReleased, Unseen
<1>4. Handles
  BY DEF KdbInit, Init, Handles, HandleTellsTx, Active, NoOps, NewKV
<1>5. call \in [Tx -> CallState] /\ \A t \in Tx : call[t] = Idle
  BY DEF KdbInit, Idle, Answered, Doing, CallState
<1>6. \A t \in Tx : Flow(t) /\ Prepared(t)
  BY <1>5 DEF Flow, Prepared, At, Idle, Answered, Doing, KdbInit, Init, NoOps
<1>7. RowsOK
  BY DEF KdbInit, Init, Nothing, RowsOK
<1> QED BY <1>2, <1>3, <1>4, <1>5, <1>6, <1>7 DEF KdbIInv, IInv

LEMMA NextKdb ==
  ASSUME KdbIInv, [KdbNext]_kdbVars
  PROVE  KdbIInv'
<1>1. ASSUME NEW t \in Tx, NEW r \in Request, Call(t, r) PROVE KdbIInv'
  BY <1>1, CallStep
<1>2. ASSUME NEW t \in Tx, \/ RefuseOperation(t) \/ OpsCall(t) \/ GetCall(t)
                           \/ SetCall(t) \/ GivesUp(t)
      PROVE  KdbIInv'
  BY <1>2, RefuseOperationStep, OpsCallStep, GetCallStep, SetCallStep, GivesUpStep
<1>3. ASSUME NEW t \in Tx, FailCall(t) \/ CommitCall(t) \/ CloseCall(t) \/ Answer(t)
      PROVE  KdbIInv'
  BY <1>3, FailCallStep, CommitCallStep, CloseCallStep, AnswerStep
<1>4. ASSUME NEW t \in Tx, NEW now \in Time, Verify(t, now) PROVE KdbIInv'
  BY <1>4, VerifyStep
<1>5. CASE UNCHANGED kdbVars
  <2>1. UNCHANGED vars /\ UNCHANGED call
    BY <1>5 DEF kdbVars, vars
  <2>2. ASSUME NEW t \in Tx PROVE Flow(t)' /\ Prepared(t)'
    <3>1. Put(t) => Put(t)'
      BY <2>1 DEF vars, Put, RowOf
    <3> QED BY <2>1, <3>1 DEF vars, KdbIInv, Flow, Prepared, At, RowOf
  <2> QED BY <2>1, <2>2, SameStore DEF KdbIInv
<1> QED BY <1>1, <1>2, <1>3, <1>4, <1>5, KdbCrashStep DEF KdbNext

LEMMA KdbInvariant == KdbSpec => []KdbIInv
BY InitKdb, NextKdb, PTL DEF KdbSpec

(* The rows of the three kinds never mix (static_keydb.go 105, 200): what a  *)
(* session writes is of the kind of the row that it computes, whatever it    *)
(* has read and however many entries it sorts.                               *)
THEOREM KdbTypeCorrect == KdbSpec => []KdbTypeOK
<1>1. KdbIInv => KdbTypeOK
  BY DEF KdbIInv, KdbTypeOK, IInv, Flow, RowsOK
<1> QED BY <1>1, KdbInvariant, PTL

(* What a check has read stays the row's value until its transaction ends,   *)
(* and a yes is given from such a value, valid then and listing the host     *)
(* (static_keydb.go 148-169, 191-209).                                       *)
THEOREM GrantsCurrent == KdbSpec => GrantsAreCurrent
<1> DEFINE Current == \A t \in Tx :
             call[t].pc \in {"verify", "close"} /\ call[t].got # None =>
               db[computeKeyLookup(call[t].req)] = call[t].got
           P(t) == ~call[t].ok /\ call'[t].ok =>
                     /\ \E now \in Time : Valid(call[t].got, now)
                     /\ Grants(call[t].req, call[t].got)
<1>1. KdbIInv => Current
  <2> SUFFICES ASSUME KdbIInv, NEW t \in Tx,
                      call[t].pc \in {"verify", "close"}, call[t].got # None
               PROVE  db[RowOf(t)] = call[t].got
    BY DEF RowOf
  <2>1. call[t].req \in Request /\ RowOf(t) \in Key
    BY RowKind DEF KdbIInv, Flow, At, RowOf
  <2>2. call[t].got \in Value \cup {None}
    BY DEF KdbIInv, CallState
  <2>3. seen[t][RowOf(t)] = call[t].got
    BY DEF KdbIInv, Prepared
  <2> QED BY <2>1, <2>2, <2>3, ReadIsCurrent
<1>2. ASSUME KdbIInv, [KdbNext]_kdbVars, NEW t \in Tx, ~call[t].ok, call'[t].ok
      PROVE  /\ \E now \in Time : Valid(call[t].got, now)
             /\ Grants(call[t].req, call[t].got)
  <2>1. ~Idle.ok
    BY DEF Idle, Answered, Doing
  <2>2. ASSUME NEW u \in Tx, NEW pc, Goto(u, pc) PROVE FALSE
    BY <1>2, <2>2 DEF Goto, Doing, KdbIInv
  <2>3. ASSUME NEW u \in Tx, \/ \E r \in Request : Call(u, r)
                             \/ \E now \in Time : Verify(u, now)
                             \/ RefuseOperation(u) \/ GetCall(u) \/ CloseCall(u)
        PROVE  FALSE
    BY <1>2, <2>1, <2>3
       DEF Call, Verify, RefuseOperation, GetCall, CloseCall, Answered, Doing, KdbIInv
  <2>4. PICK u \in Tx : Answer(u)
    <3>1. ~KdbCrash /\ ~UNCHANGED kdbVars
      BY <1>2, <2>1 DEF KdbCrash, kdbVars
    <3>2. ASSUME NEW u \in Tx,
                 OpsCall(u) \/ SetCall(u) \/ GivesUp(u) \/ FailCall(u) \/ CommitCall(u)
          PROVE  FALSE
      BY <2>2, <3>2 DEF OpsCall, SetCall, GivesUp, FailCall, CommitCall
    <3> QED BY <1>2, <2>3, <3>1, <3>2 DEF KdbNext
  <2>5. u = t /\ Grants(call[t].req, call[t].got)
    BY <1>2, <2>4 DEF Answer, Answered, Doing, KdbIInv
  <2> QED BY <1>2, <2>4, <2>5 DEF Answer, Grants, KdbIInv, Flow, At
<1>3. KdbIInv /\ [KdbNext]_kdbVars => [\A t \in Tx : P(t)]_kdbVars
  BY <1>2
<1> QED BY <1>1, <1>3, KdbInvariant, PTL DEF KdbSpec, GrantsAreCurrent

-----------------------------------------------------------------------------
(* The key database only ever uses the store as a caller may                 *)

LEMMA StoreSteps ==
  ASSUME KdbIInv, [KdbNext]_kdbVars
  PROVE  [Next]_vars
<1>1. ASSUME NEW t \in Tx, ~At(t, "idle")
      PROVE  RowOf(t) \in Key
  BY <1>1, RowKind DEF KdbIInv, Flow, RowOf
<1>2. ASSUME NEW t \in Tx, GetCall(t) PROVE Next
  <2>1. RowOf(t) \in Key /\ GetBytes(t, RowOf(t))
    BY <1>1, <1>2 DEF GetCall, At, RowOf
  <2> QED BY <2>1 DEF Next
<1>3. ASSUME NEW t \in Tx, SetCall(t) PROVE Next
  <2>1. PICK v \in Value : SetBytes(t, RowOf(t), v)
    BY <1>3 DEF SetCall, RowOf
  <2>2. RowOf(t) \in Key
    BY <1>1, <1>3 DEF SetCall, At
  <2> QED BY <2>1, <2>2 DEF Next
<1>4. ASSUME NEW t \in Tx, OpsCall(t) \/ FailCall(t) \/ CommitCall(t) \/ CloseCall(t)
      PROVE  Next
  <2>1. \/ \E autocommit \in BOOLEAN : Ops(t, autocommit)
        \/ Fail(t) \/ Commit(t) \/ Close(t)
    BY <1>4 DEF OpsCall, FailCall, CommitCall, CloseCall
  <2> QED BY <2>1 DEF Next
<1>5. ASSUME NEW t \in Tx, \/ \E r \in Request : Call(t, r)
                           \/ RefuseOperation(t) \/ GivesUp(t) \/ Answer(t)
                           \/ \E now \in Time : Verify(t, now)
      PROVE  UNCHANGED vars
  BY <1>5 DEF Call, RefuseOperation, GivesUp, Answer, Verify
<1>6. KdbCrash => Next
  BY DEF KdbCrash, Next
<1>7. UNCHANGED kdbVars => UNCHANGED vars
  BY DEF kdbVars, vars
<1> QED BY <1>2, <1>3, <1>4, <1>5, <1>6, <1>7 DEF KdbNext

LEMMA KdbUsesStore == KdbSpec => Spec
<1>1. KdbInit => Init
  BY DEF KdbInit
<1>2. KdbIInv /\ [KdbNext]_kdbVars => [Next]_vars
  BY StoreSteps
<1> QED BY <1>1, <1>2, KdbInvariant, PTL DEF KdbSpec, Spec

(* What the store promises to any caller holds of the key database's calls:  *)
(* each registration, and each change of a permission, is applied as one     *)
(* atomic transaction or not at all, and what it has read is still true when *)
(* it is applied (static_keydb.go 78-189 on ops.go and kv.go).               *)
THEOREM KdbStoreCorrect ==
  KdbSpec => ImplementsAtomicStore /\ []ReadsStayTrue
BY KdbUsesStore, Refinement, ReadsCorrect, PTL

-----------------------------------------------------------------------------
(* Every call closes what it opened                                          *)

HandleFits(t) == ops[t].tx = "none" <=> call[t].pc \in {"idle", "ops", "answer"}

\* What a step of t leaves of its own handle.
LEMMA CallHandle ==
  ASSUME KdbIInv, NEW t \in Tx, HandleFits(t)
  PROVE  /\ OpsCall(t) \/ GetCall(t) \/ SetCall(t) \/ FailCall(t) \/ CommitCall(t)
              => OthersKept(t) /\ ops'[t].tx # "none"
         /\ CloseCall(t) => OthersKept(t) /\ ops'[t].tx = "none"
<1>0. ops \in [Tx -> Handle] /\ ops[t].autocommit = FALSE
  BY DEF KdbIInv, IInv, TypeOK, Prepared
<1>1. ASSUME OpsCall(t) PROVE OthersKept(t) /\ ops'[t].tx # "none"
  <2>1. OthersKept(t)
    BY <1>1, OpsTells DEF OpsCall, KdbIInv
  <2> QED BY <1>0, <1>1, <2>1 DEF OpsCall, Ops, OpenHandle
<1>2. ASSUME GetCall(t) PROVE OthersKept(t) /\ ops'[t].tx # "none"
  <2>1. RowOf(t) \in Key /\ GetBytes(t, RowOf(t))
    BY <1>2, RowKind DEF GetCall, At, KdbIInv, Flow, RowOf
  <2>2. writes[t] = Nothing /\ kv[t].cached = Unseen
    BY <1>2 DEF GetCall, At, KdbIInv, Prepared
  <2>3. OthersKept(t) /\ UNCHANGED ops
    BY <2>1, <2>2, GetTells DEF KdbIInv
  <2> QED BY <2>1, <2>3 DEF GetBytes
<1>3. ASSUME SetCall(t) PROVE OthersKept(t) /\ ops'[t].tx # "none"
  <2>1. PICK v \in Value : SetBytes(t, RowOf(t), v)
    BY <1>3 DEF SetCall, RowOf
  <2>2. RowOf(t) \in Key /\ writes[t] = Nothing
    BY <1>3, RowKind DEF SetCall, At, KdbIInv, Flow, RowOf, Prepared
  <2>3. OthersKept(t) /\ UNCHANGED ops
    BY <2>1, <2>2, SetTells DEF KdbIInv
  <2> QED BY <2>1, <2>3 DEF SetBytes
<1>4. ASSUME FailCall(t) PROVE OthersKept(t) /\ ops'[t].tx # "none"
  <2>1. OthersKept(t)
    BY <1>4, FailTells DEF FailCall, KdbIInv
  <2> QED BY <1>0, <1>4, <2>1 DEF FailCall, Fail, Handle
<1>5. ASSUME CommitCall(t) PROVE OthersKept(t) /\ ops'[t].tx # "none"
  <2>1. OthersKept(t) /\ Commit(t) /\ ops[t].tx # "none"
    BY <1>0, <1>5, CommitTellsAll DEF CommitCall, Commit, KdbIInv
  <2>2. ASSUME NEW tx \in {"done", ops[t].tx}, NEW err, Left(t, tx, err, FALSE)
        PROVE  ops'[t].tx # "none"
    BY <1>0, <2>1, <2>2 DEF Left
  <2>3. \E tx \in {"done", ops[t].tx}, err \in Err : Left(t, tx, err, FALSE)
    BY <1>0, <2>1 DEF Commit, CommitThen, Returns, Applied, NotApplied, Err, Handle
  <2> QED BY <2>1, <2>2, <2>3
<1>6. ASSUME CloseCall(t) PROVE OthersKept(t) /\ ops'[t].tx = "none"
  <2>1. OthersKept(t)
    BY <1>0, <1>6, CloseTells DEF CloseCall, KdbIInv
  <2>2. PICK tx, err : Left(t, tx, err, TRUE)
    BY <1>0, <1>6 DEF CloseCall, Close, RollbackThen, RolledBack, Returns, NotApplied
  <2> QED BY <1>0, <2>1, <2>2 DEF Left, NoOps
<1> QED BY <1>1, <1>2, <1>3, <1>4, <1>5, <1>6

LEMMA NextFits ==
  ASSUME KdbIInv, \A t \in Tx : HandleFits(t), [KdbNext]_kdbVars, NEW u \in Tx
  PROVE  HandleFits(u)'
<1>0. call \in [Tx -> CallState]
  BY DEF KdbIInv
<1>1. ASSUME NEW t \in Tx, UNCHANGED vars,
             \/ \E r \in Request : Call(t, r)
             \/ RefuseOperation(t) \/ GivesUp(t) \/ Answer(t)
             \/ \E now \in Time : Verify(t, now)
      PROVE  HandleFits(u)'
  <2>1. UNCHANGED ops
    BY <1>1 DEF vars
  <2>2. call'[u].pc \in {"idle", "ops", "answer"} <=> call[u].pc \in {"idle", "ops", "answer"}
    BY <1>0, <1>1 DEF Call, RefuseOperation, GivesUp, Answer, Verify, Goto, Answered, Doing, At
  <2> QED BY <2>1, <2>2 DEF HandleFits
<1>2. ASSUME NEW t \in Tx,
             OpsCall(t) \/ GetCall(t) \/ SetCall(t) \/ FailCall(t) \/ CommitCall(t)
      PROVE  HandleFits(u)'
  <2>1. OthersKept(t) /\ ops'[t].tx # "none"
    BY <1>2, CallHandle
  <2>2. call'[t].pc \notin {"idle", "ops", "answer"} /\ (u # t => call'[u] = call[u])
    <3>1. PICK c : call' = [call EXCEPT ![t] = c] /\ c.pc \notin {"idle", "ops", "answer"}
      <4>1. CASE GetCall(t)
        <5> DEFINE c == Doing(IF Checks(call[t].req) THEN "verify" ELSE "set",
                              call[t].req, Decoded(call[t].req, reply'.value), FALSE)
        <5>1. call' = [call EXCEPT ![t] = c] /\ c.pc \notin {"idle", "ops", "answer"}
          BY <4>1 DEF GetCall, Doing
        <5> QED BY <5>1
      <4>2. ASSUME NEW pc \in {"get", "set", "fail", "commit", "close"}, Goto(t, pc)
            PROVE  \E c : call' = [call EXCEPT ![t] = c] /\ c.pc \notin {"idle", "ops", "answer"}
        BY <4>2, GotoState
      <4> QED BY <1>2, <4>1, <4>2 DEF OpsCall, SetCall, FailCall, CommitCall
    <3> QED BY <1>0, <3>1
  <2> QED BY <2>1, <2>2 DEF HandleFits, OthersKept
<1>3. ASSUME NEW t \in Tx, CloseCall(t) PROVE HandleFits(u)'
  <2>1. OthersKept(t) /\ ops'[t].tx = "none"
    BY <1>3, CallHandle
  <2>2. call'[t].pc \in {"idle", "answer"} /\ (u # t => call'[u] = call[u])
    BY <1>0, <1>3 DEF CloseCall, Idle, Answered, Doing
  <2> QED BY <2>1, <2>2 DEF HandleFits, OthersKept
<1>4. CASE KdbCrash
  BY <1>4 DEF KdbCrash, Crash, HandleFits, NoOps, Idle, Answered, Doing
<1>5. CASE UNCHANGED kdbVars
  BY <1>5 DEF kdbVars, HandleFits
<1> QED BY <1>1, <1>2, <1>3, <1>4, <1>5 DEF KdbNext, Call, RefuseOperation, GivesUp, Answer, Verify

(* Between two calls a session holds nothing of the store: every path        *)
(* through the calls of the key database, the early returns and the panics   *)
(* included, ends the transaction that it began (the deferred ops.Close() of *)
(* static_keydb.go 78-209).                                                  *)
THEOREM IdleCorrect == KdbSpec => []IdleHoldsNothing
<1> DEFINE AllFit == \A t \in Tx : HandleFits(t)
<1>1. KdbInit => AllFit
  BY DEF KdbInit, Init, NoOps, HandleFits, Idle, Answered, Doing
<1>2. KdbIInv /\ AllFit /\ [KdbNext]_kdbVars => AllFit'
  BY NextFits
<1>3. KdbIInv /\ AllFit => IdleHoldsNothing
  BY DEF KdbIInv, IInv, Locking, LocksReleased, Active, IdleHoldsNothing, HandleFits, At
<1> QED BY <1>1, <1>2, <1>3, KdbInvariant, PTL DEF KdbSpec

-----------------------------------------------------------------------------
(* The key database implements KeyTable                                      *)

\* A step of t after which its request is still as pending as before.
LEMMA SamePending ==
  ASSUME KdbIInv, NEW t \in Tx, NEW c, call' = [call EXCEPT ![t] = c],
         c.req = call[t].req, UNCHANGED db,
         \/ c.pc \in {"ops", "get", "set", "fail", "commit"}
             /\ call[t].pc \in {"ops", "get", "set", "fail", "commit"}
         \/ Checks(c.req)
  PROVE  UNCHANGED Table!vars
<1>1. \A u \in Tx : Pending(u)' = Pending(u)
  BY DEF Pending, KdbIInv
<1> QED BY <1>1 DEF Table!vars

\* A step of t after which its request can change nothing any more.
LEMMA NoLongerPending ==
  ASSUME KdbIInv, NEW t \in Tx, NEW c, call' = [call EXCEPT ![t] = c],
         c.pc \in {"idle", "close", "answer"}, UNCHANGED db
  PROVE  Table!GiveUp({t})
<1>1. \A u \in Tx : Pending(u)' = IF u \in {t} THEN None ELSE Pending(u)
  BY DEF Pending, KdbIInv
<1> QED BY <1>1 DEF Table!GiveUp

LEMMA CommitRefinesTable ==
  ASSUME KdbIInv, NEW t \in Tx, CommitCall(t)
  PROVE  [Table!Next]_(Table!vars)
<1>1. PICK c \in CallState :
        /\ call' = [call EXCEPT ![t] = c]
        /\ c.pc = "close" /\ c.req = call[t].req /\ c.got = None /\ c.ok = call[t].ok
  BY GotoState DEF CommitCall
<1>2. CASE UNCHANGED db
  BY <1>1, <1>2, NoLongerPending DEF Table!Next
<1>3. ASSUME NEW v \in Written(call[t].req, db[RowOf(t)]) \cap Value,
             db' = [db EXCEPT ![RowOf(t)] = v]
      PROVE  Table!Apply(t)
  <2>1. call[t].req \in Request /\ ~Checks(call[t].req) /\ RowOf(t) \in Key
    BY RowKind DEF KdbIInv, Flow, CommitCall, At, RowOf
  <2>2. Pending(t) = call[t].req /\ Pending(t) \in Change
    BY <2>1 DEF Pending, Change, CommitCall, At
  <2>3. db[RowOf(t)] \in Value \cup {None}
    BY <2>1 DEF KdbIInv, IInv, TypeOK
  <2>4. Pending(t)' = None /\ \A u \in Tx \ {t} : Pending(u)' = Pending(u)
    BY <1>1 DEF Pending, KdbIInv
  <2>5. [u \in Tx |-> Pending(u)]' = [[u \in Tx |-> Pending(u)] EXCEPT ![t] = None]
    BY <2>4
  <2> QED BY <1>3, <2>2, <2>3, <2>5, NoRequestAssumption DEF Table!Apply, RowOf, Change
<1> QED BY <1>2, <1>3, CommitCallRows DEF Table!Next

(* The key database implements KeyTable (static_keydb.go): no update is lost,*)
(* applied twice or made from a list that has changed since it was read.     *)
THEOREM TableRefinement == KdbSpec => ImplementsKeyTable
<1>1. KdbInit => Table!Init
  BY DEF KdbInit, Init, Table!Init, Nothing, Pending, Idle, Answered, Doing
<1>2. KdbIInv /\ [KdbNext]_kdbVars => [Table!Next]_(Table!vars)
  <2> SUFFICES ASSUME KdbIInv, [KdbNext]_kdbVars PROVE [Table!Next]_(Table!vars)
    OBVIOUS
  <2>1. ASSUME NEW t \in Tx, NEW r \in Request, Call(t, r)
        PROVE  [Table!Next]_(Table!vars)
    <3>1. UNCHANGED db /\ \A u \in Tx \ {t} : Pending(u)' = Pending(u)
      BY <2>1 DEF Call, vars, Pending, KdbIInv
    <3>2. Pending(t) = None /\ Pending(t)' = IF Checks(r) THEN None ELSE r
      BY <2>1 DEF Call, Pending, At, Doing, KdbIInv
    <3>3. CASE Checks(r)
      <4>1. \A u \in Tx : Pending(u)' = Pending(u)
        BY <3>1, <3>2, <3>3
      <4> QED BY <3>1, <4>1 DEF Table!vars
    <3>4. CASE ~Checks(r)
      <4>1. [u \in Tx |-> Pending(u)]' = [[u \in Tx |-> Pending(u)] EXCEPT ![t] = r]
        BY <3>1, <3>2, <3>4
      <4>2. Table!Ask(t)
        BY <3>1, <3>2, <3>4, <4>1 DEF Table!Ask, Change
      <4> QED BY <4>2 DEF Table!Next
    <3> QED BY <3>3, <3>4
  <2>2. ASSUME NEW t \in Tx, OpsCall(t) \/ SetCall(t) \/ FailCall(t)
        PROVE  [Table!Next]_(Table!vars)
    <3>1. UNCHANGED db
      BY <2>2 DEF OpsCall, Ops, OpenHandle, SetCall, SetBytes, SetStored, SetFails,
                  FailCall, Fail
    <3>2. PICK pc \in {"get", "set", "fail", "commit"} : Goto(t, pc)
      BY <2>2 DEF OpsCall, SetCall, FailCall
    <3>3. PICK c \in CallState : /\ call' = [call EXCEPT ![t] = c]
                                 /\ c.pc = pc /\ c.req = call[t].req /\ c.got = None /\ c.ok = call[t].ok
      BY <3>2, GotoState
    <3>4. call[t].pc \in {"ops", "set", "fail"}
      BY <2>2 DEF OpsCall, SetCall, FailCall, At
    <3> QED BY <3>1, <3>3, <3>4, SamePending
  <2>3. ASSUME NEW t \in Tx, GetCall(t)
        PROVE  [Table!Next]_(Table!vars)
    <3> DEFINE pc == IF Checks(call[t].req) THEN "verify" ELSE "set"
               c == Doing(pc, call[t].req, Decoded(call[t].req, reply'.value), FALSE)
    <3>1. UNCHANGED db /\ call[t].pc = "get"
      BY <2>3 DEF GetCall, GetBytes, GetCached, GetStored, GetFails, At
    <3>2. call' = [call EXCEPT ![t] = c]
      BY <2>3 DEF GetCall
    <3>3. c.req = call[t].req /\ c.pc = pc
      BY DEF Doing
    <3> HIDE DEF c
    <3> QED BY <3>1, <3>2, <3>3, SamePending
  <2>4. ASSUME NEW t \in Tx,
               RefuseOperation(t) \/ GivesUp(t) \/ CloseCall(t) \/ Answer(t)
        PROVE  [Table!Next]_(Table!vars)
    <3>1. UNCHANGED db
      BY <2>4, CloseTells DEF RefuseOperation, GivesUp, Answer, vars, CloseCall, KdbIInv, Prepared
    <3>2. CASE GivesUp(t)
      <4>1. PICK c \in CallState : call' = [call EXCEPT ![t] = c] /\ c.pc = "close"
        BY <3>2, GotoState DEF GivesUp
      <4> QED BY <3>1, <4>1, NoLongerPending DEF Table!Next
    <3>3. CASE ~GivesUp(t)
      <4>1. PICK c : call' = [call EXCEPT ![t] = c] /\ c.pc \in {"idle", "answer"}
        <5>1. \A ok : Answered(ok).pc = "idle"
          BY DEF Answered, Doing
        <5>2. \A got : Doing("answer", call[t].req, got, FALSE).pc = "answer"
          BY DEF Doing
        <5> QED BY <2>4, <3>3, <5>1, <5>2 DEF RefuseOperation, CloseCall, Answer, Idle
      <4> QED BY <3>1, <4>1, NoLongerPending DEF Table!Next
    <3> QED BY <3>2, <3>3
  <2>5. ASSUME NEW t \in Tx, NEW now \in Time, Verify(t, now)
        PROVE  [Table!Next]_(Table!vars)
    <3> DEFINE c == Doing("close", call[t].req,
                          IF Valid(call[t].got, now) THEN call[t].got ELSE None, FALSE)
    <3>1. UNCHANGED db
      BY <2>5 DEF Verify, vars
    <3>2. call' = [call EXCEPT ![t] = c] /\ c.pc = "close"
      BY <2>5 DEF Verify, Doing
    <3> HIDE DEF c
    <3> QED BY <3>1, <3>2, NoLongerPending DEF Table!Next
  <2>6. CASE KdbCrash
    <3>1. \A u \in Tx : Pending(u)' = None
      BY <2>6 DEF KdbCrash, Pending, Idle, Answered, Doing
    <3>2. Table!GiveUp(Tx)
      BY <2>6, <3>1 DEF KdbCrash, Crash, Table!GiveUp
    <3> QED BY <3>2 DEF Table!Next
  <2>7. CASE UNCHANGED kdbVars
    <3>1. UNCHANGED <<db, call>>
      BY <2>7 DEF kdbVars
    <3>2. \A u \in Tx : Pending(u)' = Pending(u)
      BY <3>1 DEF Pending
    <3> QED BY <3>1, <3>2 DEF Table!vars
  <2> QED BY <2>1, <2>2, <2>3, <2>4, <2>5, <2>6, <2>7, CommitRefinesTable DEF KdbNext
<1> QED BY <1>1, <1>2, KdbInvariant, PTL DEF KdbSpec, ImplementsKeyTable, Table!Spec
=============================================================================
