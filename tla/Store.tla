------------------------------- MODULE Store -------------------------------
(***************************************************************************)
(* internal/store: the handle of a transaction (ops.go, store.go) and its  *)
(* key-value operations (kv.go), over an SQLite database whose locks are   *)
(* modelled as far as the handles can tell: a transaction begins deferred, *)
(* takes a shared lock when it first reads and the reserved lock when it   *)
(* first writes, and commits what it wrote only while nobody else holds a  *)
(* lock.  A call that finds the database locked fails at once, and any     *)
(* call of the database may fail for a reason of its own.                  *)
(*                                                                         *)
(* Every call is one step; callers interleave freely.                      *)
(***************************************************************************)
EXTENDS FiniteSets

CONSTANTS
  Tx,     \* handles in use at the same time; a closed one may be used again
  Key,    \* item_key
  Value,  \* item_val
  None,   \* no value, Go's nil
  Absent  \* not in a map of Go

ASSUME NoneAssumption == None \notin Value
ASSUME AbsentAssumption == Absent \notin Value \cup {None}

VARIABLES
  db,      \* dt_key_value as committed
  ops,     \* the handles: sql.Tx, sticky error, autocommit
  kv,      \* the kvops of each handle: sticky error, cached values
  writes,  \* external: rows written and not yet committed
  lock,    \* external: SQLite's lock of each transaction
  stuck,   \* external: failed commits whose connection keeps its lock
  seen,    \* history: the committed value a transaction read for a key
  reply    \* what the last call returned

vars == <<db, ops, kv, writes, lock, stuck, seen, reply>>

Err == {"nil", "fault", "ErrTxDone"}
Nothing == [k \in Key |-> None]
Unseen == [k \in Key |-> Absent]

\* tx: no handle, a handle whose Begin failed, a live sql.Tx, a finished one.
NoOps == [tx |-> "none", err |-> "nil", autocommit |-> FALSE]

\* Fault: the map of cached values is never made.
NoCache(err) == [err |-> err, cached |-> << >>]

NewKV(err) == [err |-> err, cached |-> Unseen]

Returned(v, err) == [value |-> v, err |-> err]

Handle == [tx : {"none", "nil", "active", "done"}, err : Err, autocommit : BOOLEAN]
KVOps == [err : Err, cached : [Key -> Value \cup {None, Absent}]]

TypeOK ==
  /\ db \in [Key -> Value \cup {None}]
  /\ ops \in [Tx -> Handle]
  /\ kv \in [Tx -> KVOps]
  /\ writes \in [Tx -> [Key -> Value \cup {None}]]
  /\ lock \in [Tx -> {"none", "shared", "reserved"}]
  /\ stuck \in SUBSET Tx
  /\ seen \in [Tx -> [Key -> Value \cup {None, Absent}]]
  /\ reply \in [value : Value \cup {None}, err : Err \cup {"panic"}]

Init ==
  /\ db = Nothing
  /\ ops = [t \in Tx |-> NoOps]
  /\ kv = [t \in Tx |-> NewKV("nil")]
  /\ writes = [t \in Tx |-> Nothing]
  /\ lock = [t \in Tx |-> "none"]
  /\ stuck = {}
  /\ seen = [t \in Tx |-> Unseen]
  /\ reply = Returned(None, "nil")

-----------------------------------------------------------------------------
(* The database                                                              *)

OthersHold(t, locks) == \E u \in Tx \ {t} : lock[u] \in locks

\* What t reads: its own rows over the committed ones.
Visible(t, k) == IF writes[t][k] # None THEN writes[t][k] ELSE db[k]

Share(t) == lock' = [lock EXCEPT ![t] = IF @ = "none" THEN "shared" ELSE @]
Reserve(t) == lock' = [lock EXCEPT ![t] = "reserved"]

\* The transaction of t is over: applied, rolled back or gone.
Release(t) ==
  /\ lock' = [lock EXCEPT ![t] = "none"]
  /\ writes' = [writes EXCEPT ![t] = Nothing]
  /\ seen' = [seen EXCEPT ![t] = Unseen]

-----------------------------------------------------------------------------
(* Store.Ops and ops.KV: every caller asks for one kvops right away, which   *)
(* starts with the handle's error.                                           *)

OpenHandle(t, tx, err, autocommit) ==
  /\ ops' = [ops EXCEPT ![t] = [tx |-> tx, err |-> err, autocommit |-> autocommit]]
  /\ kv' = [kv EXCEPT ![t] = NewKV(err)]
  /\ reply' = Returned(None, "nil")
  /\ UNCHANGED <<db, writes, lock, stuck, seen>>

Ops(t, autocommit) ==
  /\ ops[t].tx = "none"
  /\ t \notin stuck
  /\ \/ OpenHandle(t, "active", "nil", autocommit)
     \/ OpenHandle(t, "nil", "fault", FALSE)

-----------------------------------------------------------------------------
(* kvops.  Its error is sticky and every call returns early on it.           *)

\* Fault: the row is read outside of the transaction.
ReadUnlocked(t) == UNCHANGED lock

ReadLocked(t) == Share(t)

GetCached(t, k) ==
  /\ kv[t].err = "nil"
  /\ kv[t].cached[k] # Absent
  /\ reply' = Returned(kv[t].cached[k], "nil")
  /\ UNCHANGED <<db, ops, kv, writes, lock, stuck, seen>>

\* The row is scanned into out; what is cached is buf, which nothing set.
GetStored(t, k) ==
  /\ kv[t].err = "nil" /\ kv[t].cached[k] = Absent
  /\ ops[t].tx = "active"
  /\ reply' = Returned(Visible(t, k), "nil")
  /\ kv' = [kv EXCEPT ![t].cached[k] = IF Visible(t, k) = None THEN Absent ELSE None]
  /\ ReadLocked(t)
  /\ seen' = [seen EXCEPT ![t][k] = IF writes[t][k] = None THEN db[k] ELSE @]
  /\ UNCHANGED <<db, ops, writes, stuck>>

\* The database refuses the call, as it does every call of a finished sql.Tx.
Refused(t) == IF ops[t].tx = "done" THEN "ErrTxDone" ELSE "fault"

GetFails(t, k) ==
  /\ kv[t].cached[k] = Absent \/ kv[t].err # "nil"
  /\ LET err == IF kv[t].err = "nil" THEN Refused(t) ELSE kv[t].err
     IN  /\ kv' = [kv EXCEPT ![t].err = err]
         /\ reply' = Returned(None, err)
  /\ UNCHANGED <<db, ops, writes, lock, stuck, seen>>

GetBytes(t, k) ==
  /\ ops[t].tx # "none"
  /\ GetCached(t, k) \/ GetStored(t, k) \/ GetFails(t, k)

\* Fault: the row is written outside of the transaction.
SetOutside(t, k, v) ==
  /\ kv[t].err = "nil"
  /\ ops[t].tx = "active"
  /\ ~OthersHold(t, {"shared", "reserved"})
  /\ db' = [db EXCEPT ![k] = v]
  /\ kv' = [kv EXCEPT ![t].cached[k] = v]
  /\ reply' = Returned(None, "nil")
  /\ UNCHANGED <<ops, writes, lock, stuck, seen>>

SetStored(t, k, v) ==
  /\ kv[t].err = "nil"
  /\ ops[t].tx = "active"
  /\ ~OthersHold(t, {"reserved"})
  /\ Reserve(t)
  /\ writes' = [writes EXCEPT ![t][k] = v]
  /\ kv' = [kv EXCEPT ![t].cached[k] = v]
  /\ reply' = Returned(None, "nil")
  /\ UNCHANGED <<db, ops, stuck, seen>>

SetFails(t) ==
  LET err == IF kv[t].err = "nil" THEN Refused(t) ELSE kv[t].err
  IN  /\ kv' = [kv EXCEPT ![t].err = err]
      /\ reply' = Returned(None, err)
      /\ UNCHANGED <<db, ops, writes, lock, stuck, seen>>

SetBytes(t, k, v) ==
  /\ ops[t].tx # "none"
  /\ SetStored(t, k, v) \/ SetFails(t)

-----------------------------------------------------------------------------
(* Ending a transaction.  Commit reports an error only when the handle has   *)
(* failed before; Close ends the handle after committing or rolling back.    *)
(* Rollback of a handle whose Begin failed dereferences its missing tx.      *)

\* Fault: the handle does not remember that its transaction is over.
LeftClean(t, tx, err, closing) ==
  /\ ops' = [ops EXCEPT ![t] = IF closing THEN NoOps ELSE [@ EXCEPT !.tx = tx]]
  /\ kv' = [kv EXCEPT ![t] = IF closing THEN NewKV("nil") ELSE @]

\* The handle after a call: gone once closed.
Left(t, tx, err, closing) ==
  /\ ops' = [ops EXCEPT ![t] =
                IF closing THEN NoOps
                ELSE [tx |-> tx, err |-> err, autocommit |-> @.autocommit]]
  /\ kv' = [kv EXCEPT ![t] = IF closing THEN NewKV("nil") ELSE @]

\* ops.Fail(kv.Err()).
Fail(t) ==
  /\ ops[t].tx # "none"
  /\ ops' = [ops EXCEPT ![t].err = IF @ = "nil" THEN kv[t].err ELSE @]
  /\ UNCHANGED <<db, kv, writes, lock, stuck, seen, reply>>

\* Commit and Rollback of a failed handle: the error that it failed with.
Returns(t, err, closing) ==
  /\ reply' = Returned(None, err)
  /\ Left(t, ops[t].tx, ops[t].err, closing)
  /\ UNCHANGED <<db, writes, lock, stuck, seen>>

\* sql.Tx.Commit that succeeds: SQLite needs the database for itself.
Applied(t, closing) ==
  /\ writes[t] = Nothing \/ ~OthersHold(t, {"shared", "reserved"})
  /\ db' = [k \in Key |-> Visible(t, k)]
  /\ Release(t)
  /\ Left(t, "done", "ErrTxDone", closing)
  /\ UNCHANGED stuck

\* A failed sql.Tx.Commit or Rollback: the sql.Tx is done all the same, and
\* its connection may go back to the pool with the lock.
NotApplied(t, closing) ==
  /\ Left(t, "done", "fault", closing)
  /\ UNCHANGED db
  /\ \/ Release(t) /\ UNCHANGED stuck
     \/ /\ lock[t] # "none"
        /\ stuck' = stuck \cup {t}
        /\ writes' = [writes EXCEPT ![t] = Nothing]
        /\ seen' = [seen EXCEPT ![t] = Unseen]
        /\ UNCHANGED lock

MayCommit(t) == ops[t].err = "nil"

CommitThen(t, closing) ==
  \/ ~MayCommit(t) /\ Returns(t, ops[t].err, closing)
  \/ /\ MayCommit(t)
     /\ Applied(t, closing) \/ NotApplied(t, closing)
     /\ reply' = Returned(None, "nil")

\* sql.Tx.Rollback of a live transaction, which leaves the handle with err.
RolledBack(t, err, closing) ==
  /\ \/ Release(t) /\ Left(t, "done", err, closing) /\ UNCHANGED <<db, stuck>>
     \/ NotApplied(t, closing)

\* Fault: the Rollback of a failed handle returns its error and no more.
RollbackUnlessFailed(t, closing) ==
  \/ ops[t].err # "nil" /\ Returns(t, ops[t].err, closing)
  \/ /\ ops[t].err = "nil"
     /\ RolledBack(t, "ErrTxDone", closing)
     /\ reply' = Returned(None, "nil")

RollbackThen(t, closing) ==
  \/ /\ ops[t].err = "ErrTxDone" \/ (ops[t].err # "nil" /\ ops[t].tx = "done")
     /\ Returns(t, ops[t].err, closing)
  \/ ops[t].tx = "nil" /\ Returns(t, "panic", TRUE)
  \/ /\ ops[t].tx = "active" /\ ops[t].err # "ErrTxDone"
     /\ RolledBack(t, IF ops[t].err = "nil" THEN "ErrTxDone" ELSE ops[t].err, closing)
     /\ reply' = Returned(None, ops[t].err)

Commit(t) == ops[t].tx # "none" /\ CommitThen(t, FALSE)

Rollback(t) == ops[t].tx # "none" /\ RollbackThen(t, FALSE)

Close(t) ==
  /\ ops[t].tx # "none"
  /\ IF ops[t].autocommit /\ ops[t].err = "nil"
       THEN CommitThen(t, TRUE)
       ELSE RollbackThen(t, TRUE)

\* The process ends: SQLite rolls back what was not committed.
Crash ==
  /\ ops' = [t \in Tx |-> NoOps]
  /\ kv' = [t \in Tx |-> NewKV("nil")]
  /\ writes' = [t \in Tx |-> Nothing]
  /\ lock' = [t \in Tx |-> "none"]
  /\ stuck' = {}
  /\ seen' = [t \in Tx |-> Unseen]
  /\ reply' = Returned(None, "nil")
  /\ UNCHANGED db

Next ==
  \/ \E t \in Tx :
       \/ \E autocommit \in BOOLEAN : Ops(t, autocommit)
       \/ \E k \in Key : GetBytes(t, k)
       \/ \E k \in Key, v \in Value : SetBytes(t, k, v)
       \/ Fail(t) \/ Commit(t) \/ Rollback(t) \/ Close(t)
  \/ Crash

Spec == Init /\ [][Next]_vars

-----------------------------------------------------------------------------
(* Properties                                                                *)

Active(t) == ops[t].tx = "active"

\* What a transaction has read stays true until it ends, whatever the others
\* commit meanwhile: read-modify-write through one handle loses no update
\* (kv.go reads and writes through the handle's sql.Tx, ops.go 26-36).
ReadsStayTrue ==
  \A t \in Tx, k \in Key : seen[t][k] # Absent => seen[t][k] = db[k]

\* A lock on the database outlives its transaction only after a failed end:
\* every path of Commit, Rollback and Close ends the sql.Tx (ops.go 36-82).
LocksReleased == \A t \in Tx : lock[t] # "none" => Active(t) \/ t \in stuck

\* The handle's error says whether there is a transaction to end: none is
\* missing or over while it is nil, so Commit and Rollback call a live sql.Tx,
\* and none is left alive when it is ErrTxDone, where Rollback, and so Close,
\* returns at once (ops.go 36-67).
HandleTellsTx ==
  \A t \in Tx :
    /\ ops[t].tx # "none" /\ ops[t].err = "nil" => Active(t)
    /\ ops[t].err = "ErrTxDone" => ~Active(t)

Abstract == INSTANCE AtomicStore WITH
  content <- db, open <- {t \in Tx : Active(t)}

\* The store implements atomic transactions: all the writes of one handle or
\* none, applied by its commit only, in every interleaving and over crashes.
ImplementsAtomicStore == Abstract!Spec

\* Violated: Commit's error is what says whether the writes were applied
\* (tokens_test.go 33-35 relies on it), but a failed tx.Commit returns nil.
CommitTells ==
  [][\A t \in Tx : Commit(t) /\ reply'.err = "nil"
       => db' = [k \in Key |-> Visible(t, k)]]_vars

\* Violated: GetBytes returns the value of its key (kv.go 26), but the second
\* call of a transaction for one key returns the empty buffer of the first.
ReadsTheValue ==
  [][\A t \in Tx, k \in Key : GetCached(t, k) => reply'.value = Visible(t, k)]_vars

=============================================================================
