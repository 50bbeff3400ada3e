----------------------------- MODULE Migrations -----------------------------
(***************************************************************************)
(* Opening the database: store.Open and internal/store/migrations.go.      *)
(* Processes of several releases start, fail, crash and start again on one *)
(* file.  Each migration is a transaction, begun deferred: SQLite's write  *)
(* lock is taken by its first statement and a busy database is an error.   *)
(***************************************************************************)
EXTENDS Naturals

CONSTANTS
  Process,
  Files  \* the versions embedded in the program that each process runs

VARIABLES
  pc,      \* where each process is in Open
  pos,     \* the version its loop has come to, first that of QueryRow
  writes,  \* what its open transaction has written
  schema,  \* the versions whose content is in the database
  applied  \* t_migrations

vars == <<pc, pos, writes, schema, applied>>

\* version{}, which is also that of the seed file.
Zero == <<0, 0, 0>>

Known == UNION {Files[p] : p \in Process}

Version == Known \cup {Zero}

Less(v, w) ==
  \/ v[1] < w[1]
  \/ v[1] = w[1] /\ v[2] < w[2]
  \/ v[1] = w[1] /\ v[2] = w[2] /\ v[3] < w[3]

\* loadMigrations skips the seed, and finds at least one more file.
ASSUME FilesAssumption ==
  Files \in [Process -> SUBSET ((Nat \X Nat \X Nat) \ {Zero}) \ {{}}]

\* A release adds its migrations above those of the releases before it.
ASSUME ReleaseAssumption ==
  \A p \in Process : \A v \in Files[p], w \in Known : Less(w, v) => w \in Files[p]

Nothing == [schema |-> {}, records |-> {}]

Init ==
  /\ pc = [p \in Process |-> "down"]
  /\ pos = [p \in Process |-> Zero]
  /\ writes = [p \in Process |-> Nothing]
  /\ schema = {} /\ applied = {}

-----------------------------------------------------------------------------
Goto(p, l) == pc' = [pc EXCEPT ![p] = l]

\* SQLite's write lock: p may write.
MayWrite(p) == \A q \in Process \ {p} : pc[q] \notin {"record", "commit"}

Start(p) ==
  /\ pc[p] \in {"down", "failed"}
  /\ Goto(p, "seed")
  /\ UNCHANGED <<pos, writes, schema, applied>>

\* create table if not exists t_migrations, in a transaction of its own.
Seed(p) ==
  /\ pc[p] = "seed"
  /\ Zero \in schema \/ MayWrite(p)
  /\ schema' = schema \cup {Zero}
  /\ Goto(p, "query")
  /\ UNCHANGED <<pos, writes, applied>>

Highest == {v \in applied : \A u \in applied : ~Less(v, u)}

\* Fault: the columns are scanned in another order.
Misread == IF applied = {} THEN {Zero} ELSE {<<v[2], v[1], v[3]>> : v \in Highest}

\* order by 1 desc, 2 desc, 3 desc limit 1; no row is no error.
Newest == IF applied = {} THEN {Zero} ELSE Highest

Query(p) ==
  /\ pc[p] = "query"
  /\ \E v \in Newest : pos' = [pos EXCEPT ![p] = v]
  /\ Goto(p, "loop")
  /\ UNCHANGED <<writes, schema, applied>>

\* Fault: the files are taken as they come.
Unsorted(p) == {v \in Files[p] : Less(pos[p], v)}

\* The file the sorted loop comes to next, skipping those up to pos.
NextFile(p) ==
  {v \in Files[p] : Less(pos[p], v) /\ \A w \in Files[p] : Less(pos[p], w) => ~Less(w, v)}

\* Fault: the content is run by the database, outside the transaction.
AutoCommit(p, v) ==
  /\ pc[p] = "loop" /\ v \in NextFile(p) /\ v \notin schema
  /\ MayWrite(p)
  /\ schema' = schema \cup {v}
  /\ Goto(p, "record")
  /\ UNCHANGED <<pos, writes, applied>>

\* BeginTx and the file's content: it creates a table or a view, which must
\* not exist yet.
Content(p, v) ==
  /\ pc[p] = "loop" /\ v \in NextFile(p) /\ v \notin schema
  /\ MayWrite(p)
  /\ writes' = [writes EXCEPT ![p] = [schema |-> {v}, records |-> {}]]
  /\ Goto(p, "record")
  /\ UNCHANGED <<pos, schema, applied>>

\* The insert, under the primary key of t_migrations.
Record(p, v) ==
  /\ pc[p] = "record" /\ v \in NextFile(p) /\ v \notin applied
  /\ writes' = [writes EXCEPT ![p] = [schema |-> writes[p].schema, records |-> {v}]]
  /\ Goto(p, "commit")
  /\ UNCHANGED <<pos, schema, applied>>

Commit(p, v) ==
  /\ pc[p] = "commit" /\ v \in NextFile(p)
  /\ schema' = schema \cup writes[p].schema
  /\ applied' = applied \cup writes[p].records
  /\ writes' = [writes EXCEPT ![p] = Nothing]
  /\ pos' = [pos EXCEPT ![p] = v]
  /\ Goto(p, "loop")

Done(p) == \A v \in Files[p] : ~Less(pos[p], v)

\* The loop is over, and Open returns the store.
Finish(p) ==
  /\ pc[p] = "loop" /\ Done(p)
  /\ Goto(p, "started")
  /\ UNCHANGED <<pos, writes, schema, applied>>

\* Open is over, or the process is: the transaction is rolled back.
End(p, l) ==
  /\ Goto(p, l)
  /\ writes' = [writes EXCEPT ![p] = Nothing]
  /\ UNCHANGED <<pos, schema, applied>>

Opening(p) == pc[p] \notin {"down", "failed", "started"}

\* Fault: a statement that fails is tried again, without end.
Retry(p) == Opening(p) /\ UNCHANGED vars

\* Fault: openDB drops the error.
Ignore(p) == Opening(p) /\ End(p, "started")

\* Any statement may fail, of a lock or otherwise: so does the program's start.
Fail(p) ==
  /\ Opening(p) /\ (pc[p] = "loop" => ~Done(p))
  /\ End(p, "failed")

\* The program ends, or crashes.
Crash(p) == pc[p] # "down" /\ End(p, "down")

Step(p) ==
  \/ Seed(p) \/ Query(p) \/ Finish(p) \/ Fail(p)
  \/ \E v \in Files[p] : Content(p, v) \/ Record(p, v) \/ Commit(p, v)

Next == \E p \in Process : Start(p) \/ Step(p) \/ Crash(p)

Fairness == \A p \in Process : WF_vars(Step(p))

Spec == Init /\ [][Next]_vars /\ Fairness

-----------------------------------------------------------------------------
(* Properties                                                                *)

\* Every variable keeps its type: the versions are those of files.
TypeOK ==
  /\ pc \in [Process -> {"down", "seed", "query", "loop", "record", "commit",
                         "started", "failed"}]
  /\ pos \in [Process -> Version]
  /\ writes \in [Process -> [schema : SUBSET Known, records : SUBSET Known]]
  /\ schema \subseteq Version /\ applied \subseteq Known

\* The schema holds what t_migrations says, whoever crashes or fails where: a
\* start never finds half a migration (migrations.go 76-106).
RecordsMatchSchema == schema \ {Zero} = applied

\* No migration is applied before one of a lower version, even by processes that
\* start at once and have each read the last version outside the transactions
\* that apply the next ones (migrations.go 51-72).
AppliedIsPrefix == \A v \in applied, w \in Known : Less(w, v) => w \in applied

\* Every migration is applied once, after all those below it and to a schema
\* that has not got it yet: of processes that have come to the same one, each
\* under its own view of what is applied, only one gets through (migrations.go
\* 51-106).
AppliesNext ==
  [][applied' # applied =>
       \E v \in Known \ schema :
         /\ applied' = applied \cup {v} /\ schema' = schema \cup {v}
         /\ \A w \in Known : Less(w, v) => w \in applied]_vars

\* A program that has started finds every migration it knows applied, though it
\* has looked at the highest one only (migrations.go 64-73).
StartedUpToDate == \A p \in Process : pc[p] = "started" => Files[p] \subseteq applied

\* A start ends, well or not, whatever other processes do: nobody waits for a
\* lock (migrations.go 42-74).
StartEnds == \A p \in Process : pc[p] = "seed" ~> ~Opening(p)
=============================================================================
