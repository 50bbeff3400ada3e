------------------------------- MODULE KeyDB -------------------------------
(***************************************************************************)
(* gateway/ssh/static_keydb.go: the key database.  Admin sessions register *)
(* keys and change their permissions, HTTP requests leave registrations,   *)
(* and SSH connections are authenticated and authorized, all at once, each *)
(* through a handle of the store of its own.  A step is one call of the    *)
(* store (Store.tla), or the caller's own work between two of them.        *)
(***************************************************************************)
EXTENDS Store, Integers, Sequences, Functions

CONSTANTS
  PubKey,        \* fingerprints
  Config,        \* KeyConfig
  ValidFrom, ExpiresAt, AllowedHosts,  \* its fields
  Time, Host,
  Permission,    \* operation and resource of an entry, whose action is "allow"
  Registration,  \* KeyRegistration
  KeyOf          \* its PublicKey

\* Rows of the three kinds and what they hold.  Value bounds the lists.
ASSUME RowsAssumption ==
  /\ Key = {"key", "key-perm", "key-reg"} \X PubKey
  /\ Config \cup Registration \subseteq Value
  /\ Value \subseteq Config \cup Registration \cup Seq(Permission)

ASSUME FieldsAssumption ==
  /\ Time \subseteq Int
  /\ ValidFrom \in [Config -> Int] /\ ExpiresAt \in [Config -> Int]
  /\ AllowedHosts \in [Config -> SUBSET Host]
  /\ KeyOf \in [Registration -> PubKey]

VARIABLE call  \* what each session is doing, with its own handle

kdbVars == <<db, ops, kv, writes, lock, stuck, seen, reply, call>>

Entries == Value \cap Seq(Permission)

\* An admin's keyset.put and keyset.addPermission.
AdminRequest ==
  [op : {"put"}, key : PubKey, arg : Config]
    \cup [op : {"allow", "deny"}, key : PubKey, arg : Permission]

\* What AuthZ is asked about: exposing an endpoint, or anything else.
Operation == {"expose-endpoint", "other"}

\* A connection's key, and what it wants to do to which host.
CheckRequest ==
  [op : {"authN"}, key : PubKey, arg : {None}]
    \cup [op : {"authZ"}, key : PubKey, arg : Operation \X Host]

\* A registration left over HTTP, looked up by the key in its body.
HTTPRequest == {[op |-> "request", key |-> KeyOf[r], arg |-> r] : r \in Registration}

Request == AdminRequest \cup CheckRequest \cup HTTPRequest

ASSUME NoRequestAssumption == None \notin Request

Checks(r) == r.op \in {"authN", "authZ"}

\* Fault: registrations share the rows of the configurations.
TwoKinds(r) == <<IF r.op \in {"allow", "deny"} THEN "key-perm" ELSE "key", r.key>>

computeKeyLookup(r) ==
  << CASE r.op \in {"allow", "deny"} -> "key-perm"
       [] r.op = "request" -> "key-reg"
       [] OTHER -> "key", r.key >>

CallState ==
  [pc : {"idle", "ops", "get", "set", "fail", "commit", "verify", "close", "answer"},
   req : Request \cup {None}, got : Value \cup {None}, ok : BOOLEAN]

\* At pc for req, having read got; ok is what the last check answered.
Doing(pc, req, got, ok) == [pc |-> pc, req |-> req, got |-> got, ok |-> ok]

Answered(ok) == Doing("idle", None, None, ok)

Idle == Answered(FALSE)

-----------------------------------------------------------------------------
(* What SetPermission makes of the list it has read                          *)

\* sort.Slice with a less that is never true, all the actions being the same:
\* it is not stable, so any order may come out.
Orders(es) ==
  {[i \in DOMAIN es |-> es[f[i]]] : f \in Bijection(DOMAIN es, DOMAIN es)}

\* Fault: the last entry is cut off without taking the place of the denied one.
CutLast(es, i) == SubSeq(es, 1, Len(es) - 1)

MoveLast(es, i) == SubSeq([es EXCEPT ![i] = es[Len(es)]], 1, Len(es) - 1)

\* The switch on foundIdx, here i - 1: denying the last entry cuts at i - 2,
\* which takes the entry before it too and panics when there is none.
Removed(es, i) ==
  CASE i = Len(es) -> IF i = 1 THEN {} ELSE Orders(SubSeq(es, 1, i - 2))
    [] i = 1 /\ i # Len(es) -> Orders(Tail(es))
    [] OTHER -> Orders(MoveLast(es, i))

\* The index that the loop breaks at, if any.
FirstOf(es, p) == {i \in DOMAIN es : es[i] = p /\ \A j \in 1..(i - 1) : es[j] # p}

\* Nothing when the code panics.
SetEntries(es, p, action) ==
  CASE action = "allow" -> {Append(es, p)}
    [] action = "deny" /\ FirstOf(es, p) # {} -> UNION {Removed(es, i) : i \in FirstOf(es, p)}
    [] OTHER -> {es}

\* The values that the request may put after reading got.
Written(r, got) ==
  CASE r.op \in {"put", "request"} -> {r.arg}
    [] r.op \in {"allow", "deny"} ->
         SetEntries(IF got = None THEN << >> ELSE got, r.arg, r.op)
    [] OTHER -> {}

-----------------------------------------------------------------------------
(* The steps of a call.  A change ends in ops.Fail(kv.Err()), ops.Commit()   *)
(* and the deferred ops.Close(); a check in ops.Close() and its answer.      *)

At(t, pc) == call[t].pc = pc

\* What was read is used by the next step only.
Goto(t, pc) == call' = [call EXCEPT ![t] = Doing(pc, @.req, None, @.ok)]

Call(t, r) ==
  /\ At(t, "idle")
  /\ call' = [call EXCEPT ![t] = Doing("ops", r, None, FALSE)]
  /\ UNCHANGED vars

\* AuthZ knows one operation and asks the store about no other.
RefuseOperation(t) ==
  /\ At(t, "ops") /\ call[t].req.op = "authZ" /\ call[t].req.arg[1] # "expose-endpoint"
  /\ call' = [call EXCEPT ![t] = Answered(FALSE)]
  /\ UNCHANGED vars

OpsCall(t) ==
  /\ At(t, "ops")
  /\ call[t].req.op = "authZ" => call[t].req.arg[1] = "expose-endpoint"
  /\ Ops(t, FALSE)
  /\ Goto(t, IF call[t].req.op = "put" THEN "set" ELSE "get")

\* A registration is stored without SSHPubKey's own MarshalJSON, which only a
\* pointer has (52, 187), and UnmarshalJSON refuses what json writes instead:
\* the error skips the check of 180-185 as if the row were missing.
Decoded(r, v) == IF r.op = "request" THEN None ELSE v

\* Fault: read through a kvops of its own, whose error the next ones forget.
GetOwnKV(t) ==
  /\ At(t, "get") /\ ops[t].tx = "active"
  /\ \/ GetStored(t, computeKeyLookup(call[t].req))
     \/ /\ reply' = Returned(None, "fault")
        /\ UNCHANGED <<db, ops, kv, writes, lock, stuck, seen>>
  /\ call' = [call EXCEPT ![t] =
       Doing(IF Checks(@.req) THEN "verify" ELSE "set", @.req, Decoded(@.req, reply'.value), FALSE)]

\* GetJSON, or GetBytes: a failed read looks like a row that is missing.
GetCall(t) ==
  /\ At(t, "get")
  /\ GetBytes(t, computeKeyLookup(call[t].req))
  /\ call' = [call EXCEPT ![t] =
       Doing(IF Checks(@.req) THEN "verify" ELSE "set", @.req, Decoded(@.req, reply'.value), FALSE)]

SetCall(t) ==
  /\ At(t, "set")
  /\ \E v \in Written(call[t].req, call[t].got) \cap Value :
       SetBytes(t, computeKeyLookup(call[t].req), v)
  /\ Goto(t, "fail")

\* Fault: the panic takes no deferred Close with it.
LeavesOpen(t) ==
  /\ At(t, "set") /\ Written(call[t].req, call[t].got) = {}
  /\ call' = [call EXCEPT ![t] = Idle]
  /\ UNCHANGED vars

\* The slice bounds of line 130.
GivesUp(t) ==
  /\ At(t, "set") /\ Written(call[t].req, call[t].got) = {}
  /\ Goto(t, "close")
  /\ UNCHANGED vars

FailCall(t) == At(t, "fail") /\ Fail(t) /\ Goto(t, "commit")

CommitCall(t) == At(t, "commit") /\ Commit(t) /\ Goto(t, "close")

\* The deferred Close; a check has its answer still to give, from what it read.
CloseCall(t) ==
  /\ At(t, "close")
  /\ Close(t)
  /\ call' = [call EXCEPT ![t] =
       IF Checks(@.req) THEN Doing("answer", @.req, @.got, FALSE) ELSE Idle]

Valid(cfg, now) == cfg # None /\ ValidFrom[cfg] <= now /\ now <= ExpiresAt[cfg]

\* lookupAndVerifyConfig after its read: the configuration it returns, if any.
Verify(t, now) ==
  /\ At(t, "verify")
  /\ call' = [call EXCEPT ![t] =
       Doing("close", @.req, IF Valid(@.got, now) THEN @.got ELSE None, FALSE)]
  /\ UNCHANGED vars

\* AuthN's result, and AuthZ's search of the hosts in its copy.
Grants(r, cfg) ==
  /\ cfg # None
  /\ r.op = "authZ" => r.arg[2] \in AllowedHosts[cfg]

\* After the transaction has ended.
Answer(t) ==
  /\ At(t, "answer")
  /\ call' = [call EXCEPT ![t] = Answered(Grants(@.req, @.got))]
  /\ UNCHANGED vars

KdbCrash == Crash /\ call' = [t \in Tx |-> Idle]

KdbInit == Init /\ call = [t \in Tx |-> Idle]

KdbNext ==
  \/ \E t \in Tx :
       \/ \E r \in Request : Call(t, r)
       \/ RefuseOperation(t) \/ OpsCall(t) \/ GetCall(t) \/ SetCall(t) \/ GivesUp(t)
       \/ FailCall(t) \/ CommitCall(t) \/ CloseCall(t) \/ Answer(t)
       \/ \E now \in Time : Verify(t, now)
  \/ KdbCrash

KdbSpec == KdbInit /\ [][KdbNext]_kdbVars
-----------------------------------------------------------------------------
(* Properties                                                                *)

\* What a row may hold.
RowValue(k) ==
  CASE k[1] = "key" -> Config
    [] k[1] = "key-perm" -> Entries
    [] k[1] = "key-reg" -> {r \in Registration : KeyOf[r] = k[2]}

\* The rows of the three kinds never mix: a configuration, a list of entries
\* or a registration of that very key, so that the readers of the first two
\* decode every row they find (static_keydb.go 105, 200).
KdbTypeOK ==
  /\ TypeOK
  /\ call \in [Tx -> CallState]
  /\ \A t \in Tx : At(t, "idle") => call[t] = Answered(call[t].ok)
  /\ \A k \in Key : db[k] \in RowValue(k) \cup {None}

\* A configuration that a check has read is the one in the database until its
\* transaction ends, whatever is registered meanwhile, and a yes is given from
\* such a configuration, valid then and listing the host.  The yes comes after
\* the deferred Close, so the row may have changed since (static_keydb.go
\* 148-169, 191-209).
GrantsAreCurrent ==
  /\ [](\A t \in Tx :
          call[t].pc \in {"verify", "close"} /\ call[t].got # None =>
            db[computeKeyLookup(call[t].req)] = call[t].got)
  /\ [][\A t \in Tx :
          ~call[t].ok /\ call'[t].ok =>
            /\ \E now \in Time : Valid(call[t].got, now)
            /\ Grants(call[t].req, call[t].got)]_kdbVars

\* A session between two calls has no handle and has written nothing, and
\* keeps the database locked only by a transaction that failed to end: every
\* early return and panic passes the deferred ops.Close() (static_keydb.go
\* 78-146, 171-209).
IdleHoldsNothing ==
  \A t \in Tx : call[t].pc \in {"idle", "answer"} =>
    /\ ops[t].tx = "none"
    /\ writes[t] = Nothing
    /\ lock[t] # "none" => t \in stuck

\* How often p is granted to pk.
Granted(d, pk, p) ==
  LET es == IF d[<<"key-perm", pk>>] = None THEN << >> ELSE d[<<"key-perm", pk>>]
  IN  Cardinality({i \in DOMAIN es : es[i] = p})

Denies(t, pk, p) == At(t, "commit") /\ call[t].req = [op |-> "deny", key |-> pk, arg |-> p]

\* A grant is lost one at a time, and only when a call that denies it is
\* applied, or one that denies the last entry and takes the one before it: no
\* concurrent change of the same list ever drops it (static_keydb.go 98-146).
GrantsSurvive ==
  [][\A pk \in PubKey, p \in Permission :
       Granted(db, pk, p)' < Granted(db, pk, p) =>
         /\ Granted(db, pk, p)' = Granted(db, pk, p) - 1
         /\ \E t \in Tx, q \in Permission :
              /\ Denies(t, pk, q)
              /\ LET es == db[<<"key-perm", pk>>] IN
                 q = p \/ (q = es[Len(es)] /\ p = es[Len(es) - 1])]_kdbVars

\* A request that may still change its row.
Pending(t) ==
  IF call[t].pc \in {"ops", "get", "set", "fail", "commit"} /\ ~Checks(call[t].req)
    THEN call[t].req ELSE None

Change == {r \in Request : ~Checks(r)}

Table == INSTANCE KeyTable WITH
  Session <- Tx, Request <- Change, rows <- db,
  asked <- [t \in Tx |-> Pending(t)],
  Row <- [r \in Change |-> computeKeyLookup(r)],
  Effect <- [r \in Change |-> [v \in Value \cup {None} |-> Written(r, v) \cap Value]]

\* No update is lost, applied twice or applied to a list that has changed
\* since it was read, in every interleaving of the sessions, and a call that
\* fails or is lost in a crash changes nothing.
ImplementsKeyTable == Table!Spec

=============================================================================
