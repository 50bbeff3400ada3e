------------------------------- MODULE Tokens -------------------------------
(***************************************************************************)
(* Access tokens: internal/store/tokens.go under gateway/ssh/tokendb.go,   *)
(* called by admin sessions and by protectHttpFunc of http_api.go.  Every  *)
(* function runs one statement in a transaction of its own, which may fail *)
(* at any time; SQLite's locks are those of Store.tla.  Time is counted in *)
(* milliseconds, and Second of them are a second.                          *)
(***************************************************************************)
EXTENDS Integers

CONSTANTS
  Client,  \* admin sessions and HTTP requests, one call at a time
  Token,   \* token_id
  Owner,
  TTL,     \* lifetimes in milliseconds
  Second,
  MaxNow,  \* bound on the clock
  None     \* no row, no expiry, nobody

ASSUME TTLAssumption == TTL \subseteq Nat \ {0}
ASSUME ClockAssumption == Second \in Nat \ {0, 1} /\ MaxNow \in Nat
ASSUME NoneAssumption == None \notin Token \cup Owner \cup Nat

VARIABLES
  now,     \* the clock
  table,   \* dt_token_set as committed
  call,    \* what each client is doing
  lock,    \* external: SQLite's lock of each client's transaction
  listed,  \* what the last listActive returned
  handed,  \* history: the tokens that were handed out
  lost     \* history: those whose Commit failed

vars == <<now, table, call, lock, listed, handed, lost>>

Row == [owner : Owner, expires : (Nat \ {0}) \cup {None}]

ASSUME NoRowAssumption == None \notin Row

\* At pc for op on token; row is the one to insert, or the one read.
Doing(pc, op, token, row) == [pc |-> pc, op |-> op, token |-> token, row |-> row]

Idle == Doing("idle", "none", None, None)

CallState ==
  [pc : {"idle", "statement", "commit", "check", "serve"},
   op : {"none", "issue", "revoke", "valid", "forged"},
   token : Token \cup {None}, row : Row \cup {None}]

Init ==
  /\ now = 1
  /\ table = [k \in Token |-> None]
  /\ call = [c \in Client |-> Idle]
  /\ lock = [c \in Client |-> "none"]
  /\ listed = [owner |-> None, tokens |-> {}]
  /\ handed = {}
  /\ lost = {}

At(c, pc) == call[c].pc = pc

OthersHold(c, locks) == \E d \in Client \ {c} : lock[d] \in locks

\* The call is over: its handle is closed and its locks are gone.
Return(c) ==
  /\ call' = [call EXCEPT ![c] = Idle]
  /\ lock' = [lock EXCEPT ![c] = "none"]

-----------------------------------------------------------------------------
(* tokenset.issue, issueLifetime and revoke of an admin session              *)

\* Ids are random and taken for new ones.
Fresh(k) == table[k] = None /\ k \notin handed /\ \A c \in Client : call[c].token # k

\* Fault: issueLifetime's ttl of -1 is added like any other.
AlwaysExpires(ttl) == now + (IF ttl = None THEN -1 ELSE ttl)

Expiry(ttl) == IF ttl = None THEN None ELSE now + ttl

\* ttl is None for issueLifetime, and positive otherwise.
Issue(c, owner, ttl, k) ==
  /\ At(c, "idle") /\ Fresh(k)
  /\ call' = [call EXCEPT ![c] =
       Doing("statement", "issue", k, [owner |-> owner, expires |-> Expiry(ttl)])]
  /\ UNCHANGED <<now, table, lock, listed, handed, lost>>

Revoke(c, k) ==
  /\ At(c, "idle")
  /\ table[k] # None \/ k \in handed
  /\ call' = [call EXCEPT ![c] = Doing("statement", "revoke", k, None)]
  /\ UNCHANGED <<now, table, lock, listed, handed, lost>>

\* The insert or the delete of the transaction.
Execute(c) ==
  /\ At(c, "statement") /\ call[c].op \in {"issue", "revoke"}
  /\ ~OthersHold(c, {"reserved"})
  /\ lock' = [lock EXCEPT ![c] = "reserved"]
  /\ call' = [call EXCEPT ![c] = Doing("commit", @.op, @.token, @.row)]
  /\ UNCHANGED <<now, table, listed, handed, lost>>

\* Any statement: the caller is told, by an error or a status of 401.
StatementFails(c) ==
  /\ At(c, "statement")
  /\ Return(c)
  /\ UNCHANGED <<now, table, listed, handed, lost>>

HandOut(c) ==
  handed' = IF call[c].op = "issue" THEN handed \cup {call[c].token} ELSE handed

\* Fault: nobody commits, and Close rolls back.
CommitForgotten(c) ==
  /\ At(c, "commit")
  /\ Return(c) /\ HandOut(c)
  /\ UNCHANGED <<now, table, listed, lost>>

\* Fault: a failed issue is tried again, although its token was handed out.
CommitRetried(c) ==
  /\ At(c, "commit")
  /\ \/ /\ ~OthersHold(c, {"shared", "reserved"})
        /\ table' = [table EXCEPT ![call[c].token] = call[c].row]
        /\ Return(c)
        /\ UNCHANGED lost
     \/ /\ lost' = lost \cup {call[c].token}
        /\ call' = [call EXCEPT ![c].pc = "statement"]
        /\ lock' = [lock EXCEPT ![c] = "none"]
        /\ UNCHANGED table
  /\ HandOut(c)
  /\ UNCHANGED <<now, listed>>

\* What Commit returns is not looked at by Issue and says nothing to Revoke:
\* the token is handed out, and the revocation reported, all the same.
CommitCall(c) ==
  /\ At(c, "commit")
  /\ \/ /\ ~OthersHold(c, {"shared", "reserved"})
        /\ table' = [table EXCEPT ![call[c].token] = call[c].row]
        /\ UNCHANGED lost
     \/ /\ lost' = lost \cup {call[c].token}
        /\ UNCHANGED table
  /\ Return(c) /\ HandOut(c)
  /\ UNCHANGED <<now, listed>>

-----------------------------------------------------------------------------
(* tokenset.listActive: one statement over the view                          *)

\* unixepoch('subsec') counts seconds, the column milliseconds.
is_active(row) == row.expires = None \/ row.expires > now \div Second

Active(owner) ==
  {k \in Token : table[k] # None /\ table[k].owner = owner /\ is_active(table[k])}

\* List does not ask rows.Err(): an iteration that fails just ends the list.
ListActive(c, owner) ==
  /\ At(c, "idle")
  /\ \E tokens \in SUBSET Active(owner) : listed' = [owner |-> owner, tokens |-> tokens]
  /\ UNCHANGED <<now, table, call, lock, handed, lost>>

-----------------------------------------------------------------------------
(* protectHttpFunc: Valid, and then the handler on behalf of the owner       *)

\* A request with the token's secret, or with another one for its id.
Request(c, k, op) ==
  /\ At(c, "idle") /\ op \in {"valid", "forged"}
  /\ call' = [call EXCEPT ![c] = Doing("statement", op, k, None)]
  /\ UNCHANGED <<now, table, lock, listed, handed, lost>>

Select(c) ==
  /\ At(c, "statement") /\ call[c].op \in {"valid", "forged"}
  /\ lock' = [lock EXCEPT ![c] = "shared"]
  /\ call' = [call EXCEPT ![c] = Doing("check", @.op, @.token, table[@.token])]
  /\ UNCHANGED <<now, table, listed, handed, lost>>

\* Fault: a token is refused in the millisecond that it expires in.
ExpiredAt(row) == row.expires # None /\ now >= row.expires

Expired(row) == row.expires # None /\ now > row.expires

\* No row, expired, another secret: the request is refused.
Check(c) ==
  LET ok == call[c].row # None /\ ~Expired(call[c].row) /\ call[c].op = "valid" IN
  /\ At(c, "check")
  /\ call' = [call EXCEPT ![c] =
       IF ok THEN Doing("serve", @.op, @.token, @.row) ELSE Idle]
  /\ lock' = [lock EXCEPT ![c] = "none"]
  /\ UNCHANGED <<now, table, listed, handed, lost>>

\* The handler runs once the token's transaction is over.
Serve(c) ==
  /\ At(c, "serve")
  /\ Return(c)
  /\ UNCHANGED <<now, table, listed, handed, lost>>

-----------------------------------------------------------------------------
Tick ==
  /\ now < MaxNow
  /\ now' = now + 1
  /\ UNCHANGED <<table, call, lock, listed, handed, lost>>

Crash ==
  /\ call' = [c \in Client |-> Idle]
  /\ lock' = [c \in Client |-> "none"]
  /\ UNCHANGED <<now, table, listed, handed, lost>>

Next ==
  \/ \E c \in Client :
       \/ \E owner \in Owner, ttl \in TTL \cup {None}, k \in Token : Issue(c, owner, ttl, k)
       \/ \E k \in Token : Revoke(c, k)
       \/ \E k \in Token, op \in {"valid", "forged"} : Request(c, k, op)
       \/ \E owner \in Owner : ListActive(c, owner)
       \/ Execute(c) \/ StatementFails(c) \/ CommitCall(c)
       \/ Select(c) \/ Check(c) \/ Serve(c)
  \/ Tick
  \/ Crash

Spec == Init /\ [][Next]_vars

-----------------------------------------------------------------------------
(* Properties                                                                *)

\* Every variable keeps its type; an expiry, if there is one, is a positive time.
TypeOK ==
  /\ now \in Nat \ {0}
  /\ table \in [Token -> Row \cup {None}]
  /\ call \in [Client -> CallState]
  /\ lock \in [Client -> {"none", "shared", "reserved"}]
  /\ listed \in [owner : Owner \cup {None}, tokens : SUBSET Token]
  /\ handed \subseteq Token /\ lost \subseteq Token

\* Valid's own words: stored, and not past its last millisecond.
Live(k) == table[k] # None /\ (table[k].expires = None \/ now <= table[k].expires)

\* A request is let through exactly when its token is live at the moment of the
\* decision, on behalf of the owner that it was issued to, whatever was issued
\* or revoked since its row was read (tokens.go 50-80, http_api.go 131-139).
AcceptedIffLive ==
  [][\A c \in Client :
       LET k == call[c].token IN
       Check(c) =>
         /\ call'[c].pc = "serve" <=> call[c].op = "valid" /\ Live(k)
         /\ call'[c].pc = "serve" => call'[c].row.owner = table[k].owner]_vars

\* A token that was handed out is stored until it is revoked, unless its Commit
\* failed, which nobody is told of (tokendb.go 40-52).
HandedOutIsStored ==
  [][\A k \in Token :
       k \in handed' /\ table'[k] = None =>
         \/ k \in lost'
         \/ k \in handed /\ table[k] = None
         \/ \E c \in Client : At(c, "commit") /\ call[c].op = "revoke" /\ call[c].token = k]_vars

\* A stored token is never given to another owner nor another lifetime, and one
\* that was handed out and has gone never comes back, of a call that is late or
\* one that runs into a crash (tokendb.go 40-52, 75-82).
RevocationIsFinal ==
  [][\A k \in Token :
       /\ table[k] # None => table'[k] \in {table[k], None}
       /\ k \in handed /\ table[k] = None => table'[k] = None]_vars

\* Violated: what ListActive returns as Active is accepted by Valid.
ListedAreValid ==
  [][\A c \in Client, owner \in Owner :
       ListActive(c, owner) => \A k \in listed'.tokens : Live(k)]_vars
=============================================================================
