---------------------------- MODULE Tokens_proofs ----------------------------
(***************************************************************************)
(* Tokens are accepted, kept and revoked as they should be, for any number *)
(* of clients, tokens and owners, any lifetimes and any length of a second.*)
(***************************************************************************)
EXTENDS Tokens, TLAPS

\* What a client is about to do: an insert has a row, a delete has none, and
\* what a request has read stays in the table while it holds its lock.
Pending(c) ==
  /\ ~At(c, "idle") => call[c].token \in Token
  /\ At(c, "statement") \/ At(c, "commit") =>
       /\ call[c].op = "issue" => call[c].row # None
       /\ call[c].op = "revoke" => call[c].row = None
  /\ At(c, "commit") => call[c].op \in {"issue", "revoke"}
  /\ At(c, "check") => lock[c] = "shared" /\ call[c].row = table[call[c].token]

IInv == TypeOK /\ \A c \in Client : Pending(c)

\* What is left to show of a step of c that leaves the table alone.
LEMMA StepKeeps ==
  ASSUME IInv, NEW c \in Client, NEW s \in CallState,
         NEW l \in {"none", "shared", "reserved"},
         call' = [call EXCEPT ![c] = s], lock' = [lock EXCEPT ![c] = l],
         UNCHANGED <<now, table>>,
         listed' \in [owner : Owner \cup {None}, tokens : SUBSET Token],
         handed' \subseteq Token, lost' \subseteq Token,
         s.pc # "idle" => s.token \in Token,
         s.pc \in {"statement", "commit"} =>
           /\ s.op = "issue" => s.row # None
           /\ s.op = "revoke" => s.row = None,
         s.pc = "commit" => s.op \in {"issue", "revoke"},
         s.pc = "check" => l = "shared" /\ s.row = table[s.token]
  PROVE  IInv'
<1>1. TypeOK'
  BY DEF IInv, TypeOK
<1>2. /\ call'[c] = s /\ lock'[c] = l
      /\ \A d \in Client \ {c} : call'[d] = call[d] /\ lock'[d] = lock[d]
  BY DEF IInv, TypeOK
<1>3. \A d \in Client : Pending(d)'
  BY <1>2 DEF IInv, Pending, At
<1> QED BY <1>1, <1>3 DEF IInv

LEMMA IdleState == Idle \in CallState /\ Idle.pc = "idle"
BY DEF Idle, Doing, CallState

LEMMA IssueStep ==
  ASSUME IInv, NEW c \in Client, NEW owner \in Owner, NEW ttl \in TTL \cup {None},
         NEW k \in Token, Issue(c, owner, ttl, k)
  PROVE  IInv'
<1> DEFINE r == [owner |-> owner, expires |-> Expiry(ttl)]
           s == Doing("statement", "issue", k, r)
<1>1. Expiry(ttl) \in (Nat \ {0}) \cup {None}
  BY TTLAssumption DEF Expiry, IInv, TypeOK
<1>2. r \in Row /\ r # None
  BY <1>1, NoRowAssumption DEF Row
<1> HIDE DEF r
<1>3. /\ s \in CallState /\ s.pc = "statement" /\ s.op = "issue" /\ s.token = k
      /\ s.row = r
  BY <1>2 DEF Doing, CallState
<1>4. call' = [call EXCEPT ![c] = s]
  BY DEF Issue, r
<1> HIDE DEF s
<1>5. lock[c] \in {"none", "shared", "reserved"} /\ lock' = [lock EXCEPT ![c] = lock[c]]
  BY DEF Issue, IInv, TypeOK
<1>6. /\ UNCHANGED <<now, table>>
      /\ listed' \in [owner : Owner \cup {None}, tokens : SUBSET Token]
      /\ handed' \subseteq Token /\ lost' \subseteq Token
  BY DEF Issue, IInv, TypeOK
<1> QED BY <1>2, <1>3, <1>4, <1>5, <1>6, StepKeeps

LEMMA StartStep ==
  ASSUME IInv, NEW c \in Client, NEW k \in Token, NEW op \in {"revoke", "valid", "forged"},
         call' = [call EXCEPT ![c] = Doing("statement", op, k, None)],
         UNCHANGED <<now, table, lock, listed, handed, lost>>
  PROVE  IInv'
<1> DEFINE s == Doing("statement", op, k, None)
<1>1. /\ s \in CallState /\ s.pc = "statement" /\ s.op = op /\ s.token = k
      /\ s.row = None
  BY DEF Doing, CallState
<1> HIDE DEF s
<1>2. call' = [call EXCEPT ![c] = s]
  BY DEF s
<1>3. lock[c] \in {"none", "shared", "reserved"} /\ lock' = [lock EXCEPT ![c] = lock[c]]
  BY DEF IInv, TypeOK
<1>4. /\ UNCHANGED <<now, table>>
      /\ listed' \in [owner : Owner \cup {None}, tokens : SUBSET Token]
      /\ handed' \subseteq Token /\ lost' \subseteq Token
  BY DEF IInv, TypeOK
<1>5. /\ s.pc # "idle" => s.token \in Token
      /\ s.pc \in {"statement", "commit"} =>
           /\ s.op = "issue" => s.row # None
           /\ s.op = "revoke" => s.row = None
      /\ s.pc = "commit" => s.op \in {"issue", "revoke"}
      /\ s.pc = "check" => lock[c] = "shared" /\ s.row = table[s.token]
  BY <1>1
<1>6. s \in CallState
  BY <1>1
<1> QED BY ONLY IInv, <1>2, <1>3, <1>4, <1>5, <1>6, StepKeeps

LEMMA ExecuteStep ==
  ASSUME IInv, NEW c \in Client, Execute(c)
  PROVE  IInv'
<1> DEFINE s == Doing("commit", call[c].op, call[c].token, call[c].row)
<1>1. /\ call[c] \in CallState /\ call[c].token \in Token
      /\ call[c].op = "issue" => call[c].row # None
      /\ call[c].op = "revoke" => call[c].row = None
  BY DEF Execute, IInv, TypeOK, Pending, At
<1>2. /\ s \in CallState /\ s.pc = "commit" /\ s.op = call[c].op
      /\ s.token = call[c].token /\ s.row = call[c].row
  BY <1>1 DEF Doing, CallState
<1>3. call' = [call EXCEPT ![c] = s] /\ lock' = [lock EXCEPT ![c] = "reserved"]
  BY DEF Execute
<1> HIDE DEF s
<1>4. /\ UNCHANGED <<now, table>>
      /\ listed' \in [owner : Owner \cup {None}, tokens : SUBSET Token]
      /\ handed' \subseteq Token /\ lost' \subseteq Token
  BY DEF Execute, IInv, TypeOK
<1>5. s.op \in {"issue", "revoke"}
  BY <1>2 DEF Execute
<1> QED BY <1>1, <1>2, <1>3, <1>4, <1>5, StepKeeps

LEMMA ReturnStep ==
  ASSUME IInv, NEW c \in Client, Return(c), UNCHANGED <<now, table, listed>>,
         handed' \subseteq Token, lost' \subseteq Token
  PROVE  IInv'
BY IdleState, StepKeeps DEF Return, IInv, TypeOK

LEMMA SelectStep ==
  ASSUME IInv, NEW c \in Client, Select(c)
  PROVE  IInv'
<1> DEFINE s == Doing("check", call[c].op, call[c].token, table[call[c].token])
<1>1. call[c] \in CallState /\ call[c].token \in Token
  BY DEF Select, IInv, TypeOK, Pending, At
<1>2. table[call[c].token] \in Row \cup {None}
  BY <1>1 DEF IInv, TypeOK
<1>3. /\ s \in CallState /\ s.pc = "check" /\ s.token = call[c].token
      /\ s.row = table[call[c].token]
  BY <1>1, <1>2 DEF Doing, CallState
<1>4. call' = [call EXCEPT ![c] = s]
  BY DEF Select
<1> HIDE DEF s
<1> QED BY <1>1, <1>3, <1>4, StepKeeps DEF Select, IInv, TypeOK

LEMMA CheckStep ==
  ASSUME IInv, NEW c \in Client, Check(c)
  PROVE  IInv'
<1> DEFINE s == Doing("serve", call[c].op, call[c].token, call[c].row)
<1>1. call[c] \in CallState /\ call[c].token \in Token
  BY DEF Check, IInv, TypeOK, Pending, At
<1>2. s \in CallState /\ s.pc = "serve" /\ s.token = call[c].token
  BY <1>1 DEF Doing, CallState
<1>3. call' = [call EXCEPT ![c] = s] \/ call' = [call EXCEPT ![c] = Idle]
  BY DEF Check
<1> HIDE DEF s
<1> QED BY <1>1, <1>2, <1>3, IdleState, StepKeeps DEF Check, IInv, TypeOK

LEMMA CommitStep ==
  ASSUME IInv, NEW c \in Client, CommitCall(c)
  PROVE  IInv'
<1>1. call[c] \in CallState /\ call[c].token \in Token
  BY DEF CommitCall, IInv, TypeOK, Pending, At
<1>2. handed' \subseteq Token /\ lost' \subseteq Token
  BY <1>1 DEF CommitCall, HandOut, IInv, TypeOK
<1>3. CASE UNCHANGED table
  BY <1>2, <1>3, ReturnStep DEF CommitCall
<1>4. CASE /\ ~OthersHold(c, {"shared", "reserved"})
           /\ table' = [table EXCEPT ![call[c].token] = call[c].row]
  <2>1. table' \in [Token -> Row \cup {None}]
    BY <1>1, <1>4 DEF IInv, TypeOK, CallState
  <2>2. TypeOK'
    BY <1>2, <2>1, IdleState DEF CommitCall, Return, IInv, TypeOK
  <2>3. call'[c] = Idle /\ \A d \in Client \ {c} : call'[d] = call[d] /\ lock'[d] = lock[d]
    BY DEF CommitCall, Return, IInv, TypeOK
  <2>4. ASSUME NEW d \in Client PROVE Pending(d)'
    <3>1. CASE d = c
      BY <2>3, <3>1, IdleState DEF Pending, At
    <3>2. CASE d # c
      <4>1. ~At(d, "check")
        BY <1>4, <3>2 DEF OthersHold, IInv, Pending
      <4> QED BY <2>3, <3>2, <4>1 DEF IInv, Pending, At
    <3> QED BY <3>1, <3>2
  <2> QED BY <2>2, <2>4 DEF IInv
<1> QED BY <1>3, <1>4 DEF CommitCall

LEMMA InductiveInvariant == Spec => []IInv
<1>1. Init => IInv
  BY IdleState DEF Init, IInv, TypeOK, Pending, At
<1>2. IInv /\ [Next]_vars => IInv'
  <2> SUFFICES ASSUME IInv, [Next]_vars PROVE IInv'
    OBVIOUS
  <2>1. ASSUME NEW c \in Client, NEW k \in Token, Revoke(c, k) PROVE IInv'
    BY <2>1, StartStep DEF Revoke
  <2>2. ASSUME NEW c \in Client, NEW k \in Token, NEW op \in {"valid", "forged"},
               Request(c, k, op)
        PROVE  IInv'
    BY <2>2, StartStep DEF Request
  <2>3. ASSUME NEW c \in Client, NEW owner \in Owner, ListActive(c, owner) PROVE IInv'
    <3>1. PICK tokens \in SUBSET Active(owner) : listed' = [owner |-> owner, tokens |-> tokens]
      BY <2>3 DEF ListActive
    <3>2. listed' \in [owner : Owner \cup {None}, tokens : SUBSET Token]
      BY <3>1 DEF Active
    <3> QED BY <2>3, <3>2 DEF ListActive, IInv, TypeOK, Pending, At
  <2>4. ASSUME NEW c \in Client, StatementFails(c) \/ Serve(c) PROVE IInv'
    BY <2>4, ReturnStep DEF StatementFails, Serve, IInv, TypeOK
  <2>5. CASE Tick
    BY <2>5 DEF Tick, IInv, TypeOK, Pending, At
  <2>6. CASE Crash
    BY <2>6, IdleState DEF Crash, IInv, TypeOK, Pending, At
  <2>7. CASE UNCHANGED vars
    BY <2>7 DEF vars, IInv, TypeOK, Pending, At
  <2> QED
    BY <2>1, <2>2, <2>3, <2>4, <2>5, <2>6, <2>7,
       IssueStep, ExecuteStep, CommitStep, SelectStep, CheckStep DEF Next
<1> QED BY <1>1, <1>2, PTL DEF Spec

-----------------------------------------------------------------------------
(* Every variable keeps its type: issue and revoke write whole rows or none, *)
(* and an expiry is a positive time (tokens.go 96-119).                      *)
THEOREM TypeCorrect == Spec => []TypeOK
<1>1. IInv => TypeOK
  BY DEF IInv
<1> QED BY <1>1, InductiveInvariant, PTL

(* A request is let through exactly when its token is live at the moment of  *)
(* the decision, on behalf of its owner (tokens.go 50-80).                   *)
THEOREM AcceptedCorrect == Spec => AcceptedIffLive
<1> DEFINE A(c) == LET k == call[c].token IN
                   Check(c) =>
                     /\ call'[c].pc = "serve" <=> call[c].op = "valid" /\ Live(k)
                     /\ call'[c].pc = "serve" => call'[c].row.owner = table[k].owner
<1>1. ASSUME IInv, NEW c \in Client PROVE A(c)
  <2> SUFFICES ASSUME Check(c) PROVE A(c)
    OBVIOUS
  <2>1. call[c].row = table[call[c].token]
    BY <1>1 DEF Check, IInv, Pending
  <2> DEFINE ok == call[c].row # None /\ ~Expired(call[c].row) /\ call[c].op = "valid"
  <2>2. ok <=> call[c].op = "valid" /\ Live(call[c].token)
    <3>1. call[c].token \in Token
      BY <1>1 DEF Check, IInv, Pending, At
    <3>2. now \in Nat /\ table[call[c].token] \in Row \cup {None}
      BY <1>1, <3>1 DEF IInv, TypeOK
    <3> QED BY <2>1, <3>2 DEF Expired, Live, Row
  <2>3. call'[c] = IF ok THEN Doing("serve", call[c].op, call[c].token, call[c].row) ELSE Idle
    BY <1>1 DEF Check, IInv, TypeOK
  <2> HIDE DEF ok
  <2>4. /\ call'[c].pc = "serve" <=> ok
        /\ ok => call'[c].row = call[c].row
    BY <2>3, IdleState DEF Doing
  <2> QED BY <2>1, <2>2, <2>4
<1>2. IInv /\ [Next]_vars => [\A c \in Client : A(c)]_vars
  BY <1>1
<1> QED BY <1>2, InductiveInvariant, PTL DEF Spec, AcceptedIffLive

(* A token that was handed out is stored until it is revoked, unless its     *)
(* Commit failed (tokendb.go 40-52, 75-82).                                  *)
THEOREM HandedOutCorrect == Spec => HandedOutIsStored
<1> DEFINE H(k) == k \in handed' /\ table'[k] = None =>
                     \/ k \in lost'
                     \/ k \in handed /\ table[k] = None
                     \/ \E c \in Client : At(c, "commit") /\ call[c].op = "revoke" /\ call[c].token = k
<1>1. ASSUME IInv, [Next]_vars, NEW k \in Token PROVE H(k)
  <2>1. CASE UNCHANGED <<table, handed>>
    BY <2>1
  <2>2. ASSUME NEW c \in Client, CommitCall(c) PROVE H(k)
    <3>1. /\ call[c].token \in Token /\ call[c].op \in {"issue", "revoke"}
          /\ call[c].op = "issue" => call[c].row # None
      BY <1>1, <2>2 DEF CommitCall, IInv, Pending, At
    <3>2. handed' = IF call[c].op = "issue" THEN handed \cup {call[c].token} ELSE handed
      BY <2>2 DEF CommitCall, HandOut
    <3>3. CASE table' = [table EXCEPT ![call[c].token] = call[c].row]
      BY <1>1, <2>2, <3>1, <3>2, <3>3 DEF CommitCall, IInv, TypeOK
    <3>4. CASE lost' = lost \cup {call[c].token} /\ UNCHANGED table
      BY <3>2, <3>4
    <3> QED BY <2>2, <3>3, <3>4 DEF CommitCall
  <2> QED
    BY <1>1, <2>1, <2>2
       DEF Next, Issue, Revoke, Request, ListActive, Execute, StatementFails, Select, Check,
           Serve, Tick, Crash, vars
<1>2. IInv /\ [Next]_vars => [\A k \in Token : H(k)]_vars
  BY <1>1
<1> QED BY <1>2, InductiveInvariant, PTL DEF Spec, HandedOutIsStored

-----------------------------------------------------------------------------
(* What has gone stays gone                                                  *)

\* What c is about to commit.
About(c, op) == call[c].pc \in {"statement", "commit"} /\ call[c].op = op

\* Only what was handed out is stored or revoked, what is about to be issued is
\* neither, and nobody else issues it.
Unique ==
  /\ \A k \in Token : table[k] # None => k \in handed
  /\ \A c \in Client : About(c, "revoke") => call[c].token \in handed
  /\ \A c \in Client : About(c, "issue") =>
       /\ call[c].token \notin handed
       /\ \A d \in Client \ {c} : About(d, "issue") => call[d].token # call[c].token

\* A step of c after which it is about to issue or revoke only what it was.
LEMMA SameUnique ==
  ASSUME IInv, Unique, NEW c \in Client, UNCHANGED <<table, handed>>,
         \A d \in Client \ {c} : call'[d] = call[d],
         \A op \in {"issue", "revoke"} :
           About(c, op)' => About(c, op) /\ call'[c].token = call[c].token
  PROVE  Unique'
<1>1. \A d \in Client, op \in {"issue", "revoke"} :
        About(d, op)' => About(d, op) /\ call'[d].token = call[d].token
  BY DEF About
<1> QED BY <1>1 DEF Unique

LEMMA IssueUnique ==
  ASSUME IInv, Unique, NEW c \in Client, NEW owner \in Owner, NEW ttl \in TTL \cup {None},
         NEW k \in Token, Issue(c, owner, ttl, k)
  PROVE  Unique'
<1>1. /\ k \notin handed /\ \A d \in Client : call[d].token # k
      /\ UNCHANGED <<table, handed>>
  BY DEF Issue, Fresh
<1>2. /\ call'[c].token = k /\ call'[c].op = "issue"
      /\ \A d \in Client \ {c} : call'[d] = call[d]
  BY DEF Issue, Doing, IInv, TypeOK
<1>3. ~About(c, "revoke")' /\ \A d \in Client \ {c} : \A op : About(d, op)' <=> About(d, op)
  BY <1>2 DEF About
<1>4. ASSUME NEW d \in Client, About(d, "issue")'
      PROVE  /\ call'[d].token \notin handed
             /\ \A e \in Client \ {d} : About(e, "issue")' => call'[e].token # call'[d].token
  BY <1>1, <1>2, <1>3, <1>4 DEF Unique
<1>5. ASSUME NEW d \in Client, About(d, "revoke")' PROVE call'[d].token \in handed
  BY <1>2, <1>3, <1>5 DEF Unique
<1> QED BY <1>1, <1>4, <1>5 DEF Unique

LEMMA RevokeUnique ==
  ASSUME IInv, Unique, NEW c \in Client, NEW k \in Token, Revoke(c, k)
  PROVE  Unique'
<1>1. k \in handed /\ UNCHANGED <<table, handed>>
  BY DEF Revoke, Unique
<1>2. /\ call'[c].token = k /\ call'[c].op = "revoke"
      /\ \A d \in Client \ {c} : call'[d] = call[d]
  BY DEF Revoke, Doing, IInv, TypeOK
<1>3. ~About(c, "issue")' /\ \A d \in Client \ {c} : \A op : About(d, op)' <=> About(d, op)
  BY <1>2 DEF About
<1> QED BY <1>1, <1>2, <1>3 DEF Unique

LEMMA CommitUnique ==
  ASSUME IInv, Unique, NEW c \in Client, CommitCall(c)
  PROVE  Unique'
<1> DEFINE k == call[c].token
<1>1. /\ k \in Token /\ call[c].op \in {"issue", "revoke"} /\ About(c, call[c].op)
      /\ call[c].op = "revoke" => call[c].row = None
  BY DEF CommitCall, IInv, Pending, At, About
<1>2. /\ \A d \in Client \ {c} : call'[d] = call[d]
      /\ call'[c] = Idle
  BY DEF CommitCall, Return, IInv, TypeOK
<1>3. /\ \A op : ~About(c, op)'
      /\ \A d \in Client \ {c} : \A op : About(d, op)' <=> About(d, op)
  BY <1>2, IdleState DEF About
<1>4. handed' = IF call[c].op = "issue" THEN handed \cup {k} ELSE handed
  BY DEF CommitCall, HandOut
<1>5. table' \in {table, [table EXCEPT ![k] = call[c].row]}
  BY DEF CommitCall
<1>6. \A j \in Token : table'[j] # None => j \in handed'
  BY <1>1, <1>4, <1>5 DEF Unique, IInv, TypeOK
<1>7. \A d \in Client : About(d, "revoke")' => call'[d].token \in handed'
  BY <1>2, <1>3, <1>4 DEF Unique
<1>8. ASSUME NEW d \in Client, About(d, "issue")'
      PROVE  /\ call'[d].token \notin handed'
             /\ \A e \in Client \ {d} : About(e, "issue")' => call'[e].token # call'[d].token
  <2>1. d # c /\ About(d, "issue") /\ call'[d] = call[d]
    BY <1>2, <1>3, <1>8
  <2>2. call'[d].token \notin handed'
    BY <1>1, <1>4, <2>1 DEF Unique
  <2>3. \A e \in Client \ {d} : About(e, "issue")' => e # c /\ About(e, "issue") /\ call'[e] = call[e]
    BY <1>2, <1>3
  <2> QED BY <2>1, <2>2, <2>3 DEF Unique
<1> QED BY <1>6, <1>7, <1>8 DEF Unique

LEMMA NextUnique ==
  ASSUME IInv, Unique, [Next]_vars
  PROVE  Unique'
<1>1. ASSUME NEW c \in Client, Execute(c) \/ StatementFails(c) \/ Select(c) \/ Check(c) \/ Serve(c)
      PROVE  Unique'
  <2>1. UNCHANGED <<table, handed>> /\ \A d \in Client \ {c} : call'[d] = call[d]
    BY <1>1 DEF Execute, StatementFails, Select, Check, Serve, Return, IInv, TypeOK
  <2>2. \A op \in {"issue", "revoke"} :
           About(c, op)' => About(c, op) /\ call'[c].token = call[c].token
    BY <1>1, IdleState
       DEF Execute, StatementFails, Select, Check, Serve, Return, At, About, Doing, IInv, TypeOK
  <2> QED BY <2>1, <2>2, SameUnique
<1>2. ASSUME NEW c \in Client, NEW k \in Token, NEW op \in {"valid", "forged"}, Request(c, k, op)
      PROVE  Unique'
  <2>1. /\ UNCHANGED <<table, handed>> /\ \A d \in Client \ {c} : call'[d] = call[d]
        /\ call'[c].op = op
    BY <1>2 DEF Request, Doing, IInv, TypeOK
  <2> QED BY <2>1, SameUnique DEF About
<1>3. CASE Crash
  BY <1>3, IdleState DEF Crash, Unique, About
<1>4. ASSUME UNCHANGED <<table, handed, call>> PROVE Unique'
  BY <1>4 DEF Unique, About
<1> QED
  BY <1>1, <1>2, <1>3, <1>4, IssueUnique, RevokeUnique, CommitUnique
     DEF Next, ListActive, Tick, vars

(* A stored token keeps its owner and its lifetime, and one that was revoked *)
(* never comes back (tokendb.go 40-52, tokens.go 96-130).                    *)
THEOREM RevocationCorrect == Spec => RevocationIsFinal
<1> DEFINE F(k) == /\ table[k] # None => table'[k] \in {table[k], None}
                   /\ k \in handed /\ table[k] = None => table'[k] = None
<1>1. Init => Unique
  BY IdleState DEF Init, Unique, About
<1>2. IInv /\ Unique /\ [Next]_vars => Unique'
  BY NextUnique
<1>3. ASSUME IInv, Unique, [Next]_vars, NEW k \in Token PROVE F(k)
  <2>1. CASE UNCHANGED table
    BY <2>1
  <2>2. ASSUME NEW c \in Client, CommitCall(c) PROVE F(k)
    <3>1. /\ call[c].token \in Token /\ call[c].op \in {"issue", "revoke"}
          /\ About(c, call[c].op)
          /\ call[c].op = "revoke" => call[c].row = None
      BY <1>3, <2>2 DEF CommitCall, IInv, Pending, At, About
    <3>2. ASSUME call[c].op = "issue" PROVE call[c].token \notin handed /\ table[call[c].token] = None
      <4>1. About(c, "issue")
        BY <3>1, <3>2
      <4>2. call[c].token \notin handed
        BY <1>3, <4>1 DEF Unique
      <4> QED BY <1>3, <3>1, <4>2 DEF Unique
    <3>3. table' \in {table, [table EXCEPT ![call[c].token] = call[c].row]}
      BY <2>2 DEF CommitCall
    <3>4. CASE k # call[c].token
      BY <1>3, <3>3, <3>4 DEF IInv, TypeOK
    <3>5. CASE k = call[c].token
      <4>1. table'[k] \in {table[k], call[c].row}
        BY <1>3, <3>3, <3>5 DEF IInv, TypeOK
      <4>2. CASE call[c].op = "revoke"
        BY <3>1, <4>1, <4>2
      <4>3. CASE call[c].op = "issue"
        BY <3>2, <3>5, <4>3
      <4> QED BY <3>1, <4>2, <4>3
    <3> QED BY <3>4, <3>5
  <2> QED
    BY <1>3, <2>1, <2>2
       DEF Next, Issue, Revoke, Request, ListActive, Execute, StatementFails, Select, Check,
           Serve, Tick, Crash, vars
<1>4. IInv /\ Unique /\ [Next]_vars => [\A k \in Token : F(k)]_vars
  BY <1>3
<1> QED BY <1>1, <1>2, <1>4, InductiveInvariant, PTL DEF Spec, RevocationIsFinal
=============================================================================
