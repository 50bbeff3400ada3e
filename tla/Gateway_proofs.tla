--------------------------- MODULE Gateway_proofs ---------------------------
(***************************************************************************)
(* What an admin session runs and tells, for any number of connections and *)
(* sessions and lines of any number, whatever the parser takes for a whole *)
(* script and whenever a script fails, a connection ends or the gateway is *)
(* shut down.                                                              *)
(***************************************************************************)
EXTENDS Gateway, SequenceTheorems, WellFoundedInduction, TLAPS

\* The lines that a session has read have run, run now, or wait: in this order,
\* and none twice.
Ordered(r, k, a) ==
  /\ \A i \in 1..Len(r) : r[i] = i
  /\ \A i \in 1..Len(k) : k[i] = Len(r) + i
  /\ \A i \in 1..Len(a) : a[i].no = Len(r) + i

\* What a session at l has come to: it has read n lines, of which r have run, k
\* run now and a wait.
Staged(l, c, n, r, k, a, e, x) ==
  /\ l # "run" => k = 0
  /\ l \in {"none", "run"} => a = 0
  /\ l \in {"none", "scan", "run"} => e = "nil" /\ r + k + a = n
  /\ l \in {"exit", "done"} =>
       /\ r <= n
       /\ e = "nil" => r = n
       /\ e = "parse" => r < n
  /\ l # "none" => c \in Conn
  /\ x # None => l = "done" /\ (x = 0 <=> e = "nil")

InOrder(s) == Ordered(ran[s], script[s], acc[s])

Stage(s) ==
  Staged(pc[s], on[s], read[s], Len(ran[s]), Len(script[s]), Len(acc[s]), err[s], told[s])

\* What the parser last said.
Said(s) == parseErr[s] <=> acc[s] # <<>>

IInv ==
  /\ TypeOK
  /\ \A s \in Session : InOrder(s) /\ Stage(s)
  /\ \A s \in Session : Said(s)

LEMMA Types ==
  ASSUME TypeOK, NEW s \in Session
  PROVE  /\ ran[s] \in Seq(Nat) /\ script[s] \in Seq(Nat) /\ read[s] \in Nat
         /\ acc[s] \in Seq([no : Nat, form : Form])
         /\ Len(ran[s]) \in Nat /\ Len(script[s]) \in Nat /\ Len(acc[s]) \in Nat
         /\ pc[s] \in {"none", "scan", "run", "exit", "done"}
         /\ err[s] \in {"nil", "parse", "run"}
<1>1. ran[s] \in Seq(Nat) /\ script[s] \in Seq(Nat) /\ read[s] \in Nat
  BY DEF TypeOK, SessionTypeOK
<1>2. acc[s] \in Seq([no : Nat, form : Form])
  BY DEF TypeOK, SessionTypeOK
<1>3. Len(ran[s]) \in Nat /\ Len(script[s]) \in Nat
  BY <1>1
<1>4. Len(acc[s]) \in Nat
  BY <1>2
<1>5. /\ pc[s] \in {"none", "scan", "run", "exit", "done"}
      /\ err[s] \in {"nil", "parse", "run"}
  BY DEF TypeOK, SessionTypeOK
<1> QED BY <1>1, <1>2, <1>3, <1>4, <1>5

LEMMA Empty ==
  /\ Len(<<>>) = 0
  /\ \A S : <<>> \in Seq(S) /\ \A q \in Seq(S) : q = <<>> <=> Len(q) = 0
OBVIOUS

\* Stages, of a session.
LEMMA StageOf ==
  ASSUME IInv, NEW s \in Session
  PROVE  LET c == on[s]  n == read[s]  r == Len(ran[s])  k == Len(script[s])
             a == Len(acc[s])  e == err[s]  x == told[s]
         IN  /\ r <= n
             /\ x # None => (x = 0 <=> r = n /\ e # "run")
             /\ pc[s] # "none" => c \in Conn
             /\ pc[s] # "done" => x = None
             /\ pc[s] = "none" =>
                  \A d \in Conn :
                    Staged("scan", d, n, r, k, a, e, x) /\ Staged("exit", d, n, r, k, a, e, x)
             /\ pc[s] = "scan" =>
                  /\ k = 0 /\ r + a = n /\ e = "nil"
                  /\ Staged("run", c, n + 1, r, a + 1, 0, e, x)
                  /\ Staged("scan", c, n + 1, r, 0, a + 1, e, x)
                  /\ a = 0 => Staged("exit", c, n, r, k, a, "nil", x)
                  /\ a # 0 => Staged("exit", c, n, r, k, a, "parse", x)
             /\ pc[s] = "run" =>
                  /\ a = 0 /\ r + k = n /\ e = "nil"
                  /\ Staged("scan", c, n, r + k, 0, a, "nil", x)
                  /\ \A m \in 0..k : Staged("exit", c, n, r + m, 0, a, "run", x)
             /\ pc[s] = "exit" =>
                  \A y \in {None, IF e = "nil" THEN 0 ELSE 1} : Staged("done", c, n, r, k, a, e, y)
<1> DEFINE l == pc[s]  c == on[s]  n == read[s]  r == Len(ran[s])  k == Len(script[s])
           a == Len(acc[s])  e == err[s]  x == told[s]
<1>1. Staged(l, c, n, r, k, a, e, x)
  BY DEF IInv, Stage
<1>2. /\ n \in Nat /\ r \in Nat /\ k \in Nat /\ a \in Nat
      /\ l \in {"none", "scan", "run", "exit", "done"} /\ e \in {"nil", "parse", "run"}
  BY Types DEF IInv
<1> HIDE DEF l, c, n, r, k, a, e, x
<1>3. /\ r <= n
      /\ x # None => (x = 0 <=> r = n /\ e # "run")
      /\ l # "none" => c \in Conn
      /\ l # "done" => x = None
  BY <1>1, <1>2, NoneAssumption DEF Staged
<1>4. ASSUME l = "none", NEW d \in Conn
      PROVE  Staged("scan", d, n, r, k, a, e, x) /\ Staged("exit", d, n, r, k, a, e, x)
  BY <1>1, <1>2, <1>4 DEF Staged
<1>5. ASSUME l = "scan"
      PROVE  /\ k = 0 /\ r + a = n /\ e = "nil"
             /\ Staged("run", c, n + 1, r, a + 1, 0, e, x)
             /\ Staged("scan", c, n + 1, r, 0, a + 1, e, x)
             /\ a = 0 => Staged("exit", c, n, r, k, a, "nil", x)
             /\ a # 0 => Staged("exit", c, n, r, k, a, "parse", x)
  BY <1>1, <1>2, <1>5 DEF Staged
<1>6. ASSUME l = "run"
      PROVE  /\ a = 0 /\ r + k = n /\ e = "nil"
             /\ Staged("scan", c, n, r + k, 0, a, "nil", x)
             /\ \A m \in 0..k : Staged("exit", c, n, r + m, 0, a, "run", x)
  BY <1>1, <1>2, <1>6 DEF Staged
<1>7. ASSUME l = "exit", NEW y \in {None, IF e = "nil" THEN 0 ELSE 1}
      PROVE  Staged("done", c, n, r, k, a, e, y)
  BY <1>1, <1>2, <1>7, NoneAssumption DEF Staged
<1> QED BY <1>3, <1>4, <1>5, <1>6, <1>7 DEF l, c, n, r, k, a, e, x

\* The steps of the servers leave the sessions alone but for their connections.
LEMMA ServerStep ==
  ASSUME IInv, TypeOK', UNCHANGED <<pc, kind, on, lineVars, err, told>>
  PROVE  IInv'
<1>1. UNCHANGED <<pc, on, read, acc, parseErr, script, ran, err, told>>
  BY DEF lineVars
<1>2. ASSUME NEW s \in Session PROVE InOrder(s)' /\ Stage(s)'
  BY <1>1 DEF IInv, InOrder, Stage
<1>3. ASSUME NEW s \in Session PROVE Said(s)'
  BY <1>1 DEF IInv, Said
<1> QED BY <1>2, <1>3 DEF IInv

\* Those of one session leave the others alone.
LEMMA SessionKeeps ==
  ASSUME IInv, NEW s \in Session, TypeOK', InOrder(s)', Stage(s)', Said(s)',
         \A t \in Session \ {s} :
           /\ pc'[t] = pc[t] /\ on'[t] = on[t] /\ read'[t] = read[t] /\ acc'[t] = acc[t]
           /\ parseErr'[t] = parseErr[t] /\ script'[t] = script[t] /\ ran'[t] = ran[t]
           /\ err'[t] = err[t] /\ told'[t] = told[t]
  PROVE  IInv'
<1>1. ASSUME NEW t \in Session \ {s} PROVE InOrder(t)' /\ Stage(t)'
  BY DEF IInv, InOrder, Stage
<1>2. ASSUME NEW t \in Session \ {s} PROVE Said(t)'
  BY DEF IInv, Said
<1> QED BY <1>1, <1>2 DEF IInv

\* Nor do those of a connection.
LEMMA ConnStep ==
  ASSUME IInv, UNCHANGED serverVars, NEW c \in Conn,
         \/ Connect(c) \/ Authenticate(c) \/ Disconnect(c)
         \/ \E key \in AcceptedKey : PublicKeyHandler(c, key)
  PROVE  IInv'
<1>1. UNCHANGED <<pc, kind, on, lineVars, err, told>>
  BY DEF Connect, Authenticate, Disconnect, PublicKeyHandler
<1>2. /\ conn' \in [Conn -> {"none", "handshake", "open", "closed"}]
      /\ accepted' \in [Conn -> SUBSET AcceptedKey] /\ allow_admin' \subseteq Conn
  <2>1. /\ conn \in [Conn -> {"none", "handshake", "open", "closed"}]
        /\ accepted \in [Conn -> SUBSET AcceptedKey] /\ allow_admin \subseteq Conn
    BY DEF IInv, TypeOK, SessionTypeOK
  <2>2. CASE Connect(c) \/ Authenticate(c) \/ Disconnect(c)
    BY <2>1, <2>2 DEF Connect, Authenticate, Disconnect, CloseConn
  <2>3. CASE \E key \in AcceptedKey : PublicKeyHandler(c, key)
    BY <2>1, <2>3 DEF PublicKeyHandler
  <2> QED BY <2>2, <2>3
<1>3. SessionTypeOK'
  BY <1>1, <1>2 DEF lineVars, IInv, TypeOK, SessionTypeOK
<1>4. TypeOK'
  BY <1>3 DEF serverVars, IInv, TypeOK
<1> QED BY <1>1, <1>4, ServerStep

LEMMA OpenStep ==
  ASSUME IInv, UNCHANGED serverVars, NEW s \in Session, NEW c \in Conn, NEW command \in Command,
         Open(s, c, command)
  PROVE  IInv'
<1>1. UNCHANGED <<conn, accepted, allow_admin, read, acc, parseErr, script, ran, err, told>> /\ pc[s] = "none"
  BY DEF Open, connVars, lineVars
<1>2. PICK l \in {"scan", "exit"}, k \in {"admin", "whoami", "other"} :
        /\ pc' = [pc EXCEPT ![s] = l] /\ kind' = [kind EXCEPT ![s] = k]
        /\ on' = [on EXCEPT ![s] = c]
        /\ l = "exit" => k # "admin"
  BY DEF Open, Goto
<1>3. TypeOK'
  <2>1. /\ pc' \in [Session -> {"none", "scan", "run", "exit", "done"}]
        /\ kind' \in [Session -> {"none", "admin", "whoami", "other"}]
    BY <1>2 DEF IInv, TypeOK, SessionTypeOK
  <2>2. on' \in [Session -> Conn \cup {None}]
    BY <1>2 DEF IInv, TypeOK, SessionTypeOK
  <2> QED BY <1>1, <2>1, <2>2 DEF serverVars, IInv, TypeOK, SessionTypeOK
<1>4. /\ pc'[s] = l /\ on'[s] = c
      /\ \A t \in Session \ {s} : pc'[t] = pc[t] /\ on'[t] = on[t]
  BY <1>2 DEF IInv, TypeOK, SessionTypeOK
<1>5. InOrder(s)'
  BY <1>1 DEF IInv, InOrder
<1>6. Staged(l, c, read[s], Len(ran[s]), Len(script[s]), Len(acc[s]), err[s], told[s])
  BY <1>1, StageOf DEF Stage
<1>7. Stage(s)'
  BY <1>1, <1>4, <1>6 DEF Stage
<1>8. Said(s)'
  BY <1>1 DEF IInv, Said
<1> QED BY <1>1, <1>3, <1>4, <1>5, <1>7, <1>8, SessionKeeps

\* The lines after one more, and their numbers.
LEMMA OneMoreLine ==
  ASSUME NEW r \in Seq(Nat), NEW a \in Seq([no : Nat, form : Form]), Ordered(r, <<>>, a),
         NEW line \in [no : Nat, form : Form], line.no = Len(r) + Len(a) + 1
  PROVE  /\ Append(a, line) \in Seq([no : Nat, form : Form]) /\ Append(a, line) # <<>>
         /\ Len(Append(a, line)) = Len(a) + 1 /\ Ordered(r, <<>>, Append(a, line))
<1> DEFINE lines == Append(a, line)
<1>1. /\ lines \in Seq([no : Nat, form : Form]) /\ Len(lines) = Len(a) + 1 /\ Len(a) \in Nat
      /\ \A i \in 1..Len(a) : lines[i] = a[i]
      /\ lines[Len(a) + 1] = line /\ DOMAIN lines = 1..Len(lines) /\ Len(r) \in Nat
  OBVIOUS
<1> HIDE DEF lines
<1>2. lines # <<>>
  <2>1. lines \in Seq([no : Nat, form : Form]) /\ Len(lines) # 0
    BY <1>1
  <2> QED BY <2>1, Empty
<1>3. ASSUME NEW i \in 1..Len(lines) PROVE lines[i].no = Len(r) + i
  <2>1. CASE i \in 1..Len(a)
    BY <1>1, <2>1 DEF Ordered
  <2>2. CASE i = Len(a) + 1
    <3>1. lines[i] = line
      BY <1>1, <2>2
    <3>2. Len(r) + Len(a) + 1 = Len(r) + i
      BY <1>1, <2>2
    <3> QED BY <3>1, <3>2
  <2> QED BY <1>1, <2>1, <2>2
<1>4. Ordered(r, <<>>, lines)
  BY <1>3 DEF Ordered
<1> QED BY <1>1, <1>2, <1>4 DEF lines

LEMMA Numbers ==
  ASSUME NEW r \in Seq(Nat), NEW lines \in Seq([no : Nat, form : Form]), Ordered(r, <<>>, lines),
         NEW nos \in [DOMAIN lines -> Nat], \A i \in DOMAIN lines : nos[i] = lines[i].no
  PROVE  nos \in Seq(Nat) /\ Len(nos) = Len(lines) /\ Ordered(r, nos, <<>>)
<1>1. DOMAIN lines = 1..Len(lines) /\ Len(lines) \in Nat
  OBVIOUS
<1>2. nos \in Seq(Nat) /\ Len(nos) = Len(lines)
  <2>1. nos \in [1..Len(lines) -> Nat]
    BY <1>1
  <2>2. nos \in UNION {[1..n -> Nat] : n \in Nat}
    BY <1>1, <2>1
  <2>3. nos \in Seq(Nat)
    BY <2>2, SeqDef, Zenon
  <2> QED BY <1>1, <2>1, <2>3
<1>3. \A i \in 1..Len(nos) : nos[i] = Len(r) + i
  BY <1>1, <1>2 DEF Ordered
<1> QED BY <1>2, <1>3 DEF Ordered

LEMMA ScanStep ==
  ASSUME IInv, UNCHANGED serverVars, NEW s \in Session, NEW form \in Form, Scan(s, form)
  PROVE  IInv'
<1> DEFINE line == [no |-> read[s] + 1, form |-> form]
           lines == Append(acc[s], line)
           nos == [i \in DOMAIN lines |-> lines[i].no]
           valid == ValidScript(lines)
<1>1. /\ ran[s] \in Seq(Nat) /\ acc[s] \in Seq([no : Nat, form : Form]) /\ read[s] \in Nat
      /\ Len(ran[s]) \in Nat /\ Len(acc[s]) \in Nat
  BY Types DEF IInv
<1>2. pc[s] = "scan" /\ read[s] < MaxLines[s]
  BY DEF Scan
<1>3. Stage(s) /\ InOrder(s) /\ script[s] \in Seq(Nat)
  BY Types DEF IInv
<1>4. /\ Len(script[s]) = 0 /\ err[s] = "nil" /\ Len(ran[s]) + Len(acc[s]) = read[s]
      /\ on[s] \in Conn /\ told[s] = None
  BY <1>2, StageOf DEF Stage
<1>0. script[s] = <<>>
  BY <1>3, <1>4, Empty
<1>5. line \in [no : Nat, form : Form] /\ line.no = read[s] + 1
  BY <1>1
<1>6. /\ read' = [read EXCEPT ![s] = read[s] + 1]
      /\ parseErr' = [parseErr EXCEPT ![s] = ~valid]
      /\ UNCHANGED <<conn, accepted, allow_admin, kind, on, ran, err, told>>
  BY DEF Scan, connVars
<1>7. \/ /\ valid /\ script' = [script EXCEPT ![s] = nos] /\ acc' = [acc EXCEPT ![s] = <<>>]
         /\ pc' = [pc EXCEPT ![s] = "run"]
      \/ /\ ~valid /\ acc' = [acc EXCEPT ![s] = lines] /\ UNCHANGED <<pc, script>>
  BY DEF Scan, Goto
<1> HIDE DEF line
<1>8. /\ lines \in Seq([no : Nat, form : Form]) /\ lines # <<>> /\ Len(lines) = Len(acc[s]) + 1
      /\ Ordered(ran[s], <<>>, lines)
      /\ nos \in Seq(Nat) /\ Len(nos) = Len(lines) /\ Ordered(ran[s], nos, <<>>)
  <2>1. Ordered(ran[s], <<>>, acc[s])
    BY <1>0, <1>3 DEF InOrder
  <2>2. line.no = Len(ran[s]) + Len(acc[s]) + 1
    BY <1>4, <1>5
  <2>3. /\ lines \in Seq([no : Nat, form : Form]) /\ lines # <<>> /\ Len(lines) = Len(acc[s]) + 1
        /\ Ordered(ran[s], <<>>, lines)
    BY <1>1, <1>5, <2>1, <2>2, OneMoreLine
  <2> HIDE DEF lines
  <2>4. \A i \in DOMAIN lines : lines[i].no \in Nat
    <3>1. \A i \in DOMAIN lines : lines[i] \in [no : Nat, form : Form]
      BY <2>3, LenProperties
    <3> QED BY <3>1
  <2>5. nos \in [DOMAIN lines -> Nat] /\ \A i \in DOMAIN lines : nos[i] = lines[i].no
    BY <2>4
  <2> HIDE DEF nos
  <2> QED BY <1>1, <2>3, <2>5, Numbers
<1> HIDE DEF lines, nos, valid
<1>9. /\ read'[s] = read[s] + 1 /\ (parseErr'[s] <=> ~valid)
      /\ \/ valid /\ script'[s] = nos /\ acc'[s] = <<>> /\ pc'[s] = "run"
         \/ ~valid /\ script'[s] = <<>> /\ acc'[s] = lines /\ pc'[s] = "scan"
  BY <1>0, <1>2, <1>6, <1>7 DEF IInv, TypeOK, SessionTypeOK
<1>10. \A t \in Session \ {s} :
        /\ pc'[t] = pc[t] /\ read'[t] = read[t] /\ acc'[t] = acc[t]
        /\ parseErr'[t] = parseErr[t] /\ script'[t] = script[t]
  BY <1>6, <1>7 DEF IInv, TypeOK, SessionTypeOK
<1>11. TypeOK'
  <2>1. read' \in [Session -> Nat]
    BY <1>1, <1>6 DEF IInv, TypeOK, SessionTypeOK
  <2>2. \A t \in Session : read'[t] <= MaxLines[t]
    <3>1. MaxLines[s] \in Nat
      BY MaxLinesAssumption
    <3>2. read'[s] <= MaxLines[s]
      <4>1. read[s] \in Nat /\ read'[s] = read[s] + 1 /\ read[s] < MaxLines[s]
        BY <1>1, <1>2, <1>9
      <4> QED BY <3>1, <4>1
    <3>3. \A t \in Session \ {s} : read'[t] = read[t] /\ read[t] <= MaxLines[t]
      BY <1>10 DEF IInv, TypeOK, SessionTypeOK
    <3> QED BY <3>2, <3>3
  <2>3. parseErr' \in [Session -> BOOLEAN]
    BY <1>6 DEF IInv, TypeOK, SessionTypeOK
  <2>4. acc' \in [Session -> Seq([no : Nat, form : Form])]
    <3> DEFINE Lines == Seq([no : Nat, form : Form])
    <3>1. <<>> \in Lines
      BY Empty
    <3>2. acc \in [Session -> Lines]
      BY DEF IInv, TypeOK, SessionTypeOK
    <3>3. lines \in Lines
      BY <1>8
    <3> HIDE DEF Lines
    <3>4. acc' \in [Session -> Lines]
      BY <1>7, <3>1, <3>2, <3>3
    <3> QED BY <3>4 DEF Lines
  <2>5. script' \in [Session -> Seq(Nat)]
    BY <1>7, <1>8 DEF IInv, TypeOK, SessionTypeOK
  <2>6. pc' \in [Session -> {"none", "scan", "run", "exit", "done"}]
    BY <1>7 DEF IInv, TypeOK, SessionTypeOK
  <2> QED
    BY <1>6, <2>1, <2>2, <2>3, <2>4, <2>5, <2>6 DEF serverVars, IInv, TypeOK, SessionTypeOK
<1>12. InOrder(s)'
  BY <1>6, <1>8, <1>9 DEF InOrder
<1>13. /\ Staged("run", on[s], read[s] + 1, Len(ran[s]), Len(acc[s]) + 1, 0, err[s], told[s])
       /\ Staged("scan", on[s], read[s] + 1, Len(ran[s]), 0, Len(acc[s]) + 1, err[s], told[s])
  BY <1>2, StageOf DEF Stage
<1>14. Stage(s)'
  <2>1. /\ on'[s] = on[s] /\ told'[s] = told[s] /\ err'[s] = err[s] /\ ran'[s] = ran[s]
        /\ read'[s] = read[s] + 1
    BY <1>6, <1>9
  <2>2. CASE script'[s] = nos /\ acc'[s] = <<>> /\ pc'[s] = "run"
    <3>1. Len(script'[s]) = Len(acc[s]) + 1 /\ Len(acc'[s]) = 0
      BY <1>8, <2>2, Empty
    <3> QED BY <1>13, <2>1, <2>2, <3>1 DEF Stage
  <2>3. CASE script'[s] = <<>> /\ acc'[s] = lines /\ pc'[s] = "scan"
    <3>1. Len(script'[s]) = 0 /\ Len(acc'[s]) = Len(acc[s]) + 1
      BY <1>8, <2>3, Empty
    <3> QED BY <1>13, <2>1, <2>3, <3>1 DEF Stage
  <2> QED BY <1>9, <2>2, <2>3
<1>15. Said(s)'
  BY <1>8, <1>9 DEF Said
<1> QED BY <1>6, <1>10, <1>11, <1>12, <1>14, <1>15, SessionKeeps

\* The lines that have run after part of a script has.
LEMMA PartRuns ==
  ASSUME NEW r \in Seq(Nat), NEW k \in Seq(Nat), NEW n \in 0..Len(k), Ordered(r, k, <<>>)
  PROVE  LET q == r \o SubSeq(k, 1, n)
         IN  q \in Seq(Nat) /\ Len(q) = Len(r) + n /\ Ordered(q, <<>>, <<>>)
<1> DEFINE p == SubSeq(k, 1, n)
           q == r \o p
<1>1. p \in Seq(Nat) /\ Len(p) = n /\ \A i \in 1..n : p[i] = k[i]
  OBVIOUS
<1> HIDE DEF p
<1>2. /\ q \in Seq(Nat) /\ Len(q) = Len(r) + n /\ Len(r) \in Nat
      /\ \A i \in 1..Len(q) : q[i] = IF i <= Len(r) THEN r[i] ELSE p[i - Len(r)]
  <2>1. /\ r \o p \in Seq(Nat) /\ Len(r \o p) = Len(r) + Len(p)
        /\ \A i \in 1..Len(r) + Len(p) : (r \o p)[i] = IF i <= Len(r) THEN r[i] ELSE p[i - Len(r)]
    BY <1>1, ConcatProperties
  <2> QED BY <1>1, <2>1
<1> HIDE DEF q
<1>3. ASSUME NEW i \in 1..Len(q) PROVE q[i] = i
  <2>1. CASE i <= Len(r)
    <3>1. i \in 1..Len(r)
      BY <1>2, <2>1
    <3> QED BY <1>2, <2>1, <3>1 DEF Ordered
  <2>2. CASE i > Len(r)
    <3>1. i - Len(r) \in 1..n /\ i - Len(r) \in 1..Len(k)
      BY <1>2, <2>2
    <3>2. k[i - Len(r)] = Len(r) + (i - Len(r))
      BY <3>1 DEF Ordered
    <3> QED BY <1>1, <1>2, <2>2, <3>1, <3>2
  <2> QED BY <1>2, <2>1, <2>2
<1>4. Ordered(q, <<>>, <<>>)
  BY <1>3 DEF Ordered
<1> QED BY <1>2, <1>4 DEF q, p

LEMMA RunStep ==
  ASSUME IInv, UNCHANGED serverVars, NEW s \in Session, Run(s)
  PROVE  IInv'
<1>1. /\ ran[s] \in Seq(Nat) /\ script[s] \in Seq(Nat) /\ read[s] \in Nat
      /\ Len(ran[s]) \in Nat /\ Len(script[s]) \in Nat
  BY Types DEF IInv
<1>2. Stage(s) /\ InOrder(s) /\ pc[s] = "run"
  BY DEF IInv, Run
<1>3. /\ Len(acc[s]) = 0 /\ err[s] = "nil" /\ Len(ran[s]) + Len(script[s]) = read[s]
      /\ on[s] \in Conn /\ told[s] = None
  BY <1>2, StageOf DEF Stage
<1>0. acc[s] = <<>>
  <2>1. acc[s] \in Seq([no : Nat, form : Form])
    BY Types DEF IInv
  <2> QED BY <1>3, <2>1, Empty
<1>4. PICK n \in 0..Len(script[s]) :
        /\ ran' = [ran EXCEPT ![s] = ran[s] \o SubSeq(script[s], 1, n)]
        /\ \/ pc' = [pc EXCEPT ![s] = "scan"] /\ UNCHANGED err /\ n = Len(script[s])
           \/ pc' = [pc EXCEPT ![s] = "exit"] /\ err' = [err EXCEPT ![s] = "run"]
  <2>1. SubSeq(script[s], 1, Len(script[s])) = script[s] /\ Len(script[s]) \in 0..Len(script[s])
    BY <1>1
  <2> QED BY <2>1 DEF Run, Goto
<1> DEFINE q == ran[s] \o SubSeq(script[s], 1, n)
<1>5. q \in Seq(Nat) /\ Len(q) = Len(ran[s]) + n /\ Ordered(q, <<>>, <<>>)
  <2>1. Ordered(ran[s], script[s], <<>>)
    BY <1>0, <1>2 DEF InOrder
  <2> HIDE DEF q
  <2> QED BY <1>1, <2>1, PartRuns DEF q
<1>6. ran' = [ran EXCEPT ![s] = q]
  BY <1>4
<1> HIDE DEF q
<1>7. script' = [script EXCEPT ![s] = <<>>] /\ UNCHANGED <<conn, accepted, allow_admin, kind, on, read, acc, parseErr, told>>
  BY DEF Run, connVars
<1>8. TypeOK'
  <2>1. ran' \in [Session -> Seq(Nat)] /\ script' \in [Session -> Seq(Nat)]
    BY <1>5, <1>6, <1>7 DEF IInv, TypeOK, SessionTypeOK
  <2>2. /\ pc' \in [Session -> {"none", "scan", "run", "exit", "done"}]
        /\ err' \in [Session -> {"nil", "parse", "run"}]
    BY <1>4 DEF IInv, TypeOK, SessionTypeOK
  <2> QED BY <1>7, <2>1, <2>2 DEF serverVars, IInv, TypeOK, SessionTypeOK
<1>9. /\ ran'[s] = q /\ script'[s] = <<>>
      /\ \/ pc'[s] = "scan" /\ err'[s] = "nil" /\ n = Len(script[s])
         \/ pc'[s] = "exit" /\ err'[s] = "run"
      /\ \A t \in Session \ {s} :
           pc'[t] = pc[t] /\ script'[t] = script[t] /\ ran'[t] = ran[t] /\ err'[t] = err[t]
  BY <1>3, <1>4, <1>6, <1>7 DEF IInv, TypeOK, SessionTypeOK
<1>10. InOrder(s)'
  BY <1>0, <1>5, <1>7, <1>9 DEF InOrder
<1>11. Stage(s)'
  <2>1. /\ Len(ran'[s]) = Len(ran[s]) + n /\ Len(script'[s]) = 0 /\ acc'[s] = acc[s]
        /\ read'[s] = read[s] /\ on'[s] = on[s] /\ told'[s] = told[s]
    BY <1>5, <1>7, <1>9, Empty
  <2>2. /\ n = Len(script[s]) =>
             Staged("scan", on[s], read[s], Len(ran[s]) + n, 0, Len(acc[s]), "nil", told[s])
        /\ Staged("exit", on[s], read[s], Len(ran[s]) + n, 0, Len(acc[s]), "run", told[s])
    BY <1>2, StageOf DEF Stage
  <2> QED BY <1>9, <2>1, <2>2 DEF Stage
<1>12. Said(s)'
  BY <1>7 DEF IInv, Said
<1> QED BY <1>7, <1>8, <1>9, <1>10, <1>11, <1>12, SessionKeeps

LEMMA EndStep ==
  ASSUME IInv, UNCHANGED serverVars, NEW s \in Session, EndOfInput(s)
  PROVE  IInv'
<1>1. /\ acc[s] \in Seq([no : Nat, form : Form]) /\ read[s] \in Nat
      /\ Len(ran[s]) \in Nat /\ Len(acc[s]) \in Nat
  BY Types DEF IInv
<1>2. Stage(s) /\ pc[s] = "scan"
  BY DEF IInv, EndOfInput
<1>3. /\ err[s] = "nil"
      /\ Len(acc[s]) = 0 =>
           Staged("exit", on[s], read[s], Len(ran[s]), Len(script[s]), Len(acc[s]), "nil", told[s])
      /\ Len(acc[s]) # 0 =>
           Staged("exit", on[s], read[s], Len(ran[s]), Len(script[s]), Len(acc[s]), "parse", told[s])
  BY <1>2, StageOf DEF Stage
<1>4. parseErr[s] <=> acc[s] # <<>>
  BY DEF IInv, Said
<1>5. /\ pc' = [pc EXCEPT ![s] = "exit"]
      /\ err' = IF parseErr[s] THEN [err EXCEPT ![s] = "parse"] ELSE err
      /\ UNCHANGED <<conn, accepted, allow_admin, kind, on, read, acc, parseErr, script, ran, told>>
  BY DEF EndOfInput, Goto, connVars, lineVars
<1>6. TypeOK'
  BY <1>5 DEF serverVars, IInv, TypeOK, SessionTypeOK
<1>7. /\ pc'[s] = "exit" /\ err'[s] = IF acc[s] # <<>> THEN "parse" ELSE "nil"
      /\ \A t \in Session \ {s} : pc'[t] = pc[t] /\ err'[t] = err[t]
  BY <1>3, <1>4, <1>5 DEF IInv, TypeOK, SessionTypeOK
<1>8. acc[s] = <<>> <=> Len(acc[s]) = 0
  BY <1>1, Empty
<1>9. InOrder(s)'
  BY <1>5 DEF IInv, InOrder
<1>10. Stage(s)'
  <2>1. err'[s] = IF Len(acc[s]) # 0 THEN "parse" ELSE "nil"
    BY <1>7, <1>8
  <2>2. /\ on'[s] = on[s] /\ read'[s] = read[s] /\ ran'[s] = ran[s] /\ script'[s] = script[s]
        /\ acc'[s] = acc[s] /\ told'[s] = told[s] /\ pc'[s] = "exit"
    BY <1>5, <1>7
  <2> QED BY <1>3, <2>1, <2>2 DEF Stage
<1>11. Said(s)'
  BY <1>5 DEF IInv, Said
<1> QED BY <1>5, <1>6, <1>7, <1>9, <1>10, <1>11, SessionKeeps

LEMMA ExitStep ==
  ASSUME IInv, UNCHANGED serverVars, NEW s \in Session, Exit(s)
  PROVE  IInv'
<1>1. Stage(s) /\ pc[s] = "exit"
  BY DEF Exit, IInv
<1>2. on[s] \in Conn /\ told[s] = None
  BY <1>1, StageOf DEF Stage
<1>3. conn' \in [Conn -> {"none", "handshake", "open", "closed"}]
  BY <1>2 DEF Exit, CloseConn, IInv, TypeOK, SessionTypeOK
<1>4. PICK x \in {None, IF err[s] = "nil" THEN 0 ELSE 1} : told' = [told EXCEPT ![s] = x]
  <2>1. told = [told EXCEPT ![s] = None]
    BY <1>2 DEF IInv, TypeOK, SessionTypeOK
  <2> QED BY <2>1 DEF Exit, exitCode
<1>5. /\ pc' = [pc EXCEPT ![s] = "done"]
      /\ UNCHANGED <<accepted, allow_admin, kind, on, read, acc, parseErr, script, ran, err>>
  BY DEF Exit, Goto, lineVars
<1>6. TypeOK'
  <2>1. /\ pc' \in [Session -> {"none", "scan", "run", "exit", "done"}]
        /\ told' \in [Session -> {None, 0, 1}]
    BY <1>4, <1>5 DEF IInv, TypeOK, SessionTypeOK
  <2>2. SessionTypeOK'
    BY <1>3, <1>5, <2>1 DEF IInv, TypeOK, SessionTypeOK
  <2> QED BY <2>2 DEF serverVars, IInv, TypeOK
<1>7. /\ pc'[s] = "done" /\ told'[s] = x
      /\ \A t \in Session \ {s} : pc'[t] = pc[t] /\ told'[t] = told[t]
  BY <1>4, <1>5 DEF IInv, TypeOK, SessionTypeOK
<1>8. InOrder(s)'
  BY <1>5 DEF IInv, InOrder
<1>9. Stage(s)'
  <2>1. Staged("done", on[s], read[s], Len(ran[s]), Len(script[s]), Len(acc[s]), err[s], x)
    BY <1>1, StageOf DEF Stage
  <2> QED BY <1>5, <1>7, <2>1 DEF Stage
<1>10. Said(s)'
  BY <1>5 DEF IInv, Said
<1> QED BY <1>5, <1>6, <1>7, <1>8, <1>9, <1>10, SessionKeeps

LEMMA InductiveInvariant == Spec => []IInv
<1>1. Init => IInv
  <2> SUFFICES ASSUME Init PROVE IInv
    OBVIOUS
  <2>1. TypeOK
    <3>1. /\ acc \in [Session -> Seq([no : Nat, form : Form])]
          /\ script \in [Session -> Seq(Nat)] /\ ran \in [Session -> Seq(Nat)]
      BY Empty DEF Init, SessionInit
    <3>2. read \in [Session -> Nat] /\ \A s \in Session : read[s] <= MaxLines[s]
      <4>1. \A s \in Session : MaxLines[s] \in Nat /\ read[s] = 0
        BY MaxLinesAssumption DEF Init, SessionInit
      <4> QED BY <4>1 DEF Init, SessionInit
    <3>0. accepted \in [Conn -> SUBSET AcceptedKey] /\ allow_admin = {}
      BY DEF Init, SessionInit
    <3>3. /\ conn \in [Conn -> {"none", "handshake", "open", "closed"}]
          /\ pc \in [Session -> {"none", "scan", "run", "exit", "done"}]
          /\ kind \in [Session -> {"none", "admin", "whoami", "other"}]
          /\ on \in [Session -> Conn \cup {None}] /\ parseErr \in [Session -> BOOLEAN]
          /\ err \in [Session -> {"nil", "parse", "run"}] /\ told \in [Session -> {None, 0, 1}]
      BY DEF Init, SessionInit
    <3>4. SessionTypeOK
      BY <3>0, <3>1, <3>2, <3>3 DEF SessionTypeOK
    <3> QED BY <3>4 DEF Init, TypeOK
  <2>2. ASSUME NEW s \in Session PROVE InOrder(s) /\ Stage(s) /\ Said(s)
    <3>1. /\ pc[s] = "none" /\ on[s] = None /\ read[s] = 0 /\ acc[s] = <<>>
          /\ ~parseErr[s] /\ script[s] = <<>> /\ ran[s] = <<>> /\ err[s] = "nil"
          /\ told[s] = None
      BY DEF Init, SessionInit
    <3>2. Staged("none", None, 0, 0, 0, 0, "nil", None)
      BY DEF Staged
    <3>3. Stage(s)
      BY <3>1, <3>2, Empty DEF Stage
    <3>4. Ordered(<<>>, <<>>, <<>>)
      BY Empty DEF Ordered
    <3> QED BY <3>1, <3>3, <3>4 DEF InOrder, Said
  <2> QED BY <2>1, <2>2 DEF IInv
<1>2. IInv /\ [Next]_vars => IInv'
  <2> SUFFICES ASSUME IInv, [Next]_vars PROVE IInv'
    OBVIOUS
  <2>1. CASE Cancel \/ genHostKey \/ ListenSSH \/ ReturnSSH \/ StartHTTP \/ ListenHTTP
             \/ ReturnHTTP \/ ShutdownHTTP \/ WaitChildren
    <3>1. UNCHANGED <<conn, accepted, allow_admin, pc, kind, on, lineVars, err, told>>
      BY <2>1 DEF Cancel, genHostKey, ListenSSH, ReturnSSH, StartHTTP, ListenHTTP, ReturnHTTP,
                  ShutdownHTTP, WaitChildren, sessionVars, connVars
    <3>2. SessionTypeOK'
      BY <3>1 DEF lineVars, IInv, TypeOK, SessionTypeOK
    <3>3. TypeOK'
      BY <2>1, <3>2 DEF Cancel, genHostKey, ListenSSH, ReturnSSH, StartHTTP, ListenHTTP,
                        ReturnHTTP, ShutdownHTTP, WaitChildren, IInv, TypeOK
    <3> QED BY <3>1, <3>3, ServerStep
  <2>2. CASE CloseSSH
    <3>1. TypeOK'
      BY <2>2 DEF CloseSSH, CloseConns, Closed, lineVars, IInv, TypeOK, SessionTypeOK
    <3> QED BY <2>2, <3>1, ServerStep DEF CloseSSH
  <2>3. CASE Accept /\ UNCHANGED serverVars
    <3>1. PICK c \in Conn : Connect(c)
      BY <2>3 DEF Accept
    <3> QED BY <2>3, <3>1, ConnStep
  <2>4. CASE SessionStep /\ UNCHANGED serverVars
    <3>1. ASSUME NEW c \in Conn, \/ Authenticate(c) \/ Disconnect(c)
                                \/ \E key \in AcceptedKey : PublicKeyHandler(c, key)
          PROVE  IInv'
      BY <2>4, <3>1, ConnStep
    <3> QED
      BY <2>4, <3>1, OpenStep, ScanStep, RunStep, EndStep, ExitStep DEF SessionStep
  <2>5. CASE UNCHANGED vars
    <3>1. TypeOK'
      BY <2>5 DEF vars, sessionVars, connVars, lineVars, serverVars, IInv, TypeOK, SessionTypeOK
    <3> QED BY <2>5, <3>1, ServerStep DEF vars, sessionVars
  <2> QED BY <2>1, <2>2, <2>3, <2>4, <2>5 DEF Next
<1> QED BY <1>1, <1>2, PTL DEF Spec

-----------------------------------------------------------------------------
(* Every variable keeps its type.                                            *)
THEOREM TypeCorrect == Spec => []TypeOK
<1>1. IInv => TypeOK
  BY DEF IInv
<1> QED BY <1>1, InductiveInvariant, PTL

(* An admin session runs the lines it reads once each and in order (shell.go *)
(* 44-61).                                                                   *)
THEOREM ShellCorrect == Spec => []RunsOnceInOrder
<1>1. IInv => RunsOnceInOrder
  <2> SUFFICES ASSUME IInv, NEW s \in Session
               PROVE  Len(ran[s]) <= read[s] /\ \A i \in DOMAIN ran[s] : ran[s][i] = i
    BY DEF RunsOnceInOrder
  <2>1. DOMAIN ran[s] = 1..Len(ran[s]) /\ \A i \in 1..Len(ran[s]) : ran[s][i] = i
    BY Types DEF IInv, InOrder, Ordered
  <2>2. Len(ran[s]) <= read[s]
    BY StageOf DEF Stage
  <2> QED BY <2>1, <2>2
<1> QED BY <1>1, InductiveInvariant, PTL

(* The exit code tells whether all that was read has run, without an error   *)
(* (shell.go 55-64, admin.go 28-49).                                         *)
THEOREM ExitCodeCorrect == Spec => []ExitCodeTells
<1>1. IInv => ExitCodeTells
  <2> SUFFICES ASSUME IInv, NEW s \in Session, told[s] # None
               PROVE  told[s] = 0 <=> Len(ran[s]) = read[s] /\ err[s] # "run"
    BY DEF ExitCodeTells
  <2> QED BY StageOf DEF Stage
<1> QED BY <1>1, InductiveInvariant, PTL

-----------------------------------------------------------------------------
(* The matchers                                                              *)

LEMMA LeastNumber ==
  ASSUME NEW S, S \subseteq Nat, S # {}
  PROVE  \E n \in S : \A m \in S : n <= m
<1> DEFINE Less == OpToRel(<, Nat)
<1>1. IsWellFoundedOn(Less, Nat)
  BY NatLessThanWellFounded
<1>2. \A m, n \in Nat : <<m, n>> \in Less <=> m < n
  BY DEF OpToRel
<1> HIDE DEF Less
<1>3. PICK n \in S : \A m \in S : ~(<<m, n>> \in Less)
  BY <1>1, WFMin
<1>4. n \in Nat /\ \A m \in S : m \in Nat /\ ~(m < n)
  BY <1>2, <1>3
<1> QED BY <1>4

\* The state of the loop of all.Match before its first turn, and after each.
Start(input) == [over |-> FALSE, valid |-> TRUE, rest |-> input, matches |-> 0]

Turns(input, words, n, st) ==
  st = [i \in 0..n |-> IF i = 0 THEN Start(input) ELSE Turn(st[i - 1], words[i])]

LEMMA TurnsExist ==
  ASSUME NEW input, NEW words, NEW n \in Nat
  PROVE  \E st : Turns(input, words, n, st)
<1> DEFINE S == {k \in Nat : ~\E st : Turns(input, words, k, st)}
<1> SUFFICES ASSUME S # {} PROVE FALSE
  OBVIOUS
<1>1. PICK k \in S : \A m \in S : k <= m
  <2>1. S \subseteq Nat
    OBVIOUS
  <2> HIDE DEF S
  <2> QED BY <2>1, LeastNumber
<1>2. k \in Nat /\ ~\E st : Turns(input, words, k, st)
  OBVIOUS
<1>3. CASE k = 0
  <2> DEFINE st == [i \in 0..0 |-> Start(input)]
  <2>1. Turns(input, words, 0, st)
    BY DEF Turns
  <2> QED BY <1>2, <1>3, <2>1
<1>4. CASE k # 0
  <2>1. k - 1 \in Nat /\ k - 1 \notin S
    BY <1>1, <1>4
  <2>2. PICK f : Turns(input, words, k - 1, f)
    BY <2>1
  <2> DEFINE st == [i \in 0..k |-> IF i = 0 THEN Start(input) ELSE Turn(f[i - 1], words[i])]
  <2>3. ASSUME NEW i \in 0..(k - 1) PROVE st[i] = f[i]
    <3>1. i \in 0..k
      BY <1>2
    <3>2. st[i] = IF i = 0 THEN Start(input) ELSE Turn(f[i - 1], words[i])
      BY <3>1
    <3>3. f[i] = IF i = 0 THEN Start(input) ELSE Turn(f[i - 1], words[i])
      BY <2>2 DEF Turns
    <3> QED BY <3>2, <3>3
  <2>4. \A i \in 0..k : i # 0 => st[i - 1] = f[i - 1]
    <3>1. \A i \in 0..k : i # 0 => i - 1 \in 0..(k - 1)
      BY <1>2
    <3> HIDE DEF st
    <3> QED BY <2>3, <3>1
  <2>5. st = [i \in 0..k |-> IF i = 0 THEN Start(input) ELSE Turn(st[i - 1], words[i])]
    BY <2>4
  <2>6. Turns(input, words, k, st)
    BY <2>5 DEF Turns
  <2> QED BY <1>2, <2>6
<1> QED BY <1>3, <1>4

LEMMA LoopTurns ==
  ASSUME NEW input, NEW words \in Seq(STRING)
  PROVE  \E st : Turns(input, words, Len(words), st) /\ Loop(input, words) = st[Len(words)]
<1> DEFINE st == CHOOSE st : Turns(input, words, Len(words), st)
<1>1. Turns(input, words, Len(words), st)
  BY TurnsExist
<1>2. Loop(input, words) = st[Len(words)]
  BY DEF Loop, Turns, Start
<1> QED BY <1>1, <1>2

\* What the loop knows after i turns: the first words agree, and it goes on
\* only while they all do.
Matched(input, words, i, x) ==
  /\ x.matches \in 0..i /\ x.matches <= Len(input)
  /\ x.rest = SubSeq(input, x.matches + 1, Len(input))
  /\ \A j \in 1..x.matches : input[j] = words[j]
  /\ ~x.over => x.matches = i /\ x.valid
  /\ x.over /\ x.valid => x.matches = Len(input)
  /\ x.over /\ ~x.valid =>
       /\ x.matches < i
       /\ x.matches = Len(input) \/ input[x.matches + 1] # words[x.matches + 1]

LEMMA RestOf ==
  ASSUME NEW input \in Seq(STRING), NEW m \in 0..Len(input)
  PROVE  LET rest == SubSeq(input, m + 1, Len(input)) IN
         /\ rest \in Seq(STRING)
         /\ rest = <<>> <=> m = Len(input)
         /\ m # Len(input) => /\ Head(rest) = input[m + 1]
                              /\ Tail(rest) = SubSeq(input, m + 2, Len(input))
<1> DEFINE rest == SubSeq(input, m + 1, Len(input))
<1>1. /\ rest \in Seq(STRING) /\ Len(rest) = Len(input) - m /\ Len(input) \in Nat
      /\ \A i \in 1..(Len(input) - m) : rest[i] = input[m + i]
  OBVIOUS
<1>2. rest = <<>> <=> m = Len(input)
  <2>1. rest = <<>> <=> Len(rest) = 0
    <3> HIDE DEF rest
    <3> QED BY <1>1, Empty
  <2> QED BY <1>1, <2>1
<1>3. ASSUME m # Len(input)
      PROVE  Head(rest) = input[m + 1] /\ Tail(rest) = SubSeq(input, m + 2, Len(input))
  <2> DEFINE tail == SubSeq(input, m + 2, Len(input))
  <2>1. Head(rest) = input[m + 1]
    BY <1>1, <1>3
  <2>2. /\ tail \in Seq(STRING) /\ Len(tail) = Len(input) - m - 1
        /\ \A i \in 1..(Len(input) - m - 1) : tail[i] = input[m + 1 + i]
    BY <1>3
  <2>3. /\ Tail(rest) \in Seq(STRING) /\ Len(Tail(rest)) = Len(input) - m - 1
        /\ \A i \in 1..(Len(input) - m - 1) : Tail(rest)[i] = rest[i + 1]
    <3> HIDE DEF rest
    <3> QED BY <1>1, <1>2, <1>3
  <2>4. \A i \in 1..(Len(input) - m - 1) : Tail(rest)[i] = tail[i]
    <3> SUFFICES ASSUME NEW i \in 1..(Len(input) - m - 1) PROVE Tail(rest)[i] = tail[i]
      OBVIOUS
    <3>1. i + 1 \in 1..(Len(input) - m) /\ m + (i + 1) = m + 1 + i
      BY <1>1
    <3> HIDE DEF rest, tail
    <3> QED BY <1>1, <2>2, <2>3, <3>1
  <2> HIDE DEF rest, tail
  <2>5. Tail(rest) = tail
    BY <2>2, <2>3, <2>4, SeqEqual
  <2> QED BY <2>1, <2>5 DEF tail
<1> QED BY <1>1, <1>2, <1>3

LEMMA TurnMatches ==
  ASSUME NEW input \in Seq(STRING), NEW words \in Seq(STRING), NEW i \in Nat,
         NEW x, Matched(input, words, i, x)
  PROVE  Matched(input, words, i + 1, Turn(x, words[i + 1]))
<1> DEFINE m == x.matches
           word == words[i + 1]
           hit == x.rest # <<>> /\ Head(x.rest) = word
           y == Turn(x, word)
<1>1. /\ m \in 0..i /\ m \in 0..Len(input) /\ Len(input) \in Nat
      /\ x.rest = SubSeq(input, m + 1, Len(input))
      /\ \A j \in 1..m : input[j] = words[j]
  BY DEF Matched
<1>2. CASE x.over
  <2>1. y = x
    BY <1>2 DEF Turn
  <2> QED BY <1>1, <1>2, <2>1 DEF Matched
<1>3. CASE ~x.over
  <2>1. m = i
    BY <1>3 DEF Matched
  <2>2. /\ x.rest = <<>> <=> m = Len(input)
        /\ m # Len(input) => /\ Head(x.rest) = input[m + 1]
                             /\ Tail(x.rest) = SubSeq(input, m + 2, Len(input))
    BY <1>1, RestOf
  <2>3. CASE hit
    <3>1. /\ y.matches = m + 1 /\ y.rest = Tail(x.rest) /\ y.valid
          /\ y.over <=> y.rest = <<>>
      BY <1>3, <2>3 DEF Turn
    <3>2. m # Len(input) /\ input[m + 1] = word
      BY <2>2, <2>3
    <3>3. m + 1 \in 0..Len(input) /\ y.rest = SubSeq(input, (m + 1) + 1, Len(input))
      <4>1. m + 1 \in 0..Len(input) /\ (m + 1) + 1 = m + 2
        BY <1>1, <3>2
      <4>2. y.rest = SubSeq(input, m + 2, Len(input))
        BY <2>2, <3>1, <3>2
      <4> QED BY <4>1, <4>2
    <3>4. y.rest = <<>> <=> m + 1 = Len(input)
      BY <3>3, RestOf
    <3>5. \A j \in 1..(m + 1) : input[j] = words[j]
      BY <1>1, <2>1, <3>2
    <3>6. y.matches \in 0..(i + 1) /\ y.matches <= Len(input) /\ y.matches = i + 1
      BY <1>1, <2>1, <3>1, <3>3
    <3>7. y.over /\ y.valid => y.matches = Len(input)
      BY <3>1, <3>4
    <3>8. /\ y.rest = SubSeq(input, y.matches + 1, Len(input))
          /\ \A j \in 1..y.matches : input[j] = words[j]
      BY <3>1, <3>3, <3>5
    <3> HIDE DEF m, y
    <3> QED BY <3>1, <3>6, <3>7, <3>8 DEF Matched, y, word
  <2>4. CASE ~hit
    <3>1. y.matches = m /\ y.rest = x.rest /\ ~y.valid /\ y.over
      BY <1>3, <2>4 DEF Turn
    <3>2. m = Len(input) \/ input[m + 1] # words[m + 1]
      BY <2>1, <2>2, <2>4
    <3>3. y.matches \in 0..(i + 1) /\ y.matches <= Len(input) /\ y.matches < i + 1
      BY <1>1, <2>1, <3>1
    <3>4. /\ y.rest = SubSeq(input, y.matches + 1, Len(input))
          /\ \A j \in 1..y.matches : input[j] = words[j]
          /\ y.matches = Len(input) \/ input[y.matches + 1] # words[y.matches + 1]
      BY <1>1, <3>1, <3>2
    <3> HIDE DEF m, y
    <3> QED BY <3>1, <3>3, <3>4 DEF Matched, y, word
  <2> QED BY <2>3, <2>4
<1> QED BY <1>2, <1>3

(* A command is matched by exactly the words of the pattern: nothing that    *)
(* begins with them, or that they begin with, is (match.go 17-64).           *)
THEOREM MatchIsEquality ==
  ASSUME NEW input \in Seq(STRING), NEW words \in Seq(STRING)
  PROVE  Match(input, words) <=> input = words
<1> DEFINE n == Len(words)
<1>1. PICK st : Turns(input, words, n, st) /\ Loop(input, words) = st[n]
  BY LoopTurns
<1>2. n \in Nat /\ Len(input) \in Nat
  OBVIOUS
<1> HIDE DEF n
<1>3. /\ st[0] = Start(input)
      /\ \A i \in 0..n : i + 1 \in 0..n => st[i + 1] = Turn(st[i], words[i + 1])
  BY <1>1, <1>2 DEF Turns
<1> DEFINE Bad == {i \in 0..n : ~Matched(input, words, i, st[i])}
<1>4. Bad = {}
  <2> SUFFICES ASSUME Bad # {} PROVE FALSE
    OBVIOUS
  <2>1. PICK k \in Bad : \A i \in Bad : k <= i
    <3>1. Bad \subseteq Nat
      BY <1>2
    <3> HIDE DEF Bad
    <3> QED BY <3>1, LeastNumber
  <2>2. CASE k = 0
    <3>1. SubSeq(input, 1, Len(input)) = input
      OBVIOUS
    <3>2. Matched(input, words, 0, Start(input))
      BY <1>2, <3>1 DEF Matched, Start
    <3> QED BY <1>3, <2>2, <3>2
  <2>3. CASE k # 0
    <3>1. k - 1 \in 0..n /\ k - 1 \in Nat /\ (k - 1) + 1 = k
      BY <1>2, <2>3
    <3>2. k - 1 \notin Bad
      BY <2>1, <3>1
    <3>3. Matched(input, words, k - 1, st[k - 1])
      BY <3>1, <3>2
    <3>4. Matched(input, words, k, Turn(st[k - 1], words[k]))
      BY <3>1, <3>3, TurnMatches
    <3> QED BY <1>3, <3>1, <3>4
  <2> QED BY <2>2, <2>3
<1>5. Matched(input, words, n, st[n])
  BY <1>2, <1>4
<1> DEFINE x == st[n]
<1>6. Match(input, words) <=> x.valid /\ x.rest = <<>> /\ x.matches = n
  BY <1>1 DEF Match, n
<1>7. /\ x.matches \in 0..n /\ x.matches \in 0..Len(input)
      /\ x.rest = SubSeq(input, x.matches + 1, Len(input))
      /\ \A j \in 1..x.matches : input[j] = words[j]
  BY <1>2, <1>5 DEF Matched
<1>8. x.rest = <<>> <=> x.matches = Len(input)
  BY <1>7, RestOf
<1>9. ASSUME Match(input, words) PROVE input = words
  <2>1. x.matches = n /\ Len(input) = n
    BY <1>6, <1>8, <1>9
  <2>2. Len(input) = Len(words) /\ \A j \in 1..Len(input) : input[j] = words[j]
    BY <1>7, <2>1 DEF n
  <2> QED BY <2>2, SeqEqual
<1>10. ASSUME input = words PROVE Match(input, words)
  <2>1. Len(input) = n
    BY <1>10 DEF n
  <2>2. x.valid /\ x.matches = n
    BY <1>2, <1>5, <1>10, <2>1 DEF Matched
  <2> QED BY <1>6, <1>8, <2>1, <2>2
<1> QED BY <1>9, <1>10

\* The permissions of a connection tell whether the admin key was accepted.
LEMMA Marked == Spec => [](allow_admin = {c \in Conn : "admin" \in accepted[c]})
<1> DEFINE Mark == allow_admin = {c \in Conn : "admin" \in accepted[c]}
<1>1. Init => Mark
  BY DEF Init, SessionInit
<1>2. TypeOK /\ Mark /\ [Next]_vars => Mark'
  <2> SUFFICES ASSUME TypeOK, Mark, [Next]_vars PROVE Mark'
    OBVIOUS
  <2>1. CASE UNCHANGED <<accepted, allow_admin>>
    BY <2>1
  <2>2. ASSUME NEW c \in Conn, NEW key \in AcceptedKey, PublicKeyHandler(c, key)
        PROVE  Mark'
    <3>1. /\ accepted \in [Conn -> SUBSET AcceptedKey]
          /\ accepted' = [accepted EXCEPT ![c] = accepted[c] \cup {key}]
      BY <2>2 DEF PublicKeyHandler, TypeOK, SessionTypeOK
    <3>2. \A d \in Conn : "admin" \in accepted'[d] <=> "admin" \in accepted[d] \/ (d = c /\ key = "admin")
      BY <3>1
    <3> QED BY <2>2, <3>2 DEF PublicKeyHandler
  <2>3. UNCHANGED sessionVars => UNCHANGED <<accepted, allow_admin>>
    BY DEF sessionVars, connVars
  <2>4. SessionStep \/ Accept => Mark'
    BY <2>1, <2>2 DEF SessionStep, Accept, Connect, Authenticate, Disconnect, Open, Scan, Run,
                      EndOfInput, Exit, connVars
  <2> QED
    BY <2>1, <2>3, <2>4 DEF Next, Cancel, genHostKey, ListenSSH, ReturnSSH, CloseSSH, StartHTTP,
                            ListenHTTP, ReturnHTTP, ShutdownHTTP, WaitChildren, vars
<1> QED BY <1>1, <1>2, TypeCorrect, PTL DEF Spec

(* The commands of the two patterns, and no others, start what they stand    *)
(* for; the admin's does on a connection on which the admin key was          *)
(* accepted, whichever key it was authenticated by (match.go 17-64,          *)
(* session.go 19-28, gateway.go 160-181, admin.go 17-24).                    *)
THEOREM CommandCorrect == Spec => CommandDecides
<1> DEFINE Mark == allow_admin = {c \in Conn : "admin" \in accepted[c]}
           P(s, c, command) ==
             Open(s, c, command) =>
               /\ kind'[s] = "admin" <=> command = AdminCommand /\ "admin" \in accepted[c]
               /\ kind'[s] = "whoami" <=> command = WhoamiCommand
<1>1. ASSUME TypeOK, Mark, NEW s \in Session, NEW c \in Conn, NEW command \in Command
      PROVE  P(s, c, command)
  <2>1. /\ Match(command, AdminCommand) <=> command = AdminCommand
        /\ Match(command, WhoamiCommand) <=> command = WhoamiCommand
        /\ AdminCommand # WhoamiCommand
    BY CommandAssumption, MatchIsEquality
  <2> QED BY <1>1, <2>1 DEF Open, isAdmin, TypeOK, SessionTypeOK
<1>2. TypeOK /\ Mark
        => [\A s \in Session, c \in Conn, command \in Command : P(s, c, command)]_sessionVars
  BY <1>1
<1> QED BY <1>2, TypeCorrect, Marked, PTL DEF CommandDecides

-----------------------------------------------------------------------------
(* The servers                                                               *)

\* A server that its goroutine has closed serves no more, except an SSH server
\* that was not listening yet; one that has returned has taken the context with
\* it, and Run has waited for both.
ClosedForGood ==
  /\ closer.ssh = "done" => ssh \in {"closed", "returned"}
  /\ closer.http = "done" => http # "serve"
  /\ closer.ssh = "early" \/ closer.ssh = "done" \/ closer.http = "done" => cancelled
  /\ ssh = "closed" => closer.ssh = "done"
  /\ http = "closed" => closer.http = "done"
  /\ ssh = "returned" \/ http = "returned" => cancelled
  /\ run = "returned" => {ssh, http} \subseteq {"off", "returned"}

\* Where a server can be without its goroutine.
Unguarded ==
  /\ ssh \in {"off", "start"} => closer.ssh = "none"
  /\ closer.ssh = "none" => ssh \in {"off", "start", "returned"}
  /\ http \in {"off", "start"} <=> closer.http = "none"

\* The servers' inductive invariant.
LEMMA Servers == Spec => [](ClosedForGood /\ Unguarded)
<1>1. Init => ClosedForGood /\ Unguarded
  BY DEF Init, ClosedForGood, Unguarded
<1>2. TypeOK /\ ClosedForGood /\ Unguarded /\ [Next]_vars => (ClosedForGood /\ Unguarded)'
  <2> SUFFICES ASSUME TypeOK, ClosedForGood, Unguarded, [Next]_vars
               PROVE  ClosedForGood' /\ Unguarded'
    OBVIOUS
  <2> USE DEF ClosedForGood, Unguarded
  <2>0. closer \in [ssh : {"none", "waiting", "done", "early"}, http : {"none", "waiting", "done"}]
    BY DEF TypeOK
  <2>1. CASE Cancel
    BY <2>1 DEF Cancel
  <2>2. CASE genHostKey
    BY <2>0, <2>2 DEF genHostKey
  <2>3. CASE ListenSSH
    BY <2>0, <2>3 DEF ListenSSH
  <2>4. CASE ReturnSSH
    BY <2>0, <2>4 DEF ReturnSSH
  <2>5. CASE CloseSSH
    BY <2>0, <2>5 DEF CloseSSH, Closed, TypeOK
  <2>6. CASE StartHTTP
    BY <2>0, <2>6 DEF StartHTTP
  <2>7. CASE ListenHTTP
    BY <2>0, <2>7 DEF ListenHTTP
  <2>8. CASE ReturnHTTP
    BY <2>0, <2>8 DEF ReturnHTTP
  <2>9. CASE ShutdownHTTP
    BY <2>0, <2>9 DEF ShutdownHTTP, TypeOK
  <2>10. CASE WaitChildren
    BY <2>10 DEF WaitChildren
  <2>11. CASE UNCHANGED serverVars
    BY <2>11 DEF serverVars
  <2>12. UNCHANGED vars => UNCHANGED serverVars
    BY DEF vars, serverVars
  <2> QED
    BY <2>1, <2>2, <2>3, <2>4, <2>5, <2>6, <2>7, <2>8, <2>9, <2>10, <2>11, <2>12 DEF Next
<1> QED BY <1>1, <1>2, TypeCorrect, PTL DEF Spec

(* What is shut down stays so, whatever the two servers and their goroutines *)
(* do in between (gateway.go 117-147 and 215-240, http_api.go 25-45).        *)
THEOREM ClosedCorrect == Spec => []ClosedForGood
BY Servers, PTL

\* Neither a server nor its goroutine nor Run can take a step by itself: what
\* Fairness names, with the guards spelt out.
ServersAtRest ==
  /\ {ssh, http} \cap {"start", "listen", "closed"} = {}
  /\ cancelled => closer.ssh # "waiting" /\ closer.http # "waiting"
  /\ run = "running" => ~({ssh, http} \subseteq {"off", "returned"})

\* A gateway that was told to stop, or has lost a server, comes to rest only
\* once Run has returned, or with an SSH server that was closed too early.
StopsOrServes ==
  ServersAtRest /\ cancelled =>
    run = "returned" \/ (closer.ssh = "early" /\ ssh = "serve")

(* A shutdown does not come to a standstill half-way: no server, goroutine   *)
(* or Run is left to wait for one of the others (gateway.go 117-147,         *)
(* http_api.go 25-45).                                                       *)
THEOREM RestCorrect == Spec => []StopsOrServes
<1>1. TypeOK /\ ClosedForGood /\ Unguarded => StopsOrServes
  <2> SUFFICES ASSUME TypeOK, ClosedForGood, Unguarded, ServersAtRest, cancelled,
                      run # "returned"
               PROVE  closer.ssh = "early" /\ ssh = "serve"
    BY DEF StopsOrServes
  <2>1. /\ ssh \in {"off", "serve", "returned"} /\ http \in {"off", "serve", "returned"}
        /\ closer.ssh \in {"none", "done", "early"} /\ closer.http \in {"none", "done"}
        /\ ssh = "serve" \/ http = "serve"
    BY DEF TypeOK, ServersAtRest
  <2>2. http # "serve"
    BY <2>1 DEF ClosedForGood, Unguarded
  <2>3. ssh = "serve"
    BY <2>1, <2>2
  <2> QED BY <2>1, <2>3 DEF ClosedForGood, Unguarded
<1> QED BY <1>1, Servers, TypeCorrect, PTL

\* How far a server has come.
ServerStage(place) ==
  CASE place = "off" -> 0 [] place = "start" -> 1 [] place = "listen" -> 2
    [] place = "serve" -> 3 [] place = "closed" -> 4 [] place = "returned" -> 5

ServersForward ==
  /\ ServerStage(ssh') >= ServerStage(ssh) /\ ServerStage(http') >= ServerStage(http)
  /\ cancelled => cancelled'
  /\ run = "returned" => run' = "returned"

(* Nothing of a shutdown is taken back: a server that returned is not        *)
(* started again, and a context that is done stays so.                       *)
THEOREM ForwardCorrect == Spec => [][ServersForward]_vars
<1>1. ASSUME TypeOK, [Next]_vars PROVE ServersForward
  <2> USE <1>1
  <2>1. ASSUME NEW x \in {"off", "start", "listen", "serve", "closed", "returned"}
        PROVE  ServerStage(x) \in 0..5
    BY <2>1 DEF ServerStage
  <2>2. ServerStage(ssh) \in 0..5 /\ ServerStage(http) \in 0..5
    BY <2>1 DEF TypeOK
  <2>3. CASE UNCHANGED <<ssh, http>>
    <3>1. cancelled => cancelled'
      BY <2>3 DEF Next, Cancel, genHostKey, ListenSSH, ReturnSSH, CloseSSH, StartHTTP,
                  ListenHTTP, ReturnHTTP, ShutdownHTTP, WaitChildren, serverVars, vars
    <3>2. run = "returned" => run' = "returned"
      BY <2>3 DEF Next, Cancel, genHostKey, ListenSSH, ReturnSSH, CloseSSH, StartHTTP,
                  ListenHTTP, ReturnHTTP, ShutdownHTTP, WaitChildren, serverVars, vars
    <3> QED BY <2>2, <2>3, <3>1, <3>2 DEF ServersForward
  <2>4. CASE genHostKey \/ ListenSSH \/ ReturnSSH \/ CloseSSH
    <3>1. /\ http' = http /\ run' = run /\ (cancelled => cancelled')
          /\ \/ ssh' = ssh
             \/ ssh = "start" /\ ssh' \in {"listen", "returned"}
             \/ ssh = "listen" /\ ssh' \in {"serve", "returned"}
             \/ ssh = "serve" /\ ssh' \in {"closed", "returned"}
             \/ ssh = "closed" /\ ssh' = "returned"
      BY <2>4 DEF genHostKey, ListenSSH, ReturnSSH, CloseSSH
    <3>2. CASE ssh' = ssh
      BY <2>2, <3>1, <3>2 DEF ServersForward
    <3>3. CASE ssh' # ssh
      <4>1. ServerStage(ssh') >= ServerStage(ssh)
        BY <3>1, <3>3 DEF ServerStage
      <4>2. ServerStage(http') >= ServerStage(http)
        BY <2>2, <3>1
      <4> QED BY <3>1, <4>1, <4>2 DEF ServersForward
    <3> QED BY <3>2, <3>3
  <2>5. CASE StartHTTP \/ ListenHTTP \/ ReturnHTTP \/ ShutdownHTTP
    <3>1. /\ ssh' = ssh /\ run' = run /\ (cancelled => cancelled')
          /\ \/ http' = http
             \/ http = "start" /\ http' = "listen"
             \/ http = "listen" /\ http' \in {"serve", "returned"}
             \/ http = "serve" /\ http' \in {"closed", "returned"}
             \/ http = "closed" /\ http' = "returned"
      BY <2>5 DEF StartHTTP, ListenHTTP, ReturnHTTP, ShutdownHTTP
    <3>2. CASE http' = http
      BY <2>2, <3>1, <3>2 DEF ServersForward
    <3>3. CASE http' # http
      <4>1. ServerStage(http') >= ServerStage(http)
        BY <3>1, <3>3 DEF ServerStage
      <4>2. ServerStage(ssh') >= ServerStage(ssh)
        BY <2>2, <3>1
      <4> QED BY <3>1, <4>1, <4>2 DEF ServersForward
    <3> QED BY <3>2, <3>3
  <2> QED
    BY <2>3, <2>4, <2>5 DEF Next, Cancel, WaitChildren, serverVars, vars
<1>2. TypeOK /\ [Next]_vars => [ServersForward]_vars
  BY <1>1
<1> QED BY <1>2, TypeCorrect, PTL DEF Spec
=============================================================================
