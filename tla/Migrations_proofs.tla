-------------------------- MODULE Migrations_proofs --------------------------
(***************************************************************************)
(* What the migrations leave behind, for any number of processes, releases *)
(* and versions, wherever each of them fails or crashes.                   *)
(***************************************************************************)
EXTENDS Migrations, FiniteSetTheorems, WellFoundedInduction, TLAPS

Triple == Nat \X Nat \X Nat

(* Versions are strictly and totally ordered by Less, and version{} is below *)
(* all others (migrations.go 108-112).                                       *)
THEOREM VersionOrder ==
  ASSUME NEW u \in Triple, NEW v \in Triple, NEW w \in Triple
  PROVE  /\ ~Less(v, v)
         /\ v = w \/ Less(v, w) \/ Less(w, v)
         /\ Less(u, v) /\ Less(v, w) => Less(u, w)
         /\ v = Zero \/ Less(Zero, v)
<1>1. /\ v = <<v[1], v[2], v[3]>> /\ w = <<w[1], w[2], w[3]>>
      /\ v[1] \in Nat /\ v[2] \in Nat /\ v[3] \in Nat
      /\ w[1] \in Nat /\ w[2] \in Nat /\ w[3] \in Nat
      /\ u[1] \in Nat /\ u[2] \in Nat /\ u[3] \in Nat
  BY DEF Triple
<1>2. ~Less(v, v)
  BY <1>1 DEF Less
<1>3. v = w \/ Less(v, w) \/ Less(w, v)
  BY <1>1 DEF Less
<1>4. Less(u, v) /\ Less(v, w) => Less(u, w)
  BY <1>1 DEF Less
<1>5. v = Zero \/ Less(Zero, v)
  <2>1. Zero[1] = 0 /\ Zero[2] = 0 /\ Zero[3] = 0
    BY DEF Zero
  <2>2. CASE v[1] = 0 /\ v[2] = 0 /\ v[3] = 0
    BY <1>1, <2>2 DEF Zero
  <2>3. CASE ~(v[1] = 0 /\ v[2] = 0 /\ v[3] = 0)
    BY <1>1, <2>1, <2>3 DEF Less
  <2> QED BY <2>2, <2>3
<1> QED BY <1>2, <1>3, <1>4, <1>5

LEMMA KnownVersions ==
  /\ \A p \in Process : Files[p] \subseteq Known
  /\ Known \subseteq Triple \ {Zero}
  /\ Version \subseteq Triple
<1>1. \A p \in Process : Files[p] \subseteq Triple \ {Zero}
  BY FilesAssumption DEF Triple
<1>2. Zero \in Triple
  BY DEF Zero, Triple
<1> QED BY <1>1, <1>2 DEF Known, Version

\* A process has seen every file up to pos applied, and its transaction has
\* written what its pc says.
Progress(p) ==
  /\ pc[p] \in {"loop", "record", "commit"} =>
       \A w \in Files[p] : ~Less(pos[p], w) => w \in applied
  /\ \A v \in NextFile(p) :
       /\ pc[p] = "record" => writes[p].schema = {v}
       /\ pc[p] = "commit" => writes[p].schema = {v} /\ writes[p].records = {v}

IInv ==
  /\ TypeOK /\ RecordsMatchSchema /\ AppliedIsPrefix /\ StartedUpToDate
  /\ \A p \in Process : Progress(p)

Writes == [schema : SUBSET Known, records : SUBSET Known]

\* A step of p that commits nothing keeps what is in the database.
LEMMA StepKeeps ==
  ASSUME IInv, NEW p \in Process, NEW l, NEW v \in Version, NEW s \in Writes,
         l \in {"down", "seed", "query", "loop", "record", "commit", "started", "failed"},
         pc' = [pc EXCEPT ![p] = l], pos' = [pos EXCEPT ![p] = v],
         writes' = [writes EXCEPT ![p] = s],
         schema' = schema \/ schema' = schema \cup {Zero}, applied' = applied,
         l = "started" => Files[p] \subseteq applied,
         Progress(p)'
  PROVE  IInv'
<1>1. /\ pc'[p] = l
      /\ \A q \in Process \ {p} : pc'[q] = pc[q] /\ pos'[q] = pos[q] /\ writes'[q] = writes[q]
  BY DEF IInv, TypeOK
<1>2. TypeOK'
  BY DEF IInv, TypeOK, Writes, Version
<1>3. RecordsMatchSchema' /\ AppliedIsPrefix'
  BY DEF IInv, RecordsMatchSchema, AppliedIsPrefix
<1>4. StartedUpToDate'
  BY <1>1 DEF IInv, StartedUpToDate
<1>5. \A q \in Process \ {p} : Progress(q)'
  BY <1>1 DEF IInv, Progress, NextFile
<1> QED BY <1>2, <1>3, <1>4, <1>5 DEF IInv

LEMMA EndStep ==
  ASSUME IInv, NEW p \in Process, NEW l \in {"down", "failed"}, End(p, l)
  PROVE  IInv'
<1>1. Nothing \in Writes /\ pos[p] \in Version /\ pos' = [pos EXCEPT ![p] = pos[p]]
  BY DEF End, Nothing, Writes, IInv, TypeOK
<1>2. Progress(p)'
  BY DEF End, Goto, Progress, IInv, TypeOK
<1> QED BY <1>1, <1>2, StepKeeps DEF End, Goto

\* A step that moves p on, and neither writes nor reads.
LEMMA GotoStep ==
  ASSUME IInv, NEW p \in Process, NEW l \in {"seed", "query", "started"}, Goto(p, l),
         UNCHANGED <<pos, writes, applied>>, schema' = schema \/ schema' = schema \cup {Zero},
         l = "started" => Files[p] \subseteq applied
  PROVE  IInv'
<1>1. /\ writes[p] \in Writes /\ writes' = [writes EXCEPT ![p] = writes[p]]
      /\ pos[p] \in Version /\ pos' = [pos EXCEPT ![p] = pos[p]]
  BY DEF Writes, IInv, TypeOK
<1>2. Progress(p)'
  BY DEF Goto, Progress, IInv, TypeOK
<1> QED BY <1>1, <1>2, StepKeeps DEF Goto

LEMMA FinishStep ==
  ASSUME IInv, NEW p \in Process, Finish(p)
  PROVE  IInv'
<1>1. Files[p] \subseteq applied
  BY DEF Finish, Done, IInv, Progress
<1> QED BY <1>1, GotoStep DEF Finish

LEMMA QueryStep ==
  ASSUME IInv, NEW p \in Process, Query(p)
  PROVE  IInv'
<1>1. PICK v \in Newest : pos' = [pos EXCEPT ![p] = v]
  BY DEF Query
<1>2. v \in Version
  BY <1>1 DEF Newest, Highest, Version, IInv, TypeOK
<1>3. ASSUME NEW w \in Files[p], ~Less(v, w) PROVE w \in applied
  <2>1. w \in Known /\ w \in Triple /\ v \in Triple /\ w # Zero
    BY <1>2, KnownVersions
  <2>2. CASE applied = {}
    BY <1>3, <2>1, <2>2, VersionOrder DEF Newest
  <2>3. CASE applied # {}
    <3>1. v \in applied
      BY <2>3 DEF Newest, Highest
    <3>2. v = w \/ Less(w, v)
      BY <1>3, <2>1, VersionOrder
    <3> QED BY <2>1, <3>1, <3>2 DEF IInv, AppliedIsPrefix
  <2> QED BY <2>2, <2>3
<1>4. /\ writes[p] \in Writes /\ writes' = [writes EXCEPT ![p] = writes[p]]
      /\ pc' = [pc EXCEPT ![p] = "loop"] /\ schema' = schema /\ applied' = applied
  BY DEF Query, Goto, Writes, IInv, TypeOK
<1>5. pc'[p] = "loop" /\ pos'[p] = v
  BY <1>1, <1>4 DEF IInv, TypeOK
<1>6. Progress(p)'
  BY <1>3, <1>4, <1>5 DEF Progress
<1> QED BY <1>1, <1>2, <1>4, <1>6, StepKeeps

LEMMA OneNextFile ==
  ASSUME NEW p \in Process, NEW v \in NextFile(p), NEW w \in NextFile(p)
  PROVE  v = w
<1>1. v \in Triple /\ w \in Triple
  BY KnownVersions DEF NextFile
<1>2. ~Less(v, w) /\ ~Less(w, v)
  BY DEF NextFile
<1> QED BY <1>1, <1>2, VersionOrder

LEMMA ContentStep ==
  ASSUME IInv, NEW p \in Process, NEW v \in Files[p], Content(p, v)
  PROVE  IInv'
<1> DEFINE s == [schema |-> {v}, records |-> {}]
<1>1. s \in Writes /\ s.schema = {v}
  BY KnownVersions DEF Writes
<1>2. writes' = [writes EXCEPT ![p] = s]
  BY DEF Content
<1> HIDE DEF s
<1>3. /\ pc' = [pc EXCEPT ![p] = "record"] /\ schema' = schema /\ applied' = applied
      /\ pos[p] \in Version /\ pos' = [pos EXCEPT ![p] = pos[p]]
      /\ pc[p] = "loop" /\ v \in NextFile(p)
  BY DEF Content, Goto, IInv, TypeOK
<1>4. pc'[p] = "record" /\ writes'[p] = s /\ pos'[p] = pos[p]
  BY <1>2, <1>3 DEF IInv, TypeOK
<1>5. \A w \in Files[p] : ~Less(pos'[p], w) => w \in applied'
  BY <1>3, <1>4 DEF IInv, Progress
<1>6. \A w \in NextFile(p)' : w = v
  BY <1>3, <1>4, OneNextFile DEF NextFile
<1>7. Progress(p)'
  BY <1>1, <1>4, <1>5, <1>6 DEF Progress
<1> QED BY <1>1, <1>2, <1>3, <1>7, StepKeeps

LEMMA RecordStep ==
  ASSUME IInv, NEW p \in Process, NEW v \in Files[p], Record(p, v)
  PROVE  IInv'
<1> DEFINE s == [schema |-> writes[p].schema, records |-> {v}]
<1>1. v \in NextFile(p) /\ writes[p] \in Writes /\ writes[p].schema = {v} /\ v \in Known
  BY KnownVersions DEF Record, IInv, TypeOK, Progress, Writes
<1>2. s \in Writes /\ s.schema = {v} /\ s.records = {v}
  BY <1>1 DEF Writes
<1>3. writes' = [writes EXCEPT ![p] = s]
  BY DEF Record
<1> HIDE DEF s
<1>4. /\ pc' = [pc EXCEPT ![p] = "commit"] /\ schema' = schema /\ applied' = applied
      /\ pos[p] \in Version /\ pos' = [pos EXCEPT ![p] = pos[p]] /\ pc[p] = "record"
  BY DEF Record, Goto, IInv, TypeOK
<1>5. pc'[p] = "commit" /\ writes'[p] = s /\ pos'[p] = pos[p]
  BY <1>3, <1>4 DEF IInv, TypeOK
<1>6. \A w \in Files[p] : ~Less(pos'[p], w) => w \in applied'
  BY <1>4, <1>5 DEF IInv, Progress
<1>7. \A w \in NextFile(p)' : w = v
  BY <1>1, <1>5, OneNextFile DEF NextFile
<1>8. Progress(p)'
  BY <1>2, <1>5, <1>6, <1>7 DEF Progress
<1> QED BY <1>2, <1>3, <1>4, <1>8, StepKeeps

LEMMA CommitStep ==
  ASSUME IInv, NEW p \in Process, NEW v \in Files[p], Commit(p, v)
  PROVE  IInv'
<1>1. /\ pc[p] = "commit" /\ v \in NextFile(p) /\ v \in Known
      /\ writes[p].schema = {v} /\ writes[p].records = {v}
  BY KnownVersions DEF Commit, IInv, Progress
<1>2. schema' = schema \cup {v} /\ applied' = applied \cup {v}
  BY <1>1 DEF Commit
<1>3. ASSUME NEW w \in Files[p], Less(w, v) PROVE w \in applied
  <2>1. ~Less(pos[p], w)
    BY <1>1, <1>3 DEF NextFile
  <2> QED BY <1>1, <2>1 DEF IInv, Progress
<1>4. TypeOK'
  BY <1>1, <1>2 DEF Commit, Goto, IInv, TypeOK, Nothing, Version
<1>5. RecordsMatchSchema'
  BY <1>1, <1>2, KnownVersions DEF IInv, RecordsMatchSchema
<1>6. AppliedIsPrefix'
  <2> SUFFICES ASSUME NEW u \in applied', NEW w \in Known, Less(w, u) PROVE w \in applied'
    BY DEF AppliedIsPrefix
  <2>1. CASE u \in applied
    BY <1>2, <2>1 DEF IInv, AppliedIsPrefix
  <2>2. CASE u = v
    BY <1>2, <1>3, <2>2, ReleaseAssumption
  <2> QED BY <1>2, <2>1, <2>2
<1>7. /\ pc'[p] = "loop" /\ pos'[p] = v
      /\ \A q \in Process \ {p} : pc'[q] = pc[q] /\ pos'[q] = pos[q] /\ writes'[q] = writes[q]
  BY DEF Commit, Goto, IInv, TypeOK
<1>8. StartedUpToDate'
  BY <1>2, <1>7 DEF IInv, StartedUpToDate
<1>9. ASSUME NEW q \in Process PROVE Progress(q)'
  <2>1. CASE q = p
    <3>1. ASSUME NEW w \in Files[p], ~Less(v, w) PROVE w \in applied'
      <4>1. w = v \/ Less(w, v)
        BY <3>1, KnownVersions, VersionOrder
      <4> QED BY <1>2, <1>3, <4>1
    <3> QED BY <1>7, <2>1, <3>1 DEF Progress
  <2>2. CASE q # p
    BY <1>2, <1>7, <2>2 DEF IInv, Progress, NextFile
  <2> QED BY <2>1, <2>2
<1> QED BY <1>4, <1>5, <1>6, <1>8, <1>9 DEF IInv

LEMMA InductiveInvariant == Spec => []IInv
<1>1. Init => IInv
  BY DEF Init, IInv, TypeOK, Version, Nothing, RecordsMatchSchema, AppliedIsPrefix,
         StartedUpToDate, Progress
<1>2. IInv /\ [Next]_vars => IInv'
  <2> SUFFICES ASSUME IInv, [Next]_vars PROVE IInv'
    OBVIOUS
  <2>1. ASSUME NEW p \in Process, Start(p) PROVE IInv'
    BY <2>1, GotoStep DEF Start
  <2>2. ASSUME NEW p \in Process, Seed(p) PROVE IInv'
    BY <2>2, GotoStep DEF Seed
  <2>3. ASSUME NEW p \in Process, Fail(p) PROVE IInv'
    BY <2>3, EndStep DEF Fail
  <2>4. ASSUME NEW p \in Process, Crash(p) PROVE IInv'
    BY <2>4, EndStep DEF Crash
  <2>5. CASE UNCHANGED vars
    BY <2>5 DEF vars, IInv, TypeOK, RecordsMatchSchema, AppliedIsPrefix, StartedUpToDate,
                Progress, NextFile
  <2> QED
    BY <2>1, <2>2, <2>3, <2>4, <2>5, QueryStep, FinishStep, ContentStep, RecordStep, CommitStep
       DEF Next, Step
<1> QED BY <1>1, <1>2, PTL DEF Spec

-----------------------------------------------------------------------------
(* Every variable keeps its type (migrations.go 42-89).                      *)
THEOREM TypeCorrect == Spec => []TypeOK
<1>1. IInv => TypeOK
  BY DEF IInv
<1> QED BY <1>1, InductiveInvariant, PTL

(* The schema holds exactly what t_migrations says, whoever fails or crashes *)
(* where (migrations.go 76-106).                                             *)
THEOREM RecordsCorrect == Spec => []RecordsMatchSchema
<1>1. IInv => RecordsMatchSchema
  BY DEF IInv
<1> QED BY <1>1, InductiveInvariant, PTL

(* No migration is applied before one of a lower version (migrations.go      *)
(* 51-72).                                                                   *)
THEOREM PrefixCorrect == Spec => []AppliedIsPrefix
<1>1. IInv => AppliedIsPrefix
  BY DEF IInv
<1> QED BY <1>1, InductiveInvariant, PTL

(* A started program finds its migrations applied (migrations.go 64-73).     *)
THEOREM StartedCorrect == Spec => []StartedUpToDate
<1>1. IInv => StartedUpToDate
  BY DEF IInv
<1> QED BY <1>1, InductiveInvariant, PTL

-----------------------------------------------------------------------------
(* Only one process at a time applies a migration                            *)

\* Who has written holds the write lock, and what it is about to apply is still
\* missing.
Writing(p) ==
  pc[p] \in {"record", "commit"} => MayWrite(p) /\ \A v \in NextFile(p) : v \notin schema

Locked == \A p \in Process : Writing(p)

LEMMA InitLocked == Init => Locked
BY DEF Init, Locked, Writing

\* A step of p that leaves it without the lock, and the versions as they are.
LEMMA LeftUnlocked ==
  ASSUME IInv, Locked, NEW p \in Process, NEW l, l \notin {"record", "commit"}, Goto(p, l),
         \A q \in Process \ {p} : pos'[q] = pos[q],
         schema' \subseteq schema \cup {Zero}
  PROVE  Locked'
<1>1. ASSUME NEW q \in Process PROVE Writing(q)'
  <2>1. CASE q = p
    BY <2>1 DEF Goto, Writing, IInv, TypeOK
  <2>2. CASE q # p
    <3>1. pc'[q] = pc[q] /\ pos'[q] = pos[q]
      BY <2>2 DEF Goto, IInv, TypeOK
    <3>2. NextFile(q)' = NextFile(q) /\ \A v \in NextFile(q) : v # Zero
      BY <3>1, KnownVersions DEF NextFile
    <3>3. MayWrite(q) => MayWrite(q)'
      BY DEF MayWrite, Goto, IInv, TypeOK
    <3> QED BY <3>1, <3>2, <3>3 DEF Locked, Writing
  <2> QED BY <2>1, <2>2
<1> QED BY <1>1 DEF Locked

\* A step of p that holds the lock, or takes it, and keeps it.
LEMMA KeptLocked ==
  ASSUME IInv, Locked, NEW p \in Process, NEW l \in {"record", "commit"}, Goto(p, l),
         UNCHANGED <<pos, schema>>, MayWrite(p), \A v \in NextFile(p) : v \notin schema
  PROVE  Locked'
<1>1. ASSUME NEW q \in Process PROVE Writing(q)'
  <2>1. CASE q = p
    BY <2>1 DEF Goto, Writing, MayWrite, NextFile, IInv, TypeOK
  <2>2. CASE q # p
    BY <2>2 DEF Goto, Writing, MayWrite, IInv, TypeOK
  <2> QED BY <2>1, <2>2
<1> QED BY <1>1 DEF Locked

LEMMA CommitLocked ==
  ASSUME IInv, Locked, NEW p \in Process, NEW v \in Files[p], Commit(p, v)
  PROVE  Locked'
<1>1. \A q \in Process \ {p} : pc'[q] = pc[q] /\ pc[q] \notin {"record", "commit"}
  BY DEF Commit, Goto, Locked, Writing, MayWrite, IInv, TypeOK
<1>2. pc'[p] = "loop"
  BY DEF Commit, Goto, IInv, TypeOK
<1> QED BY <1>1, <1>2 DEF Locked, Writing

LEMMA NextLocked ==
  ASSUME IInv, Locked, [Next]_vars
  PROVE  Locked'
<1>1. ASSUME NEW p \in Process, Start(p) \/ Seed(p) \/ Query(p) \/ Finish(p) \/ Fail(p) \/ Crash(p)
      PROVE  Locked'
  <2>1. /\ \A q \in Process \ {p} : pos'[q] = pos[q]
        /\ schema' \subseteq schema \cup {Zero}
    BY <1>1 DEF Start, Seed, Query, Finish, Fail, Crash, End, IInv, TypeOK
  <2>2. \E l \in {"seed", "query", "loop", "started", "failed", "down"} : Goto(p, l)
    BY <1>1 DEF Start, Seed, Query, Finish, Fail, Crash, End
  <2> QED BY <2>1, <2>2, LeftUnlocked
<1>2. ASSUME NEW p \in Process, NEW v \in Files[p], Content(p, v) PROVE Locked'
  BY <1>2, OneNextFile, KeptLocked DEF Content
<1>3. ASSUME NEW p \in Process, NEW v \in Files[p], Record(p, v) PROVE Locked'
  BY <1>3, KeptLocked DEF Record, Locked, Writing
<1>4. CASE UNCHANGED vars
  BY <1>4 DEF vars, Locked, Writing, MayWrite, NextFile
<1> QED BY <1>1, <1>2, <1>3, <1>4, CommitLocked DEF Next, Step

LEMMA AppliedWhenNext ==
  ASSUME IInv, Locked, [Next]_vars, applied' # applied
  PROVE  \E v \in Known \ schema :
           /\ applied' = applied \cup {v} /\ schema' = schema \cup {v}
           /\ \A w \in Known : Less(w, v) => w \in applied
<1>0. PICK p \in Process : \E v \in Files[p] : Commit(p, v)
  BY DEF Next, Step, Start, Seed, Query, Finish, Fail, Crash, End, Content, Record, vars
<1>1. PICK v \in Files[p] : Commit(p, v)
  BY <1>0
<1>2. /\ pc[p] = "commit" /\ v \in NextFile(p) /\ v \in Known
      /\ writes[p].schema = {v} /\ writes[p].records = {v}
  BY <1>1, KnownVersions DEF Commit, IInv, Progress
<1>3. schema' = schema \cup {v} /\ applied' = applied \cup {v}
  BY <1>1, <1>2 DEF Commit
<1>4. v \notin schema
  BY <1>2 DEF Locked, Writing
<1>5. ASSUME NEW w \in Known, Less(w, v) PROVE w \in applied
  <2>1. IInv'
    BY <1>1, CommitStep
  <2>2. w \in applied'
    BY <1>3, <1>5, <2>1 DEF IInv, AppliedIsPrefix, TypeOK
  <2>3. w # v
    BY <1>2, <1>5, KnownVersions, VersionOrder
  <2> QED BY <1>3, <2>2, <2>3
<1> QED BY <1>2, <1>3, <1>4, <1>5

(* Every migration is applied once and after all those below it, whichever   *)
(* processes come to it together (migrations.go 51-106).                     *)
THEOREM AppliedOnce == Spec => AppliesNext
<1> DEFINE P ==
       applied' # applied =>
         \E v \in Known \ schema :
           /\ applied' = applied \cup {v} /\ schema' = schema \cup {v}
           /\ \A w \in Known : Less(w, v) => w \in applied
<1>1. IInv /\ Locked /\ [Next]_vars => Locked'
  BY NextLocked
<1>2. IInv /\ Locked /\ [Next]_vars => [P]_vars
  BY AppliedWhenNext
<1> QED BY <1>1, <1>2, InitLocked, InductiveInvariant, PTL DEF Spec, AppliesNext

-----------------------------------------------------------------------------
(* A start always has a next step                                            *)

LEMMA LeastNumber ==
  ASSUME NEW S, S \subseteq Nat, S # {}
  PROVE  \E n \in S : \A m \in S : n <= m
<1> DEFINE Below == OpToRel(<, Nat)
<1>1. IsWellFoundedOn(Below, Nat)
  BY NatLessThanWellFounded
<1>2. \A m, n \in Nat : <<m, n>> \in Below <=> m < n
  BY DEF OpToRel
<1> HIDE DEF Below
<1>3. PICK n \in S : \A m \in S : ~(<<m, n>> \in Below)
  BY <1>1, WFMin
<1>4. n \in Nat /\ \A m \in S : m \in Nat /\ ~(m < n)
  BY <1>2, <1>3
<1> QED BY <1>4

\* The lowest version of a release: least in each of its three numbers in turn.
LEMMA LowestVersion ==
  ASSUME NEW S, S \subseteq Triple, S # {}
  PROVE  \E v \in S : \A w \in S : ~Less(w, v)
<1>0. \A v \in S : v[1] \in Nat /\ v[2] \in Nat /\ v[3] \in Nat
  BY DEF Triple
<1> DEFINE Least(T, i, v) == v \in T /\ \A w \in T : v[i] <= w[i]
<1>1. ASSUME NEW T \in SUBSET S, T # {}, NEW i \in 1..3
      PROVE  \E v : Least(T, i, v)
  <2> DEFINE N == {v[i] : v \in T}
  <2>1. N \subseteq Nat /\ N # {}
    BY <1>0, <1>1
  <2>2. PICK n \in N : \A m \in N : n <= m
    <3> HIDE DEF N
    <3> QED BY <2>1, LeastNumber
  <2> QED BY <2>2
<1>2. PICK a : Least(S, 1, a)
  BY <1>1
<1> DEFINE S2 == {v \in S : v[1] = a[1]}
<1>3. PICK b : Least(S2, 2, b)
  <2>1. S2 \in SUBSET S /\ S2 # {}
    BY <1>2
  <2> HIDE DEF S2, Least
  <2> QED BY <1>1, <2>1
<1> DEFINE S3 == {v \in S2 : v[2] = b[2]}
<1>4. PICK c : Least(S3, 3, c)
  <2>1. S3 \in SUBSET S /\ S3 # {}
    BY <1>3
  <2> HIDE DEF S2, S3, Least
  <2> QED BY <1>1, <2>1
<1>5. c \in S /\ c[1] = a[1] /\ c[2] = b[2]
  BY <1>4
<1>6. ASSUME NEW w \in S, Less(w, c) PROVE FALSE
  <2>1. a[1] <= w[1] /\ (w[1] = a[1] => b[2] <= w[2])
    BY <1>2, <1>3
  <2>2. w[1] = a[1] /\ w[2] = b[2] => c[3] <= w[3]
    BY <1>4
  <2>3. /\ w[1] \in Nat /\ w[2] \in Nat /\ w[3] \in Nat
        /\ c[1] \in Nat /\ c[2] \in Nat /\ c[3] \in Nat
    BY <1>0, <1>5
  <2> QED BY <1>5, <1>6, <2>1, <2>2, <2>3 DEF Less
<1> QED BY <1>5, <1>6

\* The highest of finitely many versions.
LEMMA HighestVersion ==
  ASSUME NEW S, S \subseteq Triple, IsFiniteSet(S), S # {}
  PROVE  \E v \in S : \A w \in S : ~Less(v, w)
<1> DEFINE Topless(T) == T \in SUBSET S /\ T # {} /\ \A v \in T : \E w \in T : Less(v, w)
           N == {Cardinality(T) : T \in {U \in SUBSET S : Topless(U)}}
<1>1. SUFFICES ASSUME Topless(S) PROVE FALSE
  OBVIOUS
<1>2. \A T \in SUBSET S : IsFiniteSet(T) /\ Cardinality(T) \in Nat
  BY FS_Subset, FS_CardinalityType
<1>3. N \subseteq Nat /\ N # {}
  BY <1>1, <1>2
<1>4. PICK n \in N : \A m \in N : n <= m
  <2> HIDE DEF N
  <2> QED BY <1>3, LeastNumber
<1>5. PICK T \in SUBSET S : Topless(T) /\ Cardinality(T) = n
  BY <1>4
<1>6. PICK x \in T : TRUE
  BY <1>5
<1> DEFINE R == T \ {x}
<1>7. /\ R \in SUBSET S /\ Cardinality(R) \in Nat
      /\ Cardinality(R) < n
  BY <1>2, <1>5, FS_RemoveElement
<1>8. ~Topless(R)
  <2>1. \A U \in SUBSET S : Topless(U) => Cardinality(U) \in N
    OBVIOUS
  <2>2. Topless(R) => n <= Cardinality(R)
    BY <1>4, <1>7, <2>1
  <2>3. n \in Nat
    BY <1>3
  <2> QED BY <1>7, <2>2, <2>3
<1>9. x \in Triple /\ T \subseteq Triple
  BY <1>5
<1>10. CASE R = {}
  <2>1. T = {x}
    BY <1>10
  <2> QED BY <1>5, <1>9, <2>1, VersionOrder
<1>11. CASE R # {}
  <2>1. PICK m \in R : \A w \in R : ~Less(m, w)
    BY <1>7, <1>8, <1>11
  <2>2. PICK y \in T : Less(x, y)
    BY <1>5
  <2>3. PICK z \in T : Less(m, z)
    BY <1>5
  <2>4. z = x /\ y \in R
    BY <1>9, <2>1, <2>2, <2>3, VersionOrder
  <2>5. Less(m, y)
    BY <1>9, <2>2, <2>3, <2>4, VersionOrder
  <2> QED BY <2>1, <2>4, <2>5
<1> QED BY <1>10, <1>11

LEMMA AppliedFinite == Spec => []IsFiniteSet(applied)
<1>1. Init => IsFiniteSet(applied)
  BY FS_EmptySet DEF Init
<1>2. IInv /\ Locked /\ [Next]_vars /\ IsFiniteSet(applied) => IsFiniteSet(applied)'
  BY AppliedWhenNext, FS_AddElement
<1>3. IInv /\ Locked /\ [Next]_vars => Locked'
  BY NextLocked
<1> QED BY <1>1, <1>2, <1>3, InitLocked, InductiveInvariant, PTL DEF Spec

\* Where a start has come to, there is one row to read, or one file to run, or
\* nothing left to do.
OneNext ==
  /\ \E v \in Version : Newest = {v}
  /\ \A p \in Process : Done(p) \/ \E v \in Files[p] : NextFile(p) = {v}

(* The query of the last version has one answer, and the loop one next file, *)
(* until it has come to its end: nothing but a failing statement stops a     *)
(* start (migrations.go 46-74).                                              *)
THEOREM NextDetermined == Spec => []OneNext
<1>1. ASSUME TypeOK, IsFiniteSet(applied) PROVE \E v \in Version : Newest = {v}
  <2>1. CASE applied = {}
    BY <2>1 DEF Newest, Version
  <2>2. CASE applied # {}
    <3>1. applied \subseteq Triple /\ applied \subseteq Version
      BY <1>1, KnownVersions DEF TypeOK, Version
    <3>2. PICK v \in applied : \A u \in applied : ~Less(v, u)
      BY <1>1, <2>2, <3>1, HighestVersion
    <3>3. v \in Highest
      BY <3>2 DEF Highest
    <3>4. \A w \in Highest : w = v
      BY <3>1, <3>3, VersionOrder DEF Highest
    <3>5. Newest = {v}
      BY <2>2, <3>3, <3>4 DEF Newest
    <3> QED BY <3>1, <3>5
  <2> QED BY <2>1, <2>2
<1>2. ASSUME NEW p \in Process, ~Done(p) PROVE \E v \in Files[p] : NextFile(p) = {v}
  <2> DEFINE S == {v \in Files[p] : Less(pos[p], v)}
  <2>1. S \subseteq Triple /\ S # {}
    BY <1>2, KnownVersions DEF Done
  <2>2. PICK v \in S : \A w \in S : ~Less(w, v)
    <3> HIDE DEF S
    <3> QED BY <2>1, LowestVersion
  <2>3. v \in NextFile(p)
    BY <2>2 DEF NextFile
  <2>4. NextFile(p) = {v}
    BY <2>3, OneNextFile
  <2> QED BY <2>2, <2>4
<1>3. TypeOK /\ IsFiniteSet(applied) => OneNext
  BY <1>1, <1>2 DEF OneNext
<1> QED BY <1>3, TypeCorrect, AppliedFinite, PTL
=============================================================================
