---------------------------- MODULE AdminSession ----------------------------
(***************************************************************************)
(* SSH sessions: sessionHandler of gateway/ssh/session.go, the admin       *)
(* session of admin.go and the shell that it runs, EvalInteractive of      *)
(* internal/appshell/shell.go, on connections that end at any time.        *)
(***************************************************************************)
EXTENDS Pattern, FiniteSets

CONSTANTS
  Session, Conn,
  Command,        \* the commands that clients ask for, as words
  AdminCommand,   \* vandrare gateway ssh admin
  WhoamiCommand,  \* vandrare whoami
  MaxLines,       \* bound on the lines of each session
  None            \* nothing yet

ASSUME CommandAssumption ==
  /\ Command \cup {AdminCommand, WhoamiCommand} \subseteq Seq(STRING)
  /\ AdminCommand # WhoamiCommand
ASSUME MaxLinesAssumption == MaxLines \in [Session -> Nat]
ASSUME NoneAssumption == None \notin Conn \cup {0, 1}

VARIABLES
  conn,      \* where each connection is
  accepted,  \* the keys that PublicKeyHandler has accepted on it
  allow_admin,  \* the connections whose permissions have this extension
  pc, kind,  \* where a session is, and what it is for
  on,        \* its connection
  read,      \* how many lines it has read
  acc,       \* the lines accumulated so far, each a number and a form
  parseErr,  \* what ValidScript last said
  script,    \* the numbers of the lines being run
  ran,       \* history: of those that have run
  err,       \* how EvalInteractive ended
  told       \* the exit code the client was told

lineVars == <<read, acc, parseErr, script, ran>>
connVars == <<conn, accepted, allow_admin>>
sessionVars == <<connVars, pc, kind, on, lineVars, err, told>>

\* A line is a statement, or opens or closes a block: without one to close, it
\* stands for all that never makes sense.
Form == {"whole", "opens", "closes"}

SessionInit ==
  /\ conn = [c \in Conn |-> "none"]
  /\ accepted = [c \in Conn |-> {}] /\ allow_admin = {}
  /\ pc = [s \in Session |-> "none"] /\ kind = [s \in Session |-> "none"]
  /\ on = [s \in Session |-> None]
  /\ read = [s \in Session |-> 0]
  /\ acc = [s \in Session |-> <<>>]
  /\ parseErr = [s \in Session |-> FALSE]
  /\ script = [s \in Session |-> <<>>] /\ ran = [s \in Session |-> <<>>]
  /\ err = [s \in Session |-> "nil"]
  /\ told = [s \in Session |-> None]

Goto(s, l) == pc' = [pc EXCEPT ![s] = l]

-----------------------------------------------------------------------------
\* A client has the server's address and begins its handshake.
Connect(c) ==
  /\ conn[c] = "none"
  /\ conn' = [conn EXCEPT ![c] = "handshake"]
  /\ UNCHANGED <<accepted, allow_admin, pc, kind, on, lineVars, err, told>>

\* The keys that PublicKeyHandler accepts: the admin's, and those that AuthN
\* knows.
AcceptedKey == {"admin", "known"}

\* PublicKeyHandler, called for each key that the client offers, before it has
\* proved that it has it.  The permissions are the connection's, not the key's.
PublicKeyHandler(c, key) ==
  /\ conn[c] = "handshake"
  /\ accepted' = [accepted EXCEPT ![c] = @ \cup {key}]
  /\ allow_admin' = IF key = "admin" THEN allow_admin \cup {c} ELSE allow_admin
  /\ UNCHANGED <<conn, pc, kind, on, lineVars, err, told>>

\* external: the ssh library has verified a signature by an accepted key.
Authenticate(c) ==
  /\ conn[c] = "handshake" /\ accepted[c] # {}
  /\ conn' = [conn EXCEPT ![c] = "open"]
  /\ UNCHANGED <<accepted, allow_admin, pc, kind, on, lineVars, err, told>>

CloseConn(c) == conn' = [conn EXCEPT ![c] = "closed"]

Disconnect(c) ==
  /\ conn[c] \in {"handshake", "open"}
  /\ CloseConn(c)
  /\ UNCHANGED <<accepted, allow_admin, pc, kind, on, lineVars, err, told>>

\* isAdminUser reads the permissions, isAdminSession the command too.
isAdmin(c, command) == c \in allow_admin /\ Match(command, AdminCommand)

\* sessionHandler: only an admin session goes on to read.
Open(s, c, command) ==
  /\ pc[s] = "none" /\ conn[c] = "open"
  /\ on' = [on EXCEPT ![s] = c]
  /\ \/ isAdmin(c, command) /\ kind' = [kind EXCEPT ![s] = "admin"] /\ Goto(s, "scan")
     \/ /\ ~isAdmin(c, command)
        /\ kind' = [kind EXCEPT ![s] =
             IF Match(command, WhoamiCommand) THEN "whoami" ELSE "other"]
        /\ Goto(s, "exit")
  /\ UNCHANGED <<connVars, lineVars, err, told>>

-----------------------------------------------------------------------------
(* EvalInteractive                                                           *)

Count(lines, n, form) == Cardinality({i \in 1..n : lines[i].form = form})

\* external: the parser of tengo, by the blocks that are open.
ValidScript(lines) ==
  LET n == Len(lines) IN
  /\ Count(lines, n, "opens") = Count(lines, n, "closes")
  /\ \A m \in 1..n : Count(lines, m, "closes") <= Count(lines, m, "opens")

\* Fault: nobody resets the builder.
ScanOn(s, form) ==
  LET lines == Append(acc[s], [no |-> read[s] + 1, form |-> form]) IN
  /\ pc[s] = "scan" /\ read[s] < MaxLines[s]
  /\ read' = [read EXCEPT ![s] = read[s] + 1]
  /\ parseErr' = [parseErr EXCEPT ![s] = ~ValidScript(lines)]
  /\ acc' = [acc EXCEPT ![s] = lines]
  /\ IF ValidScript(lines)
     THEN /\ script' = [script EXCEPT ![s] = [i \in DOMAIN lines |-> lines[i].no]]
          /\ Goto(s, "run")
     ELSE UNCHANGED <<pc, script>>
  /\ UNCHANGED <<connVars, kind, on, ran, err, told>>

\* sc.Scan, up to the call of RunContext: what is valid is run, and what is not
\* waits for the lines to come.
Scan(s, form) ==
  LET lines == Append(acc[s], [no |-> read[s] + 1, form |-> form]) IN
  /\ pc[s] = "scan" /\ read[s] < MaxLines[s]
  /\ read' = [read EXCEPT ![s] = read[s] + 1]
  /\ parseErr' = [parseErr EXCEPT ![s] = ~ValidScript(lines)]
  /\ \/ /\ ValidScript(lines)
        /\ script' = [script EXCEPT ![s] = [i \in DOMAIN lines |-> lines[i].no]]
        /\ acc' = [acc EXCEPT ![s] = <<>>]
        /\ Goto(s, "run")
     \/ /\ ~ValidScript(lines)
        /\ acc' = [acc EXCEPT ![s] = lines]
        /\ UNCHANGED <<pc, script>>
  /\ UNCHANGED <<connVars, kind, on, ran, err, told>>

\* RunContext: the script runs to its end, or to an error or the end of the
\* session's context; then so does the session.
Run(s) ==
  /\ pc[s] = "run"
  /\ \/ ran' = [ran EXCEPT ![s] = @ \o script[s]] /\ Goto(s, "scan") /\ UNCHANGED err
     \/ /\ \E n \in 0..Len(script[s]) : ran' = [ran EXCEPT ![s] = @ \o SubSeq(script[s], 1, n)]
        /\ err' = [err EXCEPT ![s] = "run"]
        /\ Goto(s, "exit")
  /\ script' = [script EXCEPT ![s] = <<>>]
  /\ UNCHANGED <<connVars, kind, on, read, acc, parseErr, told>>

\* Fault: the loop has a parseErr of its own.
EndUnseen(s) ==
  /\ pc[s] = "scan"
  /\ Goto(s, "exit")
  /\ UNCHANGED <<connVars, kind, on, lineVars, err, told>>

\* No more lines: the client or the connection has ended, or the next line is
\* too long for the scanner, whose error is not asked for.
EndOfInput(s) ==
  /\ pc[s] = "scan"
  /\ err' = IF parseErr[s] THEN [err EXCEPT ![s] = "parse"] ELSE err
  /\ Goto(s, "exit")
  /\ UNCHANGED <<connVars, kind, on, lineVars, told>>

-----------------------------------------------------------------------------
\* Fault: an exit status that is none.
NegativeCode(s) == IF err[s] = "nil" THEN 0 ELSE -1

exitCode(s) == IF err[s] = "nil" THEN 0 ELSE 1

\* The exit code is sent if there is somebody to send it to, and the end of an
\* admin session is the end of its connection.
Exit(s) ==
  /\ pc[s] = "exit"
  /\ Goto(s, "done")
  /\ told' = IF conn[on[s]] = "closed" THEN told ELSE [told EXCEPT ![s] = exitCode(s)]
  /\ IF kind[s] = "admin" THEN CloseConn(on[s]) ELSE UNCHANGED conn
  /\ UNCHANGED <<accepted, allow_admin, kind, on, lineVars, err>>

SessionStep ==
  \/ \E c \in Conn :
       Authenticate(c) \/ Disconnect(c) \/ \E key \in AcceptedKey : PublicKeyHandler(c, key)
  \/ \E s \in Session :
       \/ \E c \in Conn, command \in Command : Open(s, c, command)
       \/ \E form \in Form : Scan(s, form)
       \/ Run(s) \/ EndOfInput(s) \/ Exit(s)

-----------------------------------------------------------------------------
(* Properties                                                                *)

SessionTypeOK ==
  /\ conn \in [Conn -> {"none", "handshake", "open", "closed"}]
  /\ accepted \in [Conn -> SUBSET AcceptedKey] /\ allow_admin \subseteq Conn
  /\ pc \in [Session -> {"none", "scan", "run", "exit", "done"}]
  /\ kind \in [Session -> {"none", "admin", "whoami", "other"}]
  /\ on \in [Session -> Conn \cup {None}]
  /\ read \in [Session -> Nat] /\ \A s \in Session : read[s] <= MaxLines[s]
  /\ acc \in [Session -> Seq([no : Nat, form : Form])]
  /\ parseErr \in [Session -> BOOLEAN]
  /\ script \in [Session -> Seq(Nat)] /\ ran \in [Session -> Seq(Nat)]
  /\ err \in [Session -> {"nil", "parse", "run"}]
  /\ told \in [Session -> {None, 0, 1}]

\* A session runs the lines it has read once each and in their order, however
\* they make up scripts and wherever one of these fails (shell.go 44-61).
RunsOnceInOrder ==
  \A s \in Session : Len(ran[s]) <= read[s] /\ \A i \in DOMAIN ran[s] : ran[s][i] = i

\* A client that is told an exit code knows by it whether all lines that the
\* session had read were run, without an error (shell.go 55-64, admin.go 28-49).
ExitCodeTells ==
  \A s \in Session : kind[s] = "admin" /\ told[s] # None =>
     (told[s] = 0 <=> Len(ran[s]) = read[s] /\ err[s] # "run")

\* The commands of the two patterns, and no others, start what they stand for;
\* the admin's does on a connection on which the admin key was accepted, be it
\* only offered and the connection authenticated by another (match.go 30-73,
\* session.go 19-28, gateway.go 160-181, admin.go 17-24).
CommandDecides ==
  [][\A s \in Session, c \in Conn, command \in Command :
       Open(s, c, command) =>
         /\ kind'[s] = "admin" <=> command = AdminCommand /\ "admin" \in accepted[c]
         /\ kind'[s] = "whoami" <=> command = WhoamiCommand]_sessionVars
=============================================================================
