------------------------------- MODULE Gateway -------------------------------
(***************************************************************************)
(* The life of a gateway: Run, runSSHD and genHostKey of gateway.go,       *)
(* runHTTPD of http_api.go, with the sessions on the connections that the  *)
(* SSH server accepts.  external: maestro's contexts, of which Shutdown    *)
(* cancels all, and the two servers, by how this code uses them.           *)
(***************************************************************************)
EXTENDS AdminSession

VARIABLES
  ssh, http,  \* where runSSHD and runHTTPD are, "off" without a binding
  closer,     \* their goroutines that wait for the context and close them
  cancelled,  \* the context is done
  run         \* Gateway.Run, and with it the process

serverVars == <<ssh, http, closer, cancelled, run>>
vars == <<sessionVars, serverVars>>

Init ==
  /\ SessionInit
  /\ ssh \in {"off", "start"} /\ http \in {"off", "start"}
  /\ closer = [ssh |-> "none", http |-> "none"]
  /\ cancelled = FALSE
  /\ run = "running"

-----------------------------------------------------------------------------
\* The caller's context ends: the program is told to stop.
Cancel ==
  /\ ~cancelled /\ cancelled' = TRUE
  /\ UNCHANGED <<sessionVars, ssh, http, closer, run>>

\* genHostKey, which fails or makes the certificate, and then the goroutine.
genHostKey ==
  /\ ssh = "start"
  /\ \/ /\ ssh' = "listen" /\ closer' = [closer EXCEPT !.ssh = "waiting"]
        /\ UNCHANGED cancelled
     \/ ssh' = "returned" /\ cancelled' = TRUE /\ UNCHANGED closer
  /\ UNCHANGED <<sessionVars, http, run>>

\* ListenAndServe of the SSH server: it has the address, or returns.
ListenSSH ==
  /\ ssh = "listen"
  /\ \/ ssh' = "serve" /\ UNCHANGED cancelled
     \/ ssh' = "returned" /\ cancelled' = TRUE
  /\ UNCHANGED <<sessionVars, http, closer, run>>

\* Its listener was closed, or fails by itself.
ReturnSSH ==
  /\ ssh \in {"serve", "closed"}
  /\ ssh' = "returned" /\ cancelled' = TRUE
  /\ UNCHANGED <<sessionVars, http, closer, run>>

\* A server that is closed before it listens knows nothing of it.
Closed == IF ssh = "listen" THEN "early" ELSE "done"

\* The server knows of a connection once its handshake is done.
CloseConns == conn' = [c \in Conn |-> IF conn[c] = "open" THEN "closed" ELSE conn[c]]

\* Fault: its listener is forgotten.
CloseConnsOnly ==
  /\ closer.ssh = "waiting" /\ cancelled
  /\ closer' = [closer EXCEPT !.ssh = Closed]
  /\ CloseConns
  /\ UNCHANGED <<accepted, allow_admin, pc, kind, on, lineVars, err, told>>
  /\ UNCHANGED <<ssh, http, cancelled, run>>

\* srv.Close: its connections and its listener, if it has come to have one.
CloseSSH ==
  /\ closer.ssh = "waiting" /\ cancelled
  /\ closer' = [closer EXCEPT !.ssh = Closed]
  /\ ssh' = IF ssh = "serve" THEN "closed" ELSE ssh
  /\ CloseConns
  /\ UNCHANGED <<accepted, allow_admin, pc, kind, on, lineVars, err, told, http, cancelled, run>>

\* runHTTPD makes its goroutine and calls ListenAndServe, which returns at once
\* after a Shutdown.
StartHTTP ==
  /\ http = "start"
  /\ http' = "listen" /\ closer' = [closer EXCEPT !.http = "waiting"]
  /\ UNCHANGED <<sessionVars, ssh, cancelled, run>>

ListenHTTP ==
  /\ http = "listen"
  /\ \/ closer.http = "waiting" /\ http' = "serve" /\ UNCHANGED cancelled
     \/ http' = "returned" /\ cancelled' = TRUE
  /\ UNCHANGED <<sessionVars, ssh, closer, run>>

\* Its listener was closed by Shutdown, or fails by itself.
ReturnHTTP ==
  /\ http \in {"serve", "closed"}
  /\ http' = "returned" /\ cancelled' = TRUE
  /\ UNCHANGED <<sessionVars, ssh, closer, run>>

ShutdownHTTP ==
  /\ closer.http = "waiting" /\ cancelled
  /\ closer' = [closer EXCEPT !.http = "done"]
  /\ http' = IF http = "serve" THEN "closed" ELSE http
  /\ UNCHANGED <<sessionVars, ssh, cancelled, run>>

\* The children are done, and the process ends with what its sessions do.
WaitChildren ==
  /\ run = "running" /\ ssh \in {"off", "returned"} /\ http \in {"off", "returned"}
  /\ run' = "returned"
  /\ UNCHANGED <<sessionVars, ssh, http, closer, cancelled>>

\* The handshake may go on after the listener is closed, and is not closed then.
Accept == ssh = "serve" /\ \E c \in Conn : Connect(c)

Next ==
  \/ Cancel
  \/ genHostKey \/ ListenSSH \/ ReturnSSH \/ CloseSSH
  \/ StartHTTP \/ ListenHTTP \/ ReturnHTTP \/ ShutdownHTTP
  \/ WaitChildren
  \/ run = "running" /\ (Accept \/ SessionStep) /\ UNCHANGED serverVars

\* What runs by itself.  A listener need not fail: a return is due only once
\* it is closed.
Fairness ==
  /\ WF_vars(genHostKey) /\ WF_vars(ListenSSH) /\ WF_vars(CloseSSH)
  /\ WF_vars(ssh = "closed" /\ ReturnSSH)
  /\ WF_vars(StartHTTP) /\ WF_vars(ListenHTTP) /\ WF_vars(ShutdownHTTP)
  /\ WF_vars(http = "closed" /\ ReturnHTTP)
  /\ WF_vars(WaitChildren)

Spec == Init /\ [][Next]_vars /\ Fairness

-----------------------------------------------------------------------------
(* Properties                                                                *)

\* Every variable keeps its type.
TypeOK ==
  /\ SessionTypeOK
  /\ ssh \in {"off", "start", "listen", "serve", "closed", "returned"}
  /\ http \in {"off", "start", "listen", "serve", "closed", "returned"}
  /\ closer \in [ssh : {"none", "waiting", "done", "early"}, http : {"none", "waiting", "done"}]
  /\ cancelled \in BOOLEAN
  /\ run \in {"running", "returned"}

\* Once the context is done, or one of the servers has returned, Run returns
\* too, unless the SSH server was closed before it listened (gateway.go 117-147,
\* http_api.go 35-40).
ShutdownCompletes ==
  (cancelled \/ ssh = "returned" \/ http = "returned")
    ~> (run = "returned" \/ (closer.ssh = "early" /\ ssh = "serve"))
=============================================================================
