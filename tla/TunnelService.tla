--------------------------- MODULE TunnelService ---------------------------
(***************************************************************************)
(* What the gateway promises to the two kinds of peers it serves, whatever *)
(* the registry behind it looks like.  A listener announces one endpoint   *)
(* and may go away at any time.  A dialled session waits, and the gateway  *)
(* either gives it up or hands it, once, to a listener that is listening   *)
(* on the very endpoint the session dialled.  ReverseTunnel implements     *)
(* this specification.                                                     *)
(***************************************************************************)
CONSTANTS
  Listener,   \* the listeners that may ever exist
  Session,    \* the dialled sessions that may ever exist
  Endpoint,   \* what is listened on and dialled
  None        \* "no endpoint", "no listener"

VARIABLES
  listening,  \* listening[l]: the endpoint l listens on, None when it does not
  session     \* session[s]: how far s got, what it dialled, whom it was given to

vars == <<listening, session>>

SessionState == {"unused", "waiting", "routed", "open", "over"}

TypeOK ==
  /\ listening \in [Listener -> Endpoint \cup {None}]
  /\ session \in [Session -> [state : SessionState,
                              dialled : Endpoint \cup {None},
                              to : Listener \cup {None}]]

Init ==
  /\ listening = [l \in Listener |-> None]
  /\ session = [s \in Session |->
                  [state |-> "unused", dialled |-> None, to |-> None]]

Listen(l, e) ==
  /\ listening[l] = None
  /\ listening' = [listening EXCEPT ![l] = e]
  /\ UNCHANGED session

Leave(l) ==
  /\ listening[l] # None
  /\ listening' = [listening EXCEPT ![l] = None]
  /\ UNCHANGED session

Dial(s, e) ==
  /\ session[s].state = "unused"
  /\ session' = [session EXCEPT ![s] =
                   [state |-> "waiting", dialled |-> e, to |-> None]]
  /\ UNCHANGED listening

\* The only way to a listener: it is listening now, on the dialled endpoint.
Route(s, l) ==
  /\ session[s].state = "waiting"
  /\ listening[l] = session[s].dialled
  /\ session' = [session EXCEPT ![s] =
                   [state |-> "routed", dialled |-> @.dialled, to |-> l]]
  /\ UNCHANGED listening

Open(s) ==
  /\ session[s].state = "routed"
  /\ session' = [session EXCEPT ![s].state = "open"]
  /\ UNCHANGED listening

\* Refused, given up, or hung up: a session that is over stays over.
End(s) ==
  /\ session[s].state \in {"waiting", "routed", "open"}
  /\ session' = [session EXCEPT ![s].state = "over"]
  /\ UNCHANGED listening

Next ==
  \/ UNCHANGED vars  \* most of what the gateway does is invisible here
  \/ \E l \in Listener : Leave(l) \/ \E e \in Endpoint : Listen(l, e)
  \/ \E s \in Session :
       \/ Open(s) \/ End(s)
       \/ \E e \in Endpoint : Dial(s, e)
       \/ \E l \in Listener : Route(s, l)

Spec == Init /\ [][Next]_vars
=============================================================================
