--------------------------- MODULE ReverseTunnel ---------------------------
(***************************************************************************)
(* The gateway's reverse tunnels: gateway/ssh/reverse_tcp.go (a connection *)
(* registers as a listener of an endpoint), gateway/ssh/forward_tcp.go (a  *)
(* connection dials an endpoint) and internal/loadbalancer/lb.go (the pool *)
(* that joins the two).  Every action is one critical section or one       *)
(* channel operation of one goroutine; steps in between interleave freely. *)
(*                                                                         *)
(* A registration w stands for one accepted tcpip-forward request, for the *)
(* Go channel lb.New makes for it, for its cleanup closure and, when the   *)
(* request finds no pool for its endpoint, for the LB it creates: pool[w]  *)
(* is that LB's set of workers (rndset, see RandomSet).                    *)
(***************************************************************************)
EXTENDS FiniteSets

CONSTANTS
  Conn,          \* ssh connections, authenticated; each may listen and dial
  Endpoint,      \* identities "host:port"
  Registration,  \* bounds how many tcpip-forward requests are served
  Call,          \* bounds how many direct-tcpip channels are opened
  None           \* Go's nil

ASSUME NoneAssumption ==
  None \notin Conn \cup Endpoint \cup Registration

VARIABLES
  closed,      \* connections whose ServerConn is closed and context cancelled
  mutex,       \* Gateway.l, as far as it is held across steps: by a cleanup
  accepting,   \* Gateway.accepting : endpoint -> LB
  cleanup,     \* Gateway.cleanup : connection -> cleanup closure
  pool,        \* LB.workers of each LB
  reg,         \* the goroutines and locals of each registration
  cancelling,  \* the cleanup a connection's cancel request is waiting for
  call,        \* the goroutine and locals of each direct-tcpip channel
  tunnel       \* the goroutines that copy an open tunnel, and its closed ends

gateway == <<mutex, accepting, cleanup, pool>>
vars == <<closed, mutex, accepting, cleanup, pool, reg, cancelling, call, tunnel>>

RegState == {"acquired", "joined", "serving", "left"}
OnceState == {"unused", "removed", "forgotten", "done"}
CallState == {"dialing", "found", "offering", "handed", "open", "over"}

NoReg == [pc |-> "idle", once |-> "unused", conn |-> None, ep |-> None, lb |-> None]

\* A served request knows its connection, its endpoint and its LB.
Served == [pc : RegState, once : OnceState,
           conn : Conn, ep : Endpoint, lb : Registration]

NoCall == [pc |-> "idle", conn |-> None, ep |-> None, lb |-> None, to |-> None]

Dialled == [pc : CallState, conn : Conn, ep : Endpoint,
            lb : Registration \cup {None}, to : Registration \cup {None}]

\* copyAndClose runs once for each end it may read from.
Side == {"caller", "listener"}

NoTunnel == [copying |-> {}, closing |-> {}, shut |-> {}]

\* By the end they read: the goroutines in io.Copy, and those between their two
\* closes; and the ends the gateway has closed.
Tunnel == [copying : SUBSET Side, closing : SUBSET Side, shut : SUBSET Side]

RegistryTypeOK ==
  /\ mutex \in Registration \cup {None}
  /\ accepting \in [Endpoint -> Registration \cup {None}]
  /\ cleanup \in [Conn -> Registration \cup {None}]
  /\ pool \in [Registration -> SUBSET Registration]
  /\ reg \in [Registration -> {NoReg} \cup Served]
  /\ cancelling \in [Conn -> Registration \cup {None}]

TypeOK ==
  /\ RegistryTypeOK
  /\ closed \in SUBSET Conn
  /\ call \in [Call -> {NoCall} \cup Dialled]
  /\ tunnel \in [Call -> Tunnel]

Init ==
  /\ closed = {}
  /\ mutex = None
  /\ accepting = [e \in Endpoint |-> None]
  /\ cleanup = [c \in Conn |-> None]
  /\ pool = [l \in Registration |-> {}]
  /\ reg = [w \in Registration |-> NoReg]
  /\ cancelling = [c \in Conn |-> None]
  /\ call = [k \in Call |-> NoCall]
  /\ tunnel = [k \in Call |-> NoTunnel]

-----------------------------------------------------------------------------
(* Connections.  ServerConn.Close() closes the net.Conn the ssh server      *)
(* wraps, which cancels the connection's context in the same call; the      *)
(* peer going away ends in the same Close.                                  *)

Disconnect(c) ==
  /\ c \notin closed
  /\ closed' = closed \cup {c}
  /\ UNCHANGED <<gateway, reg, cancelling, call, tunnel>>

(* The ssh server serves a connection's global requests one at a time, and  *)
(* those already read from the wire even after the connection is closed:    *)
(* a request may be handled for a closed connection.                        *)
RequestLoopFree(c) ==
  /\ cancelling[c] = None
  /\ \A w \in Registration :
       reg[w].conn = c => reg[w].pc \notin {"acquired", "joined"}

-----------------------------------------------------------------------------
(* tcpip-forward: acquireLB, lb.New, registerCleanup, then the goroutine    *)
(* that serves the new worker's channel.                                    *)

(* Faults, which the properties must notice: the LB is not made; it is made  *)
(* every time; the port is not part of the identity.                         *)
NoLBMade(w, e) == accepting[e]
AlwaysNewLB(w, e) == w
LBOfAnyEndpoint(w, e) ==
  IF \E x \in Endpoint : accepting[x] # None
  THEN accepting[CHOOSE x \in Endpoint : accepting[x] # None]
  ELSE w

LBFor(w, e) == IF accepting[e] = None THEN w ELSE accepting[e]

AcquireLB(w, c, e) ==
  /\ reg[w].pc = "idle"
  /\ RequestLoopFree(c)
  /\ mutex = None
  /\ accepting' = [accepting EXCEPT ![e] = LBFor(w, e)]
  /\ reg' = [reg EXCEPT ![w] = [pc |-> "acquired", once |-> "unused",
                                conn |-> c, ep |-> e, lb |-> LBFor(w, e)]]
  /\ UNCHANGED <<closed, mutex, cleanup, pool, cancelling, call, tunnel>>

JoinPool(w) ==
  /\ reg[w].pc = "acquired"
  /\ pool' = [pool EXCEPT ![reg[w].lb] = @ \cup {w}]
  /\ reg' = [reg EXCEPT ![w].pc = "joined"]
  /\ UNCHANGED <<closed, mutex, accepting, cleanup, cancelling, call, tunnel>>

RegisterCleanup(w) ==
  /\ reg[w].pc = "joined"
  /\ mutex = None
  /\ cleanup' = [cleanup EXCEPT ![reg[w].conn] = w]
  /\ reg' = [reg EXCEPT ![w].pc = "serving"]
  /\ UNCHANGED <<closed, mutex, accepting, pool, cancelling, call, tunnel>>

\* The serving goroutine's select takes its ctx.Done() branch.
LeaveLoop(w) ==
  /\ reg[w].pc = "serving"
  /\ reg[w].conn \in closed
  /\ reg' = [reg EXCEPT ![w].pc = "left"]
  /\ UNCHANGED <<closed, gateway, cancelling, call, tunnel>>

-----------------------------------------------------------------------------
(* The cleanup closure, run once by whoever calls it first (sync.OnceFunc): *)
(* the serving goroutine when it leaves its loop, or a cancel request.      *)

\* Fault: the serving goroutine does not defer the cleanup.
OnlyOnCancel(w) == \E c \in Conn : cancelling[c] = w

CleanupRequested(w) ==
  \/ reg[w].pc = "left"
  \/ \E c \in Conn : cancelling[c] = w

\* Fault: Remove does not find the worker's channel.
NotFound(w) == pool

WithoutWorker(w) == [pool EXCEPT ![reg[w].lb] = @ \ {w}]

CleanupRemove(w) ==
  /\ CleanupRequested(w)
  /\ reg[w].once = "unused"
  /\ mutex = None
  /\ mutex' = w
  /\ pool' = WithoutWorker(w)
  /\ reg' = [reg EXCEPT ![w].once = "removed"]
  /\ UNCHANGED <<closed, accepting, cleanup, cancelling, call, tunnel>>

\* Fault: Empty is asked as if before Remove.
EmptyTooEarly(w) ==
  IF pool[reg[w].lb] = {w} THEN None ELSE accepting[reg[w].ep]

\* delete(g.accepting, identity): by name, whichever LB is there by now.
EntryWithout(w) ==
  IF pool[reg[w].lb] = {} THEN None ELSE accepting[reg[w].ep]

\* Fault: a return before g.l.Unlock when other workers remain.
ForgetKeepingLock(w) ==
  /\ reg[w].once = "removed"
  /\ accepting' = [accepting EXCEPT ![reg[w].ep] = EntryWithout(w)]
  /\ mutex' = IF pool[reg[w].lb] = {} THEN None ELSE w
  /\ reg' = [reg EXCEPT ![w].once = "forgotten"]
  /\ UNCHANGED <<closed, cleanup, pool, cancelling, call, tunnel>>

CleanupForget(w) ==
  /\ reg[w].once = "removed"
  /\ accepting' = [accepting EXCEPT ![reg[w].ep] = EntryWithout(w)]
  /\ mutex' = None
  /\ reg' = [reg EXCEPT ![w].once = "forgotten"]
  /\ UNCHANGED <<closed, cleanup, pool, cancelling, call, tunnel>>

CleanupClose(w) ==
  /\ reg[w].once = "forgotten"
  /\ closed' = closed \cup {reg[w].conn}
  /\ reg' = [reg EXCEPT ![w].once = "done"]
  /\ UNCHANGED <<gateway, cancelling, call, tunnel>>

-----------------------------------------------------------------------------
(* cancel-tcpip-forward: the connection's latest cleanup, whatever endpoint *)
(* the request names; the handler returns when that cleanup has run.        *)

Cancel(c) ==
  /\ RequestLoopFree(c)
  /\ mutex = None
  /\ cleanup[c] # None
  /\ cancelling' = [cancelling EXCEPT ![c] = cleanup[c]]
  /\ UNCHANGED <<closed, gateway, reg, call, tunnel>>

CancelReturn(c) ==
  /\ cancelling[c] # None
  /\ reg[cancelling[c]].once = "done"
  /\ cancelling' = [cancelling EXCEPT ![c] = None]
  /\ UNCHANGED <<closed, gateway, reg, call, tunnel>>

-----------------------------------------------------------------------------
(* direct-tcpip: getLB, LB.Offer (pick under the pool's lock, then a        *)
(* blocking send), and the reverse channel on the listener's connection.    *)

Dial(k, c, e) ==
  /\ call[k].pc = "idle"
  /\ c \notin closed
  /\ call' = [call EXCEPT ![k] = [pc |-> "dialing", conn |-> c, ep |-> e,
                                  lb |-> None, to |-> None]]
  /\ UNCHANGED <<closed, gateway, reg, cancelling, tunnel>>

\* Every failing path of handleDirectTCPIP closes the caller's connection.
Refuse(k) ==
  /\ call' = [call EXCEPT ![k] = [@ EXCEPT !.pc = "over", !.to = None]]
  /\ closed' = closed \cup {call[k].conn}
  /\ UNCHANGED <<gateway, reg, cancelling, tunnel>>

\* The channel's payload does not parse, or accepting the channel fails.
RejectChannel(k) ==
  /\ call[k].pc = "dialing"
  /\ Refuse(k)

GetLB(k) ==
  /\ call[k].pc = "dialing"
  /\ mutex = None
  /\ \/ /\ accepting[call[k].ep] = None
        /\ Refuse(k)
     \/ /\ accepting[call[k].ep] # None
        /\ call' = [call EXCEPT
                      ![k] = [@ EXCEPT !.pc = "found", !.lb = accepting[call[k].ep]]]
        /\ UNCHANGED <<closed, gateway, reg, cancelling, tunnel>>

PickWorker(k) ==
  /\ call[k].pc = "found"
  /\ \/ /\ pool[call[k].lb] = {}
        /\ Refuse(k)
     \/ /\ \E w \in pool[call[k].lb] :
             call' = [call EXCEPT ![k] = [@ EXCEPT !.pc = "offering", !.to = w]]
        /\ UNCHANGED <<closed, gateway, reg, cancelling, tunnel>>

\* Offer's select: the caller's context is done ...
AbandonOffer(k) ==
  /\ call[k].pc = "offering"
  /\ call[k].conn \in closed
  /\ Refuse(k)

\* Fault: a channel with room for one element takes it at once.
Buffered(w) == TRUE

\* The channel is unbuffered: a send needs the serving loop's receive.
Receiving(w) == reg[w].pc = "serving"

\* ... or the picked worker's goroutine receives from its channel.
HandOver(k) ==
  /\ call[k].pc = "offering"
  /\ Receiving(call[k].to)
  /\ call' = [call EXCEPT ![k].pc = "handed"]
  /\ UNCHANGED <<closed, gateway, reg, cancelling, tunnel>>

\* handleReverseConnection: the listener's peer accepts the channel, and one
\* goroutine starts to copy from each end ...
OpenReverse(k) ==
  /\ call[k].pc = "handed"
  /\ reg[call[k].to].conn \notin closed
  /\ call' = [call EXCEPT ![k].pc = "open"]
  /\ tunnel' = [tunnel EXCEPT ![k].copying = Side]
  /\ UNCHANGED <<closed, gateway, reg, cancelling>>

\* ... or refuses it; only the caller's channel is closed then.
PeerRefuses(k) ==
  /\ call[k].pc = "handed"
  /\ call' = [call EXCEPT ![k].pc = "over"]
  /\ UNCHANGED <<closed, gateway, reg, cancelling, tunnel>>

\* It must fail, and is fair then, when the listener's connection is gone.
ReverseFails(k) ==
  /\ PeerRefuses(k)
  /\ reg[call[k].to].conn \in closed

\* copyAndClose: io.Copy returns, for whatever the two peers did, and the
\* goroutine closes the end it read.
CopyEnds(k, s) ==
  /\ s \in tunnel[k].copying
  /\ tunnel' = [tunnel EXCEPT ![k] = [copying |-> @.copying \ {s},
                                     closing |-> @.closing \cup {s},
                                     shut |-> @.shut \cup {s}]]
  /\ UNCHANGED <<closed, gateway, reg, cancelling, call>>

SideConn(k, s) == IF s = "caller" THEN call[k].conn ELSE reg[call[k].to].conn

\* It must return, and is fair then, when the connection it reads from is
\* closed.  That its other end is closed does not wake it: it finds out when it
\* has something to write.
CopyBreaks(k, s) ==
  /\ CopyEnds(k, s)
  /\ SideConn(k, s) \in closed

\* Fault: a goroutine closes only the end it reads.
ReadEnd(s) == s

Other(s) == IF s = "caller" THEN "listener" ELSE "caller"

\* The second deferred close; the last goroutine to return ends the call.
CloseOther(k, s) ==
  /\ s \in tunnel[k].closing
  /\ tunnel' = [tunnel EXCEPT ![k] = [copying |-> @.copying,
                                     closing |-> @.closing \ {s},
                                     shut |-> @.shut \cup {Other(s)}]]
  /\ call' = IF tunnel[k].copying = {} /\ tunnel[k].closing = {s}
             THEN [call EXCEPT ![k].pc = "over"]
             ELSE call
  /\ UNCHANGED <<closed, gateway, reg, cancelling>>

-----------------------------------------------------------------------------
ConnStep(c) == Disconnect(c) \/ Cancel(c) \/ CancelReturn(c)

RegStep(w) ==
  \/ \E c \in Conn, e \in Endpoint : AcquireLB(w, c, e)
  \/ JoinPool(w) \/ RegisterCleanup(w) \/ LeaveLoop(w)
  \/ CleanupRemove(w) \/ CleanupForget(w) \/ CleanupClose(w)

CallStep(k) ==
  \/ \E c \in Conn, e \in Endpoint : Dial(k, c, e)
  \/ RejectChannel(k) \/ GetLB(k) \/ PickWorker(k)
  \/ AbandonOffer(k) \/ HandOver(k)
  \/ OpenReverse(k) \/ PeerRefuses(k)
  \/ \E s \in Side : CopyEnds(k, s) \/ CloseOther(k, s)

Next ==
  \/ \E c \in Conn : ConnStep(c)
  \/ \E w \in Registration : RegStep(w)
  \/ \E k \in Call : CallStep(k)

Spec == Init /\ [][Next]_vars

(* A goroutine that can take its next step eventually takes it, and a mutex  *)
(* is not denied forever to one that waits for it.  Nothing is assumed of    *)
(* the peers: they need not connect, dial, cancel, answer a channel request, *)
(* end a stream or disconnect.                                                  *)
Fairness ==
  /\ \A c \in Conn : WF_vars(CancelReturn(c))
  /\ \A w \in Registration :
       /\ WF_vars(JoinPool(w)) /\ WF_vars(RegisterCleanup(w))
       /\ WF_vars(LeaveLoop(w)) /\ WF_vars(CleanupRemove(w))
       /\ WF_vars(CleanupForget(w)) /\ WF_vars(CleanupClose(w))
  /\ \A k \in Call :
       /\ WF_vars(GetLB(k)) /\ WF_vars(PickWorker(k))
       /\ WF_vars(AbandonOffer(k)) /\ WF_vars(HandOver(k))
       /\ WF_vars(ReverseFails(k))
       /\ \A s \in Side : WF_vars(CopyBreaks(k, s)) /\ WF_vars(CloseOther(k, s))

FairSpec == Spec /\ Fairness

-----------------------------------------------------------------------------
(* Safety                                                                    *)

InPool(w) == reg[w].pc \in {"joined", "serving", "left"} /\ reg[w].once = "unused"

(* An LB holds exactly the workers that joined it and whose cleanup has not  *)
(* removed them: lb.New and lb.Remove of all connections, interleaved with   *)
(* each other and with the locking of the registry, lose and leave none.     *)
PoolsHoldLiveWorkers ==
  \A l, w \in Registration : w \in pool[l] <=> InPool(w) /\ reg[w].lb = l

Known(w, e) == reg[w].pc # "idle" /\ reg[w].ep = e

(* What the registry's maps, the pools and the goroutines' locals say of     *)
(* each other: the LB under a name, and the LB a request holds, were made    *)
(* for that endpoint; the closure under a connection, and the one a cancel   *)
(* runs, belong to that connection and to a request that was accepted; g.l   *)
(* is held by the one cleanup that has removed its worker and not yet        *)
(* decided about the name.                                                   *)
RegistryConsistent ==
  /\ \A e \in Endpoint : accepting[e] # None => Known(accepting[e], e)
  /\ \A w \in Registration : reg[w].pc # "idle" => Known(reg[w].lb, reg[w].ep)
  /\ \A w \in Registration : mutex = w <=> reg[w].once = "removed"
  /\ \A w \in Registration :
       reg[w].once # "unused" => reg[w].pc \in {"serving", "left"}
  /\ \A c \in Conn, w \in Registration :
       w \in {cleanup[c], cancelling[c]} =>
         reg[w].pc \in {"serving", "left"} /\ reg[w].conn = c

(* A channel reaches only workers of the endpoint it asked for, although the *)
(* caller keeps its LB across getLB, Pick and the blocking send while        *)
(* cleanups delete and registrations replace the entry it came from.         *)
RoutedToOwnEndpoint ==
  \A k \in Call : call[k].to # None => reg[call[k].to].ep = call[k].ep

\* What makes it inductive: the LB a caller holds is its endpoint's too.
CallConsistent(r) ==
  /\ r.pc \in {"found", "offering"} => r.lb \in Registration /\ Known(r.lb, r.ep)
  /\ r.pc \in {"dialing", "found"} => r.to = None
  /\ r.pc \in {"offering", "handed", "open"} => r.to # None
  /\ r.to # None => Known(r.to, r.ep)

CallsConsistent == \A k \in Call : CallConsistent(call[k])

\* A goroutine that is neither copying nor closing has not started, or has
\* closed both ends.
TunnelConsistent(c, t) ==
  /\ c.pc = "open" <=> t.copying \cup t.closing # {}
  /\ c.pc \notin {"open", "over"} => t = NoTunnel
  /\ t.copying \cap t.closing = {}
  /\ t.closing \subseteq t.shut
  /\ t.closing = {} => t.shut \in {{}, Side}
  /\ t.shut # Side => t.copying \cup t.closing \in {{}, Side}

TunnelsConsistent == \A k \in Call : TunnelConsistent(call[k], tunnel[k])

(* A name in g.accepting whose LB is empty is about to change: a request is  *)
(* between acquireLB and lb.New, or the cleanup that emptied it still holds  *)
(* g.l.  No interleaving of the two leaves a dead name behind, which would   *)
(* turn every later caller away with errNoWorkers.                           *)
NoDeadName ==
  \A e \in Endpoint :
    accepting[e] # None /\ pool[accepting[e]] = {} =>
      \E w \in Registration :
        /\ reg[w].lb = accepting[e]
        /\ reg[w].pc = "acquired" \/ mutex = w

(* As long as nobody's cleanup of endpoint e has started, every registration *)
(* of e shares the LB the name leads to, so callers are spread over all.     *)
SharedUntilFirstDeparture ==
  \A e \in Endpoint :
    (\A w \in Registration : reg[w].ep = e => reg[w].once = "unused") =>
      \A w \in Registration : reg[w].ep = e => reg[w].lb = accepting[e]

\* No goroutine of the gateway can take a step: what Fairness names, with the
\* guards spelt out.  Only the peers can make something happen.
AtRest ==
  /\ \A c \in Conn : cancelling[c] # None => reg[cancelling[c]].once # "done"
  /\ \A w \in Registration :
       /\ reg[w].pc # "acquired"
       /\ reg[w].pc = "joined" => mutex # None
       /\ reg[w].pc = "serving" => reg[w].conn \notin closed
       /\ CleanupRequested(w) /\ reg[w].once = "unused" => mutex # None
       /\ reg[w].once \notin {"removed", "forgotten"}
  /\ \A k \in Call :
       /\ call[k].pc = "dialing" => mutex # None
       /\ call[k].pc # "found"
       /\ call[k].pc = "offering" => call[k].conn \notin closed /\ ~Receiving(call[k].to)
       /\ call[k].pc = "handed" => reg[call[k].to].conn \notin closed
       /\ \A s \in tunnel[k].copying : SideConn(k, s) \notin closed
       /\ tunnel[k].closing = {}

(* Nobody waits for a lock, a cleanup or a worker of which nothing more will  *)
(* come, but a caller whose worker has left its loop.  When the gateway comes *)
(* to rest g.l is free and every cancel request answered, a listener serves   *)
(* or, its connection gone, is cleaned up, no tunnel is closed at one end     *)
(* only, and without connections no name and no worker is left                *)
(* (reverse_tcp.go 16-116, lb.go 28-62).                                      *)
NobodyStranded ==
  AtRest =>
    /\ mutex = None
    /\ \A c \in Conn : cancelling[c] = None
    /\ \A w \in Registration :
         reg[w].pc # "idle" =>
           IF reg[w].conn \in closed
           THEN reg[w].pc = "left" /\ reg[w].once = "done"
           ELSE reg[w].pc = "serving" /\ reg[w].once = "unused"
    /\ \A k \in Call :
         /\ call[k].pc # "dialing"
         /\ call[k].pc = "offering" => reg[call[k].to].pc = "left"
         /\ tunnel[k].shut \in {{}, Side}
    /\ closed = Conn =>
         /\ accepting = [e \in Endpoint |-> None]
         /\ pool = [l \in Registration |-> {}]

(* reverse_tcp.go:20-21, "register a new listener for a given endpoint, wait *)
(* for new connections from the load balancer": a listener whose connection  *)
(* is up is in the LB that getLB finds under its endpoint.                   *)
RegisteredReachable ==
  \A w \in Registration :
    reg[w].pc = "serving" /\ reg[w].once = "unused" /\ reg[w].conn \notin closed
      => accepting[reg[w].ep] = reg[w].lb

-----------------------------------------------------------------------------
(* The tunnels implement TunnelService.  A session counts as routed when the *)
(* worker's goroutine has received it: what a caller picked or offers is not *)
(* a promise, because the worker may leave before it receives.               *)

Listening(w) == IF reg[w].pc = "serving" THEN reg[w].ep ELSE None

SessionOf(k) ==
  [state |-> CASE call[k].pc = "idle" -> "unused"
               [] call[k].pc \in {"dialing", "found", "offering"} -> "waiting"
               [] call[k].pc = "handed" -> "routed"
               [] call[k].pc = "open" -> "open"
               [] call[k].pc = "over" -> "over",
   dialled |-> call[k].ep,
   to |-> IF call[k].pc = "offering" THEN None ELSE call[k].to]

Service == INSTANCE TunnelService WITH
             Listener <- Registration, Session <- Call,
             listening <- [w \in Registration |-> Listening(w)],
             session <- [k \in Call |-> SessionOf(k)]

(* Every step of the gateway is a step of the service or invisible to it: a  *)
(* session is given to one listener at most, to one that listens on the      *)
(* dialled endpoint at that very moment, and none comes back once over.      *)
ImplementsTunnelService == Service!Spec

-----------------------------------------------------------------------------
(* Liveness, under FairSpec                                                  *)

(* reverse_tcp.go:23, "cleanup once the context is closed": also for a       *)
(* request that is still being registered when its connection goes away.     *)
ClosedConnCleansUp ==
  \A w \in Registration :
    reg[w].pc # "idle" /\ reg[w].conn \in closed ~> reg[w].once = "done"

(* Once every connection is gone the registry ends up empty for good, no     *)
(* matter who raced whom on the way: every LB is empty and no name is left.  *)
RegistryDrains ==
  closed = Conn ~>
    [](accepting = [e \in Endpoint |-> None]
       /\ pool = [l \in Registration |-> {}])

(* A blocked Offer ends, unless the worker it picked has left its loop: then *)
(* only the caller going away ends it.                                       *)
OfferResolved ==
  \A k \in Call :
    call[k].pc = "offering" ~>
      call[k].pc # "offering" \/ reg[call[k].to].pc = "left"

(* As soon as one of the two copying goroutines has stopped, or one of the   *)
(* two connections is closed, both ends of the tunnel are closed before long, *)
(* even if the other goroutine keeps waiting for a peer that is silent; and  *)
(* an attempt to open a tunnel to a listener that is gone ends.  (An attempt *)
(* whose caller is gone may wait forever for the listener's peer to answer.) *)
TunnelEnds ==
  \A k \in Call :
    /\ /\ call[k].pc = "open"
       /\ \/ tunnel[k].copying # Side
          \/ \E s \in Side : SideConn(k, s) \in closed
       ~> tunnel[k].shut = Side
    /\ call[k].pc = "handed" /\ reg[call[k].to].conn \in closed
       ~> call[k].pc # "handed"

(* A cancel request returns, whoever runs the cleanup it waits for: it locks *)
(* g.l, which a registration of the same endpoint may be waiting for too.    *)
CancelReturns ==
  \A c \in Conn : cancelling[c] # None ~> cancelling[c] = None
=============================================================================
