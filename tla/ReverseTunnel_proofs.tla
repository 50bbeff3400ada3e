------------------------ MODULE ReverseTunnel_proofs ------------------------
(***************************************************************************)
(* What holds of the reverse tunnels for any number of connections,        *)
(* endpoints, requests and channels.  The inductive invariant is built in  *)
(* layers: what the registry, the pools and the requests say of each other *)
(* (Registry), then the calls that read them, then names and sharing.      *)
(***************************************************************************)
EXTENDS ReverseTunnel, Integers, TLAPS

Registry == RegistryTypeOK /\ RegistryConsistent /\ PoolsHoldLiveWorkers

registry == <<mutex, accepting, cleanup, pool, reg, cancelling>>

-----------------------------------------------------------------------------
(* The registry                                                              *)

\* A call's goroutine reads the registry and writes none of it.
LEMMA CallsLeaveRegistry ==
  ASSUME NEW k \in Call, CallStep(k)
  PROVE  UNCHANGED registry
BY DEF CallStep, Dial, RejectChannel, Refuse, GetLB, PickWorker, AbandonOffer,
       HandOver, OpenReverse, PeerRefuses, CopyEnds, CloseOther,
       gateway, registry

LEMMA RegistryUnchanged ==
  ASSUME Registry, UNCHANGED registry
  PROVE  Registry'
BY DEF Registry, RegistryTypeOK, RegistryConsistent, Known,
       PoolsHoldLiveWorkers, InPool, registry

LEMMA RegistryInit == Init => Registry
BY NoneAssumption
   DEF Init, Registry, RegistryTypeOK, RegistryConsistent, Known, NoReg,
       PoolsHoldLiveWorkers, InPool, OnceState

\* Each step of a connection or of a request keeps the registry consistent.
LEMMA ConnsKeepRegistry ==
  ASSUME Registry, NEW c \in Conn, ConnStep(c)
  PROVE  Registry'
<1>1. CASE Disconnect(c)
  BY <1>1, RegistryUnchanged DEF Disconnect, gateway, registry
<1>2. CASE Cancel(c)
  BY <1>2, NoneAssumption
     DEF Cancel, gateway, Registry, RegistryTypeOK, RegistryConsistent, Known,
         PoolsHoldLiveWorkers, InPool
<1>3. CASE CancelReturn(c)
  BY <1>3, NoneAssumption
     DEF CancelReturn, gateway, Registry, RegistryTypeOK, RegistryConsistent,
         Known, PoolsHoldLiveWorkers, InPool
<1> QED BY <1>1, <1>2, <1>3 DEF ConnStep

LEMMA RegsKeepRegistry ==
  ASSUME Registry, NEW w \in Registration, RegStep(w)
  PROVE  Registry'
<1> USE NoneAssumption
    DEF Registry, RegistryTypeOK, RegistryConsistent, Known, NoReg, Served,
        RegState, OnceState, PoolsHoldLiveWorkers, InPool
<1>1. ASSUME NEW c \in Conn, NEW e \in Endpoint, AcquireLB(w, c, e)
      PROVE  Registry'
  BY <1>1 DEF AcquireLB, LBFor
<1>2. CASE JoinPool(w)
  BY <1>2 DEF JoinPool
<1>3. CASE RegisterCleanup(w)
  BY <1>3 DEF RegisterCleanup
<1>4. CASE LeaveLoop(w)
  BY <1>4 DEF LeaveLoop, gateway
<1>5. CASE CleanupRemove(w)
  <2> USE <1>5 DEF CleanupRemove
  <2>1. reg[w] \in Served /\ reg[w].pc \in {"serving", "left"}
    BY DEF CleanupRequested
  <2>2. reg' = [reg EXCEPT ![w].once = "removed"]
    OBVIOUS
  <2>3. RegistryTypeOK'
    BY <2>1, <2>2 DEF WithoutWorker
  <2>4. RegistryConsistent'
    BY <2>1, <2>2
  <2>5. PoolsHoldLiveWorkers'
    BY <2>1, <2>2 DEF WithoutWorker
  <2> QED BY <2>3, <2>4, <2>5
<1>6. CASE CleanupForget(w)
  <2> USE <1>6 DEF CleanupForget
  <2>1. reg[w] \in Served /\ reg[w].pc \in {"serving", "left"} /\ mutex = w
    OBVIOUS
  <2>2. /\ reg' = [reg EXCEPT ![w].once = "forgotten"]
        /\ UNCHANGED <<cleanup, pool, cancelling>>
    OBVIOUS
  <2>3. \A e \in Endpoint : accepting'[e] \in {None, accepting[e]}
    BY <2>1 DEF EntryWithout
  <2>4. RegistryTypeOK'
    BY <2>1, <2>2, <2>3
  <2>5. RegistryConsistent'
    BY <2>1, <2>2, <2>3
  <2>6. PoolsHoldLiveWorkers'
    BY <2>1, <2>2
  <2> QED BY <2>4, <2>5, <2>6
<1>7. CASE CleanupClose(w)
  BY <1>7 DEF CleanupClose, gateway
<1> QED
  BY <1>1, <1>2, <1>3, <1>4, <1>5, <1>6, <1>7 DEF RegStep

LEMMA RegistryStep == Registry /\ [Next]_vars => Registry'
<1>1. CASE UNCHANGED vars
  BY <1>1, RegistryUnchanged DEF vars, registry
<1> QED
  BY <1>1, ConnsKeepRegistry, RegsKeepRegistry, CallsLeaveRegistry,
     RegistryUnchanged DEF Next

-----------------------------------------------------------------------------
(* Calls                                                                     *)

Calls == call \in [Call -> {NoCall} \cup Dialled] /\ CallsConsistent

\* An accepted request keeps its endpoint and its LB for good.
LEMMA RequestsKeepEndpoint ==
  ASSUME Registry, [Next]_vars, NEW w \in Registration, reg[w].pc # "idle"
  PROVE  /\ reg[w].pc' # "idle"
         /\ reg[w].ep' = reg[w].ep
         /\ reg[w].lb' = reg[w].lb
         /\ reg[w].conn' = reg[w].conn
<1> USE DEF Registry, RegistryTypeOK, RegistryConsistent, NoReg, Served, RegState
<1> DEFINE Kept == /\ reg'[w].pc # "idle"
                   /\ reg'[w].ep = reg[w].ep
                   /\ reg'[w].lb = reg[w].lb
                   /\ reg'[w].conn = reg[w].conn
<1>1. ASSUME NEW v \in Registration, RegStep(v) PROVE Kept
  <2>1. CASE v = w
    BY <1>1, <2>1 DEF RegStep, AcquireLB, JoinPool, RegisterCleanup, LeaveLoop,
                      CleanupRemove, CleanupForget, CleanupClose
  <2>2. CASE v # w
    BY <1>1, <2>2 DEF RegStep, AcquireLB, JoinPool, RegisterCleanup, LeaveLoop,
                      CleanupRemove, CleanupForget, CleanupClose
  <2> QED BY <2>1, <2>2
<1>2. ASSUME reg' = reg PROVE Kept
  BY <1>2
<1>3. ASSUME NEW c \in Conn, ConnStep(c) PROVE reg' = reg
  BY <1>3 DEF ConnStep, Disconnect, Cancel, CancelReturn
<1>4. ASSUME NEW k \in Call, CallStep(k) PROVE reg' = reg
  BY <1>4, CallsLeaveRegistry DEF registry
<1>5. Kept
  BY <1>1, <1>2, <1>3, <1>4 DEF Next, vars
<1> QED
  BY <1>5

Tunnels == tunnel \in [Call -> Tunnel] /\ TunnelsConsistent

\* The last copying goroutine returns.
HangUp(k) ==
  /\ call[k].pc = "open"
  /\ call' = [call EXCEPT ![k].pc = "over"]

LEMMA CopyingEndsCalls ==
  ASSUME Tunnels, NEW k \in Call, NEW s \in Side,
         CopyEnds(k, s) \/ CloseOther(k, s)
  PROVE  UNCHANGED call \/ HangUp(k)
<1>1. CASE CopyEnds(k, s)
  BY <1>1 DEF CopyEnds
<1>2. CASE CloseOther(k, s)
  BY <1>2 DEF CloseOther, HangUp, Tunnels, TunnelsConsistent, TunnelConsistent
<1> QED BY <1>1, <1>2

\* What one step of a call's goroutine makes of its locals.
LEMMA CallsKeepCalls ==
  ASSUME Registry, Calls, Tunnels, NEW k \in Call, CallStep(k)
  PROVE  Calls'
<1> DEFINE Good(r) == r \in Dialled /\ CallConsistent(r)
           Becomes(r) == Good(r) /\ call' = [call EXCEPT ![k] = r]
<1> USE NoneAssumption
    DEF Registry, RegistryTypeOK, RegistryConsistent, PoolsHoldLiveWorkers,
        InPool, Calls, CallsConsistent, CallConsistent, Known, NoReg, Served,
        NoCall, Dialled, CallState
<1>0. call[k].pc # "idle" => call[k] \in Dialled
  OBVIOUS
<1>1. ASSUME NEW c \in Conn, NEW e \in Endpoint, Dial(k, c, e)
      PROVE  Becomes([pc |-> "dialing", conn |-> c, ep |-> e, lb |-> None, to |-> None])
  BY <1>1 DEF Dial
<1>2. ASSUME Refuse(k), call[k].pc # "idle"
      PROVE  Becomes([call[k] EXCEPT !.pc = "over", !.to = None])
  <2>1. Good([call[k] EXCEPT !.pc = "over", !.to = None])
    BY <1>0, <1>2
  <2>2. call' = [call EXCEPT ![k] = [call[k] EXCEPT !.pc = "over", !.to = None]]
    BY <1>0, <1>2 DEF Refuse
  <2> QED BY <2>1, <2>2
<1>3. ASSUME GetLB(k), ~Refuse(k)
      PROVE  Becomes([call[k] EXCEPT !.pc = "found", !.lb = accepting[call[k].ep]])
  <2> DEFINE lb == accepting[call[k].ep]
  <2>0. call[k] \in Dialled /\ lb \in Registration /\ Known(lb, call[k].ep)
    BY <1>0, <1>3 DEF GetLB
  <2>1. Good([call[k] EXCEPT !.pc = "found", !.lb = lb])
    <3> DEFINE r == [call[k] EXCEPT !.pc = "found", !.lb = lb]
    <3>1. CallConsistent(call[k]) /\ call[k].pc = "dialing"
      BY <1>3 DEF GetLB
    <3>2. /\ r \in Dialled /\ r.pc = "found" /\ r.to = call[k].to
          /\ r.lb = lb /\ r.ep = call[k].ep
      BY <2>0
    <3>3. CallConsistent(r)
      <4> HIDE DEF r, lb
      <4> QED BY <2>0, <3>1, <3>2
    <3> QED BY <3>2, <3>3
  <2>2. call' = [call EXCEPT ![k] = [call[k] EXCEPT !.pc = "found", !.lb = lb]]
    BY <1>0, <1>3 DEF GetLB
  <2> QED BY <2>1, <2>2
<1>4. ASSUME PickWorker(k), ~Refuse(k)
      PROVE  \E w \in pool[call[k].lb] :
               Becomes([call[k] EXCEPT !.pc = "offering", !.to = w])
  <2>1. PICK w \in pool[call[k].lb] :
          call' = [call EXCEPT ![k] = [call[k] EXCEPT !.pc = "offering", !.to = w]]
    BY <1>4 DEF PickWorker
  <2>0. call[k] \in Dialled /\ call[k].pc = "found"
    BY <1>0, <1>4 DEF PickWorker
  <2>2. /\ w \in Registration /\ Known(w, call[k].ep)
        /\ call[k].lb \in Registration /\ Known(call[k].lb, call[k].ep)
    BY <2>0
  <2>3. Good([call[k] EXCEPT !.pc = "offering", !.to = w])
    <3> DEFINE r == [call[k] EXCEPT !.pc = "offering", !.to = w]
    <3>1. /\ r \in Dialled /\ r.pc = "offering" /\ r.to = w
          /\ r.lb = call[k].lb /\ r.ep = call[k].ep
      BY <2>0, <2>2
    <3>2. CallConsistent(r)
      <4> HIDE DEF r
      <4> QED BY <2>2, <3>1
    <3> QED BY <3>1, <3>2
  <2>4. call' = [call EXCEPT ![k] = [call[k] EXCEPT !.pc = "offering", !.to = w]]
    BY <1>0, <2>1
  <2> QED BY <2>3, <2>4
<1>5. ASSUME HandOver(k)
      PROVE  Becomes([call[k] EXCEPT !.pc = "handed"])
  BY <1>5 DEF HandOver
<1>6. ASSUME OpenReverse(k)
      PROVE  Becomes([call[k] EXCEPT !.pc = "open"])
  BY <1>6 DEF OpenReverse
<1>7. ASSUME PeerRefuses(k) \/ HangUp(k)
      PROVE  Becomes([call[k] EXCEPT !.pc = "over"])
  BY <1>7 DEF PeerRefuses, HangUp
<1>8. \/ Refuse(k) /\ call[k].pc # "idle"
      \/ \E c \in Conn, e \in Endpoint : Dial(k, c, e)
      \/ ~Refuse(k) /\ (GetLB(k) \/ PickWorker(k))
      \/ HandOver(k) \/ OpenReverse(k) \/ PeerRefuses(k) \/ HangUp(k)
      \/ UNCHANGED call
  <2> HIDE DEF CallConsistent, Known
  <2> QED
    BY CopyingEndsCalls
       DEF CallStep, RejectChannel, GetLB, PickWorker, AbandonOffer
<1>9. UNCHANGED call \/ \E r : Becomes(r)
  <2> HIDE DEF Becomes
  <2> QED
    BY <1>1, <1>2, <1>3, <1>4, <1>5, <1>6, <1>7, <1>8
<1> QED
  BY <1>9, CallsLeaveRegistry DEF registry

LEMMA CallsStep == Registry /\ Calls /\ Tunnels /\ [Next]_vars => Calls'
<1> SUFFICES ASSUME Registry, Calls, [Next]_vars, UNCHANGED call PROVE Calls'
  BY CallsKeepCalls
     DEF Next, vars, ConnStep, Disconnect, Cancel, CancelReturn, RegStep,
         AcquireLB, JoinPool, RegisterCleanup, LeaveLoop, CleanupRemove,
         CleanupForget, CleanupClose
<1>1. \A w \in Registration : \A e : Known(w, e) => Known(w, e)'
  BY RequestsKeepEndpoint DEF Known
<1> QED
  BY <1>1 DEF Calls, CallsConsistent, CallConsistent, Dialled, NoCall

\* The two goroutines of a tunnel leave no end open that they both have left.
LEMMA TunnelsStep ==
  ASSUME Calls, Tunnels, [Next]_vars
  PROVE  Tunnels'
<1> USE DEF Calls, Tunnels, TunnelsConsistent
<1>0. ASSUME UNCHANGED <<call, tunnel>> PROVE Tunnels'
  BY <1>0
<1>1. ASSUME NEW k \in Call, CallStep(k) PROVE Tunnels'
  <2>1. ASSUME NEW t \in Tunnel, NEW c,
               call' = [call EXCEPT ![k] = c], tunnel' = [tunnel EXCEPT ![k] = t],
               TunnelConsistent(c, t)
        PROVE  Tunnels'
    BY <2>1
  <2>2. ASSUME tunnel' = tunnel, tunnel[k] = NoTunnel,
               NEW c, call' = [call EXCEPT ![k] = c], c.pc # "open"
        PROVE  Tunnels'
    BY <2>2 DEF TunnelConsistent, NoTunnel
  <2>3. \A s \in Side : call[k].pc # "open" => tunnel[k].copying \cup tunnel[k].closing = {}
    BY DEF TunnelConsistent
  <2>4. ASSUME NEW c \in Conn, NEW e \in Endpoint, Dial(k, c, e) PROVE Tunnels'
    BY <2>4, <2>2 DEF Dial, TunnelConsistent
  <2>5. ASSUME call[k].pc \in {"dialing", "found", "offering"}, Refuse(k) PROVE Tunnels'
    <3> DEFINE c == [call[k] EXCEPT !.pc = "over", !.to = None]
    <3>1. tunnel[k] = NoTunnel /\ tunnel' = tunnel
      BY <2>5 DEF TunnelConsistent, Refuse
    <3>2. call' = [call EXCEPT ![k] = c] /\ c.pc = "over"
      BY <2>5 DEF Refuse, Dialled, NoCall
    <3> HIDE DEF c
    <3> QED BY <2>2, <3>1, <3>2
  <2>6. ASSUME GetLB(k) \/ PickWorker(k), ~Refuse(k) PROVE Tunnels'
    <3>1. tunnel[k] = NoTunnel /\ tunnel' = tunnel
      BY <2>6 DEF TunnelConsistent, GetLB, PickWorker
    <3>2. PICK c : call' = [call EXCEPT ![k] = c] /\ c.pc \in {"found", "offering"}
      <4>1. CASE GetLB(k)
        <5> DEFINE c == [call[k] EXCEPT !.pc = "found", !.lb = accepting[call[k].ep]]
        <5>1. call' = [call EXCEPT ![k] = c]
          BY <2>6, <4>1 DEF GetLB
        <5>2. c.pc = "found"
          BY DEF Dialled, NoCall
        <5> HIDE DEF c
        <5> QED BY <5>1, <5>2
      <4>2. CASE PickWorker(k)
        <5>1. PICK w : call' = [call EXCEPT ![k] = [call[k] EXCEPT !.pc = "offering",
                                                                   !.to = w]]
          BY <2>6, <4>2 DEF PickWorker
        <5>2. [call[k] EXCEPT !.pc = "offering", !.to = w].pc = "offering"
          BY DEF Dialled, NoCall
        <5> QED BY <5>1, <5>2
      <4> QED BY <2>6, <4>1, <4>2
    <3> QED BY <2>2, <3>1, <3>2
  <2>7. ASSUME HandOver(k) \/ PeerRefuses(k) PROVE Tunnels'
    <3>1. tunnel[k] = NoTunnel /\ tunnel' = tunnel
      BY <2>7 DEF TunnelConsistent, HandOver, PeerRefuses
    <3>2. PICK c : call' = [call EXCEPT ![k] = c] /\ c.pc \in {"handed", "over"}
      BY <2>7 DEF HandOver, PeerRefuses, Dialled, NoCall
    <3> QED BY <2>2, <3>1, <3>2
  <2>8. ASSUME OpenReverse(k) PROVE Tunnels'
    <3> DEFINE c == [call[k] EXCEPT !.pc = "open"]
               t == [tunnel[k] EXCEPT !.copying = Side]
    <3>1. tunnel[k] = NoTunnel
      BY <2>8 DEF TunnelConsistent, OpenReverse
    <3>2. /\ call' = [call EXCEPT ![k] = c] /\ c.pc = "open"
          /\ tunnel' = [tunnel EXCEPT ![k] = t]
          /\ t = [copying |-> Side, closing |-> {}, shut |-> {}]
      <4>1. call' = [call EXCEPT ![k] = c] /\ tunnel' = [tunnel EXCEPT ![k] = t]
        BY <2>8 DEF OpenReverse
      <4>2. c.pc = "open"
        BY DEF Dialled, NoCall
      <4>3. t = [copying |-> Side, closing |-> {}, shut |-> {}]
        BY <3>1 DEF NoTunnel
      <4> HIDE DEF c, t
      <4> QED BY <4>1, <4>2, <4>3
    <3>3. t \in Tunnel /\ TunnelConsistent(c, t)
      <4> HIDE DEF c, t
      <4> QED BY <3>2 DEF Tunnel, TunnelConsistent, Side
    <3> HIDE DEF c, t
    <3> QED BY <2>1, <3>2, <3>3
  <2>9. ASSUME NEW s \in Side, CopyEnds(k, s) PROVE Tunnels'
    <3> DEFINE t == [copying |-> tunnel[k].copying \ {s},
                     closing |-> tunnel[k].closing \cup {s},
                     shut |-> tunnel[k].shut \cup {s}]
    <3>1. tunnel' = [tunnel EXCEPT ![k] = t] /\ call' = call
      BY <2>9 DEF CopyEnds
    <3>2. t \in Tunnel /\ TunnelConsistent(call[k], t)
      <4>1. tunnel[k] \in Tunnel /\ TunnelConsistent(call[k], tunnel[k])
            /\ s \in tunnel[k].copying
        BY <2>9 DEF CopyEnds
      <4>2. call[k].pc = "open"
        BY <4>1 DEF TunnelConsistent
      <4> QED BY <4>1, <4>2 DEF Tunnel, TunnelConsistent, Side, NoTunnel
    <3> HIDE DEF t
    <3> QED BY <3>1, <3>2
  <2>10. ASSUME NEW s \in Side, CloseOther(k, s) PROVE Tunnels'
    <3> DEFINE t == [copying |-> tunnel[k].copying,
                     closing |-> tunnel[k].closing \ {s},
                     shut |-> tunnel[k].shut \cup {Other(s)}]
               c == IF tunnel[k].copying = {} /\ tunnel[k].closing = {s}
                    THEN [call[k] EXCEPT !.pc = "over"] ELSE call[k]
    <3>1. /\ tunnel[k] \in Tunnel /\ TunnelConsistent(call[k], tunnel[k])
          /\ s \in tunnel[k].closing
          /\ tunnel' = [tunnel EXCEPT ![k] = t]
      BY <2>10 DEF CloseOther
    <3>2. /\ call[k].pc = "open" /\ call[k] \in Dialled
          /\ s \in tunnel[k].shut
      BY <3>1 DEF TunnelConsistent, NoCall
    <3>3. t \in Tunnel /\ t.shut = Side /\ t.closing \subseteq t.shut
          /\ t.copying \cap t.closing = {}
      BY <3>1, <3>2 DEF Tunnel, TunnelConsistent, Side, Other
    <3>4. /\ call' = [call EXCEPT ![k] = c]
          /\ c.pc = IF t.copying \cup t.closing = {} THEN "over" ELSE "open"
      BY <2>10, <3>1, <3>2 DEF CloseOther, Dialled
    <3>5. TunnelConsistent(c, t)
      <4> HIDE DEF c, t
      <4> QED BY <3>3, <3>4 DEF TunnelConsistent
    <3> HIDE DEF c, t
    <3> QED BY <2>1, <3>1, <3>3, <3>4, <3>5
  <2> QED
    BY <1>1, <2>4, <2>5, <2>6, <2>7, <2>8, <2>9, <2>10
       DEF CallStep, RejectChannel, GetLB, PickWorker, AbandonOffer
<1>2. ASSUME NEW c \in Conn, ConnStep(c) PROVE UNCHANGED <<call, tunnel>>
  BY <1>2 DEF ConnStep, Disconnect, Cancel, CancelReturn
<1>3. ASSUME NEW w \in Registration, RegStep(w) PROVE UNCHANGED <<call, tunnel>>
  BY <1>3 DEF RegStep, AcquireLB, JoinPool, RegisterCleanup, LeaveLoop,
              CleanupRemove, CleanupForget, CleanupClose
<1> QED
  BY <1>0, <1>1, <1>2, <1>3 DEF Next, vars

\* Only connections of the gateway are ever closed.
LEMMA ClosedStep ==
  Registry /\ Calls /\ closed \subseteq Conn /\ [Next]_vars
    => (closed \subseteq Conn)'
<1> SUFFICES ASSUME Registry, Calls, closed \subseteq Conn, [Next]_vars
             PROVE  closed' \subseteq Conn
  OBVIOUS
<1> USE DEF gateway
<1>1. ASSUME NEW c \in Conn, ConnStep(c) PROVE closed' \subseteq Conn
  BY <1>1 DEF ConnStep, Disconnect, Cancel, CancelReturn
<1>2. ASSUME NEW w \in Registration, RegStep(w) PROVE closed' \subseteq Conn
  BY <1>2 DEF RegStep, AcquireLB, JoinPool, RegisterCleanup, LeaveLoop,
              CleanupRemove, CleanupForget, CleanupClose,
              Registry, RegistryTypeOK, NoReg, Served
<1>3. ASSUME NEW k \in Call, CallStep(k) PROVE closed' \subseteq Conn
  <2>1. \/ closed' = closed
        \/ closed' = closed \cup {call[k].conn} /\ call[k].pc # "idle"
    <3>1. \/ UNCHANGED closed
          \/ Refuse(k) /\ call[k].pc \in {"dialing", "found", "offering"}
      BY <1>3 DEF CallStep, Dial, RejectChannel, GetLB, PickWorker, AbandonOffer,
                  HandOver, OpenReverse, PeerRefuses, CopyEnds, CloseOther
    <3>2. Refuse(k) => closed' = closed \cup {call[k].conn}
      BY DEF Refuse
    <3> QED BY <3>1, <3>2
  <2> QED BY <2>1 DEF Calls, NoCall, Dialled
<1> QED
  BY <1>1, <1>2, <1>3 DEF Next, vars

-----------------------------------------------------------------------------
(* Names                                                                     *)

\* No step leaves the name of an empty LB behind.
LEMMA NamesStep == Registry /\ NoDeadName /\ [Next]_vars => NoDeadName'
<1> SUFFICES ASSUME Registry, NoDeadName, [Next]_vars PROVE NoDeadName'
  OBVIOUS
<1> USE NoneAssumption
    DEF Registry, RegistryTypeOK, RegistryConsistent, Known, NoReg, Served,
        PoolsHoldLiveWorkers, InPool, NoDeadName
<1>1. ASSUME UNCHANGED <<mutex, accepting, pool, reg>> PROVE NoDeadName'
  BY <1>1
<1>2. ASSUME NEW w \in Registration, NEW c \in Conn, NEW e \in Endpoint,
             AcquireLB(w, c, e)
      PROVE  NoDeadName'
  BY <1>2 DEF AcquireLB, LBFor
<1>3. ASSUME NEW w \in Registration, JoinPool(w) PROVE NoDeadName'
  BY <1>3 DEF JoinPool
<1>4. ASSUME NEW w \in Registration,
             RegisterCleanup(w) \/ LeaveLoop(w) \/ CleanupClose(w)
      PROVE  NoDeadName'
  <2>1. /\ UNCHANGED <<mutex, accepting, pool>>
        /\ \A v \in Registration :
             /\ reg'[v].lb = reg[v].lb
             /\ reg[v].pc = "acquired" => reg'[v].pc = "acquired"
    BY <1>4 DEF RegisterCleanup, LeaveLoop, CleanupClose, gateway
  <2> QED BY <2>1
<1>5. ASSUME NEW w \in Registration, CleanupRemove(w) PROVE NoDeadName'
  BY <1>5 DEF CleanupRemove, WithoutWorker
<1>6. ASSUME NEW w \in Registration, CleanupForget(w) PROVE NoDeadName'
  BY <1>6 DEF CleanupForget, EntryWithout
<1>7. ASSUME NEW c \in Conn, ConnStep(c)
      PROVE  UNCHANGED <<mutex, accepting, pool, reg>>
  BY <1>7 DEF ConnStep, Disconnect, Cancel, CancelReturn, gateway
<1> QED
  BY <1>1, <1>2, <1>3, <1>4, <1>5, <1>6, <1>7, CallsLeaveRegistry
     DEF Next, RegStep, vars, registry

\* Requests of an endpoint share its LB until one of their cleanups starts.
LEMMA SharingStep ==
  Registry /\ SharedUntilFirstDeparture /\ [Next]_vars => SharedUntilFirstDeparture'
<1> SUFFICES ASSUME Registry, SharedUntilFirstDeparture, [Next]_vars
             PROVE  SharedUntilFirstDeparture'
  OBVIOUS
<1> USE NoneAssumption
    DEF Registry, RegistryTypeOK, RegistryConsistent, Known, NoReg, Served,
        SharedUntilFirstDeparture
<1>1. ASSUME UNCHANGED <<accepting, reg>> PROVE SharedUntilFirstDeparture'
  BY <1>1
<1>2. ASSUME NEW w \in Registration, NEW c \in Conn, NEW e \in Endpoint,
             AcquireLB(w, c, e)
      PROVE  SharedUntilFirstDeparture'
  BY <1>2 DEF AcquireLB, LBFor
<1>3. ASSUME NEW w \in Registration,
             \/ JoinPool(w) \/ RegisterCleanup(w) \/ LeaveLoop(w)
             \/ CleanupRemove(w) \/ CleanupClose(w)
      PROVE  SharedUntilFirstDeparture'
  <2>1. /\ UNCHANGED accepting
        /\ \A v \in Registration :
             /\ reg'[v].ep = reg[v].ep /\ reg'[v].lb = reg[v].lb
             /\ reg'[v].once = "unused" => reg[v].once = "unused"
    BY <1>3 DEF JoinPool, RegisterCleanup, LeaveLoop, CleanupRemove, CleanupClose,
                gateway
  <2> QED BY <2>1
<1>4. ASSUME NEW w \in Registration, CleanupForget(w)
      PROVE  SharedUntilFirstDeparture'
  BY <1>4 DEF CleanupForget, EntryWithout
<1>5. ASSUME NEW c \in Conn, ConnStep(c) PROVE UNCHANGED <<accepting, reg>>
  BY <1>5 DEF ConnStep, Disconnect, Cancel, CancelReturn, gateway
<1> QED
  BY <1>1, <1>2, <1>3, <1>4, <1>5, CallsLeaveRegistry
     DEF Next, RegStep, vars, registry

-----------------------------------------------------------------------------
(* The theorems                                                              *)

IInv ==
  /\ Registry
  /\ Calls
  /\ Tunnels
  /\ closed \subseteq Conn
  /\ NoDeadName
  /\ SharedUntilFirstDeparture

LEMMA InductiveInvariant == Spec => []IInv
<1>1. Init => IInv
  BY RegistryInit, NoneAssumption
     DEF Init, IInv, Calls, CallsConsistent, CallConsistent, NoCall, NoReg,
         Tunnels, Tunnel, NoTunnel, TunnelsConsistent, TunnelConsistent,
         NoDeadName, SharedUntilFirstDeparture
<1>2. IInv /\ [Next]_vars => IInv'
  BY RegistryStep, CallsStep, TunnelsStep, ClosedStep, NamesStep, SharingStep DEF IInv
<1> QED
  BY <1>1, <1>2, PTL DEF Spec

(* Every variable keeps its type: a request that is served knows its         *)
(* connection, endpoint and LB from acquireLB on, a channel its caller.      *)
THEOREM TypeCorrect == Spec => []TypeOK
<1>1. IInv => TypeOK
  BY DEF IInv, Registry, Calls, Tunnels, TypeOK
<1> QED
  BY <1>1, InductiveInvariant, PTL

(* However many connections register, cancel, leave and dial at once, a      *)
(* channel only ever reaches a worker of the endpoint it asked for.          *)
THEOREM RoutingCorrect == Spec => []RoutedToOwnEndpoint
<1>1. IInv => RoutedToOwnEndpoint
  BY DEF IInv, Calls, CallsConsistent, CallConsistent, Known, RoutedToOwnEndpoint
<1> QED
  BY <1>1, InductiveInvariant, PTL

(* An LB holds exactly the workers that joined it and were not removed.      *)
THEOREM PoolsCorrect == Spec => []PoolsHoldLiveWorkers
<1>1. IInv => PoolsHoldLiveWorkers
  BY DEF IInv, Registry
<1> QED
  BY <1>1, InductiveInvariant, PTL

(* The registry's maps and the goroutines' locals agree: closures belong to  *)
(* their connections, LBs to their endpoints, g.l to the one cleanup.        *)
THEOREM RegistryCorrect == Spec => []RegistryConsistent
<1>1. IInv => RegistryConsistent
  BY DEF IInv, Registry
<1> QED
  BY <1>1, InductiveInvariant, PTL

(* The name of an empty LB is always about to be filled or deleted.          *)
THEOREM NamesCorrect == Spec => []NoDeadName
<1>1. IInv => NoDeadName
  BY DEF IInv
<1> QED
  BY <1>1, InductiveInvariant, PTL

(* Until the first cleanup for an endpoint starts, all its requests share    *)
(* the LB that the endpoint's name leads to.                                 *)
THEOREM SharingCorrect == Spec => []SharedUntilFirstDeparture
<1>1. IInv => SharedUntilFirstDeparture
  BY DEF IInv
<1> QED
  BY <1>1, InductiveInvariant, PTL

-----------------------------------------------------------------------------
(* What is left when the gateway comes to rest                               *)

\* Who has left its loop, or was cleaned up, has lost its connection.
Departed ==
  \A w \in Registration :
    reg[w].pc = "left" \/ reg[w].once = "done" => reg[w].conn \in closed

\* No connection that was closed comes back.
LEMMA ClosedGrows ==
  ASSUME [Next]_vars
  PROVE  closed \subseteq closed'
<1>1. ASSUME NEW c \in Conn, ConnStep(c) PROVE closed \subseteq closed'
  BY <1>1 DEF ConnStep, Disconnect, Cancel, CancelReturn
<1>2. ASSUME NEW w \in Registration, RegStep(w) PROVE closed \subseteq closed'
  BY <1>2 DEF RegStep, AcquireLB, JoinPool, RegisterCleanup, LeaveLoop,
              CleanupRemove, CleanupForget, CleanupClose
<1>3. ASSUME NEW k \in Call, CallStep(k) PROVE closed \subseteq closed'
  BY <1>3 DEF CallStep, Dial, RejectChannel, Refuse, GetLB, PickWorker, AbandonOffer,
              HandOver, OpenReverse, PeerRefuses, CopyEnds, CloseOther
<1> QED BY <1>1, <1>2, <1>3 DEF Next, vars

LEMMA DepartedStep ==
  ASSUME Registry, Departed, [Next]_vars
  PROVE  Departed'
<1>1. ASSUME UNCHANGED reg PROVE Departed'
  BY <1>1, ClosedGrows DEF Departed
<1>2. ASSUME NEW w \in Registration, RegStep(w) PROVE Departed'
  <2> USE DEF Registry, RegistryTypeOK, NoReg, Served, RegState, OnceState
  <2>1. \A v \in Registration \ {w} : reg'[v] = reg[v]
    BY <1>2 DEF RegStep, AcquireLB, JoinPool, RegisterCleanup, LeaveLoop,
                CleanupRemove, CleanupForget, CleanupClose
  <2>2. reg'[w].pc = "left" \/ reg'[w].once = "done" => reg'[w].conn \in closed'
    BY <1>2 DEF RegStep, AcquireLB, JoinPool, RegisterCleanup, LeaveLoop,
                CleanupRemove, CleanupForget, CleanupClose, Departed
  <2> QED BY <2>1, <2>2, ClosedGrows DEF Departed
<1>3. ASSUME NEW c \in Conn, ConnStep(c) PROVE reg' = reg
  BY <1>3 DEF ConnStep, Disconnect, Cancel, CancelReturn
<1> QED
  BY <1>1, <1>2, <1>3, CallsLeaveRegistry DEF Next, vars, registry

\* At rest the lock is free, so nobody waits for it.
LEMMA RestFreesLock ==
  ASSUME Registry, AtRest
  PROVE  mutex = None /\ \A c \in Conn : cancelling[c] = None
<1>1. mutex = None
  BY DEF Registry, RegistryTypeOK, RegistryConsistent, AtRest
<1>2. ASSUME NEW c \in Conn, cancelling[c] # None PROVE FALSE
  <2> DEFINE w == cancelling[c]
  <2>1. w \in Registration /\ CleanupRequested(w) /\ reg[w].pc \in {"serving", "left"}
    BY <1>2 DEF Registry, RegistryTypeOK, RegistryConsistent, CleanupRequested
  <2>2. reg[w].once \in OnceState
    BY <2>1 DEF Registry, RegistryTypeOK, Served, NoReg, OnceState
  <2> QED BY <1>1, <1>2, <2>1, <2>2 DEF AtRest, OnceState
<1> QED BY <1>1, <1>2

\* At rest a request is a listener that serves, or one that was cleaned up.
LEMMA RestSettlesRequests ==
  ASSUME Registry, Departed, AtRest, NEW w \in Registration, reg[w].pc # "idle"
  PROVE  IF reg[w].conn \in closed
         THEN reg[w].pc = "left" /\ reg[w].once = "done"
         ELSE reg[w].pc = "serving" /\ reg[w].once = "unused"
<1>1. /\ reg[w].pc \in {"serving", "left"} /\ reg[w].once \in {"unused", "done"}
      /\ reg[w].pc = "serving" => reg[w].conn \notin closed
  BY RestFreesLock
     DEF AtRest, Registry, RegistryTypeOK, Served, NoReg, RegState, OnceState
<1>2. CASE reg[w].conn \in closed
  BY <1>1, <1>2, RestFreesLock DEF AtRest, CleanupRequested
<1>3. CASE reg[w].conn \notin closed
  BY <1>1, <1>3 DEF Departed
<1> QED BY <1>2, <1>3

\* Without connections, nothing is registered at rest.
LEMMA RestDrains ==
  ASSUME Registry, Departed, NoDeadName, AtRest, closed = Conn
  PROVE  /\ accepting = [e \in Endpoint |-> None]
         /\ pool = [l \in Registration |-> {}]
<1>1. ASSUME NEW w \in Registration PROVE ~InPool(w) /\ reg[w].pc # "acquired"
  <2>1. CASE reg[w].pc = "idle"
    BY <2>1 DEF InPool
  <2>2. CASE reg[w].pc # "idle"
    <3>1. reg[w].conn \in closed
      BY <2>2 DEF Registry, RegistryTypeOK, Served, NoReg
    <3> QED BY <2>2, <3>1, RestSettlesRequests DEF InPool
  <2> QED BY <2>1, <2>2
<1>2. \A l \in Registration : pool[l] = {}
  BY <1>1 DEF Registry, RegistryTypeOK, PoolsHoldLiveWorkers
<1>3. \A e \in Endpoint : accepting[e] = None
  BY <1>1, <1>2, RestFreesLock, NoneAssumption
     DEF NoDeadName, Registry, RegistryTypeOK
<1> QED
  BY <1>2, <1>3 DEF Registry, RegistryTypeOK

(* When no goroutine of the gateway can take a step, nobody waits in vain    *)
(* but a caller whose worker has left, and what is gone leaves no trace.     *)
THEOREM RestCorrect == Spec => []NobodyStranded
<1>1. Init => Departed
  BY DEF Init, Departed, NoReg
<1>2. IInv /\ Departed /\ [Next]_vars => Departed'
  BY DepartedStep DEF IInv
<1>3. IInv /\ Departed => NobodyStranded
  <2> SUFFICES ASSUME IInv, Departed, AtRest PROVE NobodyStranded
    BY DEF NobodyStranded
  <2>1. Registry /\ NoDeadName /\ mutex = None /\ \A c \in Conn : cancelling[c] = None
    BY RestFreesLock DEF IInv
  <2>2. ASSUME NEW k \in Call, call[k].pc = "offering" PROVE reg[call[k].to].pc = "left"
    <3>1. call[k].to \in Registration /\ reg[call[k].to].pc \notin {"idle", "serving"}
      BY <2>2, NoneAssumption
         DEF AtRest, Receiving, IInv, Calls, CallsConsistent, CallConsistent, Known,
             Dialled, NoCall
    <3> QED BY <2>1, <3>1, RestSettlesRequests
  <2>3. \A k \in Call : call[k].pc # "dialing"
    BY <2>1 DEF AtRest
  <2>4. \A w \in Registration :
          reg[w].pc # "idle" =>
            IF reg[w].conn \in closed
            THEN reg[w].pc = "left" /\ reg[w].once = "done"
            ELSE reg[w].pc = "serving" /\ reg[w].once = "unused"
    BY <2>1, RestSettlesRequests
  <2>5. closed = Conn =>
          /\ accepting = [e \in Endpoint |-> None]
          /\ pool = [l \in Registration |-> {}]
    BY <2>1, RestDrains
  <2>6. ASSUME NEW k \in Call PROVE tunnel[k].shut \in {{}, Side}
    BY DEF AtRest, IInv, Tunnels, TunnelsConsistent, TunnelConsistent
  <2> QED BY <2>1, <2>2, <2>3, <2>4, <2>5, <2>6 DEF NobodyStranded
<1> QED
  BY <1>1, <1>2, <1>3, InductiveInvariant, PTL DEF Spec

\* How far a request and its cleanup, or a channel, have come.
RequestStage(r) ==
  (CASE r.pc = "idle" -> 0 [] r.pc = "acquired" -> 1 [] r.pc = "joined" -> 2
     [] r.pc = "serving" -> 3 [] r.pc = "left" -> 4)
  + (CASE r.once = "unused" -> 0 [] r.once = "removed" -> 1
       [] r.once = "forgotten" -> 2 [] r.once = "done" -> 3)

ChannelStage(r) ==
  CASE r.pc = "idle" -> 0 [] r.pc = "dialing" -> 1 [] r.pc = "found" -> 2
    [] r.pc = "offering" -> 3 [] r.pc = "handed" -> 4 [] r.pc = "open" -> 5
    [] r.pc = "over" -> 6

\* How far the goroutine that reads end s of an open tunnel has come.
CopyStage(k, s) ==
  IF s \in tunnel[k].copying THEN 1
  ELSE IF s \in tunnel[k].closing THEN 2
  ELSE IF tunnel[k].shut = {} THEN 0 ELSE 3

OnlyForward ==
  /\ \A w \in Registration :
       reg'[w] = reg[w] \/ RequestStage(reg'[w]) = RequestStage(reg[w]) + 1
  /\ \A k \in Call :
       call'[k] = call[k] \/ ChannelStage(call'[k]) > ChannelStage(call[k])
  /\ \A k \in Call :
       \/ tunnel'[k] = tunnel[k]
       \/ /\ \A s \in Side : CopyStage(k, s)' >= CopyStage(k, s)
          /\ \E s \in Side : CopyStage(k, s)' > CopyStage(k, s)

LEMMA RequestsForward ==
  ASSUME Registry, NEW w \in Registration, RegStep(w)
  PROVE  /\ RequestStage(reg'[w]) = RequestStage(reg[w]) + 1
         /\ \A v \in Registration \ {w} : reg'[v] = reg[v]
         /\ UNCHANGED <<call, tunnel>>
<1> USE DEF Registry, RegistryTypeOK
<1>1. ASSUME NEW c \in Conn, NEW e \in Endpoint, AcquireLB(w, c, e)
      PROVE  RequestStage(reg'[w]) = RequestStage(reg[w]) + 1
  <2>1. reg[w] = NoReg
    BY <1>1 DEF AcquireLB, Served, RegState
  <2>2. reg'[w].pc = "acquired" /\ reg'[w].once = "unused"
    BY <1>1 DEF AcquireLB
  <2> QED BY <2>1, <2>2 DEF RequestStage, NoReg
<1>2. ASSUME JoinPool(w) \/ RegisterCleanup(w) \/ LeaveLoop(w)
      PROVE  RequestStage(reg'[w]) = RequestStage(reg[w]) + 1
  <2>1. /\ reg[w].once \in OnceState /\ reg'[w].once = reg[w].once
        /\ \/ reg[w].pc = "acquired" /\ reg'[w].pc = "joined"
           \/ reg[w].pc = "joined" /\ reg'[w].pc = "serving"
           \/ reg[w].pc = "serving" /\ reg'[w].pc = "left"
    BY <1>2 DEF JoinPool, RegisterCleanup, LeaveLoop, Served, NoReg
  <2> QED BY <2>1 DEF RequestStage, OnceState
<1>3. ASSUME CleanupRemove(w) \/ CleanupForget(w) \/ CleanupClose(w)
      PROVE  RequestStage(reg'[w]) = RequestStage(reg[w]) + 1
  <2>1. /\ reg[w].pc \in RegState \cup {"idle"} /\ reg'[w].pc = reg[w].pc
        /\ \/ reg[w].once = "unused" /\ reg'[w].once = "removed"
           \/ reg[w].once = "removed" /\ reg'[w].once = "forgotten"
           \/ reg[w].once = "forgotten" /\ reg'[w].once = "done"
    BY <1>3 DEF CleanupRemove, CleanupForget, CleanupClose, Served, NoReg
  <2> QED BY <2>1 DEF RequestStage, RegState
<1>4. /\ \A v \in Registration \ {w} : reg'[v] = reg[v]
      /\ UNCHANGED <<call, tunnel>>
  BY DEF RegStep, AcquireLB, JoinPool, RegisterCleanup, LeaveLoop,
         CleanupRemove, CleanupForget, CleanupClose
<1> QED BY <1>1, <1>2, <1>3, <1>4 DEF RegStep

LEMMA ChannelsForward ==
  ASSUME Calls, Tunnels, NEW k \in Call, CallStep(k)
  PROVE  /\ call'[k] = call[k] \/ ChannelStage(call'[k]) > ChannelStage(call[k])
         /\ \A j \in Call \ {k} : call'[j] = call[j]
<1> DEFINE Goes(pc) == /\ \A j \in Call \ {k} : call'[j] = call[j]
                       /\ call'[k].pc = pc
<1>0. call \in [Call -> {NoCall} \cup Dialled]
  BY DEF Calls
<1>1. ASSUME Refuse(k) PROVE Goes("over")
  BY <1>0, <1>1 DEF Refuse, NoCall, Dialled
<1>2. ASSUME NEW c \in Conn, NEW e \in Endpoint, Dial(k, c, e)
      PROVE  call[k].pc = "idle" /\ Goes("dialing")
  BY <1>0, <1>2 DEF Dial
<1>3. ASSUME GetLB(k) \/ RejectChannel(k)
      PROVE  call[k].pc = "dialing" /\ (Goes("found") \/ Goes("over"))
  BY <1>0, <1>1, <1>3 DEF GetLB, RejectChannel, NoCall, Dialled
<1>4. ASSUME PickWorker(k)
      PROVE  call[k].pc = "found" /\ (Goes("offering") \/ Goes("over"))
  <2>1. CASE Refuse(k)
    BY <1>1, <1>4, <2>1 DEF PickWorker
  <2>2. CASE ~Refuse(k)
    <3>1. PICK w : call' = [call EXCEPT ![k] = [@ EXCEPT !.pc = "offering", !.to = w]]
      BY <1>4, <2>2 DEF PickWorker
    <3>2. call[k].pc = "found"
      BY <1>4 DEF PickWorker
    <3> QED BY <1>0, <3>1, <3>2 DEF NoCall, Dialled
  <2> QED BY <2>1, <2>2
<1>5. ASSUME AbandonOffer(k) \/ HandOver(k)
      PROVE  call[k].pc = "offering" /\ (Goes("handed") \/ Goes("over"))
  BY <1>0, <1>1, <1>5 DEF AbandonOffer, HandOver, NoCall, Dialled
<1>6. ASSUME OpenReverse(k) \/ PeerRefuses(k)
      PROVE  call[k].pc = "handed" /\ (Goes("open") \/ Goes("over"))
  BY <1>0, <1>6 DEF OpenReverse, PeerRefuses, NoCall, Dialled
<1>7. ASSUME HangUp(k)
      PROVE  call[k].pc = "open" /\ Goes("over")
  BY <1>0, <1>7 DEF HangUp, NoCall, Dialled
<1>8. /\ \A j \in Call \ {k} : call'[j] = call[j]
      /\ \/ call' = call
         \/ call[k].pc = "idle" /\ call'[k].pc = "dialing"
         \/ call[k].pc = "dialing" /\ call'[k].pc \in {"found", "over"}
         \/ call[k].pc = "found" /\ call'[k].pc \in {"offering", "over"}
         \/ call[k].pc = "offering" /\ call'[k].pc \in {"handed", "over"}
         \/ call[k].pc = "handed" /\ call'[k].pc \in {"open", "over"}
         \/ call[k].pc = "open" /\ call'[k].pc = "over"
  <2>1. CASE \E s \in Side : CopyEnds(k, s) \/ CloseOther(k, s)
    BY <1>7, <2>1, CopyingEndsCalls
  <2> QED BY <1>2, <1>3, <1>4, <1>5, <1>6, <2>1 DEF CallStep
<1> QED BY <1>8 DEF ChannelStage

LEMMA CopiesForward ==
  ASSUME Calls, Tunnels, NEW k \in Call, CallStep(k)
  PROVE  /\ \/ tunnel'[k] = tunnel[k]
            \/ /\ \A s \in Side : CopyStage(k, s)' >= CopyStage(k, s)
               /\ \E s \in Side : CopyStage(k, s)' > CopyStage(k, s)
         /\ \A j \in Call \ {k} : tunnel'[j] = tunnel[j]
<1>0. tunnel \in [Call -> Tunnel] /\ TunnelConsistent(call[k], tunnel[k])
  BY DEF Tunnels, TunnelsConsistent
<1>1. CASE OpenReverse(k)
  <2>1. tunnel[k] = NoTunnel
    BY <1>0, <1>1 DEF OpenReverse, TunnelConsistent
  <2>2. /\ tunnel'[k].copying = Side
        /\ \A j \in Call \ {k} : tunnel'[j] = tunnel[j]
    BY <1>0, <1>1 DEF OpenReverse, Tunnel
  <2> QED BY <2>1, <2>2 DEF CopyStage, NoTunnel, Side
<1>2. ASSUME NEW s \in Side, CopyEnds(k, s) \/ CloseOther(k, s)
      PROVE  /\ \A r \in Side : CopyStage(k, r)' >= CopyStage(k, r)
             /\ CopyStage(k, s)' > CopyStage(k, s)
             /\ \A j \in Call \ {k} : tunnel'[j] = tunnel[j]
  <2>1. CASE CopyEnds(k, s)
    <3>1. /\ s \in tunnel[k].copying
          /\ tunnel'[k].copying = tunnel[k].copying \ {s}
          /\ tunnel'[k].closing = tunnel[k].closing \cup {s}
          /\ tunnel'[k].shut = tunnel[k].shut \cup {s}
          /\ \A j \in Call \ {k} : tunnel'[j] = tunnel[j]
      BY <1>0, <2>1 DEF CopyEnds
    <3> QED BY <1>0, <3>1 DEF CopyStage, TunnelConsistent
  <2>2. CASE CloseOther(k, s)
    <3>1. /\ s \in tunnel[k].closing
          /\ tunnel'[k].copying = tunnel[k].copying
          /\ tunnel'[k].closing = tunnel[k].closing \ {s}
          /\ tunnel'[k].shut = tunnel[k].shut \cup {Other(s)}
          /\ \A j \in Call \ {k} : tunnel'[j] = tunnel[j]
      BY <1>0, <2>2 DEF CloseOther
    <3> QED BY <1>0, <3>1 DEF CopyStage, TunnelConsistent
  <2> QED BY <1>2, <2>1, <2>2
<1>3. \/ UNCHANGED tunnel
      \/ OpenReverse(k)
      \/ \E s \in Side : CopyEnds(k, s) \/ CloseOther(k, s)
  BY DEF CallStep, Dial, RejectChannel, Refuse, GetLB, PickWorker, AbandonOffer,
         HandOver, PeerRefuses
<1> QED BY <1>1, <1>2, <1>3

(* No goroutine goes back: a request and its cleanup take seven steps at the *)
(* most, a channel six and the goroutines that copy its tunnel three each,   *)
(* whatever the others do, so that without requests of its peers the gateway *)
(* comes to rest.                                                            *)
THEOREM ForwardCorrect == Spec => [][OnlyForward]_vars
<1>1. ASSUME IInv, [Next]_vars PROVE OnlyForward
  <2> USE <1>1
  <2>1. Registry /\ Calls /\ Tunnels
    BY DEF IInv
  <2>2. ASSUME NEW w \in Registration, RegStep(w) PROVE OnlyForward
    BY <2>1, <2>2, RequestsForward DEF OnlyForward
  <2>3. ASSUME NEW k \in Call, CallStep(k) PROVE OnlyForward
    BY <2>1, <2>3, ChannelsForward, CopiesForward, CallsLeaveRegistry
       DEF OnlyForward, registry
  <2>4. ASSUME UNCHANGED <<reg, call, tunnel>> PROVE OnlyForward
    BY <2>4 DEF OnlyForward
  <2>5. ASSUME NEW c \in Conn, ConnStep(c) PROVE UNCHANGED <<reg, call, tunnel>>
    BY <2>5 DEF ConnStep, Disconnect, Cancel, CancelReturn
  <2> QED BY <2>2, <2>3, <2>4, <2>5 DEF Next, vars
<1>2. IInv /\ [Next]_vars => [OnlyForward]_vars
  BY <1>1
<1> QED BY <1>2, InductiveInvariant, PTL DEF Spec

-----------------------------------------------------------------------------
(* The refinement                                                            *)

listeners == [w \in Registration |-> Listening(w)]
sessions == [k \in Call |-> SessionOf(k)]

LEMMA ListenersChange ==
  ASSUME NEW w \in Registration, NEW x,
         \A v \in Registration : Listening(v)' = IF v = w THEN x ELSE Listening(v)
  PROVE  listeners' = [listeners EXCEPT ![w] = x]
BY DEF listeners

\* What each step of a request is to the service.
LEMMA RegsRefine ==
  ASSUME IInv, NEW w \in Registration, RegStep(w)
  PROVE  [Service!Next]_(Service!vars)
<1> USE NoneAssumption
    DEF IInv, Registry, RegistryTypeOK, RegistryConsistent, NoReg, Served,
        RegState, Known
<1>1. UNCHANGED call
  BY DEF RegStep, AcquireLB, JoinPool, RegisterCleanup, LeaveLoop,
         CleanupRemove, CleanupForget, CleanupClose
<1>2. UNCHANGED sessions
  BY <1>1 DEF sessions, SessionOf
<1>3. CASE RegisterCleanup(w)
  <2>1. /\ listeners[w] = None
        /\ listeners' = [listeners EXCEPT ![w] = reg[w].ep]
        /\ reg[w].ep \in Endpoint
    <3>1. reg[w] \in Served /\ reg' = [reg EXCEPT ![w].pc = "serving"]
      BY <1>3 DEF RegisterCleanup
    <3>2. Listening(w) = None
      BY <1>3 DEF RegisterCleanup, Listening
    <3>3. \A v \in Registration :
            Listening(v)' = IF v = w THEN reg[w].ep ELSE Listening(v)
      BY <3>1 DEF Listening
    <3>4. listeners' = [listeners EXCEPT ![w] = reg[w].ep]
      BY <3>3, ListenersChange
    <3> QED BY <3>1, <3>2, <3>4 DEF listeners
  <2>2. Service!Listen(w, reg[w].ep)
    BY <1>2, <2>1 DEF Service!Listen, listeners, sessions
  <2> QED
    BY <2>1, <2>2 DEF Service!Next
<1>4. CASE LeaveLoop(w)
  <2>1. /\ listeners[w] # None
        /\ listeners' = [listeners EXCEPT ![w] = None]
    <3>1. reg[w] \in Served /\ reg' = [reg EXCEPT ![w].pc = "left"]
      BY <1>4 DEF LeaveLoop
    <3>2. Listening(w) # None
      BY <1>4, <3>1 DEF LeaveLoop, Listening
    <3>3. \A v \in Registration :
            Listening(v)' = IF v = w THEN None ELSE Listening(v)
      BY <3>1 DEF Listening
    <3>4. listeners' = [listeners EXCEPT ![w] = None]
      BY <3>3, ListenersChange
    <3> QED BY <3>2, <3>4 DEF listeners
  <2>2. Service!Leave(w)
    BY <1>2, <2>1 DEF Service!Leave, listeners, sessions
  <2> QED
    BY <2>2 DEF Service!Next
<1>5. CASE ~RegisterCleanup(w) /\ ~LeaveLoop(w)
  <2>1. \A v \in Registration : Listening(v)' = Listening(v)
    BY <1>5 DEF Listening, RegStep, AcquireLB, JoinPool, CleanupRemove,
                CleanupForget, CleanupClose
  <2>2. UNCHANGED listeners
    BY <2>1 DEF listeners
  <2> QED
    BY <1>2, <2>2 DEF Service!vars, listeners, sessions
<1> QED
  BY <1>3, <1>4, <1>5

\* A step that changes one call changes one session and no listener.
LEMMA SessionChange ==
  ASSUME NEW k \in Call, NEW r, UNCHANGED reg,
         call \in [Call -> {NoCall} \cup Dialled], call' = [call EXCEPT ![k] = r]
  PROVE  /\ UNCHANGED listeners
         /\ sessions' = [sessions EXCEPT ![k] = SessionOf(k)']
         /\ call'[k] = r
BY DEF sessions, SessionOf, listeners, Listening

\* What each step of a call is to the service: all but the receive are the
\* caller's own business or the end of the session.
LEMMA CallsRefine ==
  ASSUME IInv, NEW k \in Call, CallStep(k)
  PROVE  [Service!Next]_(Service!vars)
<1>1. UNCHANGED reg
  BY CallsLeaveRegistry DEF registry
<1>2. /\ call \in [Call -> {NoCall} \cup Dialled]
      /\ call[k].pc # "idle" => call[k] \in Dialled
      /\ sessions[k] = SessionOf(k)
  BY DEF IInv, Calls, NoCall, sessions
<1>3. ASSUME NEW c \in Conn, NEW e \in Endpoint, Dial(k, c, e)
      PROVE  Service!Dial(k, e)
  <2> DEFINE r == [pc |-> "dialing", conn |-> c, ep |-> e, lb |-> None, to |-> None]
  <2>1. call' = [call EXCEPT ![k] = r] /\ call[k].pc = "idle"
    BY <1>3 DEF Dial
  <2>2. /\ UNCHANGED listeners
        /\ sessions' = [sessions EXCEPT ![k] = SessionOf(k)']
        /\ call'[k] = r
    BY <1>1, <1>2, <2>1, SessionChange
  <2>3. SessionOf(k)' = [state |-> "waiting", dialled |-> e, to |-> None]
    BY <2>2 DEF SessionOf
  <2>4. sessions[k].state = "unused"
    BY <1>2, <2>1 DEF SessionOf
  <2> QED
    BY <2>2, <2>3, <2>4 DEF Service!Dial, sessions, listeners
<1>4. ASSUME Refuse(k), call[k].pc \in {"dialing", "found", "offering"}
      PROVE  Service!End(k)
  <2> DEFINE r == [call[k] EXCEPT !.pc = "over", !.to = None]
  <2>1. call' = [call EXCEPT ![k] = r] /\ call[k] \in Dialled
    BY <1>2, <1>4 DEF Refuse
  <2>2. /\ UNCHANGED listeners
        /\ sessions' = [sessions EXCEPT ![k] = SessionOf(k)']
        /\ call'[k] = r
    BY <1>1, <1>2, <2>1, SessionChange
  <2>3. SessionOf(k)' = [sessions[k] EXCEPT !.state = "over"]
    <3>1. call[k].pc # "offering" => call[k].to = None
      BY <1>4 DEF IInv, Calls, CallsConsistent, CallConsistent
    <3>2. SessionOf(k)' = [state |-> "over", dialled |-> call[k].ep, to |-> None]
      <4>1. r.pc = "over" /\ r.ep = call[k].ep /\ r.to = None
        BY <2>1 DEF Dialled
      <4> HIDE DEF r
      <4> QED BY <2>2, <4>1 DEF SessionOf
    <3>3. SessionOf(k) = [state |-> "waiting", dialled |-> call[k].ep, to |-> None]
      BY <1>4, <3>1 DEF SessionOf
    <3> QED BY <1>2, <3>2, <3>3
  <2>4. sessions[k].state = "waiting"
    BY <1>2, <1>4 DEF SessionOf
  <2> QED
    BY <2>2, <2>3, <2>4 DEF Service!End, sessions, listeners
<1>5. ASSUME GetLB(k) \/ PickWorker(k), ~Refuse(k)
      PROVE  UNCHANGED <<listeners, sessions>>
  <2>1. PICK r : /\ call' = [call EXCEPT ![k] = r]
                 /\ r.ep = call[k].ep
                 /\ \/ call[k].pc = "dialing" /\ r.pc = "found" /\ r.to = call[k].to
                    \/ call[k].pc = "found" /\ r.pc = "offering"
    BY <1>2, <1>5 DEF GetLB, PickWorker, Dialled
  <2>2. /\ UNCHANGED listeners
        /\ sessions' = [sessions EXCEPT ![k] = SessionOf(k)']
        /\ call'[k] = r
    BY <1>1, <1>2, <2>1, SessionChange
  <2>3. call[k].to = None
    BY <2>1 DEF IInv, Calls, CallsConsistent, CallConsistent
  <2>4. SessionOf(k)' = [state |-> "waiting", dialled |-> call[k].ep, to |-> None]
    BY <2>1, <2>2, <2>3 DEF SessionOf
  <2>5. SessionOf(k) = [state |-> "waiting", dialled |-> call[k].ep, to |-> None]
    BY <2>1, <2>3 DEF SessionOf
  <2> QED
    BY <1>2, <2>2, <2>4, <2>5 DEF sessions
<1>6. ASSUME HandOver(k)
      PROVE  call[k].to \in Registration /\ Service!Route(k, call[k].to)
  <2> DEFINE r == [call[k] EXCEPT !.pc = "handed"]
             w == call[k].to
  <2>1. call' = [call EXCEPT ![k] = r] /\ call[k] \in Dialled
    BY <1>2, <1>6 DEF HandOver
  <2>2. /\ UNCHANGED listeners
        /\ sessions' = [sessions EXCEPT ![k] = SessionOf(k)']
        /\ call'[k] = r
    BY <1>1, <1>2, <2>1, SessionChange
  <2>3. w \in Registration /\ reg[w].pc = "serving" /\ reg[w].ep = call[k].ep
    BY <1>6, <2>1 DEF HandOver, Receiving, IInv, Calls, CallsConsistent,
                      CallConsistent, Known, Dialled
  <2>4. listeners[w] = call[k].ep
    BY <2>3 DEF listeners, Listening
  <2>5. SessionOf(k)' = [state |-> "routed", dialled |-> call[k].ep, to |-> w]
    BY <2>1, <2>2 DEF SessionOf, Dialled
  <2>6. SessionOf(k) = [state |-> "waiting", dialled |-> call[k].ep, to |-> None]
    BY <1>6 DEF HandOver, SessionOf
  <2>7. sessions[k].state = "waiting" /\ sessions[k].dialled = call[k].ep
    BY <1>2, <2>6
  <2> QED
    BY <2>2, <2>3, <2>4, <2>5, <2>7 DEF Service!Route, sessions, listeners
<1>7. ASSUME OpenReverse(k) PROVE Service!Open(k)
  <2> DEFINE r == [call[k] EXCEPT !.pc = "open"]
  <2>1. call' = [call EXCEPT ![k] = r] /\ call[k] \in Dialled
    BY <1>2, <1>7 DEF OpenReverse
  <2>2. /\ UNCHANGED listeners
        /\ sessions' = [sessions EXCEPT ![k] = SessionOf(k)']
        /\ call'[k] = r
    BY <1>1, <1>2, <2>1, SessionChange
  <2>3. SessionOf(k)' = [state |-> "open", dialled |-> call[k].ep, to |-> call[k].to]
    BY <2>1, <2>2 DEF SessionOf, Dialled
  <2>4. SessionOf(k) = [state |-> "routed", dialled |-> call[k].ep, to |-> call[k].to]
    BY <1>7 DEF OpenReverse, SessionOf
  <2>5. SessionOf(k)' = [sessions[k] EXCEPT !.state = "open"]
    BY <1>2, <2>3, <2>4
  <2> QED
    BY <1>2, <2>2, <2>4, <2>5 DEF Service!Open, sessions, listeners
<1>8. ASSUME PeerRefuses(k) \/ HangUp(k) PROVE Service!End(k)
  <2> DEFINE r == [call[k] EXCEPT !.pc = "over"]
  <2>1. call' = [call EXCEPT ![k] = r] /\ call[k] \in Dialled
    BY <1>2, <1>8 DEF PeerRefuses, HangUp
  <2>2. /\ UNCHANGED listeners
        /\ sessions' = [sessions EXCEPT ![k] = SessionOf(k)']
        /\ call'[k] = r
    BY <1>1, <1>2, <2>1, SessionChange
  <2>3. SessionOf(k)' = [state |-> "over", dialled |-> call[k].ep, to |-> call[k].to]
    BY <2>1, <2>2 DEF SessionOf, Dialled
  <2>4. /\ SessionOf(k).state \in {"routed", "open"}
        /\ SessionOf(k) = [state |-> SessionOf(k).state, dialled |-> call[k].ep,
                          to |-> call[k].to]
    BY <1>8 DEF PeerRefuses, HangUp, SessionOf
  <2>5. SessionOf(k)' = [sessions[k] EXCEPT !.state = "over"]
    BY <1>2, <2>3, <2>4
  <2> QED
    BY <1>2, <2>2, <2>4, <2>5 DEF Service!End, sessions, listeners
<1>9. \/ Refuse(k) /\ call[k].pc \in {"dialing", "found", "offering"}
      \/ \E c \in Conn, e \in Endpoint : Dial(k, c, e)
      \/ ~Refuse(k) /\ (GetLB(k) \/ PickWorker(k))
      \/ HandOver(k) \/ OpenReverse(k) \/ PeerRefuses(k) \/ HangUp(k)
      \/ UNCHANGED call
  <2>1. Tunnels
    BY DEF IInv
  <2> QED
    BY <2>1, CopyingEndsCalls
       DEF CallStep, RejectChannel, GetLB, PickWorker, AbandonOffer
<1>10. ASSUME UNCHANGED call PROVE UNCHANGED <<listeners, sessions>>
  BY <1>1, <1>10 DEF listeners, Listening, sessions, SessionOf
<1> QED
  BY <1>3, <1>4, <1>5, <1>6, <1>7, <1>8, <1>9, <1>10
     DEF Service!Next, Service!vars, listeners, sessions

(* The gateway implements TunnelService: whatever its goroutines interleave, *)
(* a dialled session is given to at most one listener, which listens on the  *)
(* dialled endpoint when it is given, and is over for good once it is over.  *)
THEOREM Refinement == Spec => ImplementsTunnelService
<1>1. Init => Service!Init
  BY DEF Init, Service!Init, Listening, SessionOf, NoReg, NoCall
<1>2. IInv /\ [Next]_vars => [Service!Next]_(Service!vars)
  <2> SUFFICES ASSUME IInv, [Next]_vars PROVE [Service!Next]_(Service!vars)
    OBVIOUS
  <2>1. ASSUME UNCHANGED <<reg, call>> PROVE UNCHANGED Service!vars
    BY <2>1 DEF Service!vars, Listening, SessionOf
  <2>2. ASSUME NEW c \in Conn, ConnStep(c) PROVE UNCHANGED <<reg, call>>
    BY <2>2 DEF ConnStep, Disconnect, Cancel, CancelReturn
  <2> QED
    BY <2>1, <2>2, RegsRefine, CallsRefine DEF Next, vars
<1> QED
  BY <1>1, <1>2, InductiveInvariant, PTL
     DEF Spec, ImplementsTunnelService, Service!Spec
=============================================================================
