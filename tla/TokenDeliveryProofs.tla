------------------------- MODULE TokenDeliveryProofs -------------------------
(***************************************************************************)
(* Proofs about TokenDelivery, for any set of requests, goroutines and API *)
(* instances, any number of tokens, faults and stops of instances.         *)
(***************************************************************************)
EXTENDS TokenDelivery, SequenceLemmas, FiniteSetTheorems, TLAPS

-----------------------------------------------------------------------------
(* The composition is a router *)

\* The theorems about the router, for the router of this module.
RP == INSTANCE StreamRouterProofs WITH MaxCrashes <- 0, MaxStops <- 0

\* The assumption under which they were proved.
LEMMA RouterAssumed == RP!RouterAssumption
BY DeliveryAssumption DEF RP!RouterAssumption

\* No restart: the streaming worker stays up.
StaysUp == phase = "up" /\ rewound = FALSE

\* Init is one of the router.
LEMMA RouterInit == Init => RP!Init /\ StaysUp
BY DEF Init, Router!Init, RP!Init, StaysUp, Router!NoToken, RP!NoToken

\* The steps of the use case are steps of the router or leave it alone.
LEMMA RouterStep == [Next]_vars => [RP!Next]_(RP!routerVars)
<1> SUFFICES ASSUME [Next]_vars PROVE RP!Next \/ UNCHANGED RP!routerVars
  OBVIOUS
<1> USE DEF router, RP!routerVars, RP!source, RP!reader, RP!workers, RP!process, RP!history,
            Router!source, Router!reader, Router!workers, Router!process, Router!history
<1>1. ASSUME NEW g \in Goroutines, Router!AfterExecute(g) PROVE RP!AfterExecute(g)
  BY <1>1 DEF Router!AfterExecute, RP!AfterExecute, Router!Done, RP!Done, Router!NoToken, RP!NoToken
<1>2. ASSUME NEW r \in Requests, Router!PublishToken(r) PROVE RP!PublishToken(r)
  BY <1>2 DEF Router!PublishToken, RP!PublishToken, Router!Done, RP!Done
<1>3. Router!LoopStep => RP!LoopStep
  BY DEF Router!LoopStep, RP!LoopStep, Router!Fetch, RP!Fetch, Router!Route, RP!Route, Router!Send,
    RP!Send, Router!Running, RP!Running, Router!Hand, RP!Hand, Router!Spawn, RP!Spawn
<1>4. ASSUME NEW g \in Goroutines, Router!Receive(g) PROVE RP!Receive(g)
  BY <1>4 DEF Router!Receive, RP!Receive
<1>5. ASSUME NEW g \in Goroutines, Router!Timeout(g) PROVE RP!Timeout(g)
  BY <1>5 DEF Router!Timeout, RP!Timeout
<1>6. ASSUME NEW g \in Goroutines, Router!Leave(g) PROVE RP!Leave(g)
  BY <1>6 DEF Router!Leave, RP!Leave
<1>7. CASE \E r \in Requests : Generate(r)
  BY <1>7, <1>2 DEF Generate, RP!Next
<1>8. CASE RouterLoop
  BY <1>8, <1>3 DEF RouterLoop, RP!LoopStep, RP!Next
<1>9. CASE \E g \in Goroutines : RequestTimeout(g) \/ RequestLeave(g) \/ Execute(g)
  BY <1>9, <1>4, <1>5, <1>6 DEF RequestTimeout, RequestLeave, Execute, RP!Next
<1>10. CASE \E g \in Goroutines : ResolveAddr(g) \/ OpenStream(g) \/ SendToken(g) \/ CloseAndRecv(g)
  <2>1. PICK g \in Goroutines : Router!AfterExecute(g) \/ UNCHANGED router
    BY <1>10 DEF ResolveAddr, OpenStream, SendToken, CloseAndRecv, Return
  <2> QED  BY <1>1, <2>1 DEF RP!Next
<1>11. ASSUME NEW r \in Requests,
              \/ Claim(r) \/ Register(r) \/ SetCallback(r) \/ PublishRequest(r) \/ Forward(r)
              \/ Disconnect(r) \/ ExpireCallback(r) \/ Deliver(r) \/ DeliverLate(r) \/ Ack(r) \/ Break(r)
       PROVE  UNCHANGED router
  BY <1>11 DEF Claim, Register, SetCallback, PublishRequest, Forward, Disconnect,
    ExpireCallback, Deliver, DeliverLate, Ack, Break
<1>12. ASSUME NEW g \in Goroutines, GetConn(g) \/ Dial(g) PROVE UNCHANGED router
  BY <1>12 DEF GetConn, Dial
<1>13. ASSUME NEW a \in Apis, ApiStop(a) \/ GrpcStopped(a) \/ HttpStopped(a) PROVE UNCHANGED router
  BY <1>13 DEF ApiStop, GrpcStopped, HttpStopped
<1>14. UNCHANGED vars => UNCHANGED router
  BY DEF vars
<1> QED  BY <1>7, <1>8, <1>9, <1>10, <1>11, <1>12, <1>13, <1>14 DEF Next

\* The delivery path implements StreamRouter: whatever useCase.Execute does in
\* "exec" leaves the router's promises alone.
THEOREM ImplementsRouter == Spec => RP!Spec
BY RouterInit, RouterStep, PTL DEF Spec, RP!Spec

-----------------------------------------------------------------------------
(* Types *)

\* What the steps below use of the router's invariant, in the terms of this
\* module.
LEMMA RouterFacts ==
  ASSUME RP!RouterInv
  PROVE  /\ gpc \in [Goroutines -> {"free", "select", "exec", "exit"}]
         /\ req \in [Goroutines -> Requests \cup {NoRequest}]
         /\ queue \in [Goroutines -> Seq(1 .. Done)] /\ cur \in [Goroutines -> 0 .. Done]
         /\ executed \in [Requests -> Seq(1 .. Done)]
         /\ hurt \in SUBSET Requests /\ Done \in Nat \ {0} /\ Done = NumTokens + 1
         /\ \A g \in Goroutines : gpc[g] # "free" => req[g] \in Requests /\ channels[req[g]] = g
         /\ \A g, h \in Goroutines : gpc[g] # "free" /\ gpc[h] # "free" /\ req[g] = req[h] => g = h
<1>1. Done = RP!Done /\ Done \in Nat \ {0} /\ Done = NumTokens + 1
  BY DeliveryAssumption DEF Done, Router!Done, RP!Done
<1>2. RP!TypeOK /\ RP!Serving /\ RP!EntryOwnsGoroutine
  BY DEF RP!RouterInv, RP!TypeInv
<1>3. gpc \in [Goroutines -> {"free", "select", "exec", "exit"}]
  BY <1>2 DEF RP!TypeOK, RP!Live
<1>4. \A g \in Goroutines : gpc[g] # "free" => gpc[g] \in RP!Live
  BY <1>3 DEF RP!Live
<1>5. \A g \in Goroutines : gpc[g] # "free" => req[g] \in Requests /\ channels[req[g]] = g
  BY <1>2, <1>4 DEF RP!Serving, RP!EntryOwnsGoroutine
<1> QED  BY <1>1, <1>2, <1>3, <1>5 DEF RP!TypeOK

\* TypeOK by component.
ApiTypes ==
  /\ hpc \in [Requests -> {"new", "register", "callback", "publish", "stream", "ended"}]
  /\ pending \in SUBSET Requests /\ requested \in SUBSET Requests
  /\ hubCh \in [Requests -> Seq(1 .. Done)] /\ \A r \in Requests : Len(hubCh[r]) <= HubCap
  /\ callback \in [Requests -> Addrs \cup {NoAddr}]
  /\ received \in [Requests -> Seq(1 .. Done)]
UseCaseTypes ==
  /\ xpc \in [Goroutines -> {"idle", "resolve", "conn", "dial", "open", "send", "close"}]
  /\ \A g \in Goroutines : gpc[g] # "exec" <=> xpc[g] = "idle"
  /\ streams \in SUBSET Requests /\ addrMap \in [Requests -> Addrs \cup {NoAddr}]
  /\ connMap \in SUBSET Addrs
GrpcTypes ==
  /\ stream \in [Requests -> {"none", "open", "halfclosed", "acked", "broken"}]
  /\ wire \in [Requests -> Seq(1 .. Done)] /\ sapi \in [Requests -> Apis]
  /\ late \in [Requests -> SUBSET (1 .. Done)] /\ torn \in SUBSET Requests
FaultTypes ==
  /\ faults \in 0 .. MaxFaults /\ faulty \in SUBSET Requests
  /\ server \in [Apis -> {"up", "draining", "closing", "down"}]

\* The parts are TypeOK.
LEMMA TypeParts == TypeOK <=> ApiTypes /\ UseCaseTypes /\ GrpcTypes /\ FaultTypes
BY DEF TypeOK, ApiTypes, UseCaseTypes, GrpcTypes, FaultTypes

\* A goroutine in Execute has a token, and beyond getConn an address.
Equipped ==
  /\ \A g \in Goroutines : gpc[g] = "exec" => cur[g] \in 1 .. Done
  /\ \A g \in Goroutines : xpc[g] \in {"conn", "dial"} => addrMap[req[g]] # NoAddr

DeliveryTypes == ApiTypes /\ UseCaseTypes /\ GrpcTypes /\ FaultTypes /\ Equipped

\* Init establishes the types.
LEMMA DeliveryTypesInit == Init => DeliveryTypes
<1> SUFFICES ASSUME Init PROVE DeliveryTypes
  OBVIOUS
<1>1. << >> \in Seq(1 .. Done) /\ Len(<< >>) = 0
  OBVIOUS
<1>2. \A g \in Goroutines : gpc[g] = "free"
  BY DEF Init, Router!Init
<1>3. ApiTypes
  BY <1>1, DeliveryAssumption DEF Init, ApiTypes
<1>4. UseCaseTypes /\ Equipped
  BY <1>2 DEF Init, UseCaseTypes, Equipped
<1>5. GrpcTypes /\ FaultTypes
  BY <1>1, DeliveryAssumption DEF Init, GrpcTypes, FaultTypes
<1> QED  BY <1>3, <1>4, <1>5 DEF DeliveryTypes

\* The address of an instance is one of Addrs.
LEMMA AddrOf == \A a \in Apis : Advertised[a] \in Addrs /\ Advertised[a] # NoAddr
BY DeliveryAssumption DEF Addrs

\* A fault is counted up to its bound.
LEMMA FaultStep ==
  ASSUME FaultTypes, NEW r \in Requests, Fault(r) \/ NoFault
  PROVE  FaultTypes'
BY DeliveryAssumption DEF FaultTypes, Fault, NoFault, fault

\* HubDeliver keeps the channels within their capacity.
LEMMA HubDeliverType ==
  ASSUME ApiTypes, NEW r \in Requests, NEW n \in 1 .. Done, HubDeliver(r, n)
  PROVE  hubCh' \in [Requests -> Seq(1 .. Done)] /\ \A q \in Requests : Len(hubCh'[q]) <= HubCap
<1>1. hubCh[r] \in Seq(1 .. Done) /\ HubCap \in Nat
  BY DeliveryAssumption DEF ApiTypes
<1>2. Append(hubCh[r], n) \in Seq(1 .. Done) /\ Len(Append(hubCh[r], n)) = Len(hubCh[r]) + 1 /\ Len(hubCh[r]) \in Nat
  BY <1>1, AppendProperties, LenProperties
<1>3. CASE hubCh' = [hubCh EXCEPT ![r] = Append(@, n)] /\ Len(hubCh[r]) < HubCap
  <2>1. Len(Append(hubCh[r], n)) <= HubCap
    BY <1>1, <1>2, <1>3
  <2> QED  BY <1>2, <1>3, <2>1 DEF ApiTypes
<1>4. CASE UNCHANGED hubCh
  BY <1>4 DEF ApiTypes
<1> QED  BY <1>3, <1>4 DEF HubDeliver

\* The handler's steps keep the types.
LEMMA HandlerTypes ==
  ASSUME DeliveryTypes, RP!RouterInv, NEW r \in Requests,
         \/ Claim(r) \/ Register(r) \/ SetCallback(r) \/ PublishRequest(r) \/ Forward(r)
         \/ Disconnect(r) \/ ExpireCallback(r)
  PROVE  DeliveryTypes'
<1> USE DEF DeliveryTypes, router, useCase, grpc, fault, NoFault
<1>1. UNCHANGED <<gpc, cur, req, xpc, streams, addrMap, connMap, stream, wire, sapi, late, torn>>
  BY DEF Claim, Register, SetCallback, PublishRequest, Forward, Disconnect, ExpireCallback
<1>2. UseCaseTypes' /\ GrpcTypes' /\ Equipped'
  BY <1>1 DEF UseCaseTypes, GrpcTypes, Equipped
<1>3. FaultTypes'
  <2>1. Fault(r) \/ NoFault
    BY DEF Claim, Register, SetCallback, PublishRequest, Forward, Disconnect, ExpireCallback
  <2> QED  BY <2>1, FaultStep
<1>4. ApiTypes'
  <2>1. CASE Claim(r) \/ Disconnect(r)
    BY <2>1 DEF Claim, Disconnect, At, ApiTypes
  <2>2. CASE Register(r)
    <3>1. << >> \in Seq(1 .. Done) /\ Len(<< >>) = 0 /\ HubCap \in Nat
      BY DeliveryAssumption
    <3> QED  BY <2>2, <3>1 DEF Register, At, ApiTypes
  <2>3. CASE SetCallback(r) \/ ExpireCallback(r)
    BY <2>3, AddrOf, DeliveryAssumption DEF SetCallback, ExpireCallback, At, ApiTypes
  <2>4. CASE PublishRequest(r)
    BY <2>4 DEF PublishRequest, At, ApiTypes
  <2>5. CASE Forward(r)
    <3>1. hubCh[r] \in Seq(1 .. Done) /\ hubCh[r] # << >> /\ received[r] \in Seq(1 .. Done)
      BY <2>5 DEF Forward, ApiTypes
    <3>2. Head(hubCh[r]) \in 1 .. Done /\ Tail(hubCh[r]) \in Seq(1 .. Done) /\ Len(Tail(hubCh[r])) = Len(hubCh[r]) - 1
      BY <3>1, HeadTailProperties
    <3>3. Append(received[r], Head(hubCh[r])) \in Seq(1 .. Done)
      BY <3>1, <3>2, AppendProperties
    <3>4. Len(Tail(hubCh[r])) <= HubCap
      BY <3>1, <3>2, LenProperties, DeliveryAssumption DEF ApiTypes
    <3>5. received' \in [Requests -> Seq(1 .. Done)] /\ hubCh' \in [Requests -> Seq(1 .. Done)]
      BY <2>5, <3>2, <3>3 DEF Forward, ApiTypes
    <3>6. \A q \in Requests : Len(hubCh'[q]) <= HubCap
      BY <2>5, <3>4 DEF Forward, ApiTypes
    <3>7. hpc' \in [Requests -> {"new", "register", "callback", "publish", "stream", "ended"}]
      BY <2>5 DEF Forward, ApiTypes
    <3> QED  BY <2>5, <3>5, <3>6, <3>7 DEF Forward, ApiTypes
  <2> QED  BY <2>1, <2>2, <2>3, <2>4, <2>5
<1> QED  BY <1>2, <1>3, <1>4

\* The other steps of the router neither start nor end a call of Execute.
LEMMA RouterExec ==
  ASSUME RP!RouterInv,
         \/ \E r \in Requests : Generate(r)
         \/ RouterLoop
         \/ \E g \in Goroutines : RequestTimeout(g) \/ RequestLeave(g)
  PROVE  /\ \A g \in Goroutines : gpc'[g] = "exec" <=> gpc[g] = "exec"
         /\ \A g \in Goroutines : gpc[g] = "exec" => req'[g] = req[g]
<1> USE DEF router
<1>0. gpc \in [Goroutines -> {"free", "select", "exec", "exit"}] /\ req \in [Goroutines -> Requests \cup {NoRequest}]
  BY RouterFacts
<1>1. CASE \E g \in Goroutines : RequestTimeout(g) \/ RequestLeave(g)
  BY <1>0, <1>1 DEF RequestTimeout, RequestLeave, Router!Timeout, Router!Leave
<1>2. CASE \/ \E r \in Requests : Generate(r)
           \/ Router!Fetch \/ Router!Send
  BY <1>0, <1>2 DEF Generate, Router!PublishToken, Router!Fetch, Router!Send, Router!workers
<1>3. CASE Router!Route
  <2>1. CASE UNCHANGED Router!workers
    BY <2>1 DEF Router!workers
  <2>2. ASSUME NEW g \in Goroutines, Router!Spawn(g, Router!Hand.req)
        PROVE  \A h \in Goroutines : (gpc'[h] = "exec" <=> gpc[h] = "exec") /\ (gpc[h] = "exec" => req'[h] = req[h])
    BY <1>0, <2>2 DEF Router!Spawn
  <2> QED  BY <1>3, <2>1, <2>2 DEF Router!Route
<1> QED  BY <1>1, <1>2, <1>3 DEF RouterLoop, Router!LoopStep

\* The steps of the router keep the types.
LEMMA RouterTypes ==
  ASSUME DeliveryTypes, RP!RouterInv,
         \/ \E r \in Requests : Generate(r)
         \/ RouterLoop
         \/ \E g \in Goroutines : RequestTimeout(g) \/ RequestLeave(g)
  PROVE  DeliveryTypes'
<1> USE DEF DeliveryTypes, router, api, useCase, grpc, fault
<1>1. UNCHANGED <<api, useCase, grpc, fault, cur>>
  BY DEF Generate, RouterLoop, RequestTimeout, RequestLeave, Router!PublishToken, Router!LoopStep,
    Router!Fetch, Router!Route, Router!Spawn, Router!Send, Router!Timeout, Router!Leave, Router!workers
<1>2. /\ \A g \in Goroutines : gpc'[g] = "exec" <=> gpc[g] = "exec"
      /\ \A g \in Goroutines : gpc[g] = "exec" => req'[g] = req[g]
  BY RouterExec
<1>3. ApiTypes' /\ GrpcTypes' /\ FaultTypes'
  BY <1>1 DEF ApiTypes, GrpcTypes, FaultTypes
<1>4. UseCaseTypes'
  BY <1>1, <1>2 DEF UseCaseTypes
<1>5. Equipped'
  <2>1. \A g \in Goroutines : xpc[g] \in {"conn", "dial"} => gpc[g] = "exec"
    BY DEF UseCaseTypes
  <2> QED  BY <1>1, <1>2, <2>1 DEF Equipped
<1> QED  BY <1>3, <1>4, <1>5

\* Execute returns: what changes in the router.
LEMMA ReturnFacts ==
  ASSUME RP!RouterInv, NEW g \in Goroutines, Router!AfterExecute(g)
  PROVE  /\ gpc[g] = "exec" /\ gpc' \in [Goroutines -> {"free", "select", "exec", "exit"}]
         /\ gpc'[g] = IF cur[g] = Done THEN "exit" ELSE "select"
         /\ \A h \in Goroutines \ {g} : gpc'[h] = gpc[h] /\ cur'[h] = cur[h]
         /\ UNCHANGED <<topic, emitted, loop, pos, channels, req, queue, executed, hurt, phase, rewound>>
BY RouterFacts DEF Router!AfterExecute, Done, Router!source, Router!reader, Router!process, Router!history

\* Execute is called: what changes in the router.
LEMMA ReceiveFacts ==
  ASSUME RP!RouterInv, NEW g \in Goroutines, Router!Receive(g)
  PROVE  /\ gpc[g] = "select" /\ gpc'[g] = "exec" /\ req[g] \in Requests
         /\ queue[g] \in Seq(1 .. Done) /\ queue[g] # << >>
         /\ cur'[g] = Head(queue[g]) /\ Head(queue[g]) \in 1 .. Done
         /\ executed' = [executed EXCEPT ![req[g]] = Append(executed[req[g]], Head(queue[g]))]
         /\ \A h \in Goroutines \ {g} : gpc'[h] = gpc[h] /\ cur'[h] = cur[h]
         /\ UNCHANGED <<topic, emitted, loop, pos, channels, req, hurt, phase, rewound>>
<1>1. /\ gpc[g] = "select" /\ gpc'[g] = "exec" /\ req[g] \in Requests
      /\ queue[g] \in Seq(1 .. Done) /\ queue[g] # << >>
      /\ cur'[g] = Head(queue[g])
      /\ executed' = [executed EXCEPT ![req[g]] = Append(executed[req[g]], Head(queue[g]))]
      /\ \A h \in Goroutines \ {g} : gpc'[h] = gpc[h] /\ cur'[h] = cur[h]
      /\ UNCHANGED <<topic, emitted, loop, pos, channels, req, hurt, phase, rewound>>
  BY RouterFacts DEF Router!Receive, Router!source, Router!reader, Router!process
<1>2. Head(queue[g]) \in 1 .. Done
  BY <1>1, HeadTailProperties
<1> QED  BY <1>1, <1>2

\* The steps of Execute keep the types.
LEMMA ExecuteTypes ==
  ASSUME DeliveryTypes, RP!RouterInv, NEW g \in Goroutines, ExecuteStep(g)
  PROVE  DeliveryTypes'
<1> USE DEF DeliveryTypes, router, api, fault, NoFault
<1>0. /\ UNCHANGED api
      /\ xpc[g] # "idle" => gpc[g] = "exec" /\ req[g] \in Requests /\ cur[g] \in 1 .. Done
      /\ \A h \in Goroutines \ {g} : xpc[h] \in {"conn", "dial"} => gpc[h] = "exec" /\ req[h] # req[g]
      /\ \A h \in Goroutines : xpc[h] \in {"conn", "dial"} => req[h] \in Requests
      /\ gpc \in [Goroutines -> {"free", "select", "exec", "exit"}]
  <2>1. UNCHANGED api
    BY DEF ExecuteStep, Execute, ResolveAddr, GetConn, Dial, OpenStream, SendToken, CloseAndRecv
  <2>2. xpc[g] # "idle" => gpc[g] = "exec"
    BY DEF UseCaseTypes
  <2>3. \A h \in Goroutines \ {g} : xpc[h] \in {"conn", "dial"} => gpc[h] = "exec"
    BY DEF UseCaseTypes
  <2>4. gpc[g] # "free"
    BY <2>2 DEF ExecuteStep, Execute, ResolveAddr, GetConn, Dial, OpenStream, SendToken, CloseAndRecv, X,
      Router!Receive
  <2> QED  BY <2>1, <2>2, <2>3, <2>4, RouterFacts DEF Equipped, UseCaseTypes
<1>1. ApiTypes'
  BY <1>0 DEF ApiTypes
<1>2. CASE Execute(g)
  <2>1. UNCHANGED <<api, streams, addrMap, connMap, grpc, fault, req>>
    BY <1>2, ReceiveFacts DEF Execute
  <2>2. /\ gpc'[g] = "exec" /\ cur'[g] \in 1 .. Done /\ xpc'[g] \in {"send", "resolve"}
        /\ \A h \in Goroutines \ {g} : gpc'[h] = gpc[h] /\ cur'[h] = cur[h] /\ xpc'[h] = xpc[h]
        /\ xpc' \in [Goroutines -> {"idle", "resolve", "conn", "dial", "open", "send", "close"}]
    BY <1>2, ReceiveFacts DEF Execute, X, UseCaseTypes
  <2>3. UseCaseTypes' /\ Equipped'
    BY <2>1, <2>2 DEF UseCaseTypes, Equipped
  <2>4. GrpcTypes' /\ FaultTypes'
    BY <2>1 DEF GrpcTypes, FaultTypes, grpc
  <2> QED  BY <1>1, <2>3, <2>4
<1>3. CASE GetConn(g) \/ Dial(g)
  <2>1. UNCHANGED <<gpc, cur, req, streams, addrMap, grpc, fault>>
    BY <1>3 DEF GetConn, Dial
  <2>2. xpc[g] \in {"conn", "dial"} /\ addrMap[req[g]] \in Addrs /\ req[g] \in Requests
    BY <1>0, <1>3 DEF GetConn, Dial, X, Equipped, UseCaseTypes
  <2>3. UseCaseTypes' /\ Equipped'
    BY <1>3, <2>1, <2>2 DEF GetConn, Dial, X, UseCaseTypes, Equipped
  <2>4. GrpcTypes' /\ FaultTypes'
    BY <2>1 DEF GrpcTypes, FaultTypes, grpc
  <2> QED  BY <1>1, <2>3, <2>4
<1>4. ASSUME xpc[g] # "idle", xpc' = [xpc EXCEPT ![g] = "idle"], Router!AfterExecute(g), UNCHANGED connMap,
             streams' \in SUBSET Requests, addrMap' \in [Requests -> Addrs \cup {NoAddr}],
             \A q \in Requests : q # req[g] => addrMap'[q] = addrMap[q]
      PROVE  UseCaseTypes' /\ Equipped'
  <2>1. /\ gpc'[g] # "exec" /\ req' = req
        /\ \A h \in Goroutines \ {g} : gpc'[h] = gpc[h] /\ cur'[h] = cur[h]
    BY <1>4, ReturnFacts
  <2>2. UseCaseTypes'
    BY <1>4, <2>1 DEF UseCaseTypes
  <2>3. Equipped'
    BY <1>0, <1>4, <2>1 DEF UseCaseTypes, Equipped
  <2> QED  BY <2>2, <2>3
<1>5. CASE ResolveAddr(g)
  <2>1. xpc[g] = "resolve" /\ req[g] \in Requests /\ UNCHANGED <<streams, connMap, grpc>> /\ (Fault(req[g]) \/ NoFault)
    BY <1>0, <1>5 DEF ResolveAddr
  <2>2. GrpcTypes' /\ FaultTypes'
    BY <2>1, FaultStep DEF GrpcTypes, grpc
  <2>3. CASE Return(g, "resolve") /\ UNCHANGED addrMap
    BY <1>4, <2>1, <2>2, <2>3, <1>1 DEF Return, X, UseCaseTypes
  <2>4. CASE /\ X(g, "resolve", "conn") /\ UNCHANGED router
             /\ addrMap' = [addrMap EXCEPT ![req[g]] = IF addrMap[req[g]] # NoAddr THEN addrMap[req[g]] ELSE callback[req[g]]]
             /\ addrMap'[req[g]] # NoAddr
    <3>1. UNCHANGED <<gpc, cur, req>> /\ xpc' = [xpc EXCEPT ![g] = "conn"]
      BY <2>4 DEF X
    <3>2. addrMap' \in [Requests -> Addrs \cup {NoAddr}] /\ \A q \in Requests : q # req[g] => addrMap'[q] = addrMap[q]
      BY <2>1, <2>4 DEF UseCaseTypes, ApiTypes
    <3>3. UseCaseTypes'
      BY <2>1, <3>1, <3>2 DEF UseCaseTypes
    <3>4. Equipped'
      BY <1>0, <2>4, <3>1, <3>2 DEF UseCaseTypes, Equipped
    <3> QED  BY <1>1, <2>2, <3>3, <3>4
  <2>5. addrMap[req[g]] # NoAddr => addrMap = [addrMap EXCEPT ![req[g]] = addrMap[req[g]]]
    BY <2>1 DEF UseCaseTypes
  <2> QED  BY <1>5, <2>1, <2>3, <2>4, <2>5 DEF ResolveAddr, UseCaseTypes
<1>6. CASE OpenStream(g)
  <2>1. xpc[g] = "open" /\ req[g] \in Requests /\ UNCHANGED <<addrMap, connMap>>
    BY <1>0, <1>6 DEF OpenStream
  <2>2. FaultTypes'
    <3>1. \/ Fault(req[g]) \/ NoFault
          \/ faulty' = faulty \cup {req[g]} /\ UNCHANGED <<faults, server>>
      BY <1>6 DEF OpenStream
    <3> QED  BY <2>1, <3>1, FaultStep DEF FaultTypes
  <2>3. CASE Return(g, "open") /\ UNCHANGED <<streams, grpc>>
    BY <1>4, <2>1, <2>2, <2>3, <1>1 DEF Return, X, UseCaseTypes, GrpcTypes, grpc
  <2>4. ASSUME NEW a \in Apis, UNCHANGED <<router, late, torn>>, X(g, "open", "send"),
               streams' = streams \cup {req[g]}, stream' = [stream EXCEPT ![req[g]] = "open"],
               wire' = [wire EXCEPT ![req[g]] = << >>], sapi' = [sapi EXCEPT ![req[g]] = a]
        PROVE  DeliveryTypes'
    <3>1. << >> \in Seq(1 .. Done)
      OBVIOUS
    <3>2. GrpcTypes'
      BY <2>1, <2>4, <3>1 DEF GrpcTypes
    <3>3. UNCHANGED <<gpc, cur, req>> /\ xpc' = [xpc EXCEPT ![g] = "send"]
      BY <2>4 DEF X
    <3>4. UseCaseTypes' /\ Equipped'
      BY <2>1, <2>4, <3>3 DEF UseCaseTypes, Equipped
    <3> QED  BY <1>1, <2>2, <3>2, <3>4
  <2> QED  BY <1>6, <2>3, <2>4 DEF OpenStream
<1>7. CASE SendToken(g) \/ CloseAndRecv(g)
  <2>1. /\ xpc[g] \in {"send", "close"} /\ req[g] \in Requests /\ cur[g] \in 1 .. Done
        /\ UNCHANGED <<connMap, sapi, late, torn, fault>>
    BY <1>0, <1>7 DEF SendToken, CloseAndRecv, grpc
  <2>2. FaultTypes'
    BY <2>1 DEF FaultTypes
  <2>3. Append(wire[req[g]], cur[g]) \in Seq(1 .. Done)
    BY <2>1, AppendProperties DEF GrpcTypes
  <2>4. GrpcTypes'
    <3>1. /\ \/ wire' = [wire EXCEPT ![req[g]] = Append(wire[req[g]], cur[g])]
             \/ UNCHANGED wire
          /\ stream' = [stream EXCEPT ![req[g]] = "halfclosed"] \/ UNCHANGED stream
      BY <1>7 DEF SendToken, CloseAndRecv, grpc
    <3> QED  BY <2>1, <2>3, <3>1 DEF GrpcTypes
  <2>5. CASE /\ xpc' = [xpc EXCEPT ![g] = "idle"] /\ Router!AfterExecute(g)
             /\ Evict(req[g]) \/ UNCHANGED <<streams, addrMap>>
    <3>1. /\ streams' \in SUBSET Requests /\ addrMap' \in [Requests -> Addrs \cup {NoAddr}]
          /\ \A q \in Requests : q # req[g] => addrMap'[q] = addrMap[q]
      BY <2>1, <2>5 DEF Evict, UseCaseTypes
    <3> QED  BY <1>1, <1>4, <2>1, <2>2, <2>4, <2>5, <3>1
  <2>6. CASE X(g, "send", "close") /\ UNCHANGED <<router, streams, addrMap>>
    <3>3. UNCHANGED <<gpc, cur, req>> /\ xpc' = [xpc EXCEPT ![g] = "close"]
      BY <2>6 DEF X
    <3>4. UseCaseTypes' /\ Equipped'
      BY <2>1, <2>6, <3>3 DEF UseCaseTypes, Equipped
    <3> QED  BY <1>1, <2>2, <2>4, <3>4
  <2> QED  BY <1>7, <2>5, <2>6 DEF SendToken, CloseAndRecv, Return, X
<1> QED  BY <1>2, <1>3, <1>5, <1>6, <1>7 DEF ExecuteStep

\* The steps of gRPC and of the API's stop keep the types.
LEMMA ServerTypes ==
  ASSUME DeliveryTypes,
         \/ \E r \in Requests : Deliver(r) \/ DeliverLate(r) \/ Ack(r) \/ Break(r)
         \/ \E a \in Apis : ApiStop(a) \/ GrpcStopped(a) \/ HttpStopped(a)
  PROVE  DeliveryTypes'
<1> USE DEF DeliveryTypes
<1>0. /\ UNCHANGED <<gpc, cur, req, useCase>>
      /\ UNCHANGED <<hpc, pending, callback, requested, received>>
  BY DEF router, api, Deliver, DeliverLate, Ack, Break, ApiStop, GrpcStopped, HttpStopped
<1>1. UseCaseTypes' /\ Equipped'
  BY <1>0 DEF useCase, UseCaseTypes, Equipped
<1>2. ASSUME NEW r \in Requests, Deliver(r) PROVE DeliveryTypes'
  <2>1. wire[r] \in Seq(1 .. Done) /\ wire[r] # << >>
    BY <1>2 DEF Deliver, GrpcTypes
  <2>2. Head(wire[r]) \in 1 .. Done /\ Tail(wire[r]) \in Seq(1 .. Done)
    BY <2>1, HeadTailProperties
  <2>3. HubDeliver(r, Head(wire[r])) \/ UNCHANGED hubCh
    BY <1>2 DEF Deliver
  <2>4. ApiTypes'
    BY <1>0, <2>2, <2>3, HubDeliverType DEF ApiTypes
  <2>5. GrpcTypes' /\ FaultTypes'
    BY <1>2, <2>2 DEF Deliver, GrpcTypes, FaultTypes, fault
  <2> QED  BY <1>1, <2>4, <2>5
<1>3. ASSUME NEW r \in Requests, DeliverLate(r) PROVE DeliveryTypes'
  <2>1. PICK n \in late[r] : late' = [late EXCEPT ![r] = @ \ {n}] /\ HubDeliver(r, n)
    BY <1>3 DEF DeliverLate
  <2>2. n \in 1 .. Done
    BY DEF GrpcTypes
  <2>3. ApiTypes'
    BY <1>0, <2>1, <2>2, HubDeliverType DEF ApiTypes
  <2>4. GrpcTypes' /\ FaultTypes'
    BY <1>3, <2>1 DEF DeliverLate, GrpcTypes, FaultTypes, fault
  <2> QED  BY <1>1, <2>3, <2>4
<1>4. ASSUME NEW r \in Requests, Ack(r) PROVE DeliveryTypes'
  BY <1>1, <1>4 DEF Ack, api, fault, ApiTypes, GrpcTypes, FaultTypes
<1>5. ASSUME NEW r \in Requests, Break(r) PROVE DeliveryTypes'
  <2>1. wire[r] \in Seq(1 .. Done) /\ << >> \in Seq(1 .. Done)
    BY DEF GrpcTypes
  <2>2. \A k \in 0 .. Len(wire[r]) : {wire[r][i] : i \in 1 .. k} \in SUBSET (1 .. Done)
    <3>1. \A k \in 0 .. Len(wire[r]) : \A i \in 1 .. k : i \in 1 .. Len(wire[r])
      BY <2>1, LenProperties
    <3> QED  BY <2>1, <3>1, ElementOfSeq
  <2>3. FaultTypes' /\ ApiTypes'
    BY <1>5, FaultStep DEF Break, api, ApiTypes
  <2>4. late' \in [Requests -> SUBSET (1 .. Done)]
    BY <1>5, <2>2 DEF Break, GrpcTypes
  <2>5. GrpcTypes'
    BY <1>5, <2>1, <2>4 DEF Break, GrpcTypes
  <2> QED  BY <1>1, <2>3, <2>5
<1>6. ASSUME NEW a \in Apis, ApiStop(a) \/ GrpcStopped(a) \/ HttpStopped(a) PROVE DeliveryTypes'
  <2>1. /\ UNCHANGED <<router, api, useCase, grpc, faults, faulty>>
        /\ \E u \in {"draining", "closing", "down"} : server' = [server EXCEPT ![a] = u]
    BY <1>6 DEF ApiStop, GrpcStopped, HttpStopped
  <2>2. ApiTypes' /\ GrpcTypes'
    BY <2>1, Zenon DEF api, grpc, ApiTypes, GrpcTypes
  <2>3. FaultTypes'
    BY <2>1 DEF FaultTypes
  <2> QED  BY <1>1, <2>2, <2>3
<1> QED  BY <1>2, <1>3, <1>4, <1>5, <1>6

\* Every step keeps the types.
LEMMA DeliveryTypesStep ==
  DeliveryTypes /\ RP!RouterInv /\ [Next]_vars => DeliveryTypes'
<1> SUFFICES ASSUME DeliveryTypes, RP!RouterInv, [Next]_vars PROVE DeliveryTypes'
  OBVIOUS
<1>1. CASE UNCHANGED vars
  BY <1>1 DEF DeliveryTypes, ApiTypes, UseCaseTypes, GrpcTypes, FaultTypes, Equipped, vars, router, api,
    useCase, grpc, fault
<1> QED  BY <1>1, HandlerTypes, RouterTypes, ExecuteTypes, ServerTypes DEF Next, ExecuteStep

\* Every variable of the delivery path holds a value of its kind.
THEOREM DeliveryTypesHold == Spec => []TypeOK
<1>1. Spec => []RP!RouterInv
  BY ImplementsRouter, RP!RouterInvariant, RouterAssumed, PTL
<1>2. DeliveryTypes => TypeOK
  BY TypeParts DEF DeliveryTypes
<1> QED  BY <1>1, <1>2, DeliveryTypesInit, DeliveryTypesStep, PTL DEF Spec

-----------------------------------------------------------------------------
(* The tokens in transit *)

\* b may come after a at the client of r: another token and, unless the stream
\* of r is one of the torn ones T, a later one.
Follows(T, r, a, b) == a # b /\ (r \notin T => a < b)

Sorted(T, r, s) == \A i, j \in DOMAIN s : i < j => Follows(T, r, s[i], s[j])
Ahead(T, r, s, t) == \A i \in DOMAIN s : \A j \in DOMAIN t : Follows(T, r, s[i], t[j])

\* R received, H in the hub channel, W on the wire and L held by a server that
\* has not heard of a break: no token twice, and in order unless torn.
Line(T, r, R, H, W, L) ==
  /\ Sorted(T, r, R) /\ Sorted(T, r, H) /\ Sorted(T, r, W)
  /\ Ahead(T, r, R, H) /\ Ahead(T, r, R, W) /\ Ahead(T, r, H, W)
  /\ \A n \in L : /\ r \in T
                  /\ \A i \in DOMAIN R : R[i] # n
                  /\ \A i \in DOMAIN H : H[i] # n
                  /\ \A i \in DOMAIN W : W[i] # n

\* A sequence that is a part of another.
LEMMA TailLine ==
  ASSUME NEW S, NEW s \in Seq(S), s # << >>, NEW T, NEW r
  PROVE  /\ \A i \in DOMAIN Tail(s) : i + 1 \in DOMAIN s /\ Tail(s)[i] = s[i + 1]
         /\ 1 \in DOMAIN s /\ Head(s) = s[1]
         /\ Sorted(T, r, s) => Sorted(T, r, Tail(s)) /\ \A i \in DOMAIN Tail(s) : Follows(T, r, Head(s), Tail(s)[i])
<1>1. /\ Len(s) \in Nat \ {0} /\ DOMAIN s = 1 .. Len(s) /\ Head(s) = s[1]
      /\ DOMAIN Tail(s) = 1 .. Len(s) - 1
      /\ \A i \in 1 .. Len(s) - 1 : Tail(s)[i] = s[i + 1]
  BY TailAt
<1>2. \A i \in DOMAIN Tail(s) : i \in Nat /\ i + 1 \in DOMAIN s /\ Tail(s)[i] = s[i + 1] /\ 1 < i + 1
  BY <1>1
<1>3. 1 \in DOMAIN s
  BY <1>1
<1>4. ASSUME Sorted(T, r, s) PROVE Sorted(T, r, Tail(s))
  <2> SUFFICES ASSUME NEW i \in DOMAIN Tail(s), NEW j \in DOMAIN Tail(s), i < j
               PROVE  Follows(T, r, Tail(s)[i], Tail(s)[j])
    BY DEF Sorted
  <2>1. i + 1 < j + 1
    BY <1>2
  <2> QED  BY <1>2, <1>4, <2>1 DEF Sorted
<1>5. ASSUME Sorted(T, r, s) PROVE \A i \in DOMAIN Tail(s) : Follows(T, r, Head(s), Tail(s)[i])
  BY <1>1, <1>2, <1>3, <1>5 DEF Sorted
<1> QED  BY <1>1, <1>2, <1>3, <1>4, <1>5

\* A sequence with one element more.
LEMMA AppendLine ==
  ASSUME NEW S, NEW s \in Seq(S), NEW e \in S, NEW T, NEW r
  PROVE  /\ \A i \in DOMAIN Append(s, e) : \/ i \in DOMAIN s /\ Append(s, e)[i] = s[i]
                                           \/ Append(s, e)[i] = e
         /\ Sorted(T, r, s) /\ (\A i \in DOMAIN s : Follows(T, r, s[i], e)) => Sorted(T, r, Append(s, e))
<1> DEFINE a == Append(s, e)
<1>1. /\ DOMAIN a = 1 .. Len(s) + 1 /\ Len(s) \in Nat /\ DOMAIN s = 1 .. Len(s)
      /\ \A i \in 1 .. Len(s) : a[i] = s[i]
      /\ a[Len(s) + 1] = e
  BY AppendAt, AppendProperties, LenProperties
<1> HIDE DEF a
<1>2. \A i \in DOMAIN a : (i \in DOMAIN s /\ a[i] = s[i]) \/ (i = Len(s) + 1 /\ a[i] = e)
  <2>1. \A i \in 1 .. Len(s) + 1 : i = Len(s) + 1 \/ i \in 1 .. Len(s)
    BY <1>1
  <2> QED  BY <1>1, <2>1
<1>3. ASSUME Sorted(T, r, s), \A i \in DOMAIN s : Follows(T, r, s[i], e) PROVE Sorted(T, r, a)
  <2> SUFFICES ASSUME NEW i \in DOMAIN a, NEW j \in DOMAIN a, i < j PROVE Follows(T, r, a[i], a[j])
    BY DEF Sorted
  <2>0. i \in 1 .. Len(s) + 1 /\ j \in 1 .. Len(s) + 1 /\ i < j
    BY <1>1
  <2>1. i \in DOMAIN s /\ a[i] = s[i]
    BY <1>1, <2>0
  <2>2. (j \in DOMAIN s /\ a[j] = s[j]) \/ a[j] = e
    BY <1>2
  <2> QED  BY <1>3, <2>1, <2>2 DEF Sorted
<1> QED  BY <1>2, <1>3 DEF a

\* Forward: the first token of the hub channel goes to the client.
LEMMA LineForward ==
  ASSUME NEW S, NEW R \in Seq(S), NEW H \in Seq(S), NEW W \in Seq(S), NEW L, NEW T, NEW r,
         Line(T, r, R, H, W, L), H # << >>
  PROVE  Line(T, r, Append(R, Head(H)), Tail(H), W, L)
<1> DEFINE R1 == Append(R, Head(H))
           H1 == Tail(H)
           n == Head(H)
<1>1. n \in S
  BY HeadTailProperties
<1>2. /\ \A i \in DOMAIN H1 : i + 1 \in DOMAIN H /\ H1[i] = H[i + 1]
      /\ 1 \in DOMAIN H /\ n = H[1]
      /\ Sorted(T, r, H1) /\ \A i \in DOMAIN H1 : Follows(T, r, n, H1[i])
  BY TailLine DEF Line
<1>3. \A i \in DOMAIN R : Follows(T, r, R[i], n)
  BY <1>2 DEF Line, Ahead
<1>4. /\ \A i \in DOMAIN R1 : (i \in DOMAIN R /\ R1[i] = R[i]) \/ R1[i] = n
      /\ Sorted(T, r, R1)
  BY <1>1, <1>3, AppendLine DEF Line
<1> HIDE DEF R1, H1, n
<1>5. Ahead(T, r, R1, H1)
  BY <1>2, <1>4 DEF Line, Ahead
<1>6. Ahead(T, r, R1, W) /\ Ahead(T, r, H1, W)
  BY <1>2, <1>4 DEF Line, Ahead
<1>7. Line(T, r, R1, H1, W, L)
  BY <1>2, <1>4, <1>5, <1>6 DEF Line
<1> QED  BY <1>7 DEF R1, H1, n

\* Deliver: the first token on the wire goes to the hub channel, or is dropped.
LEMMA LineDeliver ==
  ASSUME NEW S, NEW R \in Seq(S), NEW H \in Seq(S), NEW W \in Seq(S), NEW L, NEW T, NEW r,
         Line(T, r, R, H, W, L), W # << >>
  PROVE  Line(T, r, R, Append(H, Head(W)), Tail(W), L) /\ Line(T, r, R, H, Tail(W), L)
<1> DEFINE H1 == Append(H, Head(W))
           W1 == Tail(W)
           n == Head(W)
<1>1. n \in S
  BY HeadTailProperties
<1>2. /\ \A i \in DOMAIN W1 : i + 1 \in DOMAIN W /\ W1[i] = W[i + 1]
      /\ 1 \in DOMAIN W /\ n = W[1]
      /\ Sorted(T, r, W1) /\ \A i \in DOMAIN W1 : Follows(T, r, n, W1[i])
  BY TailLine DEF Line
<1>3. \A i \in DOMAIN H : Follows(T, r, H[i], n)
  BY <1>2 DEF Line, Ahead
<1>4. /\ \A i \in DOMAIN H1 : (i \in DOMAIN H /\ H1[i] = H[i]) \/ H1[i] = n
      /\ Sorted(T, r, H1)
  BY <1>1, <1>3, AppendLine DEF Line
<1> HIDE DEF H1, W1, n
<1>5. Ahead(T, r, R, H1) /\ Ahead(T, r, R, W1) /\ Ahead(T, r, H, W1)
  BY <1>2, <1>4 DEF Line, Ahead
<1>6. Ahead(T, r, H1, W1)
  BY <1>2, <1>4, <1>5 DEF Ahead
<1>7. Line(T, r, R, H1, W1, L) /\ Line(T, r, R, H, W1, L)
  BY <1>2, <1>4, <1>5, <1>6 DEF Line
<1> QED  BY <1>7 DEF H1, W1, n

\* DeliverLate: a token held back goes to the hub channel, or is dropped.
LEMMA LineLate ==
  ASSUME NEW S, NEW R \in Seq(S), NEW H \in Seq(S), NEW W \in Seq(S), NEW L, NEW T, NEW r,
         Line(T, r, R, H, W, L), NEW n \in L, n \in S
  PROVE  Line(T, r, R, Append(H, n), W, L \ {n}) /\ Line(T, r, R, H, W, L \ {n})
<1> DEFINE H1 == Append(H, n)
<1>1. r \in T /\ (\A i \in DOMAIN R : R[i] # n) /\ (\A i \in DOMAIN H : H[i] # n) /\ (\A i \in DOMAIN W : W[i] # n)
  BY DEF Line
<1>2. \A i \in DOMAIN H : Follows(T, r, H[i], n)
  BY <1>1 DEF Follows
<1>3. /\ \A i \in DOMAIN H1 : (i \in DOMAIN H /\ H1[i] = H[i]) \/ H1[i] = n
      /\ Sorted(T, r, H1)
  BY <1>2, AppendLine DEF Line
<1> HIDE DEF H1
<1>4. Ahead(T, r, R, H1) /\ Ahead(T, r, H1, W)
  BY <1>1, <1>3 DEF Line, Ahead, Follows
<1>5. Line(T, r, R, H1, W, L \ {n}) /\ Line(T, r, R, H, W, L \ {n})
  BY <1>3, <1>4 DEF Line
<1> QED  BY <1>5 DEF H1

\* SendToken: a token later than all goes on the wire.
LEMMA LineSend ==
  ASSUME NEW R \in Seq(Nat), NEW H \in Seq(Nat), NEW W \in Seq(Nat), NEW L \in SUBSET Nat, NEW T, NEW r,
         Line(T, r, R, H, W, L), NEW n \in Nat,
         \A i \in DOMAIN R : R[i] < n, \A i \in DOMAIN H : H[i] < n, \A i \in DOMAIN W : W[i] < n,
         \A l \in L : l < n
  PROVE  Line(T, r, R, H, Append(W, n), L)
<1> DEFINE W1 == Append(W, n)
<1>1. /\ \A i \in DOMAIN R : R[i] \in Nat
      /\ \A i \in DOMAIN H : H[i] \in Nat
      /\ \A i \in DOMAIN W : W[i] \in Nat
  BY LenProperties, ElementOfSeq
<1>2. /\ \A i \in DOMAIN R : Follows(T, r, R[i], n)
      /\ \A i \in DOMAIN H : Follows(T, r, H[i], n)
      /\ \A i \in DOMAIN W : Follows(T, r, W[i], n)
      /\ n \notin L
  BY <1>1 DEF Follows
<1>3. /\ \A i \in DOMAIN W1 : (i \in DOMAIN W /\ W1[i] = W[i]) \/ W1[i] = n
      /\ Sorted(T, r, W1)
  BY <1>2, AppendLine DEF Line
<1> HIDE DEF W1
<1>4. Ahead(T, r, R, W1) /\ Ahead(T, r, H, W1)
  BY <1>2, <1>3 DEF Line, Ahead
<1>5. Line(T, r, R, H, W1, L)
  BY <1>2, <1>3, <1>4 DEF Line
<1> QED  BY <1>5 DEF W1

\* Register and OpenStream start on an empty channel and an empty wire.
LEMMA LineReset ==
  ASSUME NEW R, NEW H, NEW W, NEW L, NEW T, NEW r, Line(T, r, R, H, W, L)
  PROVE  Line(T, r, R, << >>, W, L) /\ Line(T, r, R, H, << >>, L)
<1>1. DOMAIN << >> = {}
  OBVIOUS
<1> DEFINE e == << >>
<1>2. DOMAIN e = {}
  BY <1>1
<1> HIDE DEF e
<1>3. Line(T, r, R, e, W, L) /\ Line(T, r, R, H, e, L)
  BY <1>2 DEF Line, Sorted, Ahead
<1> QED  BY <1>3 DEF e

\* Break: part of what was on the wire is held back, the rest is lost.
LEMMA LineBreak ==
  ASSUME NEW S, NEW R, NEW H, NEW W \in Seq(S), NEW L, NEW T, NEW r, Line(T, r, R, H, W, L), NEW q,
         NEW K \in SUBSET {W[i] : i \in DOMAIN W}
  PROVE  /\ Line(T \cup {q}, r, R, H, W, L)
         /\ Line(T \cup {r}, r, R, H, << >>, L \cup K)
<1>1. \A a, b : Follows(T, r, a, b) => Follows(T \cup {q}, r, a, b) /\ Follows(T \cup {r}, r, a, b)
  BY DEF Follows
<1>2. Line(T \cup {q}, r, R, H, W, L)
  BY <1>1 DEF Line, Sorted, Ahead
<1>3. \A k \in K : (\A i \in DOMAIN R : R[i] # k) /\ (\A i \in DOMAIN H : H[i] # k)
  BY DEF Line, Ahead, Follows
<1> DEFINE e == << >>
<1>4. DOMAIN e = {}
  OBVIOUS
<1> HIDE DEF e
<1>5. Line(T \cup {r}, r, R, H, e, L \cup K)
  BY <1>1, <1>3, <1>4 DEF Line, Sorted, Ahead
<1> QED  BY <1>2, <1>5 DEF e

\* A goroutine is in Execute and its token has not left yet.
Unsent(g) == gpc[g] = "exec" /\ xpc[g] # "close"

\* The last token Execute was called with.
LastOf(r) == executed[r][Len(executed[r])]

\* It is the one a goroutine in Execute has.
ExecutesLast ==
  \A g \in Goroutines : gpc[g] = "exec" => executed[req[g]] # << >> /\ cur[g] = LastOf(req[g])

\* Token n of r was executed, and before the one that a goroutine is sending.
Past(r, n) ==
  /\ executed[r] # << >> /\ n <= LastOf(r)
  /\ \A g \in Goroutines : Unsent(g) /\ req[g] = r => n < cur[g]

SentPast ==
  \A r \in Requests :
    /\ \A i \in DOMAIN received[r] : Past(r, received[r][i])
    /\ \A i \in DOMAIN hubCh[r] : Past(r, hubCh[r][i])
    /\ \A i \in DOMAIN wire[r] : Past(r, wire[r][i])
    /\ \A n \in late[r] : Past(r, n)

InTransit == \A r \in Requests : Line(torn, r, received[r], hubCh[r], wire[r], late[r])

TransitInv == ExecutesLast /\ SentPast /\ InTransit

\* Nothing is in transit at the start.
LEMMA TransitInit == Init => TransitInv
<1> SUFFICES ASSUME Init PROVE TransitInv
  OBVIOUS
<1> DEFINE e == << >>
<1>1. DOMAIN e = {}
  OBVIOUS
<1>2. /\ \A r \in Requests : received[r] = e /\ hubCh[r] = e /\ wire[r] = e /\ late[r] = {}
      /\ \A g \in Goroutines : gpc[g] = "free"
  BY DEF Init, Router!Init
<1> HIDE DEF e
<1>3. \A r : Line(torn, r, e, e, e, {})
  BY <1>1 DEF Line, Sorted, Ahead
<1> QED  BY <1>1, <1>2, <1>3 DEF TransitInv, ExecutesLast, SentPast, InTransit

\* A token that is past remains so: the next one comes after it.
LEMMA PastStep ==
  ASSUME RP!RouterInv, StaysUp, DeliveryTypes, ExecutesLast, [Next]_vars
  PROVE  /\ ExecutesLast'
         /\ \A r \in Requests : \A n \in 1 .. Done : Past(r, n) => Past(r, n)'
<1> USE DEF router
<1>0. /\ gpc \in [Goroutines -> {"free", "select", "exec", "exit"}] /\ req \in [Goroutines -> Requests \cup {NoRequest}]
      /\ executed \in [Requests -> Seq(1 .. Done)]
      /\ \A g \in Goroutines : gpc[g] # "free" => req[g] \in Requests
      /\ \A g, h \in Goroutines : gpc[g] # "free" /\ gpc[h] # "free" /\ req[g] = req[h] => g = h
      /\ \A g \in Goroutines : gpc[g] # "exec" <=> xpc[g] = "idle"
  BY RouterFacts DEF DeliveryTypes, UseCaseTypes
<1>1. SUFFICES ASSUME ~ \E g \in Goroutines : Execute(g)
               PROVE  /\ executed' = executed
                      /\ \A g \in Goroutines : gpc'[g] = "exec" =>
                           gpc[g] = "exec" /\ cur'[g] = cur[g] /\ req'[g] = req[g] /\ (Unsent(g)' => Unsent(g))
  <2>1. CASE ~ \E g \in Goroutines : Execute(g)
    BY <1>1, <2>1 DEF ExecutesLast, Past, LastOf, Unsent
  <2>2. ASSUME NEW g \in Goroutines, Execute(g)
        PROVE  ExecutesLast' /\ \A r \in Requests : \A n \in 1 .. Done : Past(r, n) => Past(r, n)'
    <3> DEFINE r == req[g]
               e == executed[r]
               n == Head(queue[g])
    <3>1. /\ gpc[g] = "select" /\ gpc'[g] = "exec" /\ r \in Requests
          /\ queue[g] \in Seq(1 .. Done) /\ queue[g] # << >>
          /\ cur'[g] = n /\ n \in 1 .. Done
          /\ executed' = [executed EXCEPT ![r] = Append(e, n)]
          /\ \A h \in Goroutines \ {g} : gpc'[h] = gpc[h] /\ cur'[h] = cur[h] /\ xpc'[h] = xpc[h]
          /\ UNCHANGED req
      BY <2>2, ReceiveFacts DEF Execute, X, DeliveryTypes, UseCaseTypes
    <3>2. \A h \in Goroutines \ {g} : gpc[h] # "free" => req[h] \in Requests \ {r}
      BY <1>0, <3>1
    <3>3. /\ e \in Seq(1 .. Done) /\ Len(e) \in Nat /\ DOMAIN e = 1 .. Len(e)
          /\ executed'[r] = Append(e, n) /\ Len(Append(e, n)) = Len(e) + 1
          /\ Append(e, n)[Len(e) + 1] = n /\ Append(e, n) # << >>
          /\ \A q \in Requests \ {r} : executed'[q] = executed[q]
      <4>1. e \in Seq(1 .. Done)
        BY <1>0, <3>1
      <4>2. /\ Append(e, n) \in Seq(1 .. Done) /\ Len(Append(e, n)) = Len(e) + 1 /\ Len(e) \in Nat
            /\ DOMAIN e = 1 .. Len(e) /\ Append(e, n)[Len(e) + 1] = n
        BY <3>1, <4>1, AppendProperties, LenProperties
      <4>3. Append(e, n) # << >>
        BY <4>2, EmptySeq
      <4> QED  BY <1>0, <3>1, <4>1, <4>2, <4>3
    <3>4. \A j \in DOMAIN e : e[j] < n
      <4>1. RP!InOrder
        BY Zenon DEF RP!RouterInv, RP!OrderInv, StaysUp
      <4>2. gpc[g] \in RP!Live
        BY <3>1 DEF RP!Live
      <4>3. 1 \in DOMAIN queue[g] /\ n = queue[g][1]
        BY <3>1, TailAt
      <4> QED  BY <4>1, <4>2, <4>3 DEF RP!InOrder, RP!QueueAfterExecuted
    <3> HIDE DEF e, n
    <3>5. ExecutesLast'
      <4>1. executed'[r] # << >> /\ cur'[g] = executed'[r][Len(executed'[r])]
        BY <3>1, <3>3
      <4>2. ASSUME NEW h \in Goroutines \ {g}, gpc'[h] = "exec"
            PROVE  executed'[req[h]] # << >> /\ cur'[h] = executed'[req[h]][Len(executed'[req[h]])]
        <5>1. gpc[h] = "exec" /\ cur'[h] = cur[h] /\ executed'[req[h]] = executed[req[h]]
          BY <3>1, <3>2, <3>3, <4>2
        <5> QED  BY <5>1 DEF ExecutesLast, LastOf
      <4> QED  BY <3>1, <4>1, <4>2 DEF ExecutesLast, LastOf
    <3>6. ASSUME NEW q \in Requests, NEW m \in 1 .. Done, Past(q, m) PROVE Past(q, m)'
      <4>1. CASE q = r
        <5>1. Len(e) \in DOMAIN e /\ m <= e[Len(e)] /\ e[Len(e)] \in 1 .. Done
          <6>1. e # << >> /\ m <= e[Len(e)]
            BY <3>6, <4>1 DEF Past, LastOf, e
          <6>2. Len(e) # 0
            BY <3>3, <6>1, EmptySeq
          <6>3. Len(e) \in 1 .. Len(e)
            BY <3>3, <6>2
          <6> QED  BY <3>3, <6>1, <6>3, ElementOfSeq
        <5>2. m < n
          BY <3>1, <3>4, <5>1
        <5>3. \A h \in Goroutines : gpc'[h] = "exec" /\ req'[h] = q => cur'[h] = n
          BY <1>0, <3>1, <3>2, <4>1
        <5>4. executed'[q] # << >> /\ executed'[q][Len(executed'[q])] = n
          BY <3>3, <4>1
        <5> QED  BY <3>1, <5>2, <5>3, <5>4 DEF Past, LastOf, Unsent
      <4>2. CASE q # r
        <5>1. executed'[q] = executed[q]
          BY <3>3, <4>2
        <5>2. \A h \in Goroutines : gpc'[h] = "exec" /\ req'[h] = q => gpc[h] = "exec" /\ req[h] = q /\ cur'[h] = cur[h] /\ xpc'[h] = xpc[h]
          BY <3>1, <4>2
        <5> QED  BY <3>6, <5>1, <5>2 DEF Past, LastOf, Unsent
      <4> QED  BY <4>1, <4>2
    <3> QED  BY <3>5, <3>6
  <2> QED  BY <2>1, <2>2
<1>2. ASSUME UNCHANGED <<router, xpc>>
      PROVE  /\ executed' = executed
             /\ \A g \in Goroutines : gpc'[g] = "exec" =>
                  gpc[g] = "exec" /\ cur'[g] = cur[g] /\ req'[g] = req[g] /\ (Unsent(g)' => Unsent(g))
  BY <1>2 DEF Unsent
<1>3. ASSUME NEW r \in Requests,
             \/ Claim(r) \/ Register(r) \/ SetCallback(r) \/ PublishRequest(r) \/ Forward(r)
             \/ Disconnect(r) \/ ExpireCallback(r) \/ Deliver(r) \/ DeliverLate(r) \/ Ack(r) \/ Break(r)
      PROVE  UNCHANGED <<router, xpc>>
  BY <1>3 DEF Claim, Register, SetCallback, PublishRequest, Forward, Disconnect,
    ExpireCallback, Deliver, DeliverLate, Ack, Break, useCase
<1>4. ASSUME NEW a \in Apis, ApiStop(a) \/ GrpcStopped(a) \/ HttpStopped(a) PROVE UNCHANGED <<router, xpc>>
  BY <1>4 DEF ApiStop, GrpcStopped, HttpStopped, useCase
<1>5. UNCHANGED vars => UNCHANGED <<router, xpc>>
  BY DEF vars, useCase
<1>6. CASE \/ \E r \in Requests : Generate(r)
           \/ RouterLoop
           \/ \E g \in Goroutines : RequestTimeout(g) \/ RequestLeave(g)
  <2>1. xpc' = xpc /\ cur' = cur /\ executed' = executed
    BY <1>6 DEF Generate, RouterLoop, RequestTimeout, RequestLeave, Router!PublishToken, Router!LoopStep,
      Router!Fetch, Router!Route, Router!Spawn, Router!Send, Router!Timeout, Router!Leave, Router!workers,
      Router!history, useCase
  <2>2. \A g \in Goroutines : gpc'[g] = "exec" => gpc[g] = "exec" /\ req'[g] = req[g]
    BY <1>6, RouterExec
  <2> QED  BY <2>1, <2>2 DEF Unsent
<1>7. ASSUME NEW g \in Goroutines, GetConn(g) \/ Dial(g)
      PROVE  /\ executed' = executed
             /\ \A h \in Goroutines : gpc'[h] = "exec" =>
                  gpc[h] = "exec" /\ cur'[h] = cur[h] /\ req'[h] = req[h] /\ (Unsent(h)' => Unsent(h))
  BY <1>7 DEF GetConn, Dial, X, Unsent, DeliveryTypes, UseCaseTypes
<1>8. ASSUME NEW g \in Goroutines, ResolveAddr(g) \/ OpenStream(g) \/ SendToken(g) \/ CloseAndRecv(g)
      PROVE  /\ executed' = executed
             /\ \A h \in Goroutines : gpc'[h] = "exec" =>
                  gpc[h] = "exec" /\ cur'[h] = cur[h] /\ req'[h] = req[h] /\ (Unsent(h)' => Unsent(h))
  <2>1. \A h \in Goroutines \ {g} : xpc'[h] = xpc[h]
    BY <1>8 DEF ResolveAddr, OpenStream, SendToken, CloseAndRecv, Return, X, DeliveryTypes, UseCaseTypes
  <2>2. CASE Router!AfterExecute(g)
    BY <2>1, <2>2, ReturnFacts DEF Unsent
  <2>3. CASE UNCHANGED router /\ xpc[g] # "close"
    BY <2>1, <2>3 DEF Unsent
  <2> QED  BY <1>8, <2>2, <2>3 DEF ResolveAddr, OpenStream, SendToken, CloseAndRecv, Return, X
<1> QED  BY <1>1, <1>2, <1>3, <1>4, <1>5, <1>6, <1>7, <1>8 DEF Next

\* What the types say of the sequences of a request.
LEMMA TransitTypes ==
  ASSUME DeliveryTypes, NEW r \in Requests, Done \in Nat
  PROVE  /\ received[r] \in Seq(1 .. Done) /\ hubCh[r] \in Seq(1 .. Done) /\ wire[r] \in Seq(1 .. Done)
         /\ late[r] \in SUBSET (1 .. Done)
         /\ \A i \in DOMAIN received[r] : received[r][i] \in 1 .. Done
         /\ \A i \in DOMAIN hubCh[r] : hubCh[r][i] \in 1 .. Done
         /\ \A i \in DOMAIN wire[r] : wire[r][i] \in 1 .. Done
<1>1. /\ received[r] \in Seq(1 .. Done) /\ hubCh[r] \in Seq(1 .. Done) /\ wire[r] \in Seq(1 .. Done)
      /\ late[r] \in SUBSET (1 .. Done)
  BY DEF DeliveryTypes, ApiTypes, GrpcTypes
<1> QED  BY <1>1, LenProperties, ElementOfSeq

Has(s, n) == \E i \in DOMAIN s : s[i] = n

\* Tokens only move from one place to the next or are dropped.
Moved(r) ==
  /\ \A i \in DOMAIN received'[r] : Has(received[r], received'[r][i]) \/ Has(hubCh[r], received'[r][i])
  /\ \A i \in DOMAIN hubCh'[r] :
       Has(hubCh[r], hubCh'[r][i]) \/ Has(wire[r], hubCh'[r][i]) \/ hubCh'[r][i] \in late[r]
  /\ \A i \in DOMAIN wire'[r] : Has(wire[r], wire'[r][i])
  /\ \A n \in late'[r] : n \in late[r] \/ Has(wire[r], n)

\* What moves remains past.
LEMMA MovedPast ==
  ASSUME DeliveryTypes, Done \in Nat, SentPast,
         \A r \in Requests : \A n \in 1 .. Done : Past(r, n) => Past(r, n)',
         \A r \in Requests : Moved(r)
  PROVE  SentPast'
<1> SUFFICES ASSUME NEW r \in Requests
             PROVE  /\ \A i \in DOMAIN received'[r] : Past(r, received[r][i])'
                    /\ \A i \in DOMAIN hubCh'[r] : Past(r, hubCh[r][i])'
                    /\ \A i \in DOMAIN wire'[r] : Past(r, wire[r][i])'
                    /\ \A n \in late'[r] : Past(r, n)'
  BY DEF SentPast
<1>1. /\ \A i \in DOMAIN received[r] : received[r][i] \in 1 .. Done /\ Past(r, received[r][i])
      /\ \A i \in DOMAIN hubCh[r] : hubCh[r][i] \in 1 .. Done /\ Past(r, hubCh[r][i])
      /\ \A i \in DOMAIN wire[r] : wire[r][i] \in 1 .. Done /\ Past(r, wire[r][i])
      /\ \A n \in late[r] : n \in 1 .. Done /\ Past(r, n)
  BY TransitTypes DEF SentPast
<1> DEFINE G == {n \in 1 .. Done : Past(r, n)}
<1>2. \A n \in G : Past(r, n)'
  OBVIOUS
<1>3. /\ \A i \in DOMAIN received[r] : received[r][i] \in G
      /\ \A i \in DOMAIN hubCh[r] : hubCh[r][i] \in G
      /\ \A i \in DOMAIN wire[r] : wire[r][i] \in G
      /\ \A n \in late[r] : n \in G
  BY <1>1
<1> HIDE DEF G
<1>4. /\ \A i \in DOMAIN received'[r] : received'[r][i] \in G
      /\ \A i \in DOMAIN hubCh'[r] : hubCh'[r][i] \in G
      /\ \A i \in DOMAIN wire'[r] : wire'[r][i] \in G
      /\ \A n \in late'[r] : n \in G
  BY <1>3 DEF Moved, Has
<1> QED  BY <1>2, <1>4 DEF G, Past

\* Sequences of a request that stay the same move nothing.
LEMMA Unmoved ==
  ASSUME NEW r \in Requests,
         received'[r] = received[r], hubCh'[r] = hubCh[r], wire'[r] = wire[r], late'[r] = late[r]
  PROVE  Moved(r)
BY DEF Moved, Has

\* A step of request r leaves the tokens of the others alone.
LEMMA TransitMove ==
  ASSUME DeliveryTypes, Done \in Nat, TransitInv, ExecutesLast',
         \A q \in Requests : \A n \in 1 .. Done : Past(q, n) => Past(q, n)',
         NEW r \in Requests,
         \A q \in Requests : q # r =>
           /\ received'[q] = received[q] /\ hubCh'[q] = hubCh[q] /\ wire'[q] = wire[q] /\ late'[q] = late[q]
           /\ Line(torn', q, received[q], hubCh[q], wire[q], late[q]),
         Moved(r), Line(torn', r, received'[r], hubCh'[r], wire'[r], late'[r])
  PROVE  TransitInv'
<1>1. \A q \in Requests : Moved(q)
  BY Unmoved
<1>2. SentPast'
  BY <1>1, MovedPast DEF TransitInv
<1>3. InTransit'
  BY DEF InTransit
<1> QED  BY <1>2, <1>3 DEF TransitInv

\* Every step keeps the tokens in transit distinct and, unless torn, in order.
LEMMA TransitStep ==
  RP!RouterInv /\ StaysUp /\ DeliveryTypes /\ TransitInv /\ [Next]_vars => TransitInv'
<1> SUFFICES ASSUME RP!RouterInv, StaysUp, DeliveryTypes, TransitInv, [Next]_vars PROVE TransitInv'
  OBVIOUS
<1>0. Done \in Nat \ {0}
  BY RouterFacts
<1>1. ExecutesLast' /\ \A r \in Requests : \A n \in 1 .. Done : Past(r, n) => Past(r, n)'
  BY PastStep DEF TransitInv
<1>2. ASSUME UNCHANGED <<received, hubCh, wire, late, torn>> PROVE TransitInv'
  <2>1. \A q \in Requests : Moved(q)
    BY <1>2, Unmoved
  <2>2. SentPast'
    BY <1>0, <1>1, <2>1, MovedPast DEF TransitInv
  <2> QED  BY <1>1, <1>2, <2>2 DEF TransitInv, InTransit
<1>3. \A r \in Requests : Line(torn, r, received[r], hubCh[r], wire[r], late[r])
  BY DEF TransitInv, InTransit
<1>4. ASSUME NEW r \in Requests, Forward(r) PROVE TransitInv'
  <2> DEFINE R == received[r]
             H == hubCh[r]
             W == wire[r]
  <2>1. R \in Seq(1 .. Done) /\ H \in Seq(1 .. Done) /\ W \in Seq(1 .. Done) /\ H # << >>
    BY <1>0, <1>4, TransitTypes DEF Forward
  <2>2. UNCHANGED <<wire, late, torn>> /\ received' = [received EXCEPT ![r] = Append(R, Head(H))]
        /\ hubCh' = [hubCh EXCEPT ![r] = Tail(H)]
    BY <1>4 DEF Forward, grpc
  <2>3. /\ received'[r] = Append(R, Head(H)) /\ hubCh'[r] = Tail(H)
        /\ \A q \in Requests : q # r => received'[q] = received[q] /\ hubCh'[q] = hubCh[q]
    BY <2>2 DEF DeliveryTypes, ApiTypes
  <2>4. Line(torn, r, Append(R, Head(H)), Tail(H), W, late[r])
    BY <1>3, <2>1, LineForward
  <2>5. Moved(r)
    <3>1. Head(H) \in 1 .. Done
      BY <2>1, HeadTailProperties
    <3>2. \A i \in DOMAIN Append(R, Head(H)) : (i \in DOMAIN R /\ Append(R, Head(H))[i] = R[i]) \/ Append(R, Head(H))[i] = Head(H)
      BY <2>1, <3>1, AppendLine
    <3>3. (\A i \in DOMAIN Tail(H) : i + 1 \in DOMAIN H /\ Tail(H)[i] = H[i + 1]) /\ 1 \in DOMAIN H /\ Head(H) = H[1]
      BY <2>1, TailLine
    <3>4. \A i \in DOMAIN received'[r] : Has(R, received'[r][i]) \/ Has(H, received'[r][i])
      BY <2>3, <3>2, <3>3 DEF Has
    <3>5. \A i \in DOMAIN hubCh'[r] : Has(H, hubCh'[r][i])
      BY <2>3, <3>3 DEF Has
    <3> QED  BY <2>2, <3>4, <3>5 DEF Moved, Has
  <2> QED  BY <1>0, <1>1, <1>3, <2>2, <2>3, <2>4, <2>5, TransitMove
<1>5. ASSUME NEW r \in Requests, Register(r) PROVE TransitInv'
  <2>1. UNCHANGED <<received, wire, late, torn>> /\ hubCh' = [hubCh EXCEPT ![r] = << >>]
    BY <1>5 DEF Register, grpc
  <2>2. hubCh'[r] = << >> /\ \A q \in Requests : q # r => hubCh'[q] = hubCh[q]
    BY <2>1 DEF DeliveryTypes, ApiTypes
  <2>3. Line(torn, r, received[r], << >>, wire[r], late[r])
    BY <1>3, LineReset
  <2>4. Moved(r)
    BY <2>1, <2>2 DEF Moved, Has
  <2> QED  BY <1>0, <1>1, <1>3, <2>1, <2>2, <2>3, <2>4, TransitMove
<1>6. ASSUME NEW r \in Requests, Deliver(r) PROVE TransitInv'
  <2> DEFINE R == received[r]
             H == hubCh[r]
             W == wire[r]
  <2>1. R \in Seq(1 .. Done) /\ H \in Seq(1 .. Done) /\ W \in Seq(1 .. Done) /\ W # << >>
    BY <1>0, <1>6, TransitTypes DEF Deliver
  <2>2. /\ UNCHANGED <<received, late, torn>> /\ wire' = [wire EXCEPT ![r] = Tail(W)]
        /\ hubCh' = hubCh \/ hubCh' = [hubCh EXCEPT ![r] = Append(H, Head(W))]
    BY <1>6 DEF Deliver, HubDeliver
  <2>3. /\ wire'[r] = Tail(W) /\ (hubCh'[r] = H \/ hubCh'[r] = Append(H, Head(W)))
        /\ \A q \in Requests : q # r => wire'[q] = wire[q] /\ hubCh'[q] = hubCh[q]
    BY <2>2 DEF DeliveryTypes, ApiTypes, GrpcTypes
  <2>4. Line(torn, r, R, Append(H, Head(W)), Tail(W), late[r]) /\ Line(torn, r, R, H, Tail(W), late[r])
    BY <1>3, <2>1, LineDeliver
  <2>5. Moved(r)
    <3>1. Head(W) \in 1 .. Done
      BY <2>1, HeadTailProperties
    <3>2. \A i \in DOMAIN Append(H, Head(W)) : (i \in DOMAIN H /\ Append(H, Head(W))[i] = H[i]) \/ Append(H, Head(W))[i] = Head(W)
      BY <2>1, <3>1, AppendLine
    <3>3. (\A i \in DOMAIN Tail(W) : i + 1 \in DOMAIN W /\ Tail(W)[i] = W[i + 1]) /\ 1 \in DOMAIN W /\ Head(W) = W[1]
      BY <2>1, TailLine
    <3>4. \A i \in DOMAIN hubCh'[r] : Has(H, hubCh'[r][i]) \/ Has(W, hubCh'[r][i])
      BY <2>3, <3>2, <3>3 DEF Has
    <3>5. \A i \in DOMAIN wire'[r] : Has(W, wire'[r][i])
      BY <2>3, <3>3 DEF Has
    <3> QED  BY <2>2, <3>4, <3>5 DEF Moved, Has
  <2>6. Line(torn', r, received'[r], hubCh'[r], wire'[r], late'[r])
    <3>1. CASE hubCh'[r] = H
      BY <2>2, <2>3, <2>4, <3>1
    <3>2. CASE hubCh'[r] = Append(H, Head(W))
      BY <2>2, <2>3, <2>4, <3>2
    <3> QED  BY <2>3, <3>1, <3>2
  <2> QED  BY <1>0, <1>1, <1>3, <2>2, <2>3, <2>5, <2>6, TransitMove
<1>7. ASSUME NEW r \in Requests, DeliverLate(r) PROVE TransitInv'
  <2> DEFINE R == received[r]
             H == hubCh[r]
             W == wire[r]
  <2>1. R \in Seq(1 .. Done) /\ H \in Seq(1 .. Done) /\ W \in Seq(1 .. Done) /\ late[r] \subseteq 1 .. Done
    BY <1>0, TransitTypes
  <2>2. PICK n \in late[r] : /\ late' = [late EXCEPT ![r] = late[r] \ {n}]
                             /\ hubCh' = hubCh \/ hubCh' = [hubCh EXCEPT ![r] = Append(H, n)]
    BY <1>7 DEF DeliverLate, HubDeliver
  <2>3. UNCHANGED <<received, wire, torn>>
    BY <1>7 DEF DeliverLate
  <2>4. /\ late'[r] = late[r] \ {n} /\ (hubCh'[r] = H \/ hubCh'[r] = Append(H, n))
        /\ \A q \in Requests : q # r => late'[q] = late[q] /\ hubCh'[q] = hubCh[q]
    BY <2>2 DEF DeliveryTypes, ApiTypes, GrpcTypes
  <2>5. n \in 1 .. Done
    BY <2>1
  <2>6. Line(torn, r, R, Append(H, n), W, late[r] \ {n}) /\ Line(torn, r, R, H, W, late[r] \ {n})
    BY <1>3, <2>1, <2>5, LineLate
  <2>7. Moved(r)
    <3>2. \A i \in DOMAIN Append(H, n) : (i \in DOMAIN H /\ Append(H, n)[i] = H[i]) \/ Append(H, n)[i] = n
      BY <2>1, <2>5, AppendLine
    <3>4. \A i \in DOMAIN hubCh'[r] : Has(H, hubCh'[r][i]) \/ hubCh'[r][i] \in late[r]
      <4>1. CASE hubCh'[r] = H
        BY <4>1 DEF Has
      <4>2. CASE hubCh'[r] = Append(H, n)
        BY <3>2, <4>2 DEF Has
      <4> QED  BY <2>4, <4>1, <4>2
    <3> QED  BY <2>3, <2>4, <3>4 DEF Moved, Has
  <2>8. Line(torn', r, received'[r], hubCh'[r], wire'[r], late'[r])
    <3>1. CASE hubCh'[r] = H
      BY <2>3, <2>4, <2>6, <3>1
    <3>2. CASE hubCh'[r] = Append(H, n)
      BY <2>3, <2>4, <2>6, <3>2
    <3> QED  BY <2>4, <3>1, <3>2
  <2> QED  BY <1>0, <1>1, <1>3, <2>3, <2>4, <2>7, <2>8, TransitMove
<1>8. ASSUME NEW r \in Requests, Break(r) PROVE TransitInv'
  <2> DEFINE W == wire[r]
  <2>1. W \in Seq(1 .. Done) /\ Len(W) \in Nat /\ DOMAIN W = 1 .. Len(W)
    BY <1>0, TransitTypes, LenProperties
  <2>2. PICK K \in SUBSET {W[i] : i \in DOMAIN W} : late' = [late EXCEPT ![r] = late[r] \cup K]
    <3>1. PICK k \in 0 .. Len(W) :
            late' = [late EXCEPT ![r] = IF sapi[r] = ApiOf[r] THEN late[r] \cup {W[i] : i \in 1 .. k} ELSE late[r]]
      BY <1>8 DEF Break
    <3>2. {W[i] : i \in 1 .. k} \in SUBSET {W[i] : i \in DOMAIN W}
      <4>1. \A i \in 1 .. k : i \in DOMAIN W
        BY <2>1
      <4> QED  BY <4>1
    <3>3. CASE sapi[r] = ApiOf[r]
      BY <3>1, <3>2, <3>3
    <3>4. CASE sapi[r] # ApiOf[r]
      <4>1. late' = [late EXCEPT ![r] = late[r] \cup {}]
        BY <3>1, <3>4
      <4> QED  BY <4>1
    <3> QED  BY <3>3, <3>4
  <2>3. UNCHANGED <<received, hubCh>> /\ torn' = torn \cup {r} /\ wire' = [wire EXCEPT ![r] = << >>]
    BY <1>8 DEF Break, api
  <2>4. /\ late'[r] = late[r] \cup K /\ wire'[r] = << >>
        /\ \A q \in Requests : q # r => late'[q] = late[q] /\ wire'[q] = wire[q]
    BY <2>2, <2>3 DEF DeliveryTypes, GrpcTypes
  <2>5. Line(torn \cup {r}, r, received[r], hubCh[r], << >>, late[r] \cup K)
    BY <1>3, <2>1, LineBreak
  <2>6. \A q \in Requests : Line(torn \cup {r}, q, received[q], hubCh[q], wire[q], late[q])
    <3> TAKE q \in Requests
    <3>1. wire[q] \in Seq(1 .. Done)
      BY <1>0, TransitTypes
    <3> QED  BY <1>3, <3>1, LineBreak
  <2>7. Moved(r)
    BY <2>3, <2>4 DEF Moved, Has
  <2> QED  BY <1>0, <1>1, <2>3, <2>4, <2>5, <2>6, <2>7, TransitMove
<1>9. ASSUME NEW g \in Goroutines, OpenStream(g) PROVE TransitInv'
  <2>1. CASE UNCHANGED grpc
    <3>1. UNCHANGED <<received, hubCh>>
      BY <1>9 DEF OpenStream, api
    <3> QED  BY <1>2, <2>1, <3>1 DEF grpc
  <2>2. CASE ~UNCHANGED grpc
    <3>1. PICK r \in Requests : r = req[g]
      BY <1>9, RouterFacts DEF OpenStream, DeliveryTypes, UseCaseTypes
    <3>2. UNCHANGED <<received, hubCh, late, torn>> /\ wire' = [wire EXCEPT ![r] = << >>]
      BY <1>9, <2>2, <3>1 DEF OpenStream, api
    <3>3. wire'[r] = << >> /\ \A q \in Requests : q # r => wire'[q] = wire[q]
      BY <3>2 DEF DeliveryTypes, GrpcTypes
    <3>4. Line(torn, r, received[r], hubCh[r], << >>, late[r])
      BY <1>3, LineReset
    <3>5. Moved(r)
      BY <3>2, <3>3 DEF Moved, Has
    <3> QED  BY <1>0, <1>1, <1>3, <3>2, <3>3, <3>4, <3>5, TransitMove
  <2> QED  BY <2>1, <2>2
<1>10. ASSUME NEW g \in Goroutines, SendToken(g) PROVE TransitInv'
  <2>0. UNCHANGED <<received, hubCh, late, torn>> /\ xpc[g] = "send"
    BY <1>10 DEF SendToken, api
  <2>1. CASE UNCHANGED wire
    BY <1>2, <2>0, <2>1
  <2>2. CASE ~UNCHANGED wire
    <3>1. gpc[g] = "exec" /\ cur[g] \in 1 .. Done /\ Unsent(g)
      BY <2>0 DEF DeliveryTypes, UseCaseTypes, Equipped, Unsent
    <3>2. PICK r \in Requests : r = req[g]
      BY <3>1, RouterFacts
    <3>3. PICK n \in 1 .. Done : n = cur[g]
      BY <3>1
    <3>4. wire' = [wire EXCEPT ![r] = Append(wire[r], n)]
      BY <1>10, <2>2, <3>2, <3>3 DEF SendToken
    <3>5. wire'[r] = Append(wire[r], n) /\ \A q \in Requests : q # r => wire'[q] = wire[q]
      BY <3>4 DEF DeliveryTypes, GrpcTypes
    <3>6. \A m : Past(r, m) => m < n
      BY <3>1, <3>2, <3>3 DEF Past
    <3>7. Line(torn, r, received[r], hubCh[r], Append(wire[r], n), late[r])
      <4>1. /\ received[r] \in Seq(Nat) /\ hubCh[r] \in Seq(Nat) /\ wire[r] \in Seq(Nat)
            /\ late[r] \in SUBSET Nat /\ n \in Nat
        <5>1. 1 .. Done \subseteq Nat
          BY <1>0
        <5> QED  BY <1>0, <5>1, TransitTypes, SeqMonotonic
      <4>2. /\ \A i \in DOMAIN received[r] : received[r][i] < n
            /\ \A i \in DOMAIN hubCh[r] : hubCh[r][i] < n
            /\ \A i \in DOMAIN wire[r] : wire[r][i] < n
            /\ \A l \in late[r] : l < n
        BY <3>6 DEF TransitInv, SentPast
      <4> QED  BY <1>3, <4>1, <4>2, LineSend
    <3>8. Past(r, n)'
      <4>1. executed[r] # << >> /\ n = LastOf(r)
        BY <3>1, <3>2, <3>3 DEF TransitInv, ExecutesLast
      <4>2. /\ executed' = executed
            /\ \A h \in Goroutines : Unsent(h)' => h # g /\ gpc[h] = "exec" /\ req'[h] = req[h]
        <5>1. xpc' = [xpc EXCEPT ![g] = xpc'[g]] /\ xpc'[g] \in {"idle", "close"}
          BY <1>10 DEF SendToken, Return, X, DeliveryTypes, UseCaseTypes
        <5>2. CASE Router!AfterExecute(g)
          BY <5>2, <5>1, ReturnFacts DEF Unsent
        <5>3. CASE UNCHANGED router /\ xpc'[g] = "close"
          BY <5>3, <5>1 DEF Unsent, router
        <5> QED  BY <1>10, <5>2, <5>3 DEF SendToken, Return, X, DeliveryTypes, UseCaseTypes
      <4>3. \A h \in Goroutines : Unsent(h)' => req'[h] # r
        BY <3>1, <3>2, <4>2, RouterFacts
      <4>4. n <= n
        BY <1>0
      <4> QED  BY <4>1, <4>2, <4>3, <4>4 DEF Past, LastOf
    <3>9. SentPast'
      <4> SUFFICES ASSUME NEW q \in Requests
                   PROVE  /\ \A i \in DOMAIN received'[q] : Past(q, received[q][i])'
                          /\ \A i \in DOMAIN hubCh'[q] : Past(q, hubCh[q][i])'
                          /\ \A i \in DOMAIN wire'[q] : Past(q, wire[q][i])'
                          /\ \A m \in late'[q] : Past(q, m)'
        BY DEF SentPast
      <4> DEFINE G == {m \in 1 .. Done : Past(q, m)}
                 F == {m \in 1 .. Done : Past(q, m)'}
      <4>1. G \subseteq F /\ (q = r => n \in F)
        BY <1>1, <3>8
      <4>2. /\ \A i \in DOMAIN received[q] : received[q][i] \in G
            /\ \A i \in DOMAIN hubCh[q] : hubCh[q][i] \in G
            /\ \A i \in DOMAIN wire[q] : wire[q][i] \in G
            /\ \A m \in late[q] : m \in G
        BY <1>0, TransitTypes DEF TransitInv, SentPast
      <4>3. \A m \in F : Past(q, m)'
        OBVIOUS
      <4> HIDE DEF F, G
      <4>4. \A i \in DOMAIN wire'[q] : wire'[q][i] \in F
        <5>1. CASE q # r
          BY <3>5, <4>1, <4>2, <5>1
        <5>2. CASE q = r
          <6>1. \A i \in DOMAIN Append(wire[r], n) : (i \in DOMAIN wire[r] /\ Append(wire[r], n)[i] = wire[r][i]) \/ Append(wire[r], n)[i] = n
            <7>1. wire[r] \in Seq(1 .. Done)
              BY <1>0, TransitTypes
            <7> QED  BY <7>1, AppendLine
          <6> QED  BY <3>5, <4>1, <4>2, <5>2, <6>1
        <5> QED  BY <5>1, <5>2
      <4>5. /\ \A i \in DOMAIN received'[q] : received'[q][i] \in F
            /\ \A i \in DOMAIN hubCh'[q] : hubCh'[q][i] \in F
            /\ \A m \in late'[q] : m \in F
        BY <2>0, <4>1, <4>2
      <4> QED  BY <4>3, <4>4, <4>5 DEF Past
    <3>10. InTransit'
      BY <1>3, <2>0, <3>5, <3>7 DEF InTransit
    <3> QED  BY <1>1, <3>9, <3>10 DEF TransitInv
  <2> QED  BY <2>1, <2>2
<1>11. ASSUME NEW r \in Requests,
              \/ Claim(r) \/ SetCallback(r) \/ PublishRequest(r) \/ Disconnect(r) \/ ExpireCallback(r)
              \/ Ack(r) \/ Generate(r)
       PROVE  UNCHANGED <<received, hubCh, wire, late, torn>>
  BY <1>11 DEF Claim, SetCallback, PublishRequest, Disconnect, ExpireCallback, Ack, Generate, api, grpc
<1>12. RouterLoop \/ UNCHANGED vars => UNCHANGED <<received, hubCh, wire, late, torn>>
  BY DEF RouterLoop, vars, api, grpc
<1>13. ASSUME NEW g \in Goroutines,
              \/ RequestTimeout(g) \/ RequestLeave(g) \/ Execute(g) \/ ResolveAddr(g) \/ GetConn(g)
              \/ Dial(g) \/ CloseAndRecv(g)
       PROVE  UNCHANGED <<received, hubCh, wire, late, torn>>
  BY <1>13 DEF RequestTimeout, RequestLeave, Execute, ResolveAddr, GetConn, Dial, CloseAndRecv, api, grpc
<1>14. ASSUME NEW a \in Apis, ApiStop(a) \/ GrpcStopped(a) \/ HttpStopped(a)
       PROVE  UNCHANGED <<received, hubCh, wire, late, torn>>
  BY <1>14 DEF ApiStop, GrpcStopped, HttpStopped, api, grpc
<1> QED
  BY <1>2, <1>4, <1>5, <1>6, <1>7, <1>8, <1>9, <1>10, <1>11, <1>12, <1>13, <1>14 DEF Next

\* The worker stays up.
LEMMA StaysUpStep == StaysUp /\ [Next]_vars => StaysUp'
<1> SUFFICES ASSUME [Next]_vars PROVE UNCHANGED <<phase, rewound>>
  BY Zenon DEF StaysUp
<1> USE DEF router, Router!process, Router!history
<1>1. ASSUME NEW r \in Requests,
             \/ Claim(r) \/ Register(r) \/ SetCallback(r) \/ PublishRequest(r) \/ Forward(r)
             \/ Disconnect(r) \/ ExpireCallback(r) \/ Deliver(r) \/ DeliverLate(r) \/ Ack(r) \/ Break(r)
      PROVE  UNCHANGED <<phase, rewound>>
  BY <1>1 DEF Claim, Register, SetCallback, PublishRequest, Forward, Disconnect,
    ExpireCallback, Deliver, DeliverLate, Ack, Break
<1>2. ASSUME NEW g \in Goroutines,
             \/ ResolveAddr(g) \/ GetConn(g) \/ Dial(g) \/ OpenStream(g) \/ SendToken(g) \/ CloseAndRecv(g)
      PROVE  UNCHANGED <<phase, rewound>>
  BY <1>2 DEF ResolveAddr, GetConn, Dial, OpenStream, SendToken, CloseAndRecv, Return, Router!AfterExecute
<1>3. ASSUME NEW g \in Goroutines, RequestTimeout(g) \/ RequestLeave(g) \/ Execute(g)
      PROVE  UNCHANGED <<phase, rewound>>
  BY <1>3 DEF RequestTimeout, RequestLeave, Execute, Router!Timeout, Router!Leave, Router!Receive
<1>4. ASSUME NEW r \in Requests, Generate(r) PROVE UNCHANGED <<phase, rewound>>
  BY <1>4 DEF Generate, Router!PublishToken
<1>5. CASE RouterLoop
  BY <1>5 DEF RouterLoop, Router!LoopStep, Router!Fetch, Router!Route, Router!Send
<1>6. ASSUME NEW a \in Apis, ApiStop(a) \/ GrpcStopped(a) \/ HttpStopped(a) PROVE UNCHANGED <<phase, rewound>>
  BY <1>6 DEF ApiStop, GrpcStopped, HttpStopped
<1>7. UNCHANGED vars => UNCHANGED <<phase, rewound>>
  BY DEF vars
<1> QED  BY <1>1, <1>2, <1>3, <1>4, <1>5, <1>6, <1>7 DEF Next

\* All that is shown so far, in one invariant.
DeliveryInv == RP!RouterInv /\ StaysUp /\ DeliveryTypes /\ TransitInv

\* The tokens in transit are distinct, come from Execute and, as long as no
\* stream breaks, are in order.
THEOREM TransitInvariant == Spec => []DeliveryInv
<1>1. Spec => []RP!RouterInv
  BY ImplementsRouter, RP!RouterInvariant, RouterAssumed, PTL
<1>2. Init => StaysUp /\ DeliveryTypes /\ TransitInv
  BY RouterInit, DeliveryTypesInit, TransitInit
<1>3. RP!RouterInv /\ (StaysUp /\ DeliveryTypes /\ TransitInv) /\ [Next]_vars => (StaysUp /\ DeliveryTypes /\ TransitInv)'
  BY StaysUpStep, DeliveryTypesStep, TransitStep
<1>4. RP!RouterInv /\ (StaysUp /\ DeliveryTypes /\ TransitInv) => DeliveryInv
  BY DEF DeliveryInv
<1> QED  BY <1>1, <1>2, <1>3, <1>4, PTL DEF Spec

\* The tokens of a request are distinct, so that one in transit has its place
\* in the hub channel.
LEMMA RoomInHub ==
  ASSUME DeliveryInv, NEW r \in Requests, NEW n \in 1 .. Done, Has(wire[r], n) \/ n \in late[r]
  PROVE  Len(hubCh[r]) < HubCap
<1> DEFINE H == hubCh[r]
           S == (1 .. Done) \ {n}
<1>0. Done \in Nat \ {0} /\ Done = NumTokens + 1 /\ HubCap \in Nat /\ HubCap > NumTokens /\ NumTokens \in Nat
  BY RouterFacts, DeliveryAssumption DEF DeliveryInv
<1>1. H \in Seq(1 .. Done) /\ Len(H) \in Nat /\ DOMAIN H = 1 .. Len(H) /\ \A i \in DOMAIN H : H[i] \in 1 .. Done
  BY <1>0, TransitTypes, LenProperties DEF DeliveryInv
<1>2. Line(torn, r, received[r], H, wire[r], late[r])
  BY DEF DeliveryInv, TransitInv, InTransit
<1>3. \A i \in DOMAIN H : H[i] \in S
  BY <1>1, <1>2 DEF Line, Ahead, Follows, Has
<1>4. H \in Injection(1 .. Len(H), S)
  <2>1. H \in [1 .. Len(H) -> S]
    BY <1>1, <1>3
  <2>2. \A i, j \in 1 .. Len(H) : H[i] = H[j] => i = j
    <3> SUFFICES ASSUME NEW i \in 1 .. Len(H), NEW j \in 1 .. Len(H), i # j PROVE H[i] # H[j]
      OBVIOUS
    <3>1. i < j \/ j < i
      BY <1>1
    <3> QED  BY <1>1, <1>2, <3>1 DEF Line, Sorted, Follows
  <2> QED  BY <2>1, <2>2 DEF Injection, IsInjective
<1>5. IsFiniteSet(S) /\ Cardinality(S) = NumTokens
  <2>1. IsFiniteSet(1 .. Done) /\ Cardinality(1 .. Done) = Done
    BY <1>0, FS_Interval
  <2>2. IsFiniteSet(S) /\ Cardinality(S) = Cardinality(1 .. Done) - 1
    BY <2>1, FS_RemoveElement
  <2> QED  BY <1>0, <2>1, <2>2
<1>6. Cardinality(1 .. Len(H)) = Len(H)
  <2>1. PICK k \in Nat : k = Len(H)
    BY <1>1
  <2>2. Cardinality(1 .. k) = k
    BY FS_Interval
  <2> QED  BY <2>1, <2>2, Zenon
<1> HIDE DEF S, H
<1>7. Len(H) <= NumTokens
  BY <1>4, <1>5, <1>6, FS_Injection
<1> QED  BY <1>0, <1>1, <1>7 DEF H

\* "never drops": a token in transit finds room in the hub channel, however
\* slow the handler reads and however often streams break.
THEOREM HubHasRoom == Spec => []HubNeverFull
<1>1. DeliveryInv => HubNeverFull
  <2> SUFFICES ASSUME DeliveryInv, NEW r \in pending, wire[r] # << >> \/ late[r] # {}
               PROVE  Len(hubCh[r]) < HubCap
    BY DEF HubNeverFull
  <2>1. r \in Requests /\ Done \in Nat
    BY RouterFacts DEF DeliveryInv, DeliveryTypes, ApiTypes
  <2>2. late[r] \subseteq 1 .. Done /\ wire[r] \in Seq(1 .. Done)
    BY <2>1, TransitTypes DEF DeliveryInv
  <2>3. wire[r] # << >> => Head(wire[r]) \in 1 .. Done /\ Has(wire[r], Head(wire[r]))
    <3>1. wire[r] # << >> => Head(wire[r]) \in 1 .. Done
      BY <2>2, HeadTailProperties
    <3>2. wire[r] # << >> => 1 \in DOMAIN wire[r] /\ Head(wire[r]) = wire[r][1]
      BY <2>2, TailLine
    <3> QED  BY <3>1, <3>2 DEF Has
  <2> QED  BY <2>1, <2>2, <2>3, RoomInHub
<1> QED  BY <1>1, TransitInvariant, PTL

-----------------------------------------------------------------------------
(* The refinement of ChatStream *)

\* The status of the response, as the refinement mapping has it.
Status ==
  [r \in Requests |-> CASE hpc[r] = "stream" -> "open"
                        [] hpc[r] = "ended" -> "closed"
                        [] OTHER -> "new"]

\* How the status follows the handler.
LEMMA StatusStep ==
  ASSUME ApiTypes, NEW r \in Requests, NEW to \in {"new", "register", "callback", "publish", "stream", "ended"},
         hpc' = [hpc EXCEPT ![r] = to]
  PROVE  Status' = [Status EXCEPT ![r] = CASE to = "stream" -> "open" [] to = "ended" -> "closed" [] OTHER -> "new"]
BY DEF ApiTypes, Status

\* Init maps to an initial state of ChatStream.
LEMMA ClientInit == Init => Client!Init
BY DEF Init, Client!Init

\* Every step maps to a step of ChatStream or changes nothing the client sees.
LEMMA ClientStep == DeliveryInv /\ [Next]_vars => [Client!Next]_(Client!chatVars)
<1> SUFFICES ASSUME DeliveryInv, [Next]_vars PROVE Client!Next \/ UNCHANGED Client!chatVars
  OBVIOUS
<1>0. ApiTypes /\ Done \in Nat \ {0}
  BY RouterFacts DEF DeliveryInv, DeliveryTypes
<1>1. ASSUME UNCHANGED <<hpc, received, torn>> PROVE UNCHANGED Client!chatVars
  BY <1>1 DEF Client!chatVars
<1>2. ASSUME NEW r \in Requests, Status[r] = "new", Status' = [Status EXCEPT ![r] = "open"], UNCHANGED <<received, torn>>
      PROVE  Client!Next
  BY <1>2 DEF Client!Next, Client!Accept, Status
<1>3. ASSUME NEW r \in Requests, Status[r] = "new", Status' = [Status EXCEPT ![r] = "closed"], UNCHANGED <<received, torn>>
      PROVE  Client!Next
  BY <1>3 DEF Client!Next, Client!Refuse, Status
<1>4. ASSUME NEW r \in Requests, Status[r] = "open", Status' = [Status EXCEPT ![r] = "closed"], UNCHANGED <<received, torn>>
      PROVE  Client!Next
  BY <1>4 DEF Client!Next, Client!Abort, Status
<1>5. ASSUME Status' = Status, UNCHANGED <<received, torn>> PROVE UNCHANGED Client!chatVars
  BY <1>5 DEF Client!chatVars, Status
<1>6. ASSUME NEW r \in Requests, Claim(r) PROVE Client!Next \/ UNCHANGED Client!chatVars
  <2>1. hpc[r] = "new" /\ Status[r] = "new" /\ UNCHANGED <<received, torn>>
    BY <1>6 DEF Claim, At, Status, grpc
  <2>2. CASE hpc' = [hpc EXCEPT ![r] = "register"]
    <3>1. Status' = [Status EXCEPT ![r] = "new"]
      BY <1>0, <2>2, StatusStep
    <3>2. Status' = Status
      BY <2>1, <3>1 DEF Status
    <3> QED  BY <1>5, <2>1, <3>2
  <2>3. CASE hpc' = [hpc EXCEPT ![r] = "ended"]
    <3>1. Status' = [Status EXCEPT ![r] = "closed"]
      BY <1>0, <2>3, StatusStep
    <3> QED  BY <1>3, <2>1, <3>1
  <2> QED  BY <1>6, <2>2, <2>3 DEF Claim, At
<1>7. ASSUME NEW r \in Requests, Register(r) \/ SetCallback(r) PROVE UNCHANGED Client!chatVars
  <2>1. UNCHANGED <<received, torn>> /\ hpc[r] \in {"register", "callback"}
    BY <1>7 DEF Register, SetCallback, At, grpc
  <2>2. PICK to \in {"callback", "publish"} : hpc' = [hpc EXCEPT ![r] = to]
    BY <1>7 DEF Register, SetCallback, At
  <2>3. Status' = [Status EXCEPT ![r] = "new"] /\ Status[r] = "new"
    BY <1>0, <2>1, <2>2 DEF Status, ApiTypes
  <2>4. Status' = Status
    BY <2>3 DEF Status
  <2> QED  BY <1>5, <2>1, <2>4
<1>8. ASSUME NEW r \in Requests, PublishRequest(r) PROVE Client!Next
  <2>1. UNCHANGED <<received, torn>> /\ Status[r] = "new"
    BY <1>8 DEF PublishRequest, At, grpc, Status
  <2>2. CASE hpc' = [hpc EXCEPT ![r] = "stream"]
    <3>1. Status' = [Status EXCEPT ![r] = "open"]
      BY <1>0, <2>2, StatusStep
    <3> QED  BY <1>2, <2>1, <3>1
  <2>3. CASE hpc' = [hpc EXCEPT ![r] = "ended"]
    <3>1. Status' = [Status EXCEPT ![r] = "closed"]
      BY <1>0, <2>3, StatusStep
    <3> QED  BY <1>3, <2>1, <3>1
  <2> QED  BY <1>8, <2>2, <2>3 DEF PublishRequest, At
<1>9. ASSUME NEW r \in Requests, Disconnect(r) PROVE Client!Next
  <2>1. UNCHANGED <<received, torn>> /\ Status[r] = "open" /\ hpc' = [hpc EXCEPT ![r] = "ended"]
    BY <1>9 DEF Disconnect, At, grpc, Status
  <2>2. Status' = [Status EXCEPT ![r] = "closed"]
    BY <1>0, <2>1, StatusStep
  <2> QED  BY <1>4, <2>1, <2>2
<1>10. ASSUME NEW r \in Requests, Forward(r) PROVE Client!Next
  <2>2. hubCh[r] \in Seq(1 .. Done) /\ hubCh[r] # << >>
    BY <1>0, <1>10 DEF ApiTypes, Forward
  <2>3. PICK n \in 1 .. Done : n = Head(hubCh[r])
    BY <2>2, HeadTailProperties
  <2>1. /\ UNCHANGED torn /\ hpc[r] = "stream" /\ hubCh[r] # << >> /\ Status[r] = "open"
        /\ received' = [received EXCEPT ![r] = Append(received[r], n)]
    BY <1>10, <2>3 DEF Forward, grpc, Status
  <2>4. 1 \in DOMAIN hubCh[r] /\ n = hubCh[r][1]
    BY <2>2, <2>3, TailLine
  <2>5. \A i \in DOMAIN received[r] : received[r][i] # n /\ (r \notin torn => received[r][i] < n)
    BY <2>4 DEF DeliveryInv, TransitInv, InTransit, Line, Ahead, Follows
  <2>6. Status' = [Status EXCEPT ![r] = IF n = Done THEN "closed" ELSE "open"]
    <3>1. CASE n = Done
      <4>1. hpc' = [hpc EXCEPT ![r] = "ended"]
        BY <1>10, <2>3, <3>1 DEF Forward
      <4>2. Status' = [Status EXCEPT ![r] = "closed"]
        BY <1>0, <4>1, StatusStep
      <4> QED  BY <3>1, <4>2
    <3>2. CASE n # Done
      <4>1. hpc' = hpc
        BY <1>10, <2>3, <3>2 DEF Forward
      <4>2. Status' = Status
        BY <4>1 DEF Status
      <4> QED  BY <2>1, <3>2, <4>2 DEF Status
    <3> QED  BY <3>1, <3>2
  <2>7. Client!Chunk(r, n)
    BY <2>1, <2>5, <2>6 DEF Client!Chunk, Status
  <2> QED  BY <2>7 DEF Client!Next
<1>11. ASSUME NEW r \in Requests, Break(r) PROVE Client!Next
  <2>1. UNCHANGED <<hpc, received>> /\ torn' = torn \cup {r}
    BY <1>11 DEF Break, api
  <2>2. Status' = Status
    BY <2>1 DEF Status
  <2>3. Client!Tear(r)
    BY <2>1, <2>2 DEF Client!Tear, Status
  <2> QED  BY <2>3 DEF Client!Next
<1>12. ASSUME NEW r \in Requests, ExpireCallback(r) \/ Generate(r) \/ Deliver(r) \/ DeliverLate(r) \/ Ack(r)
       PROVE  UNCHANGED <<hpc, received, torn>>
  BY <1>12 DEF ExpireCallback, Generate, Deliver, DeliverLate, Ack, api, grpc
<1>13. RouterLoop \/ UNCHANGED vars => UNCHANGED <<hpc, received, torn>>
  BY DEF RouterLoop, vars, api, grpc
<1>14. ASSUME NEW g \in Goroutines, RequestTimeout(g) \/ RequestLeave(g) \/ ExecuteStep(g)
       PROVE  UNCHANGED <<hpc, received, torn>>
  BY <1>14 DEF RequestTimeout, RequestLeave, ExecuteStep, Execute, ResolveAddr, GetConn, Dial, OpenStream,
    SendToken, CloseAndRecv, api, grpc
<1>15. ASSUME NEW a \in Apis, ApiStop(a) \/ GrpcStopped(a) \/ HttpStopped(a)
       PROVE  UNCHANGED <<hpc, received, torn>>
  BY <1>15 DEF ApiStop, GrpcStopped, HttpStopped, api, grpc
<1> QED
  BY <1>1, <1>6, <1>7, <1>8, <1>9, <1>10, <1>11, <1>12, <1>13, <1>14, <1>15 DEF Next, ExecuteStep

\* The delivery path implements ChatStream: each chunk at most once, nothing
\* after done and, unless the stream breaks, chunks in order.
THEOREM DeliversChatStream == Spec => ImplementsChatStream
<1>1. Spec => Client!Spec
  BY ClientInit, ClientStep, TransitInvariant, PTL DEF Spec, Client!Spec
<1> QED  BY <1>1 DEF ImplementsChatStream

-----------------------------------------------------------------------------
(* The caches of the use case *)

\* No goroutine of r will call Execute again.
Unserved(r) == channels[r] = NoGoroutine \/ gpc[channels[r]] = "exit"

Opening == {"resolve", "conn", "dial", "open"}

\* A stream that is open is cached, Execute looks for an address only if there
\* is none, and the goroutine that sees Done takes both out of the caches.
CacheInv ==
  /\ \A r \in Requests : r \notin streams => stream[r] \notin {"open", "halfclosed"}
  /\ \A g \in Goroutines : xpc[g] \in Opening => req[g] \notin streams
  /\ \A r \in Requests \ hurt : Unserved(r) =>
       r \notin streams /\ (r \notin faulty => addrMap[r] = NoAddr)

\* The caches are empty at the start.
LEMMA CacheInit == Init => CacheInv
BY DEF Init, CacheInv, Opening

\* The router's other steps leave the caches alone; a goroutine that leaves
\* without Done has hurt its request.
LEMMA CacheRouter ==
  ASSUME RP!RouterInv, DeliveryTypes, CacheInv,
         \/ \E r \in Requests : Generate(r)
         \/ RouterLoop
         \/ \E g \in Goroutines : RequestTimeout(g) \/ RequestLeave(g)
  PROVE  CacheInv'
<1> USE DEF router, api, useCase, grpc, fault
<1>0. UNCHANGED <<streams, addrMap, xpc, stream, faulty>>
  BY DEF Generate, RouterLoop, RequestTimeout, RequestLeave
<1>1. \A g \in Goroutines : xpc[g] \in Opening => req'[g] = req[g]
  <2>1. \A g \in Goroutines : xpc[g] \in Opening => gpc[g] = "exec"
    BY DEF DeliveryTypes, UseCaseTypes, Opening
  <2> QED  BY <2>1, RouterExec
<1>2. hurt \subseteq hurt' /\ \A r \in Requests \ hurt' : Unserved(r)' => Unserved(r)
  <2>0. /\ gpc \in [Goroutines -> {"free", "select", "exec", "exit"}] /\ req \in [Goroutines -> Requests \cup {NoRequest}]
        /\ channels \in [Requests -> Goroutines \cup {NoGoroutine}]
        /\ \A g \in Goroutines : gpc[g] # "free" => req[g] \in Requests /\ channels[req[g]] = g
    BY RouterFacts DEF RP!RouterInv, RP!TypeInv, RP!TypeOK
  <2>1. ASSUME NEW g \in Goroutines, RequestTimeout(g)
        PROVE  hurt \subseteq hurt' /\ \A r \in Requests \ hurt' : Unserved(r)' => Unserved(r)
    <3>1. /\ channels' = channels /\ req[g] \in Requests /\ hurt' = hurt \cup {req[g]} /\ channels[req[g]] = g
          /\ \A h \in Goroutines \ {g} : gpc'[h] = gpc[h]
          /\ gpc[g] = "select"
      BY <2>0, <2>1 DEF RequestTimeout, Router!Timeout
    <3>2. \A r \in Requests \ hurt' : channels[r] = g => gpc[g] = "exit" \/ req[g] = r
      <4> SUFFICES ASSUME NEW r \in Requests \ hurt', channels[r] = g PROVE req[g] = r
        OBVIOUS
      <4>1. RP!EntryOwnsGoroutine
        BY DEF RP!RouterInv
      <4> QED  BY <4>1, DeliveryAssumption DEF RP!EntryOwnsGoroutine
    <3> QED  BY <2>0, <3>1, <3>2 DEF Unserved
  <2>2. ASSUME NEW g \in Goroutines, RequestLeave(g)
        PROVE  hurt \subseteq hurt' /\ \A r \in Requests \ hurt' : Unserved(r)' => Unserved(r)
    <3>1. /\ hurt' = hurt /\ gpc[g] = "exit" /\ req[g] \in Requests /\ channels[req[g]] = g
          /\ channels' = [channels EXCEPT ![req[g]] = NoGoroutine]
          /\ \A h \in Goroutines \ {g} : gpc'[h] = gpc[h]
          /\ gpc'[g] = "free"
      BY <2>0, <2>2 DEF RequestLeave, Router!Leave, Router!history
    <3>2. Unserved(req[g])
      BY <3>1 DEF Unserved
    <3>3. \A r \in Requests : r # req[g] => channels'[r] = channels[r]
      BY <2>0, <3>1
    <3>4. \A r \in Requests : r # req[g] /\ Unserved(r)' => Unserved(r)
      BY <2>0, <3>1, <3>3 DEF Unserved
    <3> QED  BY <3>1, <3>2, <3>4 DEF Unserved
  <2>3. ASSUME \/ \E r \in Requests : Generate(r)
               \/ Router!Fetch \/ Router!Send
        PROVE  hurt \subseteq hurt' /\ \A r \in Requests \ hurt' : Unserved(r)' => Unserved(r)
    BY <2>3 DEF Generate, Router!PublishToken, Router!Fetch, Router!Send, Router!workers, Router!history, Unserved
  <2>4. ASSUME Router!Route
        PROVE  hurt \subseteq hurt' /\ \A r \in Requests \ hurt' : Unserved(r)' => Unserved(r)
    <3>0. hurt' = hurt
      BY <2>4 DEF Router!Route, Router!history
    <3>1. CASE UNCHANGED Router!workers
      BY <3>0, <3>1 DEF Router!workers, Unserved
    <3>2. ASSUME NEW g \in Goroutines, Router!Spawn(g, Router!Hand.req),
                 channels[Router!Hand.req] = NoGoroutine
          PROVE  \A r \in Requests \ hurt' : Unserved(r)' => Unserved(r)
      <4>1. /\ gpc' = [gpc EXCEPT ![g] = "select"] /\ channels' = [channels EXCEPT ![Router!Hand.req] = g]
        BY <3>2 DEF Router!Spawn
      <4>2. \A r \in Requests : Unserved(r)' => Unserved(r)
        BY <2>0, <3>2, <4>1 DEF Unserved
      <4> QED  BY <4>2
    <3> QED  BY <2>4, <3>0, <3>1, <3>2 DEF Router!Route
  <2> QED  BY <2>1, <2>2, <2>3, <2>4 DEF RouterLoop, Router!LoopStep
<1> QED  BY <1>0, <1>1, <1>2 DEF CacheInv

\* A step of Execute for r: the others' caches stay, and if it returns with
\* Done those of r are empty.
LEMMA CacheExecute ==
  ASSUME RP!RouterInv, DeliveryTypes, CacheInv, NEW g \in Goroutines, ExecuteStep(g)
  PROVE  CacheInv'
<1> USE DEF router, api, fault, NoFault
<1>0. /\ gpc \in [Goroutines -> {"free", "select", "exec", "exit"}]
      /\ channels \in [Requests -> Goroutines \cup {NoGoroutine}]
      /\ \A h \in Goroutines : gpc[h] # "free" => req[h] \in Requests /\ channels[req[h]] = h
      /\ \A h \in Goroutines : xpc[h] # "idle" => gpc[h] = "exec"
      /\ xpc \in [Goroutines -> {"idle", "resolve", "conn", "dial", "open", "send", "close"}]
      /\ streams \subseteq Requests /\ addrMap \in [Requests -> Addrs \cup {NoAddr}]
      /\ stream \in [Requests -> {"none", "open", "halfclosed", "acked", "broken"}]
  BY RouterFacts DEF RP!RouterInv, RP!TypeInv, RP!TypeOK, DeliveryTypes, UseCaseTypes, GrpcTypes
<1>1. gpc[g] \in {"select", "exec"}
  BY <1>0 DEF ExecuteStep, Execute, ResolveAddr, GetConn, Dial, OpenStream, SendToken, CloseAndRecv, X, Router!Receive
<1>2. PICK r \in Requests : r = req[g] /\ channels[r] = g
  BY <1>0, <1>1
<1>3. \A h \in Goroutines \ {g} : gpc[h] # "free" => req[h] # r
  BY <1>0, <1>2
<1>4. /\ req' = req /\ channels' = channels /\ hurt' = hurt
      /\ \A h \in Goroutines \ {g} : gpc'[h] = gpc[h] /\ xpc'[h] = xpc[h]
      /\ xpc'[g] \in {"idle", "resolve", "conn", "dial", "open", "send", "close"}
  <2>1. CASE Execute(g)
    BY <1>0, <2>1, ReceiveFacts DEF Execute, X
  <2>2. CASE ~Execute(g)
    <3>1. UNCHANGED router \/ Router!AfterExecute(g)
      BY <2>2 DEF ExecuteStep, ResolveAddr, GetConn, Dial, OpenStream, SendToken, CloseAndRecv, Return
    <3>2. req' = req /\ channels' = channels /\ hurt' = hurt /\ \A h \in Goroutines \ {g} : gpc'[h] = gpc[h]
      BY <3>1, ReturnFacts
    <3>3. \E to \in {"idle", "resolve", "conn", "dial", "open", "send", "close"} : xpc' = [xpc EXCEPT ![g] = to]
      BY <2>2 DEF ExecuteStep, ResolveAddr, GetConn, Dial, OpenStream, SendToken, CloseAndRecv, Return, X
    <3> QED  BY <1>0, <3>2, <3>3
  <2> QED  BY <2>1, <2>2
<1> DEFINE Same(q) ==
      /\ (q \in streams' <=> q \in streams) /\ (q \in faulty' <=> q \in faulty)
      /\ stream'[q] = stream[q] /\ addrMap'[q] = addrMap[q]
<1>5. SUFFICES /\ \A q \in Requests : q # r => Same(q)
               /\ r \notin streams' => stream'[r] \notin {"open", "halfclosed"}
               /\ xpc'[g] \in Opening => r \notin streams'
               /\ gpc'[g] = "exit" => r \notin streams' /\ (r \notin faulty' => addrMap'[r] = NoAddr)
  <2> DEFINE P == /\ \A q \in Requests : q # r => Same(q)
                  /\ r \notin streams' => stream'[r] \notin {"open", "halfclosed"}
                  /\ xpc'[g] \in Opening => r \notin streams'
                  /\ gpc'[g] = "exit" => r \notin streams' /\ (r \notin faulty' => addrMap'[r] = NoAddr)
  <2> SUFFICES ASSUME P PROVE CacheInv'
    BY <1>5
  <2>1. \A q \in Requests : q \notin streams' => stream'[q] \notin {"open", "halfclosed"}
    BY DEF CacheInv
  <2>2. \A h \in Goroutines : xpc'[h] \in Opening => req'[h] \notin streams'
    <3> SUFFICES ASSUME NEW h \in Goroutines \ {g}, xpc[h] \in Opening PROVE req[h] \notin streams'
      BY <1>2, <1>4
    <3>1. gpc[h] = "exec"
      BY <1>0 DEF Opening
    <3>2. req[h] \in Requests /\ req[h] # r /\ req[h] \notin streams
      BY <1>0, <1>3, <3>1 DEF CacheInv
    <3> QED  BY <3>2
  <2>3. \A q \in Requests \ hurt' : Unserved(q)' => q \notin streams' /\ (q \notin faulty' => addrMap'[q] = NoAddr)
    <3> SUFFICES ASSUME NEW q \in Requests \ hurt, Unserved(q)'
                 PROVE  q \notin streams' /\ (q \notin faulty' => addrMap'[q] = NoAddr)
      BY <1>4
    <3>1. CASE q = r
      BY <1>2, <1>4, <3>1, DeliveryAssumption DEF Unserved
    <3>2. CASE q # r
      <4>1. channels[q] # g
        <5>1. RP!EntryOwnsGoroutine
          BY DEF RP!RouterInv
        <5> QED  BY <1>2, <3>2, <5>1, DeliveryAssumption DEF RP!EntryOwnsGoroutine
      <4>2. Unserved(q)
        BY <1>0, <1>4, <4>1 DEF Unserved
      <4> QED  BY <3>2, <4>2 DEF CacheInv
    <3> QED  BY <3>1, <3>2
  <2> QED  BY <2>1, <2>2, <2>3 DEF CacheInv
<1>6. CASE Execute(g)
  <2>1. UNCHANGED <<streams, addrMap, stream, faulty>> /\ gpc'[g] = "exec"
    BY <1>6, ReceiveFacts DEF Execute, grpc
  <2>2. xpc'[g] \in Opening => r \notin streams
    BY <1>0, <1>2, <1>6 DEF Execute, X, Opening
  <2> QED  BY <2>1, <2>2 DEF CacheInv
<1>7. CASE GetConn(g) \/ Dial(g)
  <2>1. UNCHANGED <<streams, addrMap, stream, faulty, gpc>> /\ xpc[g] \in {"conn", "dial"} /\ gpc[g] = "exec"
    BY <1>0, <1>7 DEF GetConn, Dial, X, grpc
  <2> QED  BY <1>2, <2>1 DEF CacheInv, Opening
<1>8. CASE ResolveAddr(g)
  <2>1. UNCHANGED <<streams, stream>> /\ xpc[g] = "resolve" /\ gpc[g] = "exec" /\ r \notin streams
    BY <1>0, <1>2, <1>8 DEF ResolveAddr, grpc, CacheInv, Opening
  <2>2. \A q \in Requests : q # r => addrMap'[q] = addrMap[q] /\ (q \in faulty' <=> q \in faulty)
    BY <1>0, <1>2, <1>8 DEF ResolveAddr, Fault
  <2>3. gpc'[g] = "exit" => addrMap'[r] = NoAddr
    BY <1>2, <1>8, <2>1 DEF ResolveAddr
  <2> QED  BY <2>1, <2>2, <2>3 DEF CacheInv
<1>9. CASE OpenStream(g)
  <2>1. UNCHANGED addrMap /\ xpc[g] = "open" /\ gpc[g] = "exec" /\ r \notin streams
    BY <1>0, <1>2, <1>9 DEF OpenStream, CacheInv, Opening
  <2>2. \A q \in Requests : q # r => (q \in faulty' <=> q \in faulty)
    BY <1>2, <1>9 DEF OpenStream, Fault
  <2>3. CASE UNCHANGED <<streams, grpc>> /\ r \in faulty' /\ xpc' = [xpc EXCEPT ![g] = "idle"]
    BY <1>0, <2>1, <2>2, <2>3 DEF CacheInv, grpc, Opening
  <2>4. CASE /\ streams' = streams \cup {r} /\ stream' = [stream EXCEPT ![r] = "open"]
             /\ xpc' = [xpc EXCEPT ![g] = "send"] /\ gpc' = gpc
    BY <1>0, <2>1, <2>2, <2>4 DEF CacheInv, Opening
  <2> QED  BY <1>2, <1>9, <2>3, <2>4 DEF OpenStream, Return, X, Fault
<1>10. CASE SendToken(g)
  <2>1. UNCHANGED faulty /\ xpc[g] = "send" /\ gpc[g] = "exec"
    BY <1>0, <1>10 DEF SendToken
  <2>2. CASE /\ UNCHANGED <<stream, streams, addrMap>> /\ xpc' = [xpc EXCEPT ![g] = "idle"]
             /\ cur[g] # Done /\ Router!AfterExecute(g)
    <3>1. gpc'[g] = "select"
      BY <2>2, ReturnFacts
    <3> QED  BY <1>0, <2>1, <2>2, <3>1 DEF CacheInv, Opening
  <2>3. CASE /\ stream[r] = "open" /\ stream' = [stream EXCEPT ![r] = "halfclosed"] /\ UNCHANGED <<streams, addrMap, gpc>>
             /\ xpc' = [xpc EXCEPT ![g] = "close"]
    BY <1>0, <2>1, <2>3 DEF CacheInv, Opening
  <2>4. CASE stream[r] = "broken" /\ Evict(r) /\ UNCHANGED stream /\ xpc' = [xpc EXCEPT ![g] = "idle"]
    BY <1>0, <2>1, <2>4 DEF CacheInv, Opening, Evict
  <2> QED  BY <1>2, <1>10, <2>2, <2>3, <2>4 DEF SendToken, Return, X
<1>11. CASE CloseAndRecv(g)
  <2>1. /\ UNCHANGED <<faulty, stream>> /\ stream[r] \in {"acked", "broken"} /\ Evict(r)
        /\ xpc' = [xpc EXCEPT ![g] = "idle"]
    BY <1>2, <1>11 DEF CloseAndRecv, Return, X, grpc
  <2> QED  BY <1>0, <2>1 DEF CacheInv, Opening, Evict
<1> QED  BY <1>6, <1>7, <1>8, <1>9, <1>10, <1>11 DEF ExecuteStep

\* Every step keeps CacheInv.
LEMMA CacheStep == DeliveryInv /\ CacheInv /\ [Next]_vars => CacheInv'
<1> SUFFICES ASSUME DeliveryInv, CacheInv, [Next]_vars PROVE CacheInv'
  OBVIOUS
<1>0. RP!RouterInv /\ DeliveryTypes
  BY DEF DeliveryInv
<1>1. ASSUME UNCHANGED <<router, xpc, streams, addrMap>>, faulty \subseteq faulty',
             \A r \in Requests : stream'[r] = stream[r] \/ stream'[r] \in {"acked", "broken"}
      PROVE  CacheInv'
  BY <1>1 DEF CacheInv, Unserved, router
<1>2. ASSUME NEW r \in Requests,
             \/ Claim(r) \/ Register(r) \/ SetCallback(r) \/ PublishRequest(r) \/ Forward(r)
             \/ Disconnect(r) \/ ExpireCallback(r) \/ Deliver(r) \/ DeliverLate(r) \/ Ack(r) \/ Break(r)
      PROVE  CacheInv'
  <2>1. UNCHANGED <<router, xpc, streams, addrMap>>
    BY <1>2 DEF Claim, Register, SetCallback, PublishRequest, Forward, Disconnect,
      ExpireCallback, Deliver, DeliverLate, Ack, Break, useCase
  <2>2. faulty \subseteq faulty'
    BY <1>2 DEF Claim, Register, SetCallback, PublishRequest, Forward, Disconnect,
      ExpireCallback, Deliver, DeliverLate, Ack, Break, Fault, NoFault, fault
  <2>3. \A q \in Requests : stream'[q] = stream[q] \/ stream'[q] \in {"acked", "broken"}
    <3>1. \/ UNCHANGED stream
          \/ stream' = [stream EXCEPT ![r] = "acked"]
          \/ stream' = [stream EXCEPT ![r] = "broken"]
      BY <1>2 DEF Claim, Register, SetCallback, PublishRequest, Forward, Disconnect,
        ExpireCallback, Deliver, DeliverLate, Ack, Break, grpc
    <3> QED  BY <1>0, <3>1 DEF DeliveryTypes, GrpcTypes
  <2> QED  BY <1>1, <2>1, <2>2, <2>3
<1>3. ASSUME \/ \E a \in Apis : ApiStop(a) \/ GrpcStopped(a) \/ HttpStopped(a)
             \/ UNCHANGED vars
      PROVE  CacheInv'
  <2>1. UNCHANGED <<router, xpc, streams, addrMap, stream, faulty>>
    BY <1>3 DEF ApiStop, GrpcStopped, HttpStopped, vars, useCase, grpc, fault
  <2> QED  BY <1>1, <2>1
<1> QED  BY <1>0, <1>2, <1>3, CacheRouter, CacheExecute DEF Next, ExecuteStep

\* When the goroutine of a request has left, and not by its idle timer, no
\* stream of it is cached or open at the API, whatever calls failed on the way.
THEOREM NothingLeftBehind == Spec => []NoStreamLeftBehind
<1>1. Spec => []CacheInv
  BY CacheInit, CacheStep, TransitInvariant, PTL DEF Spec
<1>2. CacheInv => NoStreamLeftBehind
  BY DEF CacheInv, Unserved, NoStreamLeftBehind
<1> QED  BY <1>1, <1>2, PTL
=============================================================================
