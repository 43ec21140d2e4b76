-------------------------- MODULE TokenHandlerProofs --------------------------
(***************************************************************************)
(* Proofs about TokenDelivery where each API instance has an address of its*)
(* own: a token finds the handler of its request, and without a fault the  *)
(* client has the text without a gap.                                      *)
(***************************************************************************)
EXTENDS TokenDeliveryProofs

\* GRPC_ADVERTISED_ADDR tells the instances apart, as it does when there is one
\* of them or each has a name of its own.
OwnAddrs == \A a, b \in Apis : Advertised[a] = Advertised[b] => a = b

-----------------------------------------------------------------------------
(* Registration before publication *)

\* A request is in the hub while its handler may read from it, and no token is
\* generated before that.
Registered(r) ==
  /\ r \in pending <=> hpc[r] \in {"callback", "publish", "stream"}
  /\ r \in requested => hpc[r] \in {"stream", "ended"}
  /\ emitted[r] # 0 => r \in requested

\* Redis and the RAM cache have the address of the request's own instance.
OwnAddress(r) ==
  /\ callback[r] \in {NoAddr, Advertised[ApiOf[r]]}
  /\ addrMap[r] \in {NoAddr, Advertised[ApiOf[r]]}

RegisterInv == \A r \in Requests : Registered(r) /\ OwnAddress(r) /\ sapi[r] = ApiOf[r]

\* No request is known at the start.
LEMMA RegisterInit == Init => RegisterInv
BY DEF Init, Router!Init, RegisterInv, Registered, OwnAddress

\* The handler registers the request and sets the callback before it publishes.
LEMMA RegisterHandler ==
  ASSUME DeliveryTypes, RegisterInv, NEW r \in Requests,
         \/ Claim(r) \/ Register(r) \/ SetCallback(r) \/ PublishRequest(r) \/ Forward(r)
         \/ Disconnect(r) \/ ExpireCallback(r)
  PROVE  RegisterInv'
<1> USE DEF router, useCase, grpc
<1>1. UNCHANGED <<emitted, addrMap, sapi>>
  BY DEF Claim, Register, SetCallback, PublishRequest, Forward, Disconnect, ExpireCallback,
    Router!source
<1>2. /\ hpc \in [Requests -> {"new", "register", "callback", "publish", "stream", "ended"}]
      /\ callback \in [Requests -> Addrs \cup {NoAddr}]
  BY DEF DeliveryTypes, ApiTypes
<1>3. \A q \in Requests : Registered(q)'
  <2>1. CASE Claim(r) \/ Register(r)
    BY <1>1, <1>2, <2>1 DEF Claim, Register, At, RegisterInv, Registered
  <2>2. CASE SetCallback(r) \/ PublishRequest(r)
    BY <1>1, <1>2, <2>2 DEF SetCallback, PublishRequest, At, RegisterInv, Registered
  <2>3. CASE Forward(r)
    BY <1>1, <1>2, <2>3 DEF Forward, RegisterInv, Registered
  <2>4. CASE Disconnect(r) \/ ExpireCallback(r)
    BY <1>1, <1>2, <2>4 DEF Disconnect, ExpireCallback, At, RegisterInv, Registered
  <2> QED  BY <2>1, <2>2, <2>3, <2>4
<1>4. \A q \in Requests : OwnAddress(q)'
  <2>1. CASE SetCallback(r) \/ ExpireCallback(r)
    BY <1>1, <1>2, <2>1 DEF SetCallback, ExpireCallback, RegisterInv, OwnAddress
  <2>2. CASE UNCHANGED callback
    BY <1>1, <2>2 DEF RegisterInv, OwnAddress
  <2> QED  BY <2>1, <2>2 DEF Claim, Register, PublishRequest, Forward, Disconnect
<1> QED  BY <1>1, <1>3, <1>4 DEF RegisterInv

\* Execute opens the stream to the instance Redis names.
LEMMA RegisterExecute ==
  ASSUME OwnAddrs, RP!RouterInv, DeliveryTypes, RegisterInv, NEW g \in Goroutines, ExecuteStep(g)
  PROVE  RegisterInv'
<1> USE DEF router, api
<1>1. UNCHANGED <<hpc, pending, requested, callback, emitted>>
  <2>1. Router!Receive(g) \/ Router!AfterExecute(g) \/ UNCHANGED router
    BY DEF ExecuteStep, Execute, ResolveAddr, GetConn, Dial, OpenStream, SendToken, CloseAndRecv, Return
  <2>2. UNCHANGED emitted
    BY <2>1, ReceiveFacts, ReturnFacts
  <2> QED  BY <2>2 DEF ExecuteStep, Execute, ResolveAddr, GetConn, Dial, OpenStream, SendToken, CloseAndRecv
<1>2. \A q \in Requests : Registered(q)'
  BY <1>1 DEF RegisterInv, Registered
<1>3. addrMap \in [Requests -> Addrs \cup {NoAddr}] /\ sapi \in [Requests -> Apis] /\ ApiOf \in [Requests -> Apis]
  BY DeliveryAssumption DEF DeliveryTypes, UseCaseTypes, GrpcTypes
<1>4. \A q \in Requests : OwnAddress(q)'
  <2>1. \/ UNCHANGED addrMap
        \/ addrMap' = [addrMap EXCEPT ![req[g]] = NoAddr]
        \/ addrMap' = [addrMap EXCEPT ![req[g]] = callback[req[g]]]
    BY DEF ExecuteStep, Execute, ResolveAddr, GetConn, Dial, OpenStream, SendToken, CloseAndRecv, Evict
  <2> QED  BY <1>1, <1>3, <2>1 DEF RegisterInv, OwnAddress
<1>5. \A q \in Requests : sapi'[q] = ApiOf[q]
  <2>1. \/ UNCHANGED sapi
        \/ \E a \in Apis : Advertised[a] = addrMap[req[g]] /\ sapi' = [sapi EXCEPT ![req[g]] = a]
    BY DEF ExecuteStep, Execute, ResolveAddr, GetConn, Dial, OpenStream, SendToken, CloseAndRecv, grpc
  <2>2. CASE UNCHANGED sapi
    BY <2>2 DEF RegisterInv
  <2>3. ASSUME NEW a \in Apis, Advertised[a] = addrMap[req[g]], sapi' = [sapi EXCEPT ![req[g]] = a]
        PROVE  \A q \in Requests : sapi'[q] = ApiOf[q]
    <3>1. req[g] \in Requests => a = ApiOf[req[g]]
      BY <1>3, <2>3, AddrOf DEF OwnAddrs, RegisterInv, OwnAddress
    <3> QED  BY <1>3, <2>3, <3>1 DEF RegisterInv
  <2> QED  BY <2>1, <2>2, <2>3
<1> QED  BY <1>2, <1>4, <1>5 DEF RegisterInv

\* Every step keeps the registrations.
LEMMA RegisterStep ==
  ASSUME OwnAddrs
  PROVE  DeliveryInv /\ RegisterInv /\ [Next]_vars => RegisterInv'
<1> SUFFICES ASSUME DeliveryInv, RegisterInv, [Next]_vars PROVE RegisterInv'
  OBVIOUS
<1>0. RP!RouterInv /\ DeliveryTypes
  BY DEF DeliveryInv
<1> USE DEF router, api, useCase, grpc
<1>1. ASSUME UNCHANGED <<hpc, pending, requested, callback, addrMap, sapi, emitted>>
      PROVE  RegisterInv'
  BY <1>1 DEF RegisterInv, Registered, OwnAddress
<1>2. ASSUME NEW r \in Requests, Deliver(r) \/ DeliverLate(r) \/ Ack(r) \/ Break(r) PROVE RegisterInv'
  BY <1>1, <1>2 DEF Deliver, DeliverLate, Ack, Break, Router!source
<1>3. ASSUME NEW r \in Requests, Generate(r) PROVE RegisterInv'
  <2>1. /\ r \in requested /\ UNCHANGED <<hpc, pending, requested, callback, addrMap, sapi>>
        /\ \A q \in Requests : q # r => emitted'[q] = emitted[q]
    BY <1>0, <1>3 DEF Generate, Router!PublishToken, RP!RouterInv, RP!TypeInv, RP!TypeOK
  <2> QED  BY <2>1 DEF RegisterInv, Registered, OwnAddress
<1>4. ASSUME \/ RouterLoop
             \/ \E g \in Goroutines : RequestTimeout(g) \/ RequestLeave(g)
      PROVE  RegisterInv'
  <2>1. UNCHANGED emitted
    BY <1>4 DEF RouterLoop, RequestTimeout, RequestLeave, Router!LoopStep, Router!Fetch, Router!Route,
      Router!Send, Router!Timeout, Router!Leave, Router!source
  <2> QED  BY <1>1, <1>4, <2>1 DEF RouterLoop, RequestTimeout, RequestLeave
<1>5. ASSUME \/ \E a \in Apis : ApiStop(a) \/ GrpcStopped(a) \/ HttpStopped(a)
             \/ UNCHANGED vars
      PROVE  RegisterInv'
  BY <1>1, <1>5 DEF ApiStop, GrpcStopped, HttpStopped, vars, Router!source
<1> QED  BY <1>0, <1>2, <1>3, <1>4, <1>5, RegisterHandler, RegisterExecute DEF Next, ExecuteStep

\* Registrations and addresses are as the handler made them.
LEMMA RegisterInvariant ==
  ASSUME OwnAddrs
  PROVE  Spec => [](DeliveryInv /\ RegisterInv)
BY RegisterInit, RegisterStep, TransitInvariant, PTL DEF Spec

\* Only a token of a request that was published is executed.
LEMMA ExecutedRequested ==
  ASSUME DeliveryInv, RegisterInv, NEW r \in Requests, executed[r] # << >>
  PROVE  r \in requested
<1>1. Done \in Nat /\ executed[r] \in Seq(1 .. Done)
  BY RouterFacts DEF DeliveryInv
<1>2. Len(executed[r]) \in Nat \ {0} /\ DOMAIN executed[r] = 1 .. Len(executed[r])
  BY <1>1, TailAt
<1>3. 1 \in DOMAIN executed[r]
  BY <1>2
<1>4. executed[r][1] \in 1 .. Done /\ executed[r][1] <= emitted[r]
  BY <1>1, <1>2, <1>3, ElementOfSeq DEF DeliveryInv, RP!RouterInv, RP!OrderInv, RP!OnlyEmitted
<1>5. emitted[r] # 0
  BY <1>1, <1>4
<1> QED  BY <1>5 DEF RegisterInv, Registered

\* "Register channel BEFORE publishing to Kafka - eliminates race with Worker
\* callback": where the instances have addresses of their own, a token in
\* transit finds its request registered with the instance it is sent to, unless
\* the handler has ended.  (TLC shows that instances that share an address
\* violate this.)
THEOREM FindsHandler ==
  ASSUME OwnAddrs
  PROVE  Spec => []TokenFindsHandler
<1>1. ASSUME DeliveryInv, RegisterInv PROVE TokenFindsHandler
  <2> SUFFICES ASSUME NEW r \in Requests, wire[r] # << >>, hpc[r] # "ended"
               PROVE  sapi[r] = ApiOf[r] /\ r \in pending
    BY DEF TokenFindsHandler
  <2>1. Done \in Nat /\ wire[r] \in Seq(1 .. Done)
    BY <1>1, RouterFacts, TransitTypes DEF DeliveryInv
  <2>2. 1 \in DOMAIN wire[r]
    BY <2>1, TailLine
  <2>3. executed[r] # << >>
    BY <1>1, <2>2 DEF DeliveryInv, TransitInv, SentPast, Past
  <2> QED  BY <1>1, <2>3, ExecutedRequested DEF RegisterInv, Registered
<1> QED  BY <1>1, RegisterInvariant, PTL

-----------------------------------------------------------------------------
(* No gap without a fault *)

\* A goroutine has a token of r that has not left; a goroutine is on its way to
\* open the stream of r.
Sending(r)   == \E g \in Goroutines : Unsent(g) /\ req[g] = r
OpeningOf(r) == \E g \in Goroutines : xpc[g] \in Opening /\ req[g] = r

\* Received, in the hub channel and on the wire.
Sent(r) == Len(received[r]) + Len(hubCh[r]) + Len(wire[r])

\* The tokens of r are numbered on their way ...
NumberedLine(r) ==
  /\ RP!Numbered(received[r], 0) /\ RP!Numbered(hubCh[r], Len(received[r]))
  /\ RP!Numbered(wire[r], Len(received[r]) + Len(hubCh[r]))

\* ... all that was executed has been sent, but for the one a goroutine has ...
AllSent(r) == Len(executed[r]) = IF Sending(r) THEN Sent(r) + 1 ELSE Sent(r)

\* ... the stream is opened for the first one, with an address that is there,
\* and stays until the last ...
StreamKept(r) ==
  /\ OpeningOf(r) => Len(executed[r]) = 1
  /\ r \in streams \/ OpeningOf(r) \/ Len(executed[r]) \in {0, Done}
  /\ hpc[r] \in {"publish", "stream"} \/ r \in requested => callback[r] # NoAddr

\* ... and the handler reads until it has the last.
ReadToEnd(r) == hpc[r] = "ended" => Len(received[r]) = Done

Gapless(r) == NumberedLine(r) /\ AllSent(r) /\ StreamKept(r) /\ ReadToEnd(r)

\* Who sends has a stream, who closes has sent Done, and only a fault breaks a
\* stream.
StreamInUse ==
  /\ \A r \in Requests : stream[r] = "broken" => r \in torn
  /\ torn \subseteq faulty
  /\ \A g \in Goroutines : xpc[g] \in {"send", "close"} => req[g] \in streams
  /\ \A g \in Goroutines : xpc[g] = "close" => cur[g] = Done

GapInv == StreamInUse /\ \A r \in Requests \ (faulty \cup hurt) : Gapless(r)

\* Nothing is sent at the start.
LEMMA GapInit == Init => GapInv
<1> SUFFICES ASSUME Init PROVE GapInv
  OBVIOUS
<1>1. /\ \A r \in Requests : /\ received[r] = << >> /\ hubCh[r] = << >> /\ wire[r] = << >> /\ executed[r] = << >>
                             /\ stream[r] = "none" /\ hpc[r] = "new"
      /\ \A g \in Goroutines : gpc[g] = "free" /\ xpc[g] = "idle"
      /\ requested = {} /\ torn = {}
  BY DEF Init, Router!Init
<1>2. StreamInUse
  BY <1>1 DEF StreamInUse
<1>3. Len(<< >>) = 0 /\ DOMAIN << >> = {}
  OBVIOUS
<1>4. ASSUME NEW r \in Requests PROVE Gapless(r)
  <2>1. NumberedLine(r)
    BY <1>1, <1>3 DEF NumberedLine, RP!Numbered
  <2>2. ~Sending(r) /\ ~OpeningOf(r)
    BY <1>1 DEF Sending, OpeningOf, Unsent, Opening
  <2>3. Sent(r) = 0
    <3>1. Len(received[r]) = 0 /\ Len(hubCh[r]) = 0 /\ Len(wire[r]) = 0
      BY <1>1, <1>3, Zenon
    <3> QED  BY <3>1 DEF Sent
  <2>4. AllSent(r)
    BY <1>1, <1>3, <2>2, <2>3 DEF AllSent
  <2>5. StreamKept(r) /\ ReadToEnd(r)
    BY <1>1, <1>3, <2>2 DEF StreamKept, ReadToEnd
  <2> QED  BY <2>1, <2>4, <2>5 DEF Gapless
<1> QED  BY <1>2, <1>4 DEF GapInv

\* The step does not concern request r.
Apart(r) ==
  /\ received'[r] = received[r] /\ hubCh'[r] = hubCh[r] /\ wire'[r] = wire[r]
  /\ executed'[r] = executed[r] /\ callback'[r] = callback[r] /\ hpc'[r] = hpc[r]
  /\ (r \in requested' <=> r \in requested) /\ (r \in streams' <=> r \in streams)
  /\ (Sending(r)' <=> Sending(r)) /\ (OpeningOf(r)' <=> OpeningOf(r))

LEMMA ApartGapless ==
  ASSUME NEW r \in Requests, Apart(r), Gapless(r)
  PROVE  Gapless(r)'
<1>1. NumberedLine(r)' /\ ReadToEnd(r)'
  BY DEF Apart, Gapless, NumberedLine, ReadToEnd
<1>2. AllSent(r)' /\ StreamKept(r)'
  BY DEF Apart, Gapless, AllSent, Sent, StreamKept
<1> QED  BY <1>1, <1>2 DEF Gapless

\* Steps of one request: the others stay as they are.
LEMMA GapOne ==
  ASSUME GapInv, faulty \subseteq faulty', hurt \subseteq hurt', StreamInUse', NEW r \in Requests,
         \A q \in Requests : q # r => Apart(q),
         r \notin faulty' \cup hurt' /\ Gapless(r) => Gapless(r)'
  PROVE  GapInv'
BY ApartGapless DEF GapInv

\* Steps that do not concern any request.
LEMMA GapNone ==
  ASSUME GapInv, faulty \subseteq faulty', hurt \subseteq hurt', StreamInUse',
         \A q \in Requests : q \notin faulty' \cup hurt' => Apart(q)
  PROVE  GapInv'
BY ApartGapless DEF GapInv

\* What the goroutines have does not change while they do not move.
LEMMA SendingKept ==
  ASSUME UNCHANGED <<gpc, xpc, req>>
  PROVE  \A q \in Requests : (Sending(q)' <=> Sending(q)) /\ (OpeningOf(q)' <=> OpeningOf(q))
BY DEF Sending, OpeningOf, Unsent

\* Sending a numbered token on, and receiving one.
LEMMA NumberedAppend ==
  ASSUME NEW S, NEW s \in Seq(S), NEW k \in Nat, NEW e \in S, RP!Numbered(s, k), e = k + Len(s) + 1
  PROVE  RP!Numbered(Append(s, e), k) /\ Len(Append(s, e)) = Len(s) + 1
<1>1. /\ DOMAIN Append(s, e) = 1 .. Len(s) + 1 /\ Len(Append(s, e)) = Len(s) + 1
      /\ \A i \in 1 .. Len(s) + 1 : Append(s, e)[i] = IF i = Len(s) + 1 THEN e ELSE s[i]
  BY AppendAt
<1>2. Len(s) \in Nat /\ DOMAIN s = 1 .. Len(s)
  BY LenProperties
<1>3. ASSUME NEW i \in 1 .. Len(s) + 1 PROVE Append(s, e)[i] = k + i
  <2>1. CASE i = Len(s) + 1
    BY <1>1, <1>2, <2>1
  <2>2. CASE i # Len(s) + 1
    <3>1. i \in 1 .. Len(s)
      BY <1>2, <2>2
    <3> QED  BY <1>1, <1>2, <2>2, <3>1 DEF RP!Numbered
  <2> QED  BY <2>1, <2>2
<1> QED  BY <1>1, <1>3 DEF RP!Numbered

LEMMA NumberedTail ==
  ASSUME NEW S, NEW s \in Seq(S), s # << >>, NEW k \in Nat, RP!Numbered(s, k)
  PROVE  /\ Head(s) = k + 1 /\ Head(s) \in S
         /\ RP!Numbered(Tail(s), k + 1) /\ Len(Tail(s)) = Len(s) - 1
         /\ Tail(s) \in Seq(S) /\ Len(s) \in Nat \ {0}
<1>1. /\ Len(s) \in Nat \ {0} /\ DOMAIN s = 1 .. Len(s) /\ Head(s) = s[1]
      /\ DOMAIN Tail(s) = 1 .. Len(s) - 1 /\ Len(Tail(s)) = Len(s) - 1
      /\ \A i \in 1 .. Len(s) - 1 : Tail(s)[i] = s[i + 1]
  BY TailAt
<1>2. 1 \in 1 .. Len(s) /\ \A i \in 1 .. Len(s) - 1 : i + 1 \in 1 .. Len(s)
  BY <1>1
<1>3. Head(s) = k + 1
  BY <1>1, <1>2 DEF RP!Numbered
<1>4. ASSUME NEW i \in 1 .. Len(s) - 1 PROVE Tail(s)[i] = (k + 1) + i
  <2>1. Tail(s)[i] = s[i + 1] /\ s[i + 1] = k + (i + 1)
    BY <1>1, <1>2 DEF RP!Numbered
  <2> QED  BY <1>1, <2>1
<1> QED  BY <1>1, <1>3, <1>4, HeadTailProperties DEF RP!Numbered

\* The sequences of a request and their lengths.
LEMMA GapTypes ==
  ASSUME DeliveryInv, NEW r \in Requests
  PROVE  /\ Done \in Nat \ {0}
         /\ received[r] \in Seq(1 .. Done) /\ hubCh[r] \in Seq(1 .. Done) /\ wire[r] \in Seq(1 .. Done)
         /\ executed[r] \in Seq(1 .. Done)
         /\ Len(received[r]) \in Nat /\ Len(hubCh[r]) \in Nat /\ Len(wire[r]) \in Nat /\ Len(executed[r]) \in Nat
<1>1. Done \in Nat \ {0} /\ executed[r] \in Seq(1 .. Done)
  BY RouterFacts DEF DeliveryInv
<1> QED  BY <1>1, TransitTypes, LenProperties DEF DeliveryInv

\* The handler forwards what is next; it is its own fault or the client's if it
\* ends early.
LEMMA GapHandler ==
  ASSUME DeliveryInv, RegisterInv, GapInv, NEW r \in Requests,
         \/ Claim(r) \/ Register(r) \/ SetCallback(r) \/ PublishRequest(r) \/ Forward(r)
         \/ Disconnect(r) \/ ExpireCallback(r)
  PROVE  GapInv'
<1>1. /\ UNCHANGED <<gpc, xpc, req, cur, executed, hurt, streams, stream, torn, wire>>
      /\ faulty \subseteq faulty'
  BY DEF Claim, Register, SetCallback, PublishRequest, Forward, Disconnect, ExpireCallback,
    router, useCase, grpc, fault, Fault, NoFault
<1>2. StreamInUse'
  BY <1>1 DEF GapInv, StreamInUse
<1>3. \A q \in Requests : (Sending(q)' <=> Sending(q)) /\ (OpeningOf(q)' <=> OpeningOf(q))
  BY <1>1, SendingKept
<1>4. /\ hpc \in [Requests -> {"new", "register", "callback", "publish", "stream", "ended"}]
      /\ hubCh \in [Requests -> Seq(1 .. Done)] /\ received \in [Requests -> Seq(1 .. Done)]
      /\ callback \in [Requests -> Addrs \cup {NoAddr}]
  BY DEF DeliveryInv, DeliveryTypes, ApiTypes
<1>5. \A q \in Requests : q # r =>
        /\ hpc'[q] = hpc[q] /\ hubCh'[q] = hubCh[q] /\ received'[q] = received[q] /\ callback'[q] = callback[q]
        /\ (q \in requested' <=> q \in requested)
  <2>1. CASE Claim(r) \/ Register(r) \/ SetCallback(r) \/ PublishRequest(r)
    BY <1>4, <2>1 DEF Claim, Register, SetCallback, PublishRequest, At
  <2>2. CASE Forward(r) \/ Disconnect(r) \/ ExpireCallback(r)
    BY <1>4, <2>2 DEF Forward, Disconnect, ExpireCallback, At
  <2> QED  BY <2>1, <2>2
<1>6. \A q \in Requests : q # r => Apart(q)
  BY <1>1, <1>3, <1>5 DEF Apart
<1>7. ASSUME r \notin faulty', Gapless(r) PROVE Gapless(r)'
  <2>0. executed[r] # << >> => r \in requested
    BY ExecutedRequested
  <2>1. CASE Claim(r) \/ SetCallback(r) \/ PublishRequest(r)
    <3>1. /\ UNCHANGED <<hubCh, received>> /\ ~ Fault(r) /\ hpc'[r] # "ended"
          /\ hpc'[r] \in {"publish", "stream"} \/ r \in requested' => callback'[r] # NoAddr
      <4>1. ~ Fault(r)
        BY <1>7 DEF Fault
      <4>2. CASE Claim(r)
        BY <1>4, <1>7, <2>1, <4>1, <4>2 DEF Claim, At, RegisterInv, Registered, Gapless, StreamKept
      <4>3. CASE SetCallback(r)
        <5>1. ApiOf[r] \in Apis
          BY DeliveryAssumption
        <5>2. /\ hpc' = [hpc EXCEPT ![r] = "publish"] /\ callback' = [callback EXCEPT ![r] = Advertised[ApiOf[r]]]
              /\ UNCHANGED <<hubCh, received>>
          BY <4>1, <4>3 DEF SetCallback, At
        <5> QED  BY <1>4, <4>1, <5>1, <5>2, AddrOf
      <4>4. CASE PublishRequest(r)
        BY <1>4, <1>7, <4>1, <4>4 DEF PublishRequest, At, Gapless, StreamKept
      <4> QED  BY <2>1, <4>2, <4>3, <4>4, <4>1
    <3>2. NumberedLine(r)' /\ ReadToEnd(r)'
      BY <1>1, <1>7, <3>1 DEF Gapless, NumberedLine, ReadToEnd
    <3>3. AllSent(r)' /\ StreamKept(r)'
      BY <1>1, <1>3, <1>7, <3>1 DEF Gapless, AllSent, Sent, StreamKept
    <3> QED  BY <3>2, <3>3 DEF Gapless
  <2>2. CASE Register(r)
    <3>1. executed[r] = << >> /\ hpc[r] = "register"
      BY <2>0, <2>2 DEF Register, At, RegisterInv, Registered
    <3>2. hubCh[r] = << >>
      <4>1. SUFFICES ASSUME hubCh[r] # << >> PROVE FALSE
        OBVIOUS
      <4>2. Len(hubCh[r]) \in Nat \ {0} /\ DOMAIN hubCh[r] = 1 .. Len(hubCh[r])
        BY <1>4, <4>1, TailAt
      <4>3. 1 \in DOMAIN hubCh[r]
        BY <4>2
      <4> QED  BY <3>1, <4>3 DEF DeliveryInv, TransitInv, SentPast, Past
    <3>3. hubCh' = hubCh
      BY <1>4, <2>2, <3>2 DEF Register
    <3>4. /\ hpc'[r] = "callback" /\ UNCHANGED <<received, callback, requested>>
      BY <1>4, <2>2 DEF Register, At
    <3>5. NumberedLine(r)' /\ ReadToEnd(r)'
      BY <1>1, <1>7, <3>3, <3>4 DEF Gapless, NumberedLine, ReadToEnd
    <3>6. AllSent(r)' /\ StreamKept(r)'
      BY <1>1, <1>3, <1>7, <3>3, <3>4 DEF Gapless, AllSent, Sent, StreamKept
    <3> QED  BY <3>5, <3>6 DEF Gapless
  <2>3. CASE Forward(r)
    <3>0. /\ received'[r] = Append(received[r], Head(hubCh[r])) /\ hubCh'[r] = Tail(hubCh[r])
          /\ hubCh[r] # << >> /\ hpc[r] = "stream" /\ UNCHANGED <<callback, requested>>
          /\ hpc'[r] = IF Head(hubCh[r]) = Done THEN "ended" ELSE "stream"
      BY <1>4, <2>3 DEF Forward
    <3>1. /\ Done \in Nat \ {0} /\ received[r] \in Seq(1 .. Done) /\ hubCh[r] \in Seq(1 .. Done)
          /\ Len(received[r]) \in Nat /\ Len(hubCh[r]) \in Nat /\ Len(wire[r]) \in Nat
      BY GapTypes
    <3>2. /\ RP!Numbered(received[r], 0) /\ RP!Numbered(hubCh[r], Len(received[r]))
          /\ RP!Numbered(wire[r], Len(received[r]) + Len(hubCh[r]))
      BY <1>7 DEF Gapless, NumberedLine
    <3>3. /\ Head(hubCh[r]) = Len(received[r]) + 1 /\ Head(hubCh[r]) \in 1 .. Done
          /\ RP!Numbered(hubCh'[r], Len(received[r]) + 1) /\ Len(hubCh'[r]) = Len(hubCh[r]) - 1
      BY <3>0, <3>1, <3>2, NumberedTail
    <3>4. RP!Numbered(received'[r], 0) /\ Len(received'[r]) = Len(received[r]) + 1
      <4>1. Head(hubCh[r]) = 0 + Len(received[r]) + 1
        BY <3>1, <3>3
      <4> QED  BY <3>0, <3>1, <3>2, <3>3, <4>1, NumberedAppend, SMTT(30)
    <3>5. Len(received'[r]) + Len(hubCh'[r]) = Len(received[r]) + Len(hubCh[r])
      <4>1. /\ Len(hubCh'[r]) = Len(hubCh[r]) - 1 /\ Len(received'[r]) = Len(received[r]) + 1
            /\ Len(received[r]) \in Nat /\ Len(hubCh[r]) \in Nat
        BY <3>1, <3>3, <3>4
      <4>2. \A a, b \in Nat : (a + 1) + (b - 1) = a + b
        OBVIOUS
      <4> QED  BY <4>1, <4>2, Zenon
    <3>6. NumberedLine(r)'
      BY <1>1, <3>2, <3>3, <3>4, <3>5 DEF NumberedLine
    <3>7. Sent(r)' = Sent(r)
      BY <1>1, <3>1, <3>5 DEF Sent
    <3>8. AllSent(r)'
      BY <1>1, <1>3, <1>7, <3>7 DEF Gapless, AllSent
    <3>9. StreamKept(r)'
      BY <1>1, <1>3, <1>7, <3>0 DEF Gapless, StreamKept
    <3>10. ReadToEnd(r)'
      BY <3>0, <3>3, <3>4 DEF ReadToEnd
    <3> QED  BY <3>6, <3>8, <3>9, <3>10 DEF Gapless
  <2>4. ~ Disconnect(r) /\ ~ ExpireCallback(r)
    BY <1>7 DEF Disconnect, ExpireCallback, Fault
  <2> QED  BY <2>1, <2>2, <2>3, <2>4
<1> QED  BY <1>1, <1>2, <1>6, <1>7, GapOne

\* The rest of the router has nothing to do with the tokens on their way.
LEMMA GapRouter ==
  ASSUME DeliveryInv, GapInv,
         \/ \E r \in Requests : Generate(r)
         \/ RouterLoop
         \/ \E g \in Goroutines : RequestTimeout(g) \/ RequestLeave(g)
  PROVE  GapInv'
<1>1. UNCHANGED <<hpc, hubCh, callback, requested, received, xpc, streams, stream, wire, torn, faulty, cur, executed>>
  BY DEF Generate, RouterLoop, RequestTimeout, RequestLeave, Router!PublishToken, Router!LoopStep,
    Router!Fetch, Router!Route, Router!Spawn, Router!Send, Router!Timeout, Router!Leave, Router!workers,
    Router!history, api, useCase, grpc, fault
<1>2. hurt \subseteq hurt'
  BY DEF Generate, RouterLoop, RequestTimeout, RequestLeave, Router!PublishToken, Router!LoopStep,
    Router!Fetch, Router!Route, Router!Send, Router!Timeout, Router!Leave, Router!history
<1>3. /\ \A g \in Goroutines : gpc'[g] = "exec" <=> gpc[g] = "exec"
      /\ \A g \in Goroutines : gpc[g] = "exec" => req'[g] = req[g]
  BY RouterExec DEF DeliveryInv
<1>4. \A g \in Goroutines : gpc[g] # "exec" <=> xpc[g] = "idle"
  BY DEF DeliveryInv, DeliveryTypes, UseCaseTypes
<1>5. \A g \in Goroutines : xpc[g] # "idle" => req'[g] = req[g]
  BY <1>3, <1>4
<1>6. StreamInUse'
  BY <1>1, <1>5 DEF GapInv, StreamInUse
<1>7. ASSUME NEW q \in Requests PROVE (Sending(q)' <=> Sending(q)) /\ (OpeningOf(q)' <=> OpeningOf(q))
  <2>1. \A g \in Goroutines : (Unsent(g) /\ req[g] = q)' <=> (Unsent(g) /\ req[g] = q)
    BY <1>1, <1>3 DEF Unsent
  <2>2. \A g \in Goroutines : (xpc[g] \in Opening /\ req[g] = q)' <=> (xpc[g] \in Opening /\ req[g] = q)
    BY <1>1, <1>5 DEF Opening
  <2> QED  BY <2>1, <2>2 DEF Sending, OpeningOf
<1> QED  BY <1>1, <1>2, <1>6, <1>7, GapNone DEF Apart

\* gRPC and the hub pass on what is next; only a fault breaks a stream, and
\* there is room in the hub.
LEMMA GapServer ==
  ASSUME DeliveryInv, RegisterInv, GapInv, NEW r \in Requests,
         Deliver(r) \/ DeliverLate(r) \/ Ack(r) \/ Break(r)
  PROVE  GapInv'
<1>1. /\ UNCHANGED <<gpc, xpc, req, cur, executed, hurt, streams, hpc, pending, callback, requested, received>>
      /\ faulty \subseteq faulty'
  BY DEF Deliver, DeliverLate, Ack, Break, router, useCase, api, fault, Fault
<1>2. \A q \in Requests : (Sending(q)' <=> Sending(q)) /\ (OpeningOf(q)' <=> OpeningOf(q))
  BY <1>1, SendingKept
<1>3. /\ hubCh \in [Requests -> Seq(1 .. Done)] /\ wire \in [Requests -> Seq(1 .. Done)]
      /\ stream \in [Requests -> {"none", "open", "halfclosed", "acked", "broken"}]
  BY DEF DeliveryInv, DeliveryTypes, ApiTypes, GrpcTypes
<1>4. StreamInUse'
  <2>1. CASE Break(r)
    <3>1. stream' = [stream EXCEPT ![r] = "broken"] /\ torn' = torn \cup {r} /\ faulty' = faulty \cup {r}
      BY <2>1 DEF Break, Fault
    <3> QED  BY <1>1, <1>3, <3>1 DEF GapInv, StreamInUse
  <2>2. CASE Ack(r)
    <3>1. stream' = [stream EXCEPT ![r] = "acked"] /\ UNCHANGED <<torn, faulty>>
      BY <2>2 DEF Ack, fault
    <3> QED  BY <1>1, <1>3, <3>1 DEF GapInv, StreamInUse
  <2>3. CASE Deliver(r) \/ DeliverLate(r)
    <3>1. UNCHANGED <<stream, torn, faulty>>
      BY <2>3 DEF Deliver, DeliverLate, fault
    <3> QED  BY <1>1, <3>1 DEF GapInv, StreamInUse
  <2> QED  BY <2>1, <2>2, <2>3
<1>5. \A q \in Requests : q # r => hubCh'[q] = hubCh[q] /\ wire'[q] = wire[q]
  BY <1>3 DEF Deliver, DeliverLate, Ack, Break, HubDeliver, api
<1>6. \A q \in Requests : q # r => Apart(q)
  BY <1>1, <1>2, <1>5 DEF Apart
<1>7. ASSUME r \notin faulty', Gapless(r) PROVE Gapless(r)'
  <2>1. ~ Break(r)
    BY <1>7 DEF Break, Fault
  <2>2. ~ DeliverLate(r)
    <3>1. \A n \in late[r] : r \in torn
      BY DEF DeliveryInv, TransitInv, InTransit, Line
    <3>2. r \notin torn
      BY <1>1, <1>7 DEF GapInv, StreamInUse
    <3> QED  BY <3>1, <3>2 DEF DeliverLate
  <2>3. CASE Ack(r)
    BY <1>1, <1>2, <1>7, <2>3, ApartGapless DEF Ack, api, Apart
  <2>4. CASE Deliver(r)
    <3>1. /\ Done \in Nat \ {0} /\ received[r] \in Seq(1 .. Done) /\ hubCh[r] \in Seq(1 .. Done)
          /\ wire[r] \in Seq(1 .. Done) /\ wire[r] # << >>
          /\ Len(received[r]) \in Nat /\ Len(hubCh[r]) \in Nat /\ Len(wire[r]) \in Nat
      BY <2>4, GapTypes DEF Deliver
    <3>2. /\ RP!Numbered(hubCh[r], Len(received[r]))
          /\ RP!Numbered(wire[r], Len(received[r]) + Len(hubCh[r]))
      BY <1>7 DEF Gapless, NumberedLine
    <3>3. Len(received[r]) + Len(hubCh[r]) \in Nat
      <4>1. \A a, b \in Nat : a + b \in Nat
        OBVIOUS
      <4> QED  BY <3>1, <4>1, Zenon
    <3>4. /\ Head(wire[r]) = (Len(received[r]) + Len(hubCh[r])) + 1 /\ Head(wire[r]) \in 1 .. Done
          /\ RP!Numbered(Tail(wire[r]), (Len(received[r]) + Len(hubCh[r])) + 1)
          /\ Len(Tail(wire[r])) = Len(wire[r]) - 1 /\ Len(wire[r]) \in Nat \ {0}
      BY <3>1, <3>2, <3>3, NumberedTail
    <3>5. hpc[r] # "ended"
      <4>1. Len(received[r]) # Done
        <5>1. \A a, b, d \in Nat : \A h \in 1 .. d : h = (a + b) + 1 => a # d
          OBVIOUS
        <5> QED  BY <3>1, <3>4, <5>1, Zenon
      <4> QED  BY <1>7, <4>1 DEF Gapless, ReadToEnd
    <3>6. executed[r] # << >>
      <4>1. 1 \in DOMAIN wire[r]
        BY <3>1, TailLine
      <4> QED  BY <4>1 DEF DeliveryInv, TransitInv, SentPast, Past
    <3>7. r \in pending /\ sapi[r] = ApiOf[r]
      BY <3>5, <3>6, ExecutedRequested DEF RegisterInv, Registered
    <3>8. Len(hubCh[r]) < HubCap
      <4>1. 1 \in DOMAIN wire[r] /\ Head(wire[r]) = wire[r][1]
        BY <3>1, TailLine
      <4>2. Has(wire[r], Head(wire[r]))
        BY <4>1 DEF Has
      <4> QED  BY <3>4, <4>2, RoomInHub
    <3>9. hubCh'[r] = Append(hubCh[r], Head(wire[r])) /\ wire'[r] = Tail(wire[r])
      BY <1>3, <2>4, <3>7, <3>8 DEF Deliver, HubDeliver
    <3>10. RP!Numbered(hubCh'[r], Len(received[r])) /\ Len(hubCh'[r]) = Len(hubCh[r]) + 1
      <4>1. PICK k \in Nat : k = Len(received[r])
        BY <3>1
      <4>2. RP!Numbered(hubCh[r], k) /\ Head(wire[r]) = k + Len(hubCh[r]) + 1
        BY <3>2, <3>4, <4>1, Zenon
      <4>3. RP!Numbered(Append(hubCh[r], Head(wire[r])), k) /\ Len(Append(hubCh[r], Head(wire[r]))) = Len(hubCh[r]) + 1
        BY <3>1, <3>4, <4>2, NumberedAppend
      <4> QED  BY <3>9, <4>1, <4>3, Zenon
    <3>11. /\ Len(received[r]) + Len(hubCh'[r]) = (Len(received[r]) + Len(hubCh[r])) + 1
           /\ Len(received[r]) + Len(hubCh'[r]) + Len(wire'[r]) = Len(received[r]) + Len(hubCh[r]) + Len(wire[r])
      <4>1. PICK a, b, c \in Nat : a = Len(received[r]) /\ b = Len(hubCh[r]) /\ c = Len(wire[r])
        BY <3>1
      <4>2. Len(wire'[r]) = c - 1 /\ Len(hubCh'[r]) = b + 1
        BY <3>4, <3>9, <3>10, <4>1, Zenon
      <4>3. a + (b + 1) = (a + b) + 1 /\ a + (b + 1) + (c - 1) = a + b + c
        OBVIOUS
      <4> QED  BY <4>1, <4>2, <4>3, Zenon
    <3>12. NumberedLine(r)'
      BY <1>1, <1>7, <3>4, <3>9, <3>10, <3>11 DEF Gapless, NumberedLine
    <3>13. AllSent(r)'
      <4>1. Sent(r)' = Sent(r)
        BY <1>1, <3>11 DEF Sent
      <4> QED  BY <1>1, <1>2, <1>7, <4>1 DEF Gapless, AllSent
    <3>14. StreamKept(r)' /\ ReadToEnd(r)'
      BY <1>1, <1>2, <1>7 DEF Gapless, StreamKept, ReadToEnd
    <3> QED  BY <3>12, <3>13, <3>14 DEF Gapless
  <2> QED  BY <2>1, <2>2, <2>3, <2>4
<1> QED  BY <1>1, <1>4, <1>6, <1>7, GapOne

\* Execute sends what is next on a stream that is there, and keeps the stream
\* until Done.
LEMMA GapExecute ==
  ASSUME DeliveryInv, RegisterInv, GapInv, NEW g \in Goroutines, ExecuteStep(g)
  PROVE  GapInv'
<1> USE DEF router
<1>0. /\ gpc \in [Goroutines -> {"free", "select", "exec", "exit"}]
      /\ \A h \in Goroutines : gpc[h] # "free" => req[h] \in Requests
      /\ \A h, k \in Goroutines : gpc[h] # "free" /\ gpc[k] # "free" /\ req[h] = req[k] => h = k
      /\ \A h \in Goroutines : gpc[h] # "exec" <=> xpc[h] = "idle"
      /\ xpc \in [Goroutines -> {"idle", "resolve", "conn", "dial", "open", "send", "close"}]
      /\ streams \subseteq Requests /\ addrMap \in [Requests -> Addrs \cup {NoAddr}]
      /\ stream \in [Requests -> {"none", "open", "halfclosed", "acked", "broken"}]
      /\ wire \in [Requests -> Seq(1 .. Done)] /\ executed \in [Requests -> Seq(1 .. Done)]
  BY RouterFacts DEF DeliveryInv, DeliveryTypes, UseCaseTypes, GrpcTypes
<1>00. RP!RouterInv
  BY DEF DeliveryInv
<1>1. gpc[g] \in {"select", "exec"}
  BY <1>0 DEF ExecuteStep, Execute, ResolveAddr, GetConn, Dial, OpenStream, SendToken, CloseAndRecv, X, Router!Receive
<1>2. PICK r \in Requests : r = req[g]
  BY <1>0, <1>1
<1>3. \A h \in Goroutines \ {g} : gpc[h] # "free" => req[h] # r
  BY <1>0, <1>1, <1>2
<1>4. /\ req' = req /\ hurt' = hurt
      /\ \A h \in Goroutines \ {g} : gpc'[h] = gpc[h] /\ xpc'[h] = xpc[h] /\ cur'[h] = cur[h]
      /\ \A q \in Requests : q # r => executed'[q] = executed[q]
  <2>1. CASE Execute(g)
    BY <1>0, <1>00, <1>2, <2>1, ReceiveFacts DEF Execute, X
  <2>2. CASE ~Execute(g)
    <3>1. UNCHANGED router \/ Router!AfterExecute(g)
      BY <2>2 DEF ExecuteStep, ResolveAddr, GetConn, Dial, OpenStream, SendToken, CloseAndRecv, Return
    <3>2. /\ req' = req /\ hurt' = hurt /\ executed' = executed
          /\ \A h \in Goroutines \ {g} : gpc'[h] = gpc[h] /\ cur'[h] = cur[h]
      BY <1>00, <3>1, ReturnFacts
    <3>3. \E to \in {"idle", "resolve", "conn", "dial", "open", "send", "close"} : xpc' = [xpc EXCEPT ![g] = to]
      BY <2>2 DEF ExecuteStep, ResolveAddr, GetConn, Dial, OpenStream, SendToken, CloseAndRecv, Return, X
    <3> QED  BY <1>0, <3>2, <3>3
  <2> QED  BY <2>1, <2>2
<1>5. /\ Sending(r) <=> Unsent(g)
      /\ Sending(r)' <=> Unsent(g)'
      /\ OpeningOf(r) <=> xpc[g] \in Opening
      /\ OpeningOf(r)' <=> xpc'[g] \in Opening
  <2>1. \A h \in Goroutines \ {g} : req[h] = r => gpc[h] # "exec" /\ xpc[h] = "idle" /\ req'[h] = r
    BY <1>0, <1>3, <1>4
  <2>2. \A h \in Goroutines \ {g} : req'[h] = r => gpc'[h] # "exec" /\ xpc'[h] = "idle"
    BY <1>4, <2>1
  <2>3. req[g] = r /\ req'[g] = r
    BY <1>2, <1>4
  <2> QED  BY <2>1, <2>2, <2>3 DEF Sending, OpeningOf, Unsent, Opening
<1>6. ASSUME NEW q \in Requests, q # r PROVE (Sending(q)' <=> Sending(q)) /\ (OpeningOf(q)' <=> OpeningOf(q))
  <2>1. req[g] # q /\ req'[g] # q
    BY <1>2, <1>4, <1>6
  <2>2. \A h \in Goroutines : (Unsent(h) /\ req[h] = q)' <=> (Unsent(h) /\ req[h] = q)
    BY <1>4, <2>1 DEF Unsent
  <2>3. \A h \in Goroutines : (xpc[h] \in Opening /\ req[h] = q)' <=> (xpc[h] \in Opening /\ req[h] = q)
    BY <1>4, <2>1 DEF Opening
  <2> QED  BY <2>2, <2>3 DEF Sending, OpeningOf
<1>7. /\ UNCHANGED <<hpc, hubCh, callback, requested, received, torn>> /\ faulty \subseteq faulty'
      /\ \A q \in Requests : q # r =>
           wire'[q] = wire[q] /\ (q \in streams' <=> q \in streams)
      /\ \A q \in Requests : stream'[q] = "broken" => stream[q] = "broken"
  <2>1. CASE Execute(g) \/ GetConn(g) \/ Dial(g)
    BY <2>1 DEF Execute, GetConn, Dial, api, grpc, fault
  <2>2. CASE ResolveAddr(g)
    BY <2>2 DEF ResolveAddr, api, grpc, Fault, NoFault, fault
  <2>3. CASE OpenStream(g)
    BY <1>0, <1>2, <2>3 DEF OpenStream, api, grpc, Fault, NoFault, fault
  <2>4. CASE SendToken(g)
    BY <1>0, <1>2, <2>4 DEF SendToken, api, fault, Evict
  <2>5. CASE CloseAndRecv(g)
    BY <1>0, <1>2, <2>5 DEF CloseAndRecv, api, grpc, fault, Evict
  <2> QED  BY <2>1, <2>2, <2>3, <2>4, <2>5 DEF ExecuteStep
<1>8. \A q \in Requests : q # r => Apart(q)
  BY <1>4, <1>6, <1>7 DEF Apart
<1>9. StreamInUse'
  <2>1. SUFFICES /\ xpc'[g] \in {"send", "close"} => r \in streams'
                 /\ xpc'[g] = "close" => cur'[g] = Done
    <3>1. ASSUME NEW h \in Goroutines \ {g}, xpc'[h] \in {"send", "close"}
          PROVE  req'[h] \in streams'
      <4>1. xpc[h] = xpc'[h] /\ gpc[h] = "exec"
        BY <1>0, <1>4, <3>1
      <4>2. req[h] \in Requests /\ req[h] # r /\ req[h] \in streams
        BY <1>0, <1>3, <3>1, <4>1 DEF GapInv, StreamInUse
      <4> QED  BY <1>4, <1>7, <4>2
    <3>2. \A h \in Goroutines \ {g} : xpc'[h] = "close" => cur'[h] = Done
      BY <1>4 DEF GapInv, StreamInUse
    <3>3. torn' \subseteq faulty' /\ \A q \in Requests : stream'[q] = "broken" => q \in torn'
      BY <1>7 DEF GapInv, StreamInUse
    <3> QED  BY <1>2, <1>4, <2>1, <3>1, <3>2, <3>3 DEF StreamInUse
  <2>2. CASE Execute(g) \/ GetConn(g) \/ Dial(g) \/ ResolveAddr(g)
    BY <1>0, <1>2, <2>2 DEF Execute, GetConn, Dial, ResolveAddr, Return, X
  <2>3. CASE OpenStream(g)
    BY <1>0, <1>2, <2>3 DEF OpenStream, Return, X
  <2>4. CASE SendToken(g)
    <3>1. r \in streams
      BY <1>2, <2>4 DEF SendToken, GapInv, StreamInUse
    <3> QED  BY <1>0, <1>2, <2>4, <3>1 DEF SendToken, Return, X
  <2>5. CASE CloseAndRecv(g)
    BY <1>0, <2>5 DEF CloseAndRecv, Return, X
  <2> QED  BY <2>2, <2>3, <2>4, <2>5 DEF ExecuteStep
<1>10. ASSUME r \notin faulty' \cup hurt', Gapless(r) PROVE Gapless(r)'
  <2>0. /\ r \notin hurt /\ r \notin faulty /\ stream[r] # "broken"
        /\ Done \in Nat \ {0} /\ wire[r] \in Seq(1 .. Done) /\ executed[r] \in Seq(1 .. Done)
        /\ Len(received[r]) \in Nat /\ Len(hubCh[r]) \in Nat /\ Len(wire[r]) \in Nat /\ Len(executed[r]) \in Nat
        /\ gpc[g] = "exec" => executed[r] # << >> /\ r \in requested /\ cur[g] = Len(executed[r])
    <3>1. r \notin torn /\ r \notin faulty /\ r \notin hurt
      BY <1>4, <1>7, <1>10 DEF GapInv, StreamInUse
    <3>2. stream[r] # "broken"
      BY <3>1 DEF GapInv, StreamInUse
    <3>3. gpc[g] = "exec" => executed[r] # << >>
      BY <1>2 DEF DeliveryInv, TransitInv, ExecutesLast
    <3>4. gpc[g] = "exec" => cur[g] = Len(executed[r])
      BY <1>2, <3>1 DEF DeliveryInv, RP!RouterInv, RP!FullInv, RP!ExecutesByNumber, RP!Live
    <3> QED  BY <3>1, <3>2, <3>3, <3>4, GapTypes, ExecutedRequested
  <2>1. NumberedLine(r) /\ AllSent(r) /\ StreamKept(r) /\ ReadToEnd(r) /\ ReadToEnd(r)'
    BY <1>7, <1>10 DEF Gapless, ReadToEnd
  <2>2. ASSUME wire'[r] = wire[r], executed'[r] = executed[r], Unsent(g), gpc'[g] = "exec",
               xpc[g] \in Opening, xpc'[g] \in Opening, r \in streams' <=> r \in streams
        PROVE  Gapless(r)'
    <3>1. Unsent(g)'
      BY <2>2 DEF Unsent, Opening
    <3>2. Apart(r)
      BY <1>5, <1>7, <2>2, <3>1 DEF Apart
    <3> QED  BY <1>10, <3>2, ApartGapless
  <2>3. CASE Execute(g)
    <3>1. /\ gpc[g] = "select" /\ gpc'[g] = "exec" /\ xpc[g] = "idle"
          /\ xpc'[g] = IF r \in streams THEN "send" ELSE "resolve"
          /\ queue[g] \in Seq(1 .. Done) /\ queue[g] # << >> /\ Head(queue[g]) \in 1 .. Done
          /\ executed'[r] = Append(executed[r], Head(queue[g]))
          /\ UNCHANGED <<streams, wire>>
      BY <1>0, <1>00, <1>2, <2>3, ReceiveFacts DEF Execute, X, grpc
    <3>2. Len(executed'[r]) = Len(executed[r]) + 1
      BY <2>0, <3>1, AppendProperties
    <3>3. ~ Unsent(g) /\ Unsent(g)' /\ xpc[g] \notin Opening
      BY <3>1 DEF Unsent, Opening
    <3>4. Sent(r)' = Sent(r)
      BY <1>7, <3>1 DEF Sent
    <3>5. AllSent(r)'
      BY <1>5, <2>1, <3>2, <3>3, <3>4 DEF AllSent
    <3>6. Len(executed[r]) # Done
      <4>1. channels[r] = g /\ g # NoGoroutine
        BY <1>2, <3>1, RouterFacts, DeliveryAssumption DEF DeliveryInv
      <4>2. RP!Queued(r) = queue[g]
        BY <4>1 DEF RP!Queued
      <4>3. Done = RP!Done
        BY DEF Done, Router!Done, RP!Done
      <4> QED  BY <2>0, <3>1, <4>2, <4>3, RP!DoneIsLast, RouterAssumed DEF DeliveryInv, RP!RouterInv
    <3>7. r \notin streams => Len(executed[r]) = 0
      BY <1>5, <2>1, <3>3, <3>6 DEF StreamKept
    <3>8. StreamKept(r)'
      BY <1>5, <1>7, <2>1, <3>1, <3>2, <3>7 DEF StreamKept, Opening
    <3>9. NumberedLine(r)'
      BY <1>7, <2>1, <3>1 DEF NumberedLine
    <3> QED  BY <2>1, <3>5, <3>8, <3>9 DEF Gapless
  <2>4. CASE GetConn(g) \/ Dial(g)
    <3>1. /\ UNCHANGED <<executed, gpc, wire, streams>> /\ xpc[g] \in {"conn", "dial"} /\ xpc'[g] \in {"open", "dial"}
      BY <1>0, <2>4 DEF GetConn, Dial, X, grpc, Router!history
    <3> QED  BY <1>0, <2>2, <3>1 DEF Unsent, Opening
  <2>5. CASE ResolveAddr(g)
    <3>1. gpc[g] = "exec" /\ xpc[g] = "resolve" /\ UNCHANGED <<streams, wire>>
      BY <1>0, <2>5 DEF ResolveAddr, grpc
    <3>2. callback[r] # NoAddr
      BY <2>0, <2>1, <3>1 DEF StreamKept
    <3>3. ~ Fault(r)
      BY <1>10 DEF Fault
    <3>4. X(g, "resolve", "conn") /\ UNCHANGED router
      BY <1>2, <2>5, <3>2, <3>3 DEF ResolveAddr
    <3>5. xpc'[g] = "conn" /\ UNCHANGED <<gpc, executed>>
      BY <1>0, <3>4 DEF X, Router!history
    <3> QED  BY <2>2, <3>1, <3>5 DEF Unsent, Opening
  <2>6. CASE OpenStream(g)
    <3>1. gpc[g] = "exec" /\ xpc[g] = "open"
      BY <1>0, <2>6 DEF OpenStream
    <3>2. ~ Fault(r) /\ ~ (faulty' = faulty \cup {r})
      BY <1>10 DEF Fault
    <3>3. /\ UNCHANGED router /\ X(g, "open", "send") /\ streams' = streams \cup {r}
          /\ wire' = [wire EXCEPT ![r] = << >>]
      BY <1>2, <2>6, <3>2 DEF OpenStream
    <3>4. xpc'[g] = "send" /\ wire'[r] = << >> /\ UNCHANGED <<gpc, executed>>
      BY <1>0, <3>3 DEF X, Router!history
    <3>5. Unsent(g) /\ Unsent(g)' /\ xpc[g] \in Opening /\ xpc'[g] \notin Opening
      BY <3>1, <3>4 DEF Unsent, Opening
    <3>6. Len(executed[r]) = 1 /\ Len(executed[r]) = Sent(r) + 1
      BY <1>5, <2>1, <3>5 DEF StreamKept, AllSent
    <3>7. Len(wire[r]) = 0
      <4>1. PICK a, b, c \in Nat : a = Len(received[r]) /\ b = Len(hubCh[r]) /\ c = Len(wire[r])
        BY <2>0
      <4>2. Sent(r) = a + b + c
        BY <4>1 DEF Sent
      <4>3. 1 = (a + b + c) + 1
        BY <3>6, <4>2, Zenon
      <4>4. c = 0
        BY <4>3
      <4> QED  BY <4>1, <4>4
    <3>8. wire'[r] = wire[r]
      BY <2>0, <3>4, <3>7, EmptySeq
    <3>9. NumberedLine(r)' /\ AllSent(r)'
      BY <1>5, <1>7, <2>1, <3>4, <3>5, <3>8 DEF NumberedLine, AllSent, Sent
    <3>10. StreamKept(r)'
      BY <1>5, <1>7, <2>1, <3>3, <3>5 DEF StreamKept
    <3> QED  BY <2>1, <3>9, <3>10 DEF Gapless
  <2>7. CASE SendToken(g)
    <3>1. gpc[g] = "exec" /\ xpc[g] = "send" /\ r \in streams
      BY <1>0, <1>2, <2>7 DEF SendToken, GapInv, StreamInUse
    <3>2. /\ wire' = [wire EXCEPT ![r] = Append(wire[r], cur[g])] /\ UNCHANGED <<streams, executed>>
          /\ ~ Unsent(g)' /\ xpc'[g] \notin Opening
      <4>1. CASE /\ cur[g] # Done /\ wire' = [wire EXCEPT ![r] = Append(wire[r], cur[g])] /\ UNCHANGED streams
                 /\ Return(g, "send")
        <5>1. Router!AfterExecute(g) /\ xpc'[g] = "idle"
          BY <1>0, <4>1 DEF Return, X
        <5>2. gpc'[g] # "exec" /\ UNCHANGED executed
          BY <1>00, <5>1, ReturnFacts
        <5> QED  BY <4>1, <5>1, <5>2 DEF Unsent, Opening
      <4>2. CASE /\ cur[g] = Done /\ wire' = [wire EXCEPT ![r] = Append(wire[r], Done)] /\ UNCHANGED <<router, streams>>
                 /\ X(g, "send", "close")
        <5>1. xpc'[g] = "close" /\ UNCHANGED executed
          BY <1>0, <4>2 DEF X, Router!history
        <5> QED  BY <4>2, <5>1 DEF Unsent, Opening
      <4> QED  BY <1>2, <2>0, <2>7, <4>1, <4>2 DEF SendToken
    <3>3. Unsent(g) /\ xpc[g] \notin Opening /\ cur[g] = Len(executed[r]) /\ cur[g] \in 1 .. Done
      BY <2>0, <3>1 DEF Unsent, Opening, DeliveryInv, DeliveryTypes, Equipped
    <3>4. Len(executed[r]) = Sent(r) + 1
      BY <1>5, <2>1, <3>3 DEF AllSent
    <3>5. PICK a, b \in Nat : a = Len(received[r]) /\ b = Len(hubCh[r])
      BY <2>0
    <3>6. a + b \in Nat /\ RP!Numbered(wire[r], a + b) /\ cur[g] = (a + b) + Len(wire[r]) + 1
      <4>1. RP!Numbered(wire[r], a + b)
        BY <2>1, <3>5, Zenon DEF NumberedLine
      <4>2. Sent(r) = a + b + Len(wire[r])
        BY <3>5, Zenon DEF Sent
      <4> QED  BY <2>0, <3>3, <3>4, <4>1, <4>2
    <3>7. RP!Numbered(wire'[r], a + b) /\ Len(wire'[r]) = Len(wire[r]) + 1
      <4>1. wire'[r] = Append(wire[r], cur[g])
        BY <1>0, <3>2
      <4>2. RP!Numbered(Append(wire[r], cur[g]), a + b) /\ Len(Append(wire[r], cur[g])) = Len(wire[r]) + 1
        <5>1. PICK k \in Nat : k = a + b
          BY <3>6
        <5>2. RP!Numbered(wire[r], k) /\ cur[g] = k + Len(wire[r]) + 1
          BY <3>6, <5>1, Zenon
        <5>3. cur[g] \in 1 .. Done /\ wire[r] \in Seq(1 .. Done)
          BY <2>0, <3>3
        <5>4. RP!Numbered(Append(wire[r], cur[g]), k) /\ Len(Append(wire[r], cur[g])) = Len(wire[r]) + 1
          BY <5>2, <5>3, NumberedAppend
        <5> QED  BY <5>1, <5>4, Zenon
      <4> QED  BY <4>1, <4>2
    <3>8. NumberedLine(r)'
      <4>1. RP!Numbered(wire'[r], Len(received'[r]) + Len(hubCh'[r]))
        BY <1>7, <3>5, <3>7, Zenon
      <4> QED  BY <1>7, <2>1, <4>1 DEF NumberedLine
    <3>9. Sent(r)' = Sent(r) + 1
      <4>1. PICK c \in Nat : c = Len(wire[r])
        BY <2>0
      <4>2. Len(received'[r]) = a /\ Len(hubCh'[r]) = b /\ Len(wire'[r]) = c + 1
        BY <1>7, <3>5, <3>7, <4>1, Zenon
      <4>3. Sent(r)' = a + b + (c + 1)
        BY <4>2, Zenon DEF Sent
      <4>4. Sent(r) = a + b + c
        BY <3>5, <4>1, Zenon DEF Sent
      <4> QED  BY <4>3, <4>4
    <3>10. AllSent(r)'
      BY <1>5, <3>2, <3>4, <3>9 DEF AllSent
    <3>11. StreamKept(r)'
      BY <1>5, <1>7, <2>1, <3>1, <3>2 DEF StreamKept
    <3> QED  BY <2>1, <3>8, <3>10, <3>11 DEF Gapless
  <2>8. CASE CloseAndRecv(g)
    <3>1. gpc[g] = "exec" /\ xpc[g] = "close" /\ cur[g] = Done
      BY <1>0, <2>8 DEF CloseAndRecv, GapInv, StreamInUse
    <3>2. Router!AfterExecute(g) /\ xpc'[g] = "idle" /\ UNCHANGED wire
      BY <1>0, <2>8 DEF CloseAndRecv, Return, X, grpc
    <3>3. gpc'[g] # "exec" /\ UNCHANGED executed
      BY <1>00, <3>1, <3>2, ReturnFacts
    <3>4. ~ Unsent(g) /\ ~ Unsent(g)' /\ xpc[g] \notin Opening /\ xpc'[g] \notin Opening
      BY <3>1, <3>2, <3>3 DEF Unsent, Opening
    <3>5. NumberedLine(r)' /\ AllSent(r)'
      BY <1>5, <1>7, <2>1, <3>2, <3>3, <3>4 DEF NumberedLine, AllSent, Sent
    <3>6. StreamKept(r)'
      BY <1>5, <1>7, <2>0, <2>1, <3>1, <3>3, <3>4 DEF StreamKept
    <3> QED  BY <2>1, <3>5, <3>6 DEF Gapless
  <2> QED  BY <2>3, <2>4, <2>5, <2>6, <2>7, <2>8 DEF ExecuteStep
<1> QED  BY <1>4, <1>7, <1>8, <1>9, <1>10, GapOne

\* Every step keeps GapInv.
LEMMA GapStep == DeliveryInv /\ RegisterInv /\ GapInv /\ [Next]_vars => GapInv'
<1> SUFFICES ASSUME DeliveryInv, RegisterInv, GapInv, [Next]_vars PROVE GapInv'
  OBVIOUS
<1>1. ASSUME \/ \E a \in Apis : ApiStop(a) \/ GrpcStopped(a) \/ HttpStopped(a)
             \/ UNCHANGED vars
      PROVE  GapInv'
  <2>1. /\ UNCHANGED <<hpc, hubCh, callback, requested, received, xpc, streams, stream, wire, torn, faulty,
                       cur, executed, gpc, req>>
        /\ hurt' = hurt
    BY <1>1 DEF ApiStop, GrpcStopped, HttpStopped, vars, router, api, useCase, grpc, fault
  <2>2. StreamInUse'
    BY <2>1 DEF GapInv, StreamInUse
  <2> QED  BY <2>1, <2>2, GapNone, SendingKept DEF Apart
<1> QED  BY <1>1, GapHandler, GapRouter, GapServer, GapExecute DEF Next, ExecuteStep

\* Numbered sequences that continue each other.
LEMMA NumberedConcat ==
  ASSUME NEW S, NEW s \in Seq(S), NEW t \in Seq(S), NEW k \in Nat,
         RP!Numbered(s, k), RP!Numbered(t, k + Len(s))
  PROVE  /\ s \o t \in Seq(S) /\ Len(s \o t) = Len(s) + Len(t)
         /\ RP!Numbered(s \o t, k)
<1>1. /\ s \o t \in Seq(S) /\ Len(s \o t) = Len(s) + Len(t)
      /\ \A i \in 1 .. Len(s) + Len(t) : (s \o t)[i] = IF i <= Len(s) THEN s[i] ELSE t[i - Len(s)]
  BY ConcatProperties
<1>2. PICK m, n \in Nat : m = Len(s) /\ n = Len(t)
  BY LenProperties
<1>3. DOMAIN s = 1 .. m /\ DOMAIN t = 1 .. n /\ DOMAIN (s \o t) = 1 .. m + n
  BY <1>1, <1>2, LenProperties
<1>4. /\ \A i \in 1 .. m : s[i] = k + i
      /\ \A i \in 1 .. n : t[i] = (k + m) + i
      /\ \A i \in 1 .. m + n : (s \o t)[i] = IF i <= m THEN s[i] ELSE t[i - m]
  BY <1>1, <1>2, <1>3, Zenon DEF RP!Numbered
<1>5. ASSUME NEW i \in 1 .. m + n PROVE (s \o t)[i] = k + i
  <2>1. CASE i <= m
    <3>1. i \in 1 .. m
      BY <2>1
    <3> QED  BY <1>4, <2>1, <3>1
  <2>2. CASE ~ (i <= m)
    <3>1. i - m \in 1 .. n /\ (k + m) + (i - m) = k + i
      BY <2>2
    <3>2. (s \o t)[i] = t[i - m] /\ t[i - m] = (k + m) + (i - m)
      BY <1>4, <2>2, <3>1, Zenon
    <3> QED  BY <3>1, <3>2, Zenon
  <2> QED  BY <2>1, <2>2
<1> QED  BY <1>1, <1>3, <1>5, Zenon DEF RP!Numbered

\* The client of a request that met no fault and no timeout has the text from
\* its start without a gap, and what is missing is on its way in order, where
\* the instances have addresses of their own.
THEOREM NoTokenMissing ==
  ASSUME OwnAddrs
  PROVE  Spec => []NoGapWithoutFault
<1>1. Spec => []GapInv
  BY RegisterInvariant, GapInit, GapStep, PTL DEF Spec
<1>2. ASSUME DeliveryInv, GapInv PROVE NoGapWithoutFault
  <2> SUFFICES ASSUME NEW r \in Requests \ (faulty \cup hurt)
               PROVE  \A i \in DOMAIN ((received[r] \o hubCh[r]) \o wire[r]) : ((received[r] \o hubCh[r]) \o wire[r])[i] = i
    BY Zenon DEF NoGapWithoutFault
  <2>1. /\ received[r] \in Seq(1 .. Done) /\ hubCh[r] \in Seq(1 .. Done) /\ wire[r] \in Seq(1 .. Done)
        /\ Len(received[r]) \in Nat /\ Len(hubCh[r]) \in Nat
    BY <1>2, GapTypes
  <2>2. /\ RP!Numbered(received[r], 0) /\ RP!Numbered(hubCh[r], Len(received[r]))
        /\ RP!Numbered(wire[r], Len(received[r]) + Len(hubCh[r]))
    BY <1>2 DEF GapInv, Gapless, NumberedLine
  <2>3. RP!Numbered(hubCh[r], 0 + Len(received[r]))
    BY <2>1, <2>2
  <2>4. /\ received[r] \o hubCh[r] \in Seq(1 .. Done) /\ RP!Numbered(received[r] \o hubCh[r], 0)
        /\ Len(received[r] \o hubCh[r]) = Len(received[r]) + Len(hubCh[r])
    BY <2>1, <2>2, <2>3, NumberedConcat
  <2>5. RP!Numbered(wire[r], 0 + Len(received[r] \o hubCh[r]))
    <3>1. \A a, b \in Nat : 0 + (a + b) = a + b
      OBVIOUS
    <3> QED  BY <2>1, <2>2, <2>4, <3>1, Zenon
  <2>6. PICK s \in Seq(1 .. Done) : s = (received[r] \o hubCh[r]) \o wire[r] /\ RP!Numbered(s, 0)
    <3>1. PICK t \in Seq(1 .. Done) : t = received[r] \o hubCh[r]
      BY <2>4
    <3>2. RP!Numbered(t, 0) /\ RP!Numbered(wire[r], 0 + Len(t))
      BY <2>4, <2>5, <3>1, Zenon
    <3>3. t \o wire[r] \in Seq(1 .. Done) /\ RP!Numbered(t \o wire[r], 0)
      BY <2>1, <3>2, NumberedConcat
    <3> QED  BY <3>1, <3>3, Zenon
  <2>7. \A i \in DOMAIN s : i \in Nat /\ s[i] = 0 + i
    <3>1. DOMAIN s = 1 .. Len(s) /\ Len(s) \in Nat
      BY LenProperties
    <3>2. \A i \in DOMAIN s : s[i] = 0 + i
      BY <2>6, Zenon DEF RP!Numbered
    <3> QED  BY <3>1, <3>2
  <2>8. \A i \in DOMAIN s : s[i] = i
    BY <2>7
  <2> QED  BY <2>6, <2>8, Zenon
<1> QED  BY <1>1, <1>2, RegisterInvariant, PTL
=============================================================================
