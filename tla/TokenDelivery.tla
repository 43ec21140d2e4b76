----------------------------- MODULE TokenDelivery -----------------------------
(***************************************************************************)
(* The way of a token from the LLM worker to the browser: StreamRouter,    *)
(* with StreamTokensUseCase.Execute inside its "exec", the gRPC stream of a*)
(* request, TokenServer and TokenHub in the API, and the handler           *)
(* ChatStreamHandler.Stream that reads the hub and answers the client.     *)
(***************************************************************************)
EXTENDS Naturals, Sequences, FiniteSets

CONSTANTS
  Requests, Goroutines, NoGoroutine, NoRequest, NumTokens, ChanCap,
  Apis,           \* instances of the API
  ApiOf,          \* the instance that handles each request
  Advertised,     \* GRPC_ADVERTISED_ADDR of each instance
  NoAddr,         \* no address known
  HubCap,         \* capacity of a hub channel (1000)
  MaxStreams,     \* MaxConcurrentStreams of a connection (1000)
  MaxApiStops,    \* bound: instances of the API that are stopped
  MaxFaults       \* bound: faults of Redis, Kafka, gRPC and clients

Addrs == {Advertised[a] : a \in Apis}

ASSUME DeliveryAssumption ==
  /\ NoGoroutine \notin Goroutines /\ NoRequest \notin Requests
  /\ NumTokens \in Nat /\ ChanCap \in Nat \ {0}
  /\ ApiOf \in [Requests -> Apis]
  /\ NoAddr \notin Addrs
  /\ HubCap \in Nat /\ HubCap > NumTokens   \* "1000 >> 15 tokens/request"
  /\ MaxStreams \in Nat \ {0} /\ MaxApiStops \in Nat /\ MaxFaults \in Nat

VARIABLES
  topic, emitted, committed, pos, loop, target, channels, gpc, req, queue, cur, phase,
  crashes, stops, executed, hurt, rewound,   \* StreamRouter
  hpc,            \* where Stream is with each request
  pending, hubCh, \* TokenHub: registered requests, their channels
  callback,       \* Redis: stream:callback:{requestID}
  requested,      \* requests in topic chat.requests
  received,       \* what the client of each request got
  xpc,            \* where each goroutine is in Execute
  streams,        \* StreamTokensUseCase.streams: requests with a stream
  addrMap,        \* StreamTokensUseCase.addrMap
  connMap,        \* StreamTokensUseCase.connMap: addresses with a conn
  stream, wire,   \* the gRPC stream of each request, messages in transit
  sapi,           \* the instance that serves it
  late,           \* tokens of its broken streams that a server still holds
  torn,           \* history: requests whose stream broke
  faults, faulty, \* faults so far, requests they have hit
  server          \* each instance: up, draining (GracefulStop), closing (Shutdown), down

\* The streaming worker stays up here; its crashes are in StreamRouter's own runs.
Router == INSTANCE StreamRouter WITH MaxCrashes <- 0, MaxStops <- 0
router == <<topic, emitted, committed, pos, loop, target, channels, gpc, req, queue, cur,
            phase, crashes, stops, executed, hurt, rewound>>
api    == <<hpc, pending, hubCh, callback, requested, received>>
useCase == <<xpc, streams, addrMap, connMap>>
grpc   == <<stream, wire, sapi, late, torn>>
fault  == <<faults, faulty, server>>
vars   == <<router, api, useCase, grpc, fault>>

Done == Router!Done

Init ==
  /\ Router!Init
  /\ hpc = [r \in Requests |-> "new"]
  /\ pending = {} /\ hubCh = [r \in Requests |-> << >>]
  /\ callback = [r \in Requests |-> NoAddr]
  /\ requested = {} /\ received = [r \in Requests |-> << >>]
  /\ xpc = [g \in Goroutines |-> "idle"]
  /\ streams = {} /\ addrMap = [r \in Requests |-> NoAddr]
  /\ connMap = {}
  /\ stream = [r \in Requests |-> "none"] /\ wire = [r \in Requests |-> << >>]
  /\ sapi = ApiOf
  /\ late = [r \in Requests |-> {}] /\ torn = {}
  /\ faults = 0 /\ faulty = {} /\ server = [a \in Apis |-> "up"]

Fault(r) ==
  /\ faults < MaxFaults
  /\ faults' = faults + 1 /\ faulty' = faulty \cup {r}
  /\ UNCHANGED server
NoFault == UNCHANGED fault

-----------------------------------------------------------------------------
(* ChatStreamHandler.Stream *)

At(r, from, to) == hpc[r] = from /\ hpc' = [hpc EXCEPT ![r] = to]

\* Body and owner are checked: 400 and 403 end the request.  The HTTP server
\* takes requests until Shutdown.
Claim(r) ==
  /\ server[ApiOf[r]] \in {"up", "draining"}
  /\ \/ At(r, "new", "register") /\ NoFault
     \/ At(r, "new", "ended") /\ Fault(r)
  /\ UNCHANGED <<router, pending, hubCh, callback, requested, received, useCase, grpc>>

\* Mutant: the request is not entered.
BugRegister(r) ==
  /\ At(r, "register", "callback")
  /\ UNCHANGED <<router, pending, hubCh, callback, requested, received, useCase, grpc, fault>>

\* hub.Register
Register(r) ==
  /\ At(r, "register", "callback")
  /\ pending' = pending \cup {r} /\ hubCh' = [hubCh EXCEPT ![r] = << >>]
  /\ UNCHANGED <<router, callback, requested, received, useCase, grpc, fault>>

\* callbackStore.SetCallback; an error is only logged.
SetCallback(r) ==
  /\ At(r, "callback", "publish")
  /\ \/ callback' = [callback EXCEPT ![r] = Advertised[ApiOf[r]]] /\ NoFault
     \/ UNCHANGED callback /\ Fault(r)
  /\ UNCHANGED <<router, pending, hubCh, requested, received, useCase, grpc>>

\* sendMessage.Execute.  The writer is asynchronous: an error ends the
\* request, but a batch that fails later is lost without one.
PublishRequest(r) ==
  /\ \/ /\ At(r, "publish", "stream")
        /\ requested' = requested \cup {r}
        /\ UNCHANGED pending /\ NoFault
     \/ At(r, "publish", "stream") /\ UNCHANGED <<requested, pending>> /\ Fault(r)
     \/ At(r, "publish", "ended") /\ pending' = pending \ {r} /\ UNCHANGED requested /\ Fault(r)
  /\ UNCHANGED <<router, hubCh, callback, received, useCase, grpc>>

\* Mutant: the handler reads on after done.
BugForward(r) ==
  /\ hpc[r] = "stream" /\ hubCh[r] # << >>
  /\ received' = [received EXCEPT ![r] = Append(@, Head(hubCh[r]))]
  /\ hubCh' = [hubCh EXCEPT ![r] = Tail(@)]
  /\ UNCHANGED <<router, hpc, pending, callback, requested, useCase, grpc, fault>>

\* The loop, case token := <-tokenCh: pass it on; done ends the response and
\* the deferred cleanup takes the request out of the hub.
Forward(r) ==
  /\ hpc[r] = "stream" /\ hubCh[r] # << >>
  /\ received' = [received EXCEPT ![r] = Append(@, Head(hubCh[r]))]
  /\ hubCh' = [hubCh EXCEPT ![r] = Tail(@)]
  /\ IF Head(hubCh[r]) = Done
     THEN hpc' = [hpc EXCEPT ![r] = "ended"] /\ pending' = pending \ {r}
     ELSE UNCHANGED <<hpc, pending>>
  /\ UNCHANGED <<router, callback, requested, useCase, grpc, fault>>

\* The loop, case <-reqCtx.Done(), or Encode reports a lost connection.
Disconnect(r) ==
  /\ At(r, "stream", "ended")
  /\ pending' = pending \ {r}
  /\ Fault(r)
  /\ UNCHANGED <<router, hubCh, callback, requested, received, useCase, grpc>>

\* The key lives for callbackTTL.
ExpireCallback(r) ==
  /\ callback[r] # NoAddr
  /\ callback' = [callback EXCEPT ![r] = NoAddr]
  /\ Fault(r)
  /\ UNCHANGED <<router, hpc, pending, hubCh, requested, received, useCase, grpc>>

-----------------------------------------------------------------------------
(* The LLM worker and the router *)

Generate(r) ==
  /\ r \in requested
  /\ Router!PublishToken(r)
  /\ UNCHANGED <<api, useCase, grpc, fault>>

\* Committed offsets are only read at a restart, so CommitTick is left out.
RouterLoop ==
  /\ Router!LoopStep
  /\ UNCHANGED <<api, useCase, grpc, fault>>

RequestTimeout(g) ==
  /\ Router!Timeout(g)
  /\ UNCHANGED <<api, useCase, grpc, fault>>

RequestLeave(g) ==
  /\ Router!Leave(g)
  /\ UNCHANGED <<api, useCase, grpc, fault>>

-----------------------------------------------------------------------------
(* StreamTokensUseCase.Execute, called by goroutine g for req[g] *)

X(g, from, to) == xpc[g] = from /\ xpc' = [xpc EXCEPT ![g] = to]
Return(g, from) == X(g, from, "idle") /\ Router!AfterExecute(g)
Evict(r) == streams' = streams \ {r} /\ addrMap' = [addrMap EXCEPT ![r] = NoAddr]

\* streams.Load
Execute(g) ==
  /\ Router!Receive(g)
  /\ X(g, "idle", IF req[g] \in streams THEN "send" ELSE "resolve")
  /\ UNCHANGED <<api, streams, addrMap, connMap, grpc, fault>>

\* Mutant: a missing key is not an error.
BugResolveAddr(g) == LET r == req[g] IN
  /\ X(g, "resolve", "conn")
  /\ addrMap' = [addrMap EXCEPT ![r] = IF @ # NoAddr THEN @ ELSE callback[r]]
  /\ UNCHANGED <<router, api, streams, connMap, grpc, fault>>

\* resolveAddr: the RAM cache, else Redis; no key or no Redis is an error.
ResolveAddr(g) == LET r == req[g] IN
  /\ xpc[g] = "resolve"
  /\ \/ /\ addrMap[r] # NoAddr
        /\ X(g, "resolve", "conn") /\ UNCHANGED <<router, addrMap>> /\ NoFault
     \/ /\ addrMap[r] = NoAddr /\ callback[r] # NoAddr
        /\ addrMap' = [addrMap EXCEPT ![r] = callback[r]]
        /\ X(g, "resolve", "conn") /\ UNCHANGED router /\ NoFault
     \/ /\ addrMap[r] = NoAddr /\ callback[r] = NoAddr
        /\ Return(g, "resolve") /\ UNCHANGED addrMap /\ NoFault
     \/ /\ addrMap[r] = NoAddr
        /\ Return(g, "resolve") /\ UNCHANGED addrMap /\ Fault(r)
  /\ UNCHANGED <<api, streams, connMap, grpc>>

\* getConn: look under the read lock ...
GetConn(g) ==
  /\ X(g, "conn", IF addrMap[req[g]] \in connMap THEN "open" ELSE "dial")
  /\ UNCHANGED <<router, api, streams, addrMap, connMap, grpc, fault>>

\* ... and if there is none make one and store it; a second one made meanwhile
\* replaces it, to the same effect for the streams.
Dial(g) ==
  /\ X(g, "dial", "open")
  /\ connMap' = connMap \cup {addrMap[req[g]]}
  /\ UNCHANGED <<router, api, streams, addrMap, grpc, fault>>

\* The streams that count against the limit of the connection to an address.
OpenTo(addr) ==
  {q \in Requests : stream[q] \in {"open", "halfclosed"} /\ Advertised[sapi[q]] = addr}

\* Mutant: a stream over the limit is an error.
BugOpenStream(g) == LET r == req[g] IN
  /\ xpc[g] = "open"
  /\ \/ /\ Cardinality(OpenTo(addrMap[r])) < MaxStreams
        /\ X(g, "open", "send")
        /\ streams' = streams \cup {r}
        /\ stream' = [stream EXCEPT ![r] = "open"]
        /\ wire' = [wire EXCEPT ![r] = << >>]
        /\ \E a \in Apis : Advertised[a] = addrMap[r] /\ sapi' = [sapi EXCEPT ![r] = a]
        /\ UNCHANGED <<router, late, torn>> /\ NoFault
     \/ /\ Cardinality(OpenTo(addrMap[r])) >= MaxStreams
        /\ Return(g, "open") /\ UNCHANGED <<streams, grpc>> /\ NoFault
  /\ UNCHANGED <<api, addrMap, connMap>>

\* DeliverTokens opens a stream to an instance behind the address.  At the
\* limit of the connection it waits for another stream to end; an instance
\* that is being stopped takes no new stream.
OpenStream(g) == LET r == req[g] IN
  /\ xpc[g] = "open"
  /\ \/ \E a \in Apis :
          /\ Advertised[a] = addrMap[r] /\ server[a] = "up"
          /\ Cardinality(OpenTo(addrMap[r])) < MaxStreams
          /\ X(g, "open", "send")
          /\ streams' = streams \cup {r}
          /\ stream' = [stream EXCEPT ![r] = "open"]
          /\ wire' = [wire EXCEPT ![r] = << >>]
          /\ sapi' = [sapi EXCEPT ![r] = a]
          /\ UNCHANGED <<router, late, torn>> /\ NoFault
     \/ /\ \E a \in Apis : Advertised[a] = addrMap[r] /\ server[a] # "up"
        /\ Return(g, "open") /\ UNCHANGED <<streams, grpc>>
        /\ faulty' = faulty \cup {r} /\ UNCHANGED <<faults, server>>
     \/ Return(g, "open") /\ UNCHANGED <<streams, grpc>> /\ Fault(r)
  /\ UNCHANGED <<api, addrMap, connMap>>

\* Mutant: a token is sent twice.
BugSendToken(g) == LET r == req[g] IN
  /\ xpc[g] = "send"
  /\ \/ /\ stream[r] = "open" /\ cur[g] # Done
        /\ wire' = [wire EXCEPT ![r] = @ \o <<cur[g], cur[g]>>]
        /\ Return(g, "send") /\ UNCHANGED <<stream, streams, addrMap>>
     \/ /\ stream[r] = "open" /\ cur[g] = Done
        /\ wire' = [wire EXCEPT ![r] = Append(@, Done)]
        /\ stream' = [stream EXCEPT ![r] = "halfclosed"]
        /\ X(g, "send", "close") /\ UNCHANGED <<router, streams, addrMap>>
     \/ /\ stream[r] = "broken"
        /\ Evict(r) /\ Return(g, "send") /\ UNCHANGED <<stream, wire>>
  /\ UNCHANGED <<api, connMap, sapi, late, torn, fault>>

\* Mutant: the stream of a finished request is not closed.
BugSendDone(g) == LET r == req[g] IN
  /\ xpc[g] = "send"
  /\ \/ /\ stream[r] = "open"
        /\ wire' = [wire EXCEPT ![r] = Append(@, cur[g])]
        /\ Return(g, "send") /\ UNCHANGED <<stream, streams, addrMap>>
     \/ /\ stream[r] = "broken"
        /\ Evict(r) /\ Return(g, "send") /\ UNCHANGED <<stream, wire>>
  /\ UNCHANGED <<api, connMap, sapi, late, torn, fault>>

\* stream.Send.  After Done CloseAndRecv half-closes the stream.  An error
\* evicts the stream and the address, and the token is gone.
SendToken(g) == LET r == req[g] IN
  /\ xpc[g] = "send"
  /\ \/ /\ stream[r] = "open" /\ cur[g] # Done
        /\ wire' = [wire EXCEPT ![r] = Append(@, cur[g])]
        /\ Return(g, "send") /\ UNCHANGED <<stream, streams, addrMap>>
     \/ /\ stream[r] = "open" /\ cur[g] = Done
        /\ wire' = [wire EXCEPT ![r] = Append(@, Done)]
        /\ stream' = [stream EXCEPT ![r] = "halfclosed"]
        /\ X(g, "send", "close") /\ UNCHANGED <<router, streams, addrMap>>
     \/ /\ stream[r] = "broken"
        /\ Evict(r) /\ Return(g, "send") /\ UNCHANGED <<stream, wire>>
  /\ UNCHANGED <<api, connMap, sapi, late, torn, fault>>

\* Mutant: no eviction after Done.
BugCloseAndRecv(g) == LET r == req[g] IN
  /\ xpc[g] = "close"
  /\ stream[r] \in {"acked", "broken"}
  /\ Return(g, "close")
  /\ UNCHANGED <<api, streams, addrMap, connMap, grpc, fault>>

\* CloseAndRecv returns with the Ack or an error; both are ignored.
CloseAndRecv(g) == LET r == req[g] IN
  /\ xpc[g] = "close"
  /\ stream[r] \in {"acked", "broken"}
  /\ Evict(r) /\ Return(g, "close")
  /\ UNCHANGED <<api, connMap, grpc, fault>>

-----------------------------------------------------------------------------
(* gRPC, TokenServer.DeliverTokens and TokenHub.Deliver *)

\* TokenHub.Deliver at the instance that has the request: drop the token if
\* the request is not registered or its channel is full.
HubDeliver(r, n) ==
  IF r \in pending /\ Len(hubCh[r]) < HubCap
  THEN hubCh' = [hubCh EXCEPT ![r] = Append(@, n)]
  ELSE UNCHANGED hubCh

\* Recv, then Deliver, which drops the token at an instance that does not have
\* the request.
Deliver(r) ==
  /\ wire[r] # << >>
  /\ wire' = [wire EXCEPT ![r] = Tail(@)]
  /\ IF sapi[r] = ApiOf[r] THEN HubDeliver(r, Head(wire[r])) ELSE UNCHANGED hubCh
  /\ UNCHANGED <<router, hpc, pending, callback, requested, received, useCase, stream,
                 sapi, late, torn, fault>>

\* A server goes on receiving what it had of a stream its client has given up.
DeliverLate(r) ==
  /\ \E n \in late[r] :
       /\ late' = [late EXCEPT ![r] = @ \ {n}]
       /\ HubDeliver(r, n)
  /\ UNCHANGED <<router, hpc, pending, callback, requested, received, useCase, stream,
                 wire, sapi, torn, fault>>

\* Recv reports io.EOF: SendAndClose.
Ack(r) ==
  /\ stream[r] = "halfclosed" /\ wire[r] = << >>
  /\ stream' = [stream EXCEPT ![r] = "acked"]
  /\ UNCHANGED <<router, api, useCase, wire, sapi, late, torn, fault>>

\* The connection breaks.  Of what was in transit a first part may have come
\* through: the server has it and hears of the break later than the client.
Break(r) ==
  /\ stream[r] \in {"open", "halfclosed"}
  /\ stream' = [stream EXCEPT ![r] = "broken"]
  /\ \E k \in 0 .. Len(wire[r]) :
       late' = [late EXCEPT ![r] =
                  IF sapi[r] = ApiOf[r] THEN @ \cup {wire[r][i] : i \in 1 .. k} ELSE @]
  /\ wire' = [wire EXCEPT ![r] = << >>]
  /\ torn' = torn \cup {r}
  /\ Fault(r)
  /\ UNCHANGED <<router, api, useCase, sapi>>

-----------------------------------------------------------------------------
(* OnStop of the API: GracefulStop, then Shutdown, as long as fx waits *)

\* GracefulStop refuses new streams ...
ApiStop(a) ==
  /\ server[a] = "up" /\ Cardinality({b \in Apis : server[b] # "up"}) < MaxApiStops
  /\ server' = [server EXCEPT ![a] = "draining"]
  /\ UNCHANGED <<router, api, useCase, grpc, faults, faulty>>

\* ... and returns when the last one it serves has ended.  Shutdown closes the
\* listener ...
GrpcStopped(a) ==
  /\ server[a] = "draining"
  /\ \A r \in Requests : sapi[r] = a => stream[r] \notin {"open", "halfclosed"} /\ late[r] = {}
  /\ server' = [server EXCEPT ![a] = "closing"]
  /\ UNCHANGED <<router, api, useCase, grpc, faults, faulty>>

\* ... and returns when the last handler has.
HttpStopped(a) ==
  /\ server[a] = "closing"
  /\ \A r \in Requests : ApiOf[r] = a => hpc[r] \in {"new", "ended"}
  /\ server' = [server EXCEPT ![a] = "down"]
  /\ UNCHANGED <<router, api, useCase, grpc, faults, faulty>>

-----------------------------------------------------------------------------
HandlerStep(r) == Claim(r) \/ Register(r) \/ SetCallback(r) \/ PublishRequest(r) \/ Forward(r)
ExecuteStep(g) ==
  \/ Execute(g) \/ ResolveAddr(g) \/ GetConn(g) \/ Dial(g) \/ OpenStream(g) \/ SendToken(g)
  \/ CloseAndRecv(g)
ServerStep(r) == Deliver(r) \/ Ack(r)

Next ==
  \/ \E r \in Requests : Claim(r)
  \/ \E r \in Requests : Register(r)
  \/ \E r \in Requests : SetCallback(r)
  \/ \E r \in Requests : PublishRequest(r)
  \/ \E r \in Requests : Forward(r)
  \/ \E r \in Requests : Disconnect(r)
  \/ \E r \in Requests : ExpireCallback(r)
  \/ \E r \in Requests : Generate(r)
  \/ RouterLoop
  \/ \E g \in Goroutines : RequestTimeout(g)
  \/ \E g \in Goroutines : RequestLeave(g)
  \/ \E g \in Goroutines : Execute(g)
  \/ \E g \in Goroutines : ResolveAddr(g)
  \/ \E g \in Goroutines : GetConn(g)
  \/ \E g \in Goroutines : Dial(g)
  \/ \E g \in Goroutines : OpenStream(g)
  \/ \E g \in Goroutines : SendToken(g)
  \/ \E g \in Goroutines : CloseAndRecv(g)
  \/ \E r \in Requests : Deliver(r)
  \/ \E r \in Requests : DeliverLate(r)
  \/ \E r \in Requests : Ack(r)
  \/ \E r \in Requests : Break(r)
  \/ \E a \in Apis : ApiStop(a)
  \/ \E a \in Apis : GrpcStopped(a)
  \/ \E a \in Apis : HttpStopped(a)

Spec == Init /\ [][Next]_vars

\* The worker that has a request generates its tokens; goroutines, the gRPC
\* server and handlers that can move do.
Fairness ==
  /\ WF_vars(RouterLoop)
  /\ \A r \in Requests :
       WF_vars(HandlerStep(r)) /\ WF_vars(Generate(r)) /\ WF_vars(ServerStep(r))
       /\ WF_vars(DeliverLate(r))
  /\ \A g \in Goroutines :
       WF_vars(ExecuteStep(g)) /\ WF_vars(RequestLeave(g))
  /\ \A a \in Apis : WF_vars(GrpcStopped(a)) /\ WF_vars(HttpStopped(a))

FairSpec == Spec /\ Fairness

\* The idle timer of a goroutine that hears nothing fires, too.
TimersFire == \A g \in Goroutines : WF_vars(RequestTimeout(g))

TimedSpec == FairSpec /\ TimersFire

-----------------------------------------------------------------------------
(* Properties *)

\* Every variable holds a value of its kind.
TypeOK ==
  /\ hpc \in [Requests -> {"new", "register", "callback", "publish", "stream", "ended"}]
  /\ pending \in SUBSET Requests /\ requested \in SUBSET Requests
  /\ hubCh \in [Requests -> Seq(1 .. Done)] /\ \A r \in Requests : Len(hubCh[r]) <= HubCap
  /\ callback \in [Requests -> Addrs \cup {NoAddr}]
  /\ received \in [Requests -> Seq(1 .. Done)]
  /\ xpc \in [Goroutines -> {"idle", "resolve", "conn", "dial", "open", "send", "close"}]
  /\ \A g \in Goroutines : gpc[g] # "exec" <=> xpc[g] = "idle"
  /\ streams \in SUBSET Requests /\ addrMap \in [Requests -> Addrs \cup {NoAddr}]
  /\ connMap \in SUBSET Addrs
  /\ stream \in [Requests -> {"none", "open", "halfclosed", "acked", "broken"}]
  /\ wire \in [Requests -> Seq(1 .. Done)] /\ sapi \in [Requests -> Apis]
  /\ late \in [Requests -> SUBSET (1 .. Done)] /\ torn \in SUBSET Requests
  /\ faults \in 0 .. MaxFaults /\ faulty \in SUBSET Requests
  /\ server \in [Apis -> {"up", "draining", "closing", "down"}]

\* "Register channel BEFORE publishing to Kafka - eliminates race with Worker
\* callback": a token in transit finds its request registered with the
\* instance it is sent to, unless the handler has ended.
TokenFindsHandler ==
  \A r \in Requests : wire[r] # << >> =>
    hpc[r] = "ended" \/ (sapi[r] = ApiOf[r] /\ r \in pending)

\* "never drops": a token in transit finds room in the hub channel, however
\* slow the handler reads and however often the stream breaks.
HubNeverFull ==
  \A r \in pending : wire[r] # << >> \/ late[r] # {} => Len(hubCh[r]) < HubCap

\* The client of a request that met no fault and no timeout has the text from
\* its start without a gap, and what is missing is on its way in order.
NoGapWithoutFault ==
  \A r \in Requests \ (faulty \cup hurt) :
    LET sent == (received[r] \o hubCh[r]) \o wire[r]
    IN  \A i \in DOMAIN sent : sent[i] = i

\* No stream is left behind: when the goroutine of a request has left, and
\* not by its idle timer, no stream of it is cached or open at the API, where
\* it would count against the limit and hold up GracefulStop, whatever calls
\* failed on the way.  (A failed DeliverTokens may leave the address cached.)
NoStreamLeftBehind ==
  \A r \in Requests \ hurt : channels[r] = NoGoroutine =>
    /\ r \notin streams /\ stream[r] \notin {"open", "halfclosed"}
    /\ r \notin faulty => addrMap[r] = NoAddr

\* What the client sees, in the terms of ChatStream.
Client == INSTANCE ChatStream WITH
  Last <- Done,
  status <- [r \in Requests |-> CASE hpc[r] = "stream" -> "open"
                                  [] hpc[r] = "ended" -> "closed"
                                  [] OTHER -> "new"],
  got <- received

\* The delivery path implements ChatStream: each chunk at most once, nothing
\* after done and, unless the stream breaks, chunks in order, through
\* timeouts, expired callbacks and a goroutine that takes over the stream of
\* another.
ImplementsChatStream == Client!Spec

\* Unless something fails or times out, a request that was accepted gets its
\* whole answer, also when there are more requests than the connection may
\* have streams and some wait for others to end.  (A channel must have room
\* for an answer; if not, route waits for the request that waits.)
AcceptedIsAnswered ==
  \A r \in Requests :
    (hpc[r] = "stream") ~> (hpc[r] = "ended" \/ faulty # {} \/ hurt # {})

\* Streams to an address that an idle timer has left open: of requests that no
\* goroutine serves.
LeftOpen(addr) == {q \in OpenTo(addr) \cap hurt : channels[q] = NoGoroutine}

\* Execute waits in DeliverTokens, without a deadline, at a limit that only
\* such streams fill.
WaitsForLeftStream(r) ==
  \E g \in Goroutines :
    req[g] = r /\ xpc[g] = "open" /\ Cardinality(LeftOpen(addrMap[r])) >= MaxStreams

\* Where idle timers fire, a goroutine of the streaming worker and its entry in
\* the map stay for ever only if timeouts of other requests have left open as
\* many streams as the connection allows and Execute waits behind them: an idle
\* timer ends no stream and is not heard inside Execute.  Otherwise they go,
\* also after a failed call and if Done is lost on the way.
EntriesReclaimed ==
  TimersFire => \A r \in Requests :
    <>[](channels[r] # NoGoroutine) => <>[]WaitsForLeftStream(r)

\* An instance that is stopped lets the streams it serves end and their clients
\* have the whole answer, and then stops by itself, unless a timeout has left a
\* stream open or the stop or a fault has cut off some request.
StopDrains ==
  \A a \in Apis :
    (server[a] = "draining") ~> (server[a] = "down" \/ faulty # {} \/ hurt # {})

=============================================================================
