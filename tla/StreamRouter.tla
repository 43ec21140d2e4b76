----------------------------- MODULE StreamRouter -----------------------------
(***************************************************************************)
(* StreamingWorker: the consumer loop of stream-llm-fe, the map from a     *)
(* request to its channel, and one processRequest goroutine per channel.   *)
(*                                                                         *)
(* A channel has exactly one goroutine reading it, so a goroutine stands   *)
(* for its channel too: channels[r] is the goroutine whose channel the map *)
(* holds.  The loop may still hold the channel of a goroutine that has     *)
(* left.  The call useCase.Execute(token) is the stay in "exec"; module    *)
(* TokenDelivery says what happens in it.                                  *)
(***************************************************************************)
EXTENDS Naturals, Sequences, FiniteSets

CONSTANTS
  Requests,       \* request ids
  Goroutines,     \* identities of processRequest goroutines, used again
  NoGoroutine,    \* no entry in the map
  NoRequest,      \* the request of a goroutine that does not run
  NumTokens,      \* tokens of a request; token NumTokens + 1 is Done
  ChanCap,        \* capacity of a channel (32)
  MaxCrashes,     \* bound: how often the process is killed
  MaxStops        \* bound: how often it is stopped in good order

ASSUME RouterAssumption ==
  /\ NoGoroutine \notin Goroutines /\ NoRequest \notin Requests
  /\ NumTokens \in Nat /\ ChanCap \in Nat \ {0}
  /\ MaxCrashes \in Nat /\ MaxStops \in Nat

VARIABLES
  topic,          \* stream-llm-fe, one partition
  emitted,        \* how many tokens of each request are in topic
  committed,      \* committed offset of group streaming-worker
  pos,            \* events fetched: topic[pos + 1] is next
  loop,           \* where Run is: topic[pos] is in hand at "route", "send"
  target,         \* the channel route has found or made
  channels,       \* StreamingWorker.channels
  gpc, req, queue,\* each goroutine: where it is, its request, its channel
  cur,            \* the token it is executing
  phase,          \* up, stopping (ctx cancelled), down
  crashes, stops,
  executed,       \* history: tokens Execute was called with, per request
  hurt,           \* history: requests that met a timeout or a shutdown
  rewound         \* history: some restart read events again

source  == <<topic, emitted>>
reader  == <<committed, pos, loop, target>>
workers == <<channels, gpc, req, queue, cur>>
process == <<phase, crashes, stops>>
history == <<executed, hurt, rewound>>
routerVars == <<source, reader, workers, process, history>>

-----------------------------------------------------------------------------
Done     == NumTokens + 1
Token    == [req : Requests, n : 1 .. Done]
NoToken  == 0
Live     == {"select", "exec", "exit"}

Init ==
  /\ topic = << >> /\ emitted = [r \in Requests |-> 0]
  /\ committed = 0 /\ pos = 0 /\ loop = "fetch" /\ target = NoGoroutine
  /\ channels = [r \in Requests |-> NoGoroutine]
  /\ gpc = [g \in Goroutines |-> "free"]
  /\ req = [g \in Goroutines |-> NoRequest]
  /\ queue = [g \in Goroutines |-> << >>]
  /\ cur = [g \in Goroutines |-> NoToken]
  /\ phase = "up" /\ crashes = 0 /\ stops = 0
  /\ executed = [r \in Requests |-> << >>] /\ hurt = {} /\ rewound = FALSE

-----------------------------------------------------------------------------
(* The producer: the LLM worker publishes the tokens of a request in order.*)

PublishToken(r) ==
  /\ emitted[r] < Done
  /\ emitted' = [emitted EXCEPT ![r] = @ + 1]
  /\ topic' = Append(topic, [req |-> r, n |-> emitted[r] + 1])
  /\ UNCHANGED <<reader, workers, process, history>>

-----------------------------------------------------------------------------
(* The consumer loop *)

Cancelled == phase = "stopping"
Running   == phase # "down"
Hand      == topic[pos]

\* FetchMessage and CommitMessages; the offset is sent later (CommitTick).
Fetch ==
  /\ Running /\ loop = "fetch" /\ pos < Len(topic)
  /\ pos' = pos + 1 /\ loop' = "route"
  /\ UNCHANGED <<source, committed, target, workers, process, history>>

\* Start processRequest for r on a new channel.
Spawn(g, r) ==
  /\ gpc[g] = "free"
  /\ channels' = [channels EXCEPT ![r] = g]
  /\ gpc' = [gpc EXCEPT ![g] = "select"]
  /\ req' = [req EXCEPT ![g] = r]
  /\ queue' = [queue EXCEPT ![g] = << >>]
  /\ target' = g
  /\ UNCHANGED cur

\* The locked part of route: find the channel of the request or make one.
Route ==
  /\ Running /\ loop = "route"
  /\ loop' = "send"
  /\ \/ /\ channels[Hand.req] # NoGoroutine
        /\ target' = channels[Hand.req]
        /\ UNCHANGED workers
     \/ /\ channels[Hand.req] = NoGoroutine
        /\ \E g \in Goroutines : Spawn(g, Hand.req)
  /\ UNCHANGED <<source, committed, pos, process, history>>

\* The select of route, case ch <- token.  Nobody may be reading ch any more.
Send ==
  /\ Running /\ loop = "send"
  /\ Len(queue[target]) < ChanCap
  /\ queue' = [queue EXCEPT ![target] = Append(@, Hand.n)]
  /\ loop' = "fetch"
  /\ UNCHANGED <<source, committed, pos, target, channels, gpc, req, cur, process, history>>

\* The select of route, case <-ctx.Done(): the token is dropped.
SendCancelled ==
  /\ Cancelled /\ loop = "send"
  /\ loop' = "fetch"
  /\ UNCHANGED <<source, committed, pos, target, workers, process, history>>

\* FetchMessage reports the cancelled ctx; reader.Close commits what
\* CommitMessages, which may have failed by then, has queued.
LoopExit ==
  /\ Cancelled /\ loop = "fetch"
  /\ loop' = "stopped"
  /\ committed' \in committed .. pos
  /\ UNCHANGED <<source, pos, target, workers, process, history>>

\* Every CommitInterval the reader sends the offset queued.
CommitTick ==
  /\ Running /\ loop # "stopped" /\ committed < pos
  /\ \/ committed' = pos
     \/ Cancelled /\ committed' \in committed .. pos
  /\ UNCHANGED <<source, pos, loop, target, workers, process, history>>

-----------------------------------------------------------------------------
(* processRequest *)

\* case token := <-ch, up to the call of Execute
Receive(g) ==
  /\ gpc[g] = "select" /\ queue[g] # << >>
  /\ cur' = [cur EXCEPT ![g] = Head(queue[g])]
  /\ queue' = [queue EXCEPT ![g] = Tail(@)]
  /\ gpc' = [gpc EXCEPT ![g] = "exec"]
  /\ executed' = [executed EXCEPT ![req[g]] = Append(@, Head(queue[g]))]
  /\ UNCHANGED <<source, reader, channels, req, process, hurt, rewound>>

\* Mutant: leaves after the first token.
BugAfterExecute(g) ==
  /\ gpc[g] = "exec"
  /\ gpc' = [gpc EXCEPT ![g] = "exit"]
  /\ cur' = [cur EXCEPT ![g] = NoToken]
  /\ UNCHANGED <<source, reader, channels, req, queue, process, history>>

\* Execute has returned, with or without an error: leave after Done, else
\* reset the timer and select again.
AfterExecute(g) ==
  /\ gpc[g] = "exec"
  /\ gpc' = [gpc EXCEPT ![g] = IF cur[g] = Done THEN "exit" ELSE "select"]
  /\ cur' = [cur EXCEPT ![g] = NoToken]
  /\ UNCHANGED <<source, reader, channels, req, queue, process, history>>

\* Mutant: drops the entry and goes on reading.
BugTimeout(g) ==
  /\ gpc[g] = "select"
  /\ channels' = [channels EXCEPT ![req[g]] = NoGoroutine]
  /\ hurt' = hurt \cup {req[g]}
  /\ UNCHANGED <<source, reader, gpc, req, queue, cur, process, executed, rewound>>

\* case <-timer.C.  A process that was not scheduled for 30 seconds may find
\* the timer and the channel ready together, and pick the timer.
Timeout(g) ==
  /\ gpc[g] = "select"
  /\ gpc' = [gpc EXCEPT ![g] = "exit"]
  /\ hurt' = hurt \cup {req[g]}
  /\ UNCHANGED <<source, reader, channels, req, queue, cur, process, executed, rewound>>

\* case <-ctx.Done()
CtxDone(g) ==
  /\ Cancelled /\ gpc[g] = "select"
  /\ gpc' = [gpc EXCEPT ![g] = "exit"]
  /\ UNCHANGED <<source, reader, channels, req, queue, cur, process, history>>

\* Mutant: the deferred delete is missing.
BugLeave(g) ==
  /\ gpc[g] = "exit"
  /\ gpc' = [gpc EXCEPT ![g] = "free"]
  /\ req' = [req EXCEPT ![g] = NoRequest]
  /\ UNCHANGED <<source, reader, channels, queue, cur, process, history>>

\* The deferred function: delete(w.channels, requestID), whatever is there.
Leave(g) ==
  /\ gpc[g] = "exit"
  /\ channels' = [channels EXCEPT ![req[g]] = NoGoroutine]
  /\ gpc' = [gpc EXCEPT ![g] = "free"]
  /\ req' = [req EXCEPT ![g] = NoRequest]
  /\ UNCHANGED <<source, reader, queue, cur, process, history>>

-----------------------------------------------------------------------------
(* The process *)

LoseMemory ==
  /\ phase' = "down"
  /\ loop' = "fetch" /\ target' = NoGoroutine
  /\ channels' = [r \in Requests |-> NoGoroutine]
  /\ gpc' = [g \in Goroutines |-> "free"]
  /\ req' = [g \in Goroutines |-> NoRequest]
  /\ queue' = [g \in Goroutines |-> << >>]
  /\ cur' = [g \in Goroutines |-> NoToken]
  /\ hurt' = Requests
  /\ UNCHANGED <<source, committed, pos, executed, rewound>>

\* OnStop: cancel(), waiting for no goroutine; then fx returns.
Stop ==
  /\ phase = "up" /\ stops < MaxStops
  /\ phase' = "stopping" /\ stops' = stops + 1
  /\ hurt' = Requests
  /\ UNCHANGED <<source, reader, workers, crashes, executed, rewound>>

Exit == phase = "stopping" /\ LoseMemory /\ UNCHANGED <<crashes, stops>>

Crash ==
  /\ Running /\ crashes < MaxCrashes
  /\ crashes' = crashes + 1
  /\ LoseMemory
  /\ UNCHANGED stops

\* Mutant: an offset committed is taken for the last one handled, one too far.
BugRestart ==
  /\ phase = "down"
  /\ phase' = "up"
  /\ pos' = committed + 1
  /\ rewound' = (rewound \/ committed < pos)
  /\ UNCHANGED <<source, committed, loop, target, workers, crashes, stops, executed, hurt>>

\* The group resumes at the committed offset.
Restart ==
  /\ phase = "down"
  /\ phase' = "up"
  /\ pos' = committed
  /\ rewound' = (rewound \/ committed < pos)
  /\ UNCHANGED <<source, committed, loop, target, workers, crashes, stops, executed, hurt>>

-----------------------------------------------------------------------------
LoopStep == Fetch \/ Route \/ Send

Next ==
  \/ \E r \in Requests : PublishToken(r)
  \/ Fetch \/ Route \/ Send \/ SendCancelled \/ LoopExit \/ CommitTick
  \/ \E g \in Goroutines : Receive(g)
  \/ \E g \in Goroutines : AfterExecute(g)
  \/ \E g \in Goroutines : Timeout(g)
  \/ \E g \in Goroutines : CtxDone(g)
  \/ \E g \in Goroutines : Leave(g)
  \/ Stop \/ Exit \/ Crash \/ Restart

Spec == Init /\ [][Next]_routerVars

-----------------------------------------------------------------------------
(* Properties *)

\* Every variable holds a value of its kind; no channel holds more than its
\* capacity and no offset is ahead of the one it is taken from.
TypeOK ==
  /\ topic \in Seq(Token) /\ emitted \in [Requests -> 0 .. Done]
  /\ pos \in 0 .. Len(topic) /\ committed \in 0 .. pos
  /\ loop \in {"fetch", "route", "send", "stopped"}
  /\ target \in Goroutines \cup {NoGoroutine}
  /\ channels \in [Requests -> Goroutines \cup {NoGoroutine}]
  /\ gpc \in [Goroutines -> {"free"} \cup Live]
  /\ req \in [Goroutines -> Requests \cup {NoRequest}]
  /\ queue \in [Goroutines -> Seq(1 .. Done)]
  /\ \A g \in Goroutines : Len(queue[g]) <= ChanCap
  /\ cur \in [Goroutines -> 0 .. Done]
  /\ phase \in {"up", "stopping", "down"} /\ crashes \in Nat /\ stops \in Nat
  /\ executed \in [Requests -> Seq(1 .. Done)]
  /\ hurt \in SUBSET Requests /\ rewound \in BOOLEAN

\* "Execute is called from a single goroutine per requestID": no two
\* processRequest goroutines of one request are alive together, although a
\* timeout, the deferred delete and the next token of the request race.
SingleExecutor ==
  \A g, h \in Goroutines :
    gpc[g] \in Live /\ gpc[h] \in Live /\ req[g] = req[h] => g = h

\* The map has an entry for a request exactly as long as a goroutine serves
\* it: the deferred delete never removes the entry of a successor and no
\* entry outlives its goroutine.
EntryOwnsGoroutine ==
  /\ \A r \in Requests : channels[r] # NoGoroutine =>
       gpc[channels[r]] \in Live /\ req[channels[r]] = r
  /\ \A g \in Goroutines : gpc[g] \in Live => channels[req[g]] = g

StrictlyIncreasing(s) == \A i, j \in DOMAIN s : i < j => s[i] < s[j]

\* Tokens of a request reach Execute in order and at most once unless a
\* restart reads them again.  Timeouts and shutdown may lose tokens on an
\* abandoned channel; they never let a later token overtake an earlier one.
ExecutedInOrder == ~rewound => \A r \in Requests : StrictlyIncreasing(executed[r])

\* Tokens of r on their way from the reader to Execute.
Pending(r) ==
  (IF channels[r] = NoGoroutine THEN << >> ELSE queue[channels[r]])
    \o (IF loop \in {"route", "send"} /\ Hand.req = r THEN <<Hand.n>> ELSE << >>)

\* A request that met no timeout, crash or shutdown has every token fetched
\* for it executed or on its way, in order, whatever happens to the channels
\* and goroutines of other requests.
RoutedInFull ==
  \A r \in Requests \ hurt :
    LET routed == executed[r] \o Pending(r)
    IN  /\ Len(routed) = Cardinality({i \in 1 .. pos : topic[i].req = r})
        /\ \A i \in DOMAIN routed : routed[i] = i

=============================================================================
