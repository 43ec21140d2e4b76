-------------------------- MODULE StreamRouterProofs --------------------------
(***************************************************************************)
(* Proofs about StreamRouter, for any set of requests and goroutines, any  *)
(* number of tokens, any channel capacity and any number of crashes.       *)
(***************************************************************************)
EXTENDS StreamRouter, SequenceLemmas, FiniteSetTheorems, TLAPS

-----------------------------------------------------------------------------
(* Types *)

\* What TypeOK needs to be inductive: the loop has a token in hand where it
\* uses one, and the channel it is about to send on.
InHand ==
  /\ loop \in {"route", "send"} => pos >= 1
  /\ loop = "send" => target \in Goroutines
  /\ phase = "down" => loop = "fetch"

\* A goroutine that runs serves a request.
Serving == \A g \in Goroutines : gpc[g] \in Live => req[g] \in Requests

TypeInv == TypeOK /\ InHand /\ Serving

\* Init establishes the types.
LEMMA TypeInit == Init => TypeInv
<1> SUFFICES ASSUME Init PROVE TypeInv
  OBVIOUS
<1> USE RouterAssumption DEF Init
<1>1. rewound \in BOOLEAN
  BY Zenon
<1>2. topic \in Seq(Token) /\ Len(topic) = 0
  OBVIOUS
<1>3. /\ queue \in [Goroutines -> Seq(1 .. Done)]
      /\ \A g \in Goroutines : Len(queue[g]) <= ChanCap
      /\ executed \in [Requests -> Seq(1 .. Done)]
  OBVIOUS
<1> QED  BY <1>1, <1>2, <1>3 DEF TypeInv, TypeOK, InHand, Serving, Live, NoToken, Done

\* The token in hand is a token.
LEMMA HandType == ASSUME TypeInv, loop \in {"route", "send"}
                  PROVE  Hand \in Token /\ Hand.req \in Requests /\ Hand.n \in 1 .. Done
<1>1. Hand \in Token
  BY ElementOfSeq DEF TypeInv, TypeOK, InHand, Hand
<1> QED  BY <1>1 DEF Token

\* Every step keeps the types.
LEMMA TypeStep == TypeInv /\ [Next]_routerVars => TypeInv'
<1> SUFFICES ASSUME TypeInv, [Next]_routerVars PROVE TypeInv'
  OBVIOUS
<1> USE RouterAssumption
<1> USE DEF TypeInv, InHand, Serving, source, reader, workers, process, history
<1>1. ASSUME NEW r \in Requests, PublishToken(r) PROVE TypeInv'
  <2>1. [req |-> r, n |-> emitted[r] + 1] \in Token
    BY <1>1 DEF PublishToken, TypeOK, Token, Done
  <2>2. topic' \in Seq(Token) /\ Len(topic') = Len(topic) + 1
    BY <1>1, <2>1, AppendProperties DEF PublishToken, TypeOK
  <2>3. emitted' \in [Requests -> 0 .. Done]
    BY <1>1 DEF PublishToken, TypeOK, Done
  <2> QED  BY <1>1, <2>2, <2>3 DEF PublishToken, TypeOK
<1>2. CASE Fetch
  BY <1>2 DEF Fetch, TypeOK, Running
<1>3. CASE Route
  <2>1. Hand.req \in Requests
    BY <1>3, HandType DEF Route
  <2>2. CASE UNCHANGED workers
    BY <1>3, <2>1, <2>2 DEF Route, TypeOK, Running, Spawn
  <2>3. ASSUME NEW g \in Goroutines, Spawn(g, Hand.req) PROVE TypeInv'
    <3>1. queue' \in [Goroutines -> Seq(1 .. Done)] /\ \A k \in Goroutines : Len(queue'[k]) <= ChanCap
      BY <2>3 DEF Spawn, TypeOK
    <3> QED  BY <1>3, <2>1, <2>3, <3>1, SMTT(30) DEF Route, Spawn, TypeOK, Running, Live
  <2> QED  BY <1>3, <2>2, <2>3 DEF Route
<1>4. CASE Send
  <2>1. Hand.n \in 1 .. Done
    BY <1>4, HandType DEF Send
  <2>2. Append(queue[target], Hand.n) \in Seq(1 .. Done)
        /\ Len(Append(queue[target], Hand.n)) = Len(queue[target]) + 1
    BY <1>4, <2>1, AppendProperties DEF Send, TypeOK
  <2>3. queue' \in [Goroutines -> Seq(1 .. Done)] /\ \A g \in Goroutines : Len(queue'[g]) <= ChanCap
    BY <1>4, <2>2 DEF Send, TypeOK
  <2> QED  BY <1>4, <2>3 DEF Send, TypeOK
<1>5. CASE SendCancelled
  BY <1>5 DEF SendCancelled, TypeOK
<1>6. CASE LoopExit
  BY <1>6 DEF LoopExit, TypeOK, Cancelled
<1>7. CASE CommitTick
  BY <1>7 DEF CommitTick, TypeOK
<1>8. ASSUME NEW g \in Goroutines, Receive(g) PROVE TypeInv'
  <2>1. /\ Head(queue[g]) \in 1 .. Done /\ Tail(queue[g]) \in Seq(1 .. Done)
        /\ Len(Tail(queue[g])) <= ChanCap
    <3>1. queue[g] \in Seq(1 .. Done) /\ queue[g] # << >> /\ Len(queue[g]) <= ChanCap
      BY <1>8 DEF Receive, TypeOK
    <3>2. /\ Head(queue[g]) \in 1 .. Done /\ Tail(queue[g]) \in Seq(1 .. Done)
          /\ Len(Tail(queue[g])) = Len(queue[g]) - 1
      BY <3>1, HeadTailProperties
    <3>3. Len(queue[g]) \in Nat
      BY <3>1, LenProperties
    <3> QED  BY <3>1, <3>2, <3>3
  <2>2. req[g] \in Requests
    BY <1>8 DEF Receive, Live
  <2>3. executed' \in [Requests -> Seq(1 .. Done)]
    BY <1>8, <2>1, <2>2, AppendProperties DEF Receive, TypeOK
  <2>4. queue' \in [Goroutines -> Seq(1 .. Done)] /\ \A k \in Goroutines : Len(queue'[k]) <= ChanCap
    BY <1>8, <2>1 DEF Receive, TypeOK
  <2>5. cur' \in [Goroutines -> 0 .. Done]
    BY <1>8, <2>1, SMTT(30) DEF Receive, TypeOK, Done
  <2> QED  BY <1>8, <2>2, <2>3, <2>4, <2>5 DEF Receive, TypeOK, Live
<1>9. ASSUME NEW g \in Goroutines, AfterExecute(g) PROVE TypeInv'
  BY <1>9 DEF AfterExecute, TypeOK, Live, NoToken, Done
<1>10. ASSUME NEW g \in Goroutines, Timeout(g) PROVE TypeInv'
  BY <1>10 DEF Timeout, TypeOK, Live
<1>11. ASSUME NEW g \in Goroutines, CtxDone(g) PROVE TypeInv'
  BY <1>11 DEF CtxDone, TypeOK, Live
<1>12. ASSUME NEW g \in Goroutines, Leave(g) PROVE TypeInv'
  BY <1>12 DEF Leave, TypeOK, Live
<1>13. CASE Stop
  BY <1>13 DEF Stop, TypeOK
<1>14. CASE Exit \/ Crash
  <2>1. LoseMemory /\ crashes' \in Nat /\ stops' \in Nat
    BY <1>14 DEF Exit, Crash, TypeOK
  <2>2. queue' \in [Goroutines -> Seq(1 .. Done)] /\ \A g \in Goroutines : Len(queue'[g]) <= ChanCap
    BY <2>1 DEF LoseMemory
  <2> QED  BY <2>1, <2>2 DEF LoseMemory, TypeOK, Live, NoToken, Done
<1>15. CASE Restart
  <2>1. rewound' \in BOOLEAN
    BY <1>15 DEF Restart
  <2> QED  BY <1>15, <2>1 DEF Restart, TypeOK
<1>16. CASE UNCHANGED routerVars
  BY <1>16 DEF routerVars, TypeOK
<1> QED
  BY <1>1, <1>2, <1>3, <1>4, <1>5, <1>6, <1>7, <1>8, <1>9, <1>10, <1>11, <1>12, <1>13,
     <1>14, <1>15, <1>16 DEF Next

-----------------------------------------------------------------------------
(* One goroutine per request *)

\* The map starts empty and no goroutine runs.
LEMMA EntryInit == Init => EntryOwnsGoroutine
BY RouterAssumption DEF Init, EntryOwnsGoroutine, Live

\* The map and the goroutines change together, under w.mu.
LEMMA EntryStep ==
  TypeInv /\ EntryOwnsGoroutine /\ [Next]_routerVars => EntryOwnsGoroutine'
<1> SUFFICES ASSUME TypeInv, EntryOwnsGoroutine, [Next]_routerVars
             PROVE  EntryOwnsGoroutine'
  OBVIOUS
<1> USE RouterAssumption DEF source, reader, workers, process, history
<1>1. CASE UNCHANGED <<channels, gpc, req>>
  BY <1>1 DEF EntryOwnsGoroutine
\* A goroutine that moves without starting or leaving
<1>2. ASSUME NEW g \in Goroutines, NEW pc \in Live, gpc[g] \in Live,
             gpc' = [gpc EXCEPT ![g] = pc], UNCHANGED <<channels, req>>
      PROVE EntryOwnsGoroutine'
  BY <1>2 DEF EntryOwnsGoroutine, TypeInv, TypeOK
<1>3. CASE Route
  <2>1. Hand.req \in Requests
    BY <1>3, HandType DEF Route
  <2>2. CASE UNCHANGED workers
    BY <1>1, <2>2
  <2>3. ASSUME NEW g \in Goroutines, Spawn(g, Hand.req), channels[Hand.req] = NoGoroutine
        PROVE EntryOwnsGoroutine'
    <3>1. gpc[g] \notin Live
      BY <2>3 DEF Spawn, Live
    <3>2. /\ channels' = [channels EXCEPT ![Hand.req] = g]
          /\ gpc' = [gpc EXCEPT ![g] = "select"] /\ req' = [req EXCEPT ![g] = Hand.req]
      BY <2>3 DEF Spawn
    <3>3. \A r \in Requests : channels'[r] # NoGoroutine =>
            gpc'[channels'[r]] \in Live /\ req'[channels'[r]] = r
      BY <2>1, <3>1, <3>2 DEF EntryOwnsGoroutine, TypeInv, TypeOK, Live
    <3>4. \A k \in Goroutines \ {g} : gpc[k] \in Live => req[k] # Hand.req
      BY <2>3 DEF EntryOwnsGoroutine
    <3>5. \A k \in Goroutines : gpc'[k] \in Live => channels'[req'[k]] = k
      BY <2>1, <3>2, <3>4 DEF EntryOwnsGoroutine, TypeInv, TypeOK, Serving
    <3> QED  BY <3>3, <3>5 DEF EntryOwnsGoroutine
  <2> QED  BY <1>3, <2>2, <2>3 DEF Route
<1>4. ASSUME NEW g \in Goroutines, Receive(g) \/ AfterExecute(g) \/ Timeout(g) \/ CtxDone(g)
      PROVE EntryOwnsGoroutine'
  <2>1. gpc[g] \in Live /\ UNCHANGED <<channels, req>>
    BY <1>4 DEF Receive, AfterExecute, Timeout, CtxDone, Live
  <2>2. \E pc \in Live : gpc' = [gpc EXCEPT ![g] = pc]
    BY <1>4 DEF Receive, AfterExecute, Timeout, CtxDone, Live
  <2> QED  BY <1>2, <2>1, <2>2
<1>5. ASSUME NEW g \in Goroutines, Leave(g) PROVE EntryOwnsGoroutine'
  <2>1. gpc[g] \in Live /\ req[g] \in Requests /\ channels[req[g]] = g
    BY <1>5 DEF Leave, Live, EntryOwnsGoroutine, TypeInv, Serving
  <2>2. /\ channels' = [channels EXCEPT ![req[g]] = NoGoroutine]
        /\ gpc' = [gpc EXCEPT ![g] = "free"] /\ req' = [req EXCEPT ![g] = NoRequest]
    BY <1>5 DEF Leave
  <2>3. "free" \notin Live
    BY DEF Live
  <2>4. \A r \in Requests \ {req[g]} : channels[r] # g
    BY <2>1 DEF EntryOwnsGoroutine
  <2>5. \A k \in Goroutines \ {g} : gpc[k] \in Live => req[k] # req[g]
    BY <2>1 DEF EntryOwnsGoroutine
  <2>6. \A r \in Requests : channels'[r] # NoGoroutine =>
          gpc'[channels'[r]] \in Live /\ req'[channels'[r]] = r
    BY <2>1, <2>2, <2>4 DEF EntryOwnsGoroutine, TypeInv, TypeOK
  <2>7. \A k \in Goroutines : gpc'[k] \in Live => channels'[req'[k]] = k
    BY <2>1, <2>2, <2>3, <2>5 DEF EntryOwnsGoroutine, TypeInv, TypeOK, Serving
  <2> QED  BY <2>6, <2>7 DEF EntryOwnsGoroutine
<1>6. CASE Exit \/ Crash
  BY <1>6 DEF Exit, Crash, LoseMemory, EntryOwnsGoroutine, Live
<1>7. CASE Fetch \/ Send \/ SendCancelled \/ LoopExit \/ CommitTick \/ Stop \/ Restart
           \/ \E r \in Requests : PublishToken(r)
  BY <1>1, <1>7 DEF Fetch, Send, SendCancelled, LoopExit, CommitTick, Stop, Restart,
                    PublishToken
<1>8. CASE UNCHANGED routerVars
  BY <1>1, <1>8 DEF routerVars
<1> QED
  BY <1>3, <1>4, <1>5, <1>6, <1>7, <1>8 DEF Next

\* The types hold, and no channel holds more tokens than its capacity.
THEOREM TypesHold == Spec => []TypeOK
<1>1. TypeInv => TypeOK
  BY DEF TypeInv
<1> QED  BY TypeInit, TypeStep, <1>1, PTL DEF Spec

\* The map has an entry for a request exactly as long as one goroutine serves
\* it, through timeouts, shutdowns and crashes.
THEOREM EntriesMatch == Spec => []EntryOwnsGoroutine
<1>1. Init => TypeInv /\ EntryOwnsGoroutine
  BY TypeInit, EntryInit
<1>2. TypeInv /\ EntryOwnsGoroutine /\ [Next]_routerVars => (TypeInv /\ EntryOwnsGoroutine)'
  BY TypeStep, EntryStep
<1> QED  BY <1>1, <1>2, PTL DEF Spec

\* "Execute is called from a single goroutine per requestID", for any number
\* of requests and any interleaving: what lets StreamTokensUseCase use a
\* stream without a lock.
THEOREM OneExecutor == Spec => []SingleExecutor
<1>1. EntryOwnsGoroutine => SingleExecutor
  BY DEF EntryOwnsGoroutine, SingleExecutor
<1> QED  BY EntriesMatch, <1>1, PTL

-----------------------------------------------------------------------------
(* Order *)

\* How many events of the topic the loop has handed over or dropped.
Handled == IF loop \in {"route", "send"} THEN pos - 1 ELSE pos

\* The topic has the tokens of a request in order, and no others.
TopicInOrder ==
  /\ \A i, j \in DOMAIN topic : i < j /\ topic[i].req = topic[j].req => topic[i].n < topic[j].n
  /\ \A i \in DOMAIN topic : topic[i].n <= emitted[topic[i].req]

\* The channel route holds is one of the request in hand, or nobody reads it.
SendsToServing == loop = "send" /\ gpc[target] \in Live => req[target] = Hand.req

\* What is executed or in a channel was published.
OnlyEmitted ==
  /\ \A r \in Requests : \A i \in DOMAIN executed[r] : executed[r][i] <= emitted[r]
  /\ \A g \in Goroutines : gpc[g] \in Live =>
       \A i \in DOMAIN queue[g] : queue[g][i] <= emitted[req[g]]

\* A channel that is read holds its tokens in order ...
QueueInOrder == \A g \in Goroutines : gpc[g] \in Live => StrictlyIncreasing(queue[g])

\* ... after all that was executed for its request ...
QueueAfterExecuted ==
  \A g \in Goroutines : gpc[g] \in Live =>
    \A i \in DOMAIN queue[g] : \A j \in DOMAIN executed[req[g]] :
      executed[req[g]][j] < queue[g][i]

\* ... and before all that is still to be handed over.
QueueBeforeTopic ==
  \A g \in Goroutines : gpc[g] \in Live =>
    \A i \in DOMAIN queue[g] : \A k \in Handled + 1 .. Len(topic) :
      topic[k].req = req[g] => queue[g][i] < topic[k].n

ExecutedBeforeTopic ==
  \A r \in Requests : \A i \in DOMAIN executed[r] : \A k \in Handled + 1 .. Len(topic) :
    topic[k].req = r => executed[r][i] < topic[k].n

InOrder ==
  /\ \A r \in Requests : StrictlyIncreasing(executed[r])
  /\ QueueInOrder /\ QueueAfterExecuted /\ QueueBeforeTopic /\ ExecutedBeforeTopic

OrderInv ==
  /\ TopicInOrder /\ SendsToServing /\ OnlyEmitted
  /\ ~rewound => InOrder

\* A range that starts later is part of the one that starts earlier.
LEMMA ShorterRange ==
  ASSUME NEW a \in Nat, NEW b \in Int, NEW n \in Nat, b >= a
  PROVE  \A k \in b + 1 .. n : k \in a + 1 .. n
OBVIOUS

\* Nothing has been published at the start.
LEMMA OrderInit == Init => OrderInv
BY RouterAssumption DEF Init, OrderInv, TopicInOrder, SendsToServing, OnlyEmitted, InOrder,
  QueueInOrder, QueueAfterExecuted, QueueBeforeTopic, ExecutedBeforeTopic, StrictlyIncreasing, Live

\* A step that hands tokens over to nobody keeps the order: the tokens to come
\* become fewer, goroutines leave, or one starts on an empty channel.
LEMMA OrderRelaxed ==
  ASSUME TypeInv, TypeInv', OrderInv, UNCHANGED <<topic, emitted, executed>>,
         ~rewound' => ~rewound /\ Handled' >= Handled,
         SendsToServing',
         \A g \in Goroutines : gpc'[g] \in Live =>
           \/ queue'[g] = << >>
           \/ gpc[g] \in Live /\ queue'[g] = queue[g] /\ req'[g] = req[g]
  PROVE  OrderInv'
<1> USE DEF OrderInv
<1>0. Handled \in Nat /\ Handled' \in Int /\ Len(topic) \in Nat
  BY LenProperties DEF TypeInv, TypeOK, InHand, Handled
<1>1. TopicInOrder'
  BY DEF TopicInOrder
<1>2. OnlyEmitted'
  BY DEF OnlyEmitted
<1>3. ASSUME ~rewound' PROVE InOrder'
  <2>0. InOrder /\ Handled' >= Handled
    BY <1>3, Zenon
  <2>1. InOrder /\ \A k \in Handled' + 1 .. Len(topic) : k \in Handled + 1 .. Len(topic)
    <3>1. \A k \in Handled' + 1 .. Len(topic) : k \in Handled + 1 .. Len(topic)
      BY <1>0, <2>0, ShorterRange
    <3> QED  BY <2>0, <3>1
  <2>2. \A r \in Requests : StrictlyIncreasing(executed'[r])
    BY <2>1 DEF InOrder
  <2>3. QueueInOrder'
    BY <2>1 DEF InOrder, QueueInOrder, StrictlyIncreasing
  <2>4. QueueAfterExecuted'
    <3> SUFFICES ASSUME NEW g \in Goroutines, gpc'[g] \in Live, NEW i \in DOMAIN queue'[g],
                        NEW j \in DOMAIN executed'[req'[g]]
                 PROVE  executed'[req'[g]][j] < queue'[g][i]
      BY DEF QueueAfterExecuted
    <3>1. gpc[g] \in Live /\ queue'[g] = queue[g] /\ req'[g] = req[g]
      OBVIOUS
    <3> QED  BY <2>1, <3>1 DEF InOrder, QueueAfterExecuted
  <2>5. QueueBeforeTopic'
    BY <2>1 DEF InOrder, QueueBeforeTopic
  <2>6. ExecutedBeforeTopic'
    BY <2>1 DEF InOrder, ExecutedBeforeTopic
  <2> QED  BY <2>2, <2>3, <2>4, <2>5, <2>6 DEF InOrder, StrictlyIncreasing
<1> QED  BY <1>1, <1>2, <1>3

\* Publication appends a token that comes after all of its request.
LEMMA OrderPublish ==
  ASSUME TypeInv, OrderInv, NEW r \in Requests, PublishToken(r)
  PROVE  OrderInv'
<1> USE DEF OrderInv
<1> DEFINE e == [req |-> r, n |-> emitted[r] + 1]
<1>0. /\ topic \in Seq(Token) /\ Len(topic) \in Nat /\ DOMAIN topic = 1 .. Len(topic)
      /\ emitted \in [Requests -> Nat] /\ Handled \in 0 .. Len(topic)
      /\ \A i \in 1 .. Len(topic) : topic[i].req \in Requests /\ topic[i].n \in Nat
  <2>1. topic \in Seq(Token) /\ Len(topic) \in Nat /\ DOMAIN topic = 1 .. Len(topic)
    BY LenProperties DEF TypeInv, TypeOK
  <2>2. emitted \in [Requests -> Nat] /\ Handled \in 0 .. Len(topic)
    BY <2>1, RouterAssumption DEF TypeInv, TypeOK, InHand, Handled, Done
  <2>3. \A i \in 1 .. Len(topic) : topic[i] \in Token
    BY <2>1, ElementOfSeq
  <2>4. \A t \in Token : t.req \in Requests /\ t.n \in Nat
    BY RouterAssumption DEF Token, Done
  <2> QED  BY <2>1, <2>2, <2>3, <2>4
<1>1. /\ UNCHANGED <<pos, loop, target, gpc, req, queue, executed, rewound>>
      /\ emitted' = [emitted EXCEPT ![r] = @ + 1] /\ topic' = Append(topic, e)
  BY DEF PublishToken, reader, workers, history
<1>2. e \in Token /\ e.req = r /\ e.n = emitted[r] + 1
  BY RouterAssumption DEF PublishToken, TypeInv, TypeOK, Token, Done
<1>3. /\ DOMAIN topic' = 1 .. Len(topic) + 1 /\ Len(topic') = Len(topic) + 1
      /\ \A i \in 1 .. Len(topic) : topic'[i] = topic[i]
      /\ topic'[Len(topic) + 1] = e
  BY <1>0, <1>1, <1>2, AppendAt
<1> HIDE DEF e
<1>4. /\ \A q \in Requests : emitted[q] <= emitted'[q] /\ emitted'[q] \in Nat
      /\ emitted'[r] = emitted[r] + 1
      /\ Handled' = Handled
  BY <1>0, <1>1 DEF Handled
<1>5. TopicInOrder'
  <2>1. \A i \in DOMAIN topic' : topic'[i].n <= emitted'[topic'[i].req]
    BY <1>0, <1>2, <1>3, <1>4, SMTT(30) DEF TopicInOrder
  <2>2. \A i, j \in DOMAIN topic' : i < j /\ topic'[i].req = topic'[j].req => topic'[i].n < topic'[j].n
    <3> SUFFICES ASSUME NEW i \in DOMAIN topic', NEW j \in DOMAIN topic', i < j,
                        topic'[i].req = topic'[j].req
                 PROVE  topic'[i].n < topic'[j].n
      OBVIOUS
    <3>1. i \in 1 .. Len(topic) /\ (j \in 1 .. Len(topic) \/ j = Len(topic) + 1)
      BY <1>0, <1>3
    <3> QED  BY <3>1, <1>0, <1>2, <1>3, SMTT(30) DEF TopicInOrder
  <2> QED  BY <2>1, <2>2 DEF TopicInOrder
<1>6. SendsToServing'
  BY <1>0, <1>1, <1>3 DEF SendsToServing, Hand, TypeInv, TypeOK, InHand
<1>7. \A g \in Goroutines : gpc[g] \in Live => req[g] \in Requests
  BY DEF TypeInv, Serving
<1>8. /\ \A g \in Goroutines : queue[g] \in Seq(Nat) /\ \A i \in DOMAIN queue[g] : queue[g][i] \in Nat
      /\ \A q \in Requests : executed[q] \in Seq(Nat) /\ \A i \in DOMAIN executed[q] : executed[q][i] \in Nat
  <2>0. 1 .. Done \subseteq Nat
    BY RouterAssumption DEF Done
  <2>1. \A g \in Goroutines : queue[g] \in Seq(Nat)
    BY <2>0, SeqMonotonic DEF TypeInv, TypeOK
  <2>2. \A q \in Requests : executed[q] \in Seq(Nat)
    BY <2>0, SeqMonotonic DEF TypeInv, TypeOK
  <2> QED  BY <2>1, <2>2, LenProperties, ElementOfSeq
<1>9. OnlyEmitted'
  BY <1>0, <1>1, <1>4, <1>7, <1>8 DEF OnlyEmitted
<1>10. ASSUME ~rewound' PROVE InOrder'
  <2>1. InOrder
    BY <1>1, <1>10
  <2>2. \A k \in Handled + 1 .. Len(topic) + 1 : k \in Handled + 1 .. Len(topic) \/ k = Len(topic) + 1
    BY <1>0
  <2>3. \A k \in Handled + 1 .. Len(topic) : k \in 1 .. Len(topic)
    BY <1>0
  <2>4. QueueBeforeTopic'
    <3> SUFFICES ASSUME NEW g \in Goroutines, gpc'[g] \in Live, NEW i \in DOMAIN queue'[g],
                        NEW k \in Handled' + 1 .. Len(topic'), topic'[k].req = req'[g]
                 PROVE  queue'[g][i] < topic'[k].n
      BY DEF QueueBeforeTopic
    <3>1. gpc[g] \in Live /\ req[g] \in Requests /\ i \in DOMAIN queue[g] /\ queue[g][i] \in Nat
      BY <1>1, <1>7, <1>8
    <3>2. CASE k \in Handled + 1 .. Len(topic)
      BY <1>1, <1>3, <2>1, <2>3, <3>1, <3>2 DEF InOrder, QueueBeforeTopic
    <3>3. CASE k = Len(topic) + 1
      BY <1>0, <1>1, <1>2, <1>3, <3>1, <3>3 DEF OnlyEmitted
    <3> QED  BY <1>3, <1>4, <2>2, <3>2, <3>3
  <2>5. ExecutedBeforeTopic'
    BY <1>0, <1>1, <1>2, <1>3, <1>4, <1>8, <2>1, <2>2, <2>3
    DEF InOrder, ExecutedBeforeTopic, OnlyEmitted
  <2> QED  BY <1>1, <2>1, <2>4, <2>5 DEF InOrder, QueueInOrder, QueueAfterExecuted, StrictlyIncreasing
<1> QED  BY <1>5, <1>6, <1>9, <1>10

\* What the types say of the sequences, in the form the steps below use.
LEMMA SeqFacts ==
  ASSUME TypeInv
  PROVE  /\ topic \in Seq(Token) /\ Len(topic) \in Nat /\ DOMAIN topic = 1 .. Len(topic)
         /\ \A k \in 1 .. Len(topic) : topic[k].req \in Requests /\ topic[k].n \in Nat
         /\ \A g \in Goroutines : /\ queue[g] \in Seq(Nat) /\ Len(queue[g]) \in Nat
                                 /\ DOMAIN queue[g] = 1 .. Len(queue[g])
                                 /\ \A i \in DOMAIN queue[g] : queue[g][i] \in Nat
         /\ \A r \in Requests : /\ executed[r] \in Seq(Nat) /\ Len(executed[r]) \in Nat
                               /\ DOMAIN executed[r] = 1 .. Len(executed[r])
                               /\ \A i \in DOMAIN executed[r] : executed[r][i] \in Nat
<1>0. 1 .. Done \subseteq Nat
  BY RouterAssumption DEF Done
<1>1. topic \in Seq(Token) /\ Len(topic) \in Nat /\ DOMAIN topic = 1 .. Len(topic)
  BY LenProperties DEF TypeInv, TypeOK
<1>2. \A k \in 1 .. Len(topic) : topic[k] \in Token
  BY <1>1, ElementOfSeq
<1>3. \A t \in Token : t.req \in Requests /\ t.n \in Nat
  BY <1>0 DEF Token
<1>4. \A g \in Goroutines : queue[g] \in Seq(Nat)
  BY <1>0, SeqMonotonic DEF TypeInv, TypeOK
<1>5. \A r \in Requests : executed[r] \in Seq(Nat)
  BY <1>0, SeqMonotonic DEF TypeInv, TypeOK
<1> QED  BY <1>1, <1>2, <1>3, <1>4, <1>5, LenProperties, ElementOfSeq

\* The token handed over comes after what its channel holds, and before all
\* that is to come.
LEMMA OrderSend ==
  ASSUME TypeInv, OrderInv, Send
  PROVE  OrderInv'
<1> USE DEF OrderInv
<1>0. /\ UNCHANGED <<topic, emitted, pos, target, gpc, req, executed, rewound>>
      /\ target \in Goroutines /\ loop = "send" /\ loop' = "fetch"
      /\ queue' = [queue EXCEPT ![target] = Append(queue[target], Hand.n)]
  BY DEF Send, source, history, TypeInv, InHand
<1>1. pos \in 1 .. Len(topic) /\ Hand = topic[pos] /\ Hand.n \in Nat /\ Hand.req \in Requests
  BY <1>0, SeqFacts DEF TypeInv, TypeOK, InHand, Hand
<1>2. /\ \A g \in Goroutines \ {target} : queue'[g] = queue[g]
      /\ queue'[target] = Append(queue[target], Hand.n)
  BY <1>0 DEF TypeInv, TypeOK
<1>3. /\ DOMAIN queue'[target] = 1 .. Len(queue[target]) + 1
      /\ \A i \in 1 .. Len(queue[target]) : queue'[target][i] = queue[target][i]
      /\ queue'[target][Len(queue[target]) + 1] = Hand.n
      /\ DOMAIN queue[target] = 1 .. Len(queue[target]) /\ Len(queue[target]) \in Nat
  BY <1>0, <1>1, <1>2, SeqFacts, AppendAt
<1>4. \A i \in DOMAIN queue'[target] : i \in DOMAIN queue[target] \/ i = Len(queue[target]) + 1
  BY <1>3
<1>5. TopicInOrder' /\ SendsToServing'
  BY <1>0 DEF TopicInOrder, SendsToServing
<1>6. gpc[target] \in Live => req[target] = Hand.req
  BY <1>0 DEF SendsToServing
<1>7. OnlyEmitted'
  <2>1. Hand.n <= emitted[Hand.req]
    BY <1>1, SeqFacts DEF TopicInOrder
  <2>2. \A g \in Goroutines \ {target} : gpc[g] \in Live =>
          \A i \in DOMAIN queue'[g] : queue'[g][i] <= emitted[req[g]]
    BY <1>2 DEF OnlyEmitted
  <2>3. gpc[target] \in Live =>
          \A i \in DOMAIN queue'[target] : queue'[target][i] <= emitted[req[target]]
    BY <1>0, <1>3, <1>4, <1>6, <2>1 DEF OnlyEmitted
  <2> QED  BY <1>0, <2>2, <2>3 DEF OnlyEmitted
<1>8. ASSUME ~rewound' PROVE InOrder'
  <2>1. InOrder
    BY <1>0, <1>8, Zenon
  <2>2. Handled = pos - 1 /\ Handled' = pos
    BY <1>0 DEF Handled
  <2>3. /\ pos \in Handled + 1 .. Len(topic)
        /\ \A k \in Handled' + 1 .. Len(topic) : k \in Handled + 1 .. Len(topic) /\ k \in 1 .. Len(topic) /\ pos < k
    BY <1>1, <2>2, SeqFacts
  <2>4. QueueInOrder'
    <3>1. gpc[target] \in Live => StrictlyIncreasing(queue'[target])
      <4> SUFFICES ASSUME gpc[target] \in Live, NEW i \in DOMAIN queue'[target],
                          NEW j \in DOMAIN queue'[target], i < j
                   PROVE  queue'[target][i] < queue'[target][j]
        BY DEF StrictlyIncreasing
      <4>1. i \in DOMAIN queue[target] /\ i \in 1 .. Len(queue[target])
        BY <1>3
      <4>2. CASE j \in DOMAIN queue[target]
        BY <1>0, <1>3, <2>1, <4>1, <4>2 DEF InOrder, QueueInOrder, StrictlyIncreasing
      <4>3. CASE j = Len(queue[target]) + 1
        BY <1>0, <1>1, <1>3, <1>6, <2>1, <2>3, <4>1, <4>3 DEF InOrder, QueueBeforeTopic
      <4> QED  BY <1>4, <4>2, <4>3
    <3> QED  BY <1>0, <1>2, <2>1, <3>1 DEF InOrder, QueueInOrder, StrictlyIncreasing
  <2>5. QueueAfterExecuted'
    <3>1. ASSUME gpc[target] \in Live, NEW i \in DOMAIN queue'[target],
                 NEW j \in DOMAIN executed[req[target]]
          PROVE  executed[req[target]][j] < queue'[target][i]
      <4>1. CASE i \in DOMAIN queue[target]
        BY <1>0, <1>3, <2>1, <3>1, <4>1 DEF InOrder, QueueAfterExecuted
      <4>2. CASE i = Len(queue[target]) + 1
        BY <1>1, <1>3, <1>6, <2>1, <2>3, <3>1, <4>2 DEF InOrder, ExecutedBeforeTopic
      <4> QED  BY <1>4, <4>1, <4>2
    <3> QED  BY <1>0, <1>2, <2>1, <3>1 DEF InOrder, QueueAfterExecuted
  <2>6. QueueBeforeTopic'
    <3> SUFFICES ASSUME NEW g \in Goroutines, gpc[g] \in Live, NEW i \in DOMAIN queue'[g],
                        NEW k \in Handled' + 1 .. Len(topic), topic[k].req = req[g]
                 PROVE  queue'[g][i] < topic[k].n
      BY <1>0 DEF QueueBeforeTopic
    <3>1. CASE i \in DOMAIN queue[g] /\ queue'[g][i] = queue[g][i]
      BY <2>1, <2>3, <3>1 DEF InOrder, QueueBeforeTopic
    <3>2. CASE g = target /\ queue'[g][i] = Hand.n
      BY <1>1, <1>6, <2>3, <3>2, SeqFacts DEF TopicInOrder
    <3> QED  BY <1>2, <1>3, <1>4, <3>1, <3>2
  <2>7. ExecutedBeforeTopic'
    BY <1>0, <2>1, <2>3 DEF InOrder, ExecutedBeforeTopic
  <2> QED  BY <1>0, <2>1, <2>4, <2>5, <2>6, <2>7 DEF InOrder, StrictlyIncreasing
<1> QED  BY <1>5, <1>7, <1>8

\* Execute gets the first token of a channel: it comes after all that was
\* executed, and no other goroutine has tokens of the request.
LEMMA OrderReceive ==
  ASSUME TypeInv, EntryOwnsGoroutine, OrderInv, NEW g \in Goroutines, Receive(g)
  PROVE  OrderInv'
<1> USE DEF OrderInv
<1> DEFINE r == req[g]
           n == Head(queue[g])
<1>0. /\ UNCHANGED <<topic, emitted, pos, loop, target, req, rewound>>
      /\ gpc[g] = "select" /\ gpc' = [gpc EXCEPT ![g] = "exec"]
      /\ queue' = [queue EXCEPT ![g] = Tail(queue[g])] /\ queue[g] # << >>
      /\ executed' = [executed EXCEPT ![r] = Append(executed[r], n)]
  BY DEF Receive, source, reader
<1>1. /\ r \in Requests /\ gpc[g] \in Live
      /\ \A h \in Goroutines : gpc'[h] \in Live <=> gpc[h] \in Live
      /\ \A h \in Goroutines \ {g} : gpc[h] \in Live => req[h] \in Requests \ {r}
  BY <1>0 DEF Live, TypeInv, TypeOK, Serving, EntryOwnsGoroutine
<1>2. /\ Len(queue[g]) \in Nat \ {0} /\ DOMAIN queue[g] = 1 .. Len(queue[g]) /\ n = queue[g][1]
      /\ DOMAIN queue'[g] = 1 .. Len(queue[g]) - 1
      /\ \A i \in DOMAIN queue'[g] : queue'[g][i] = queue[g][i + 1] /\ i + 1 \in DOMAIN queue[g] /\ 1 < i + 1
      /\ \A h \in Goroutines \ {g} : queue'[h] = queue[h]
  <2>1. queue'[g] = Tail(queue[g]) /\ \A h \in Goroutines \ {g} : queue'[h] = queue[h]
    BY <1>0 DEF TypeInv, TypeOK
  <2>2. /\ Len(queue[g]) \in Nat \ {0} /\ DOMAIN queue[g] = 1 .. Len(queue[g]) /\ n = queue[g][1]
        /\ DOMAIN Tail(queue[g]) = 1 .. Len(queue[g]) - 1
        /\ \A i \in 1 .. Len(queue[g]) - 1 : Tail(queue[g])[i] = queue[g][i + 1]
    BY <1>0, SeqFacts, TailAt
  <2> QED  BY <2>1, <2>2
<1>3. n \in Nat /\ 1 \in DOMAIN queue[g]
  BY <1>2, SeqFacts
<1>4. /\ DOMAIN executed'[r] = 1 .. Len(executed[r]) + 1
      /\ DOMAIN executed[r] = 1 .. Len(executed[r]) /\ Len(executed[r]) \in Nat
      /\ \A i \in 1 .. Len(executed[r]) : executed'[r][i] = executed[r][i]
      /\ executed'[r][Len(executed[r]) + 1] = n
      /\ \A q \in Requests \ {r} : executed'[q] = executed[q]
  <2>1. executed'[r] = Append(executed[r], n) /\ \A q \in Requests \ {r} : executed'[q] = executed[q]
    BY <1>0, <1>1 DEF TypeInv, TypeOK
  <2> QED  BY <1>1, <1>3, <2>1, SeqFacts, AppendAt
<1> HIDE DEF n, r
<1>5. \A i \in DOMAIN executed'[r] : i \in DOMAIN executed[r] \/ i = Len(executed[r]) + 1
  BY <1>4
<1>6. TopicInOrder'
  BY <1>0 DEF TopicInOrder
<1>7. SendsToServing'
  BY <1>0, <1>1 DEF SendsToServing, Hand, TypeInv, InHand
<1>8. req[g] = r
  BY DEF r
<1>9. OnlyEmitted'
  <2>1. \A q \in Requests : \A i \in DOMAIN executed'[q] : executed'[q][i] <= emitted[q]
    <3>1. n <= emitted[r]
      BY <1>1, <1>2, <1>3, <1>8 DEF OnlyEmitted
    <3>2. \A i \in DOMAIN executed'[r] : executed'[r][i] <= emitted[r]
      BY <1>1, <1>4, <1>5, <3>1 DEF OnlyEmitted
    <3> QED  BY <1>4, <3>2 DEF OnlyEmitted
  <2>2. \A h \in Goroutines : gpc[h] \in Live =>
          \A i \in DOMAIN queue'[h] : queue'[h][i] <= emitted[req[h]]
    BY <1>2 DEF OnlyEmitted
  <2> QED  BY <1>0, <1>1, <2>1, <2>2 DEF OnlyEmitted
<1>10. ASSUME ~rewound' PROVE InOrder'
  <2>1. InOrder
    BY <1>0, <1>10, Zenon
  <2>2. Handled' = Handled
    BY <1>0 DEF Handled
  <2>3. \A j \in DOMAIN executed[r] : executed[r][j] < n
    BY <1>1, <1>2, <1>3, <1>8, <2>1 DEF InOrder, QueueAfterExecuted
  <2>4. \A i \in DOMAIN queue'[g] : n < queue'[g][i]
    BY <1>1, <1>2, <1>3, <2>1 DEF InOrder, QueueInOrder, StrictlyIncreasing
  <2>5. \A q \in Requests : StrictlyIncreasing(executed'[q])
    <3>1. StrictlyIncreasing(executed'[r])
      <4> SUFFICES ASSUME NEW i \in DOMAIN executed'[r], NEW j \in DOMAIN executed'[r], i < j
                   PROVE  executed'[r][i] < executed'[r][j]
        BY DEF StrictlyIncreasing
      <4>1. i \in DOMAIN executed[r] /\ executed'[r][i] = executed[r][i]
        BY <1>4
      <4>2. CASE j \in DOMAIN executed[r]
        BY <1>1, <1>4, <2>1, <4>1, <4>2 DEF InOrder, StrictlyIncreasing
      <4>3. CASE j = Len(executed[r]) + 1
        BY <1>4, <2>3, <4>1, <4>3
      <4> QED  BY <1>5, <4>2, <4>3
    <3> QED  BY <1>4, <2>1, <3>1 DEF InOrder, StrictlyIncreasing
  <2>6. QueueInOrder'
    <3>1. StrictlyIncreasing(queue'[g])
      <4> SUFFICES ASSUME NEW i \in DOMAIN queue'[g], NEW j \in DOMAIN queue'[g], i < j
                   PROVE  queue'[g][i] < queue'[g][j]
        BY DEF StrictlyIncreasing
      <4>1. i + 1 \in DOMAIN queue[g] /\ j + 1 \in DOMAIN queue[g] /\ i + 1 < j + 1
        BY <1>2
      <4> QED  BY <1>1, <1>2, <2>1, <4>1 DEF InOrder, QueueInOrder, StrictlyIncreasing
    <3> QED  BY <1>1, <1>2, <2>1, <3>1 DEF InOrder, QueueInOrder, StrictlyIncreasing
  <2>7. QueueAfterExecuted'
    <3> SUFFICES ASSUME NEW h \in Goroutines, gpc[h] \in Live, NEW i \in DOMAIN queue'[h],
                        NEW j \in DOMAIN executed'[req[h]]
                 PROVE  executed'[req[h]][j] < queue'[h][i]
      BY <1>0, <1>1 DEF QueueAfterExecuted
    <3>1. CASE h # g
      BY <1>1, <1>2, <1>4, <2>1, <3>1 DEF InOrder, QueueAfterExecuted
    <3>2. CASE h = g
      <4>1. CASE j \in DOMAIN executed[r]
        <5>1. queue'[g][i] = queue[g][i + 1] /\ i + 1 \in DOMAIN queue[g]
          BY <1>2, <3>2
        <5>2. executed[r][j] < queue[g][i + 1]
          BY <1>1, <1>8, <2>1, <4>1, <5>1 DEF InOrder, QueueAfterExecuted
        <5> QED  BY <1>4, <1>8, <3>2, <4>1, <5>1, <5>2
      <4>2. CASE j = Len(executed[r]) + 1
        BY <1>4, <1>8, <2>4, <3>2, <4>2
      <4> QED  BY <1>5, <1>8, <3>2, <4>1, <4>2
    <3> QED  BY <3>1, <3>2
  <2>8. QueueBeforeTopic'
    BY <1>0, <1>1, <1>2, <2>1, <2>2 DEF InOrder, QueueBeforeTopic
  <2>9. ExecutedBeforeTopic'
    <3> SUFFICES ASSUME NEW q \in Requests, NEW i \in DOMAIN executed'[q],
                        NEW k \in Handled + 1 .. Len(topic), topic[k].req = q
                 PROVE  executed'[q][i] < topic[k].n
      BY <1>0, <2>2 DEF ExecutedBeforeTopic
    <3>1. CASE i \in DOMAIN executed[q] /\ executed'[q][i] = executed[q][i]
      BY <2>1, <3>1 DEF InOrder, ExecutedBeforeTopic
    <3>2. CASE q = r /\ executed'[q][i] = n
      BY <1>1, <1>2, <1>3, <1>8, <2>1, <3>2 DEF InOrder, QueueBeforeTopic
    <3> QED  BY <1>4, <1>5, <3>1, <3>2
  <2> QED  BY <2>5, <2>6, <2>7, <2>8, <2>9 DEF InOrder
<1> QED  BY <1>6, <1>7, <1>9, <1>10

\* Every step keeps the order.
LEMMA OrderStep ==
  TypeInv /\ TypeInv' /\ EntryOwnsGoroutine /\ OrderInv /\ [Next]_routerVars => OrderInv'
<1> SUFFICES ASSUME TypeInv, TypeInv', EntryOwnsGoroutine, OrderInv, [Next]_routerVars
             PROVE  OrderInv'
  OBVIOUS
<1> USE DEF source, reader, workers, process, history
<1>0. pos \in Nat /\ pos' \in Nat
  BY LenProperties DEF TypeInv, TypeOK
<1>1. ASSUME NEW r \in Requests, PublishToken(r) PROVE OrderInv'
  BY <1>1, OrderPublish
<1>2. CASE Send
  BY <1>2, OrderSend
<1>3. ASSUME NEW g \in Goroutines, Receive(g) PROVE OrderInv'
  BY <1>3, OrderReceive
<1>4. CASE Route
  <2>1. SendsToServing'
    <3>1. Hand.req \in Requests /\ Hand' = Hand
      BY <1>4, HandType DEF Route, Hand
    <3>2. CASE channels[Hand.req] # NoGoroutine /\ target' = channels[Hand.req] /\ UNCHANGED workers
      BY <3>1, <3>2 DEF SendsToServing, EntryOwnsGoroutine
    <3>3. ASSUME NEW g \in Goroutines, Spawn(g, Hand.req) PROVE SendsToServing'
      BY <3>1, <3>3 DEF SendsToServing, Spawn, TypeInv, TypeOK
    <3> QED  BY <1>4, <3>2, <3>3 DEF Route
  <2>2. \A g \in Goroutines : gpc'[g] \in Live =>
          \/ queue'[g] = << >>
          \/ gpc[g] \in Live /\ queue'[g] = queue[g] /\ req'[g] = req[g]
    BY <1>4 DEF Route, Spawn, TypeInv, TypeOK
  <2>3. /\ UNCHANGED <<topic, emitted, executed, rewound>>
        /\ Handled' >= Handled
    BY <1>0, <1>4 DEF Route, Handled
  <2> QED  BY <2>1, <2>2, <2>3, OrderRelaxed
<1>5. ASSUME NEW g \in Goroutines, AfterExecute(g) \/ Timeout(g) \/ CtxDone(g) \/ Leave(g)
      PROVE  OrderInv'
  <2>1. \A h \in Goroutines : gpc'[h] \in Live =>
          gpc[h] \in Live /\ queue'[h] = queue[h] /\ req'[h] = req[h]
    BY <1>5 DEF AfterExecute, Timeout, CtxDone, Leave, Live, TypeInv, TypeOK
  <2>2. UNCHANGED <<topic, emitted, executed, rewound, loop, pos, target>>
    BY <1>5 DEF AfterExecute, Timeout, CtxDone, Leave
  <2>4. Handled' >= Handled
    BY <1>0, <2>2 DEF Handled
  <2>3. SendsToServing'
    BY <2>1, <2>2 DEF SendsToServing, OrderInv, Hand, TypeInv, InHand
  <2> QED  BY <2>1, <2>2, <2>3, <2>4, OrderRelaxed
<1>6. CASE Fetch \/ SendCancelled \/ LoopExit \/ CommitTick \/ Stop \/ UNCHANGED routerVars
  <2>1. UNCHANGED <<topic, emitted, executed, rewound, gpc, queue, req>>
    BY <1>6 DEF Fetch, SendCancelled, LoopExit, CommitTick, Stop, routerVars
  <2>4. \/ loop = "fetch" /\ loop' = "route" /\ pos' = pos + 1
        \/ loop = "send" /\ loop' = "fetch" /\ pos' = pos
        \/ loop = "fetch" /\ loop' = "stopped" /\ pos' = pos
        \/ UNCHANGED <<loop, pos>>
    BY <1>6 DEF Fetch, SendCancelled, LoopExit, CommitTick, Stop, routerVars
  <2>2. Handled' >= Handled
    <3>1. pos + 1 - 1 = pos /\ pos >= pos - 1 /\ pos >= pos /\ pos - 1 >= pos - 1
      BY <1>0
    <3>3. CASE loop = "fetch" /\ loop' = "route" /\ pos' = pos + 1
      BY <1>0, <3>1, <3>3 DEF Handled
    <3>4. CASE loop = "send" /\ loop' = "fetch" /\ pos' = pos
      BY <1>0, <3>1, <3>4 DEF Handled
    <3>5. CASE loop = "fetch" /\ loop' = "stopped" /\ pos' = pos
      BY <1>0, <3>1, <3>5 DEF Handled
    <3>6. CASE UNCHANGED <<loop, pos>>
      BY <1>0, <3>1, <3>6 DEF Handled
    <3> QED  BY <2>4, <3>3, <3>4, <3>5, <3>6
  <2>3. SendsToServing'
    BY <1>6 DEF Fetch, SendCancelled, LoopExit, CommitTick, Stop, routerVars, SendsToServing,
                OrderInv, Hand
  <2> QED  BY <2>1, <2>2, <2>3, OrderRelaxed
<1>7. CASE Exit \/ Crash
  <2>1. /\ UNCHANGED <<topic, emitted, executed, rewound, pos>> /\ loop' = "fetch"
        /\ \A g \in Goroutines : gpc'[g] \notin Live
    BY <1>7 DEF Exit, Crash, LoseMemory, Live
  <2>2. Handled' >= Handled
    BY <1>0, <2>1 DEF Handled
  <2> QED  BY <2>1, <2>2, OrderRelaxed DEF SendsToServing
<1>8. CASE Restart
  <2>1. /\ UNCHANGED <<topic, emitted, executed, loop, gpc, queue, req>> /\ loop = "fetch"
        /\ pos' = committed /\ rewound' = (rewound \/ committed < pos) /\ committed \in 0 .. pos
    BY <1>8 DEF Restart, TypeInv, TypeOK, InHand
  <2>2. committed >= pos => Handled' >= Handled
    BY <1>0, <2>1 DEF Handled
  <2>3. ~(committed < pos) => committed >= pos
    BY <1>0, <2>1
  <2>4. ~rewound' => ~rewound /\ Handled' >= Handled
    BY <2>1, <2>2, <2>3, Zenon
  <2>5. SendsToServing'
    BY <2>1 DEF SendsToServing
  <2> QED  BY <2>1, <2>4, <2>5, OrderRelaxed
<1> QED
  BY <1>1, <1>2, <1>3, <1>4, <1>5, <1>6, <1>7, <1>8 DEF Next

\* Tokens of a request reach Execute in order and at most once unless a
\* restart reads them again, however many timeouts and stops lose tokens.
THEOREM InOrderPerRequest == Spec => []ExecutedInOrder
<1>1. Init => TypeInv /\ EntryOwnsGoroutine /\ OrderInv
  BY TypeInit, EntryInit, OrderInit
<1>2. TypeInv /\ EntryOwnsGoroutine /\ OrderInv /\ [Next]_routerVars
        => (TypeInv /\ EntryOwnsGoroutine /\ OrderInv)'
  BY TypeStep, EntryStep, OrderStep
<1>3. OrderInv => ExecutedInOrder
  BY Zenon DEF OrderInv, InOrder, ExecutedInOrder
<1> QED  BY <1>1, <1>2, <1>3, PTL DEF Spec

-----------------------------------------------------------------------------
(* Completeness *)

\* The tokens of request r among the first k events of t.
Count(t, k, r) == Cardinality({i \in 1 .. k : t[i].req = r})

\* Tokens are numbered as they are published.
TopicNumbered ==
  /\ \A i \in DOMAIN topic : topic[i].n = Count(topic, i, topic[i].req)
  /\ \A r \in Requests : emitted[r] = Count(topic, Len(topic), r)

\* A stop hits all requests, of this and of every later life of the process.
HurtByStop == phase # "up" => hurt = Requests

\* The goroutine of a request that is not hurt executes its tokens by number,
\* and leaves only after Done.
ExecutesByNumber ==
  \A g \in Goroutines : gpc[g] \in Live /\ req[g] \notin hurt =>
    /\ gpc[g] = "exec" => cur[g] = Len(executed[req[g]])
    /\ gpc[g] = "exit" => Len(executed[req[g]]) = Done

\* The channel route holds for such a request is still the one in the map.
TargetIsEntry == loop = "send" /\ Hand.req \notin hurt => channels[Hand.req] = target

\* What is in the channel of a request.
Queued(r) == IF channels[r] = NoGoroutine THEN << >> ELSE queue[channels[r]]

\* s continues the numbering after k.
Numbered(s, k) == \A i \in DOMAIN s : s[i] = k + i

\* The tokens handed over for a request are executed or in its channel.
AccountedFor(r) ==
  /\ Numbered(executed[r], 0) /\ Numbered(Queued(r), Len(executed[r]))
  /\ Len(executed[r]) + Len(Queued(r)) = Count(topic, Handled, r)

FullInv ==
  /\ TopicNumbered /\ HurtByStop /\ ExecutesByNumber /\ TargetIsEntry
  /\ \A r \in Requests \ hurt : AccountedFor(r)

\* Counting one event more, and counting in a longer topic.
LEMMA CountNext ==
  ASSUME NEW t, NEW k \in Nat, NEW r
  PROVE  /\ Count(t, k, r) \in Nat
         /\ Count(t, k + 1, r) = IF t[k + 1].req = r THEN Count(t, k, r) + 1 ELSE Count(t, k, r)
<1> DEFINE S == {i \in 1 .. k : t[i].req = r}
           T == {i \in 1 .. k + 1 : t[i].req = r}
<1>1. IsFiniteSet(S) /\ Cardinality(S) \in Nat
  <2>1. IsFiniteSet(1 .. k) /\ S \in SUBSET (1 .. k)
    BY FS_Interval
  <2> QED  BY <2>1, FS_Subset, FS_CardinalityType
<1>2. CASE t[k + 1].req = r
  <2>1. T = S \cup {k + 1} /\ k + 1 \notin S
    BY <1>2
  <2> QED  BY <1>1, <1>2, <2>1, FS_AddElement DEF Count
<1>3. CASE t[k + 1].req # r
  <2>1. T = S
    BY <1>3
  <2> QED  BY <1>1, <1>3, <2>1 DEF Count
<1> QED  BY <1>2, <1>3, <1>1 DEF Count

\* Events behind the first k do not count.
LEMMA CountSame ==
  ASSUME NEW t, NEW u, NEW k \in Nat, \A i \in 1 .. k : t[i] = u[i], NEW r
  PROVE  Count(t, k, r) = Count(u, k, r)
<1>1. {i \in 1 .. k : t[i].req = r} = {i \in 1 .. k : u[i].req = r}
  OBVIOUS
<1> QED  BY <1>1 DEF Count

\* The types of the channel of a request.
LEMMA QueuedType ==
  ASSUME TypeInv, NEW r \in Requests
  PROVE  /\ Queued(r) \in Seq(1 .. Done) /\ Len(Queued(r)) \in Nat
         /\ DOMAIN Queued(r) = 1 .. Len(Queued(r))
         /\ executed[r] \in Seq(1 .. Done) /\ Len(executed[r]) \in Nat
         /\ DOMAIN executed[r] = 1 .. Len(executed[r])
<1>1. channels[r] # NoGoroutine => queue[channels[r]] \in Seq(1 .. Done)
  BY DEF TypeInv, TypeOK
<1>2. << >> \in Seq(1 .. Done)
  BY EmptySeq
<1>3. executed[r] \in Seq(1 .. Done)
  BY DEF TypeInv, TypeOK
<1> QED  BY <1>1, <1>2, <1>3, LenProperties DEF Queued

\* The token in hand is the next of its request.
LEMMA HandNumber ==
  ASSUME TypeInv, FullInv, loop \in {"route", "send"}
  PROVE  /\ Handled \in Nat /\ pos = Handled + 1
         /\ Hand.n = Count(topic, Handled, Hand.req) + 1
         /\ Count(topic, pos, Hand.req) = Count(topic, Handled, Hand.req) + 1
         /\ \A r \in Requests : Hand.req # r => Count(topic, pos, r) = Count(topic, Handled, r)
<1>1. pos \in 1 .. Len(topic) /\ Len(topic) \in Nat /\ DOMAIN topic = 1 .. Len(topic)
  BY SeqFacts DEF TypeInv, TypeOK, InHand
<1>2. Handled \in Nat /\ pos = Handled + 1
  BY <1>1 DEF Handled
<1>3. Hand.n = Count(topic, pos, Hand.req)
  BY <1>1 DEF FullInv, TopicNumbered, Hand
<1>4. \A r : Count(topic, Handled + 1, r) = IF topic[Handled + 1].req = r
              THEN Count(topic, Handled, r) + 1 ELSE Count(topic, Handled, r)
  BY <1>2, CountNext
<1> QED  BY <1>2, <1>3, <1>4 DEF Hand

\* No token follows Done.
LEMMA DoneIsLast ==
  ASSUME TypeInv, FullInv, NEW r \in Requests \ hurt, Len(executed[r]) = Done
  PROVE  Queued(r) = << >> /\ (loop \in {"route", "send"} => Hand.req # r)
<1>0. Done \in Nat
  BY RouterAssumption DEF Done
<1>1. /\ Queued(r) \in Seq(1 .. Done) /\ Len(Queued(r)) \in Nat
      /\ DOMAIN Queued(r) = 1 .. Len(Queued(r))
  BY QueuedType
<1>2. Numbered(Queued(r), Done) /\ Count(topic, Handled, r) = Done + Len(Queued(r))
  BY DEF FullInv, AccountedFor
<1>3. Len(Queued(r)) = 0
  <2> SUFFICES ASSUME Len(Queued(r)) # 0 PROVE FALSE
    OBVIOUS
  <2>1. 1 \in DOMAIN Queued(r)
    BY <1>1
  <2>2. Queued(r)[1] \in 1 .. Done /\ Queued(r)[1] = Done + 1
    BY <1>1, <1>2, <2>1, ElementOfSeq DEF Numbered
  <2> QED  BY <1>0, <2>2
<1>4. ASSUME loop \in {"route", "send"}, Hand.req = r PROVE FALSE
  <2>1. Hand.n \in 1 .. Done /\ Hand.n = Count(topic, Handled, r) + 1
    BY <1>4, HandType, HandNumber
  <2> QED  BY <1>0, <1>2, <1>3, <2>1
<1> QED  BY <1>1, <1>3, <1>4, EmptySeq

\* FullInv says what RoutedInFull says: Pending adds the token in hand.
LEMMA FullImpliesRouted == TypeInv /\ FullInv => RoutedInFull
<1> SUFFICES ASSUME TypeInv, FullInv, NEW r \in Requests \ hurt
             PROVE  /\ Len(executed[r] \o Pending(r)) = Count(topic, pos, r)
                    /\ \A i \in DOMAIN (executed[r] \o Pending(r)) : (executed[r] \o Pending(r))[i] = i
  BY DEF RoutedInFull, Count
<1> DEFINE e == executed[r]
           q == Queued(r)
           p == Pending(r)
<1>1. /\ q \in Seq(1 .. Done) /\ Len(q) \in Nat /\ DOMAIN q = 1 .. Len(q)
      /\ e \in Seq(1 .. Done) /\ Len(e) \in Nat /\ DOMAIN e = 1 .. Len(e)
  BY QueuedType
<1>2. Numbered(e, 0) /\ Numbered(q, Len(e)) /\ Len(e) + Len(q) = Count(topic, Handled, r)
  BY DEF FullInv, AccountedFor
<1>3. p \in Seq(1 .. Done) /\ Numbered(p, Len(e)) /\ Len(e) + Len(p) = Count(topic, pos, r)
  <2>1. CASE loop \in {"route", "send"} /\ Hand.req = r
    <3>1. /\ Hand.n \in 1 .. Done /\ Hand.n = Count(topic, Handled, r) + 1
          /\ Count(topic, pos, r) = Count(topic, Handled, r) + 1
      BY <2>1, HandType, HandNumber
    <3>2. p = q \o <<Hand.n>> /\ q \o <<Hand.n>> = Append(q, Hand.n)
      BY <1>1, <2>1, <3>1, AppendIsConcat DEF Pending, Queued
    <3> HIDE DEF e, q, p
    <3>3. /\ p \in Seq(1 .. Done) /\ DOMAIN p = 1 .. Len(q) + 1 /\ Len(p) = Len(q) + 1
          /\ \A i \in 1 .. Len(q) + 1 : p[i] = IF i = Len(q) + 1 THEN Hand.n ELSE q[i]
      BY <1>1, <3>1, <3>2, AppendAt, AppendProperties
    <3>4. Hand.n = Len(e) + (Len(q) + 1)
      BY <1>1, <1>2, <3>1
    <3>5. \A i \in 1 .. Len(q) + 1 : i = Len(q) + 1 \/ i \in 1 .. Len(q)
      BY <1>1
    <3>6. Numbered(p, Len(e))
      BY <1>1, <1>2, <3>3, <3>4, <3>5 DEF Numbered
    <3> QED  BY <1>1, <1>2, <3>1, <3>3, <3>4, <3>6
  <2>2. CASE ~(loop \in {"route", "send"} /\ Hand.req = r)
    <3>1. p = q
      BY <1>1, <2>2, ConcatEmptySeq DEF Pending, Queued
    <3>2. Count(topic, pos, r) = Count(topic, Handled, r)
      <4>1. CASE loop \in {"route", "send"}
        BY <2>2, <4>1, HandNumber
      <4>2. CASE loop \notin {"route", "send"}
        BY <4>2 DEF Handled
      <4> QED  BY <4>1, <4>2
    <3> QED  BY <1>1, <1>2, <3>1, <3>2
  <2> QED  BY <2>1, <2>2
<1> HIDE DEF e, q, p
<1>4. /\ e \o p \in Seq(1 .. Done) /\ Len(e \o p) = Len(e) + Len(p)
      /\ \A i \in 1 .. Len(e) + Len(p) : (e \o p)[i] = IF i <= Len(e) THEN e[i] ELSE p[i - Len(e)]
  BY <1>1, <1>3, ConcatProperties
<1>5. DOMAIN (e \o p) = 1 .. Len(e) + Len(p) /\ DOMAIN p = 1 .. Len(p) /\ Len(p) \in Nat
  BY <1>3, <1>4, LenProperties
<1>6. \A i \in 1 .. Len(e) + Len(p) : (e \o p)[i] = i
  <2> TAKE i \in 1 .. Len(e) + Len(p)
  <2>1. CASE i <= Len(e)
    BY <1>1, <1>2, <1>4, <1>5, <2>1, SMTT(30) DEF Numbered
  <2>2. CASE ~(i <= Len(e))
    <3>1. i - Len(e) \in 1 .. Len(p) /\ Len(e) + (i - Len(e)) = i
      BY <1>1, <1>5, <2>2
    <3> QED  BY <1>3, <1>4, <1>5, <2>2, <3>1 DEF Numbered
  <2> QED  BY <2>1, <2>2
<1> QED  BY <1>3, <1>4, <1>5, <1>6 DEF e, p

\* Nothing has been published at the start.
LEMMA FullInit == Init => FullInv
<1> SUFFICES ASSUME Init PROVE FullInv
  OBVIOUS
<1>1. /\ topic = << >> /\ Len(topic) = 0 /\ pos = 0 /\ loop = "fetch" /\ phase = "up"
      /\ \A r \in Requests : emitted[r] = 0 /\ executed[r] = << >> /\ channels[r] = NoGoroutine
      /\ \A g \in Goroutines : gpc[g] = "free"
  BY DEF Init
<1>2. \A r : Count(topic, 0, r) = 0
  <2> TAKE r
  <2>1. {i \in 1 .. 0 : topic[i].req = r} = {}
    OBVIOUS
  <2> QED  BY <2>1, FS_EmptySet DEF Count
<1>3. DOMAIN topic = {}
  BY <1>1
<1>4. TopicNumbered /\ HurtByStop /\ ExecutesByNumber /\ TargetIsEntry
  BY <1>1, <1>2, <1>3 DEF TopicNumbered, HurtByStop, ExecutesByNumber, TargetIsEntry, Live
<1>5. ASSUME NEW r \in Requests PROVE AccountedFor(r)
  <2>1. executed[r] = << >> /\ Queued(r) = << >> /\ Handled = 0
    BY <1>1 DEF Queued, Handled
  <2>2. Len(<< >>) = 0 /\ DOMAIN << >> = {}
    OBVIOUS
  <2> QED  BY <1>2, <2>1, <2>2 DEF AccountedFor, Numbered
<1> QED  BY <1>4, <1>5 DEF FullInv

\* Publication numbers the token and leaves what was handed over alone.
LEMMA FullPublish ==
  ASSUME TypeInv, FullInv, NEW r \in Requests, PublishToken(r)
  PROVE  FullInv'
<1> DEFINE e == [req |-> r, n |-> emitted[r] + 1]
<1>0. /\ topic \in Seq(Token) /\ Len(topic) \in Nat /\ DOMAIN topic = 1 .. Len(topic)
      /\ emitted \in [Requests -> Nat] /\ Handled \in 0 .. Len(topic)
  <2>1. topic \in Seq(Token) /\ Len(topic) \in Nat /\ DOMAIN topic = 1 .. Len(topic)
    BY SeqFacts
  <2> QED  BY <2>1, RouterAssumption DEF TypeInv, TypeOK, InHand, Handled, Done
<1>1. /\ UNCHANGED <<pos, loop, target, channels, gpc, req, queue, cur, phase, executed, hurt>>
      /\ emitted' = [emitted EXCEPT ![r] = @ + 1] /\ topic' = Append(topic, e)
  BY DEF PublishToken, reader, workers, process, history
<1>2. e \in Token /\ e.req = r /\ e.n = emitted[r] + 1
  BY RouterAssumption DEF PublishToken, TypeInv, TypeOK, Token, Done
<1>3. /\ DOMAIN topic' = 1 .. Len(topic) + 1 /\ Len(topic') = Len(topic) + 1
      /\ \A i \in 1 .. Len(topic) : topic'[i] = topic[i]
      /\ topic'[Len(topic) + 1] = e
  BY <1>0, <1>1, <1>2, AppendAt
<1> HIDE DEF e
<1>4. \A k \in 0 .. Len(topic) : \A q : Count(topic', k, q) = Count(topic, k, q)
  <2> TAKE k \in 0 .. Len(topic)
  <2>1. k \in Nat /\ \A i \in 1 .. k : topic'[i] = topic[i]
    BY <1>0, <1>3
  <2> QED  BY <2>1, CountSame
<1>5. \A q \in Requests : emitted'[q] = Count(topic', Len(topic) + 1, q)
  <2> TAKE q \in Requests
  <2>1. Count(topic', Len(topic) + 1, q) =
          IF topic'[Len(topic) + 1].req = q THEN Count(topic', Len(topic), q) + 1
                                           ELSE Count(topic', Len(topic), q)
    BY <1>0, CountNext
  <2>2. emitted[q] = Count(topic', Len(topic), q)
    BY <1>0, <1>4 DEF FullInv, TopicNumbered
  <2> QED  BY <1>0, <1>1, <1>2, <1>3, <2>1, <2>2
<1>6. TopicNumbered'
  <2>1. \A i \in 1 .. Len(topic) : topic'[i].n = Count(topic', i, topic'[i].req)
    BY <1>0, <1>3, <1>4 DEF FullInv, TopicNumbered
  <2>2. topic'[Len(topic) + 1].n = Count(topic', Len(topic) + 1, topic'[Len(topic) + 1].req)
    BY <1>0, <1>1, <1>2, <1>3, <1>5
  <2>3. \A i \in DOMAIN topic' : i \in 1 .. Len(topic) \/ i = Len(topic) + 1
    BY <1>0, <1>3
  <2> QED  BY <1>3, <1>5, <2>1, <2>2, <2>3 DEF TopicNumbered
<1>7. HurtByStop' /\ ExecutesByNumber'
  BY <1>1 DEF FullInv, HurtByStop, ExecutesByNumber
<1>8. TargetIsEntry'
  <2>1. loop = "send" => pos \in 1 .. Len(topic)
    BY <1>0 DEF TypeInv, TypeOK, InHand
  <2> QED  BY <1>1, <1>3, <2>1 DEF FullInv, TargetIsEntry, Hand
<1>9. ASSUME NEW q \in Requests \ hurt PROVE AccountedFor(q)'
  <2>1. Handled' = Handled /\ Queued(q)' = Queued(q)
    BY <1>1 DEF Handled, Queued
  <2>2. AccountedFor(q)
    BY DEF FullInv
  <2> QED  BY <1>0, <1>1, <1>4, <2>1, <2>2 DEF AccountedFor
<1> QED  BY <1>1, <1>6, <1>7, <1>8, <1>9 DEF FullInv

\* A step that hands nothing over and executes nothing: what is in the channel
\* of a request stays the same.
LEMMA FullKept ==
  ASSUME FullInv, UNCHANGED <<topic, emitted, executed>>, hurt \subseteq hurt',
         HurtByStop', ExecutesByNumber', TargetIsEntry',
         \A r \in Requests \ hurt' : Queued(r)' = Queued(r) /\ Handled' = Handled
  PROVE  FullInv'
<1>1. TopicNumbered'
  BY DEF FullInv, TopicNumbered
<1>2. ASSUME NEW r \in Requests \ hurt' PROVE AccountedFor(r)'
  <2>1. AccountedFor(r)
    BY DEF FullInv
  <2> QED  BY <2>1 DEF AccountedFor
<1> QED  BY <1>1, <1>2 DEF FullInv

\* The token sent is the next of its request, and goes behind the others.
LEMMA FullSend ==
  ASSUME TypeInv, EntryOwnsGoroutine, SendsToServing, FullInv, Send
  PROVE  FullInv'
<1> DEFINE q == queue[target]
<1>r. PICK r \in Requests : r = Hand.req
  BY HandType DEF Send
<1>0. /\ UNCHANGED <<topic, emitted, pos, target, channels, gpc, req, cur, phase, executed, hurt>>
      /\ target \in Goroutines /\ loop = "send" /\ loop' = "fetch"
      /\ queue' = [queue EXCEPT ![target] = Append(q, Hand.n)]
  BY DEF Send, source, process, history, TypeInv, InHand
<1>1. TopicNumbered' /\ HurtByStop' /\ ExecutesByNumber' /\ TargetIsEntry'
  BY <1>0 DEF FullInv, TopicNumbered, HurtByStop, ExecutesByNumber, TargetIsEntry
<1>2. /\ Handled \in Nat /\ pos = Handled + 1 /\ Handled' = pos /\ r \in Requests /\ Hand.n \in 1 .. Done
      /\ Hand.n = Count(topic, Handled, r) + 1 /\ Count(topic, pos, r) = Count(topic, Handled, r) + 1
      /\ \A p \in Requests : p # r => Count(topic, pos, p) = Count(topic, Handled, p)
  BY <1>0, <1>r, HandNumber, HandType DEF Handled
<1>3. q \in Seq(1 .. Done) /\ queue'[target] = Append(q, Hand.n) /\ \A g \in Goroutines \ {target} : queue'[g] = queue[g]
  BY <1>0 DEF TypeInv, TypeOK
<1>4. /\ DOMAIN Append(q, Hand.n) = 1 .. Len(q) + 1 /\ Len(Append(q, Hand.n)) = Len(q) + 1
      /\ \A i \in 1 .. Len(q) + 1 : Append(q, Hand.n)[i] = IF i = Len(q) + 1 THEN Hand.n ELSE q[i]
      /\ Len(q) \in Nat /\ DOMAIN q = 1 .. Len(q)
  BY <1>2, <1>3, AppendAt, LenProperties
<1>5. ASSUME r \notin hurt PROVE AccountedFor(r)'
  <2>1. channels[r] = target /\ target # NoGoroutine
    BY <1>0, <1>r, <1>5, RouterAssumption DEF FullInv, TargetIsEntry
  <2>2. Queued(r) = q /\ Queued(r)' = queue'[target]
    BY <1>0, <2>1 DEF Queued
  <2>3. AccountedFor(r)
    BY <1>2, <1>5 DEF FullInv
  <2> DEFINE len == Len(executed[r])
             s == queue'[target]
  <2>4. /\ Numbered(executed[r], 0) /\ Numbered(q, len) /\ len + Len(q) = Count(topic, Handled, r)
        /\ len \in Nat
    BY <1>2, <2>2, <2>3, QueuedType DEF AccountedFor
  <2> HIDE DEF q, len, s
  <2>5. \A i \in 1 .. Len(q) + 1 : i = Len(q) + 1 \/ i \in 1 .. Len(q)
    BY <1>4
  <2>6. Numbered(s, len) /\ Len(s) = Len(q) + 1
    BY <1>2, <1>3, <1>4, <2>4, <2>5 DEF Numbered, s
  <2>7. len + Len(s) = Count(topic, pos, r)
    BY <1>2, <1>4, <2>4, <2>6
  <2>8. executed' = executed /\ topic' = topic /\ Handled' = pos /\ Queued(r)' = s
    BY <1>0, <1>2, <2>2 DEF s
  <2> QED  BY <2>4, <2>6, <2>7, <2>8 DEF AccountedFor, len
<1>6. ASSUME NEW p \in Requests \ hurt, p # r PROVE AccountedFor(p)'
  <2>1. channels[p] # target
    BY <1>0, <1>r, <1>6, RouterAssumption DEF EntryOwnsGoroutine, SendsToServing
  <2>2. Queued(p)' = Queued(p)
    <3>1. channels[p] # NoGoroutine => channels[p] \in Goroutines \ {target}
      BY <2>1 DEF TypeInv, TypeOK
    <3> QED  BY <1>0, <1>3, <3>1 DEF Queued
  <2>3. AccountedFor(p)
    BY DEF FullInv
  <2> QED  BY <1>0, <1>2, <1>6, <2>2, <2>3 DEF AccountedFor
<1> QED  BY <1>0, <1>1, <1>2, <1>5, <1>6 DEF FullInv

\* The token received is the one after those executed.
LEMMA FullReceive ==
  ASSUME TypeInv, TypeInv', EntryOwnsGoroutine, FullInv, NEW g \in Goroutines, Receive(g)
  PROVE  FullInv'
<1>r. PICK r \in Requests : r = req[g]
  BY DEF Receive, TypeInv, Serving, Live
<1> DEFINE q == queue[g]
           e == executed[r]
<1>0. /\ UNCHANGED <<topic, emitted, pos, loop, target, channels, req, phase, hurt>>
      /\ gpc[g] = "select" /\ gpc' = [gpc EXCEPT ![g] = "exec"]
      /\ queue' = [queue EXCEPT ![g] = Tail(q)] /\ q # << >>
      /\ cur' = [cur EXCEPT ![g] = Head(q)]
      /\ executed' = [executed EXCEPT ![r] = Append(e, Head(q))]
  BY <1>r DEF Receive, source, reader, process
<1>1. /\ r \in Requests /\ gpc[g] \in Live /\ channels[r] = g /\ g # NoGoroutine
      /\ \A h \in Goroutines \ {g} : gpc[h] \in Live => req[h] # r
      /\ q \in Seq(1 .. Done) /\ e \in Seq(1 .. Done)
  <2>1. gpc[g] \in Live /\ channels[r] = g /\ g # NoGoroutine
    BY <1>0, <1>r, RouterAssumption DEF Live, EntryOwnsGoroutine
  <2>2. \A h \in Goroutines \ {g} : gpc[h] \in Live => req[h] # r
    BY <2>1 DEF EntryOwnsGoroutine
  <2> QED  BY <2>1, <2>2 DEF TypeInv, TypeOK
<1>2. /\ Len(q) \in Nat \ {0} /\ DOMAIN q = 1 .. Len(q) /\ Head(q) = q[1]
      /\ DOMAIN Tail(q) = 1 .. Len(q) - 1 /\ Len(Tail(q)) = Len(q) - 1
      /\ \A i \in 1 .. Len(q) - 1 : Tail(q)[i] = q[i + 1]
  BY <1>0, <1>1, TailAt
<1>3. Head(q) \in 1 .. Done
  <2>1. 1 \in 1 .. Len(q)
    BY <1>2
  <2>2. q[1] \in 1 .. Done
    BY <1>1, <2>1, ElementOfSeq
  <2> QED  BY <1>2, <2>2
<1>4. /\ DOMAIN Append(e, Head(q)) = 1 .. Len(e) + 1 /\ Len(Append(e, Head(q))) = Len(e) + 1
      /\ \A i \in 1 .. Len(e) + 1 : Append(e, Head(q))[i] = IF i = Len(e) + 1 THEN Head(q) ELSE e[i]
      /\ Len(e) \in Nat /\ DOMAIN e = 1 .. Len(e)
  BY <1>1, <1>3, AppendAt, LenProperties
<1>5. /\ executed'[r] = Append(e, Head(q)) /\ \A p \in Requests \ {r} : executed'[p] = executed[p]
      /\ queue'[g] = Tail(q) /\ \A h \in Goroutines \ {g} : queue'[h] = queue[h]
      /\ cur'[g] = Head(q) /\ \A h \in Goroutines \ {g} : cur'[h] = cur[h]
      /\ gpc'[g] = "exec" /\ \A h \in Goroutines \ {g} : gpc'[h] = gpc[h]
  BY <1>0, <1>1 DEF TypeInv, TypeOK
<1>6. Queued(r) = q /\ Queued(r)' = Tail(q)
  BY <1>0, <1>1, <1>5 DEF Queued
<1>7. ASSUME r \notin hurt PROVE AccountedFor(r)' /\ Head(q) = Len(e) + 1
  <2>1. Numbered(e, 0) /\ Numbered(q, Len(e)) /\ Len(e) + Len(q) = Count(topic, Handled, r)
    BY <1>1, <1>6, <1>7 DEF FullInv, AccountedFor
  <2> DEFINE a == Append(e, Head(q))
             t == Tail(q)
             n == Head(q)
  <2> HIDE DEF q, e, a, t, n
  <2>2. n = Len(e) + 1
    <3>1. 1 \in DOMAIN q
      BY <1>2
    <3> QED  BY <1>2, <2>1, <3>1 DEF Numbered, n
  <2>3. Numbered(a, 0) /\ Len(a) = Len(e) + 1
    <3>1. \A i \in 1 .. Len(e) + 1 : i = Len(e) + 1 \/ i \in 1 .. Len(e)
      BY <1>4
    <3>2. \A i \in 1 .. Len(e) + 1 : a[i] = 0 + i
      BY <1>4, <2>1, <2>2, <3>1 DEF Numbered, a, n
    <3> QED  BY <1>4, <3>2 DEF Numbered, a
  <2>4. Numbered(t, Len(a))
    <3>1. \A i \in 1 .. Len(q) - 1 : i + 1 \in 1 .. Len(q) /\ Len(e) + (i + 1) = (Len(e) + 1) + i
      BY <1>2, <1>4
    <3> QED  BY <1>2, <2>1, <2>3, <3>1 DEF Numbered, t
  <2>5. Len(a) + Len(t) = Count(topic, Handled, r)
    BY <1>2, <1>4, <2>1, <2>3 DEF t
  <2>6. executed'[r] = a /\ topic' = topic /\ Handled' = Handled /\ Queued(r)' = t
    BY <1>0, <1>5, <1>6 DEF a, t, Handled
  <2>7. AccountedFor(r)'
    BY <2>3, <2>4, <2>5, <2>6 DEF AccountedFor
  <2> QED  BY <2>2, <2>7 DEF n
<1>8. ASSUME NEW p \in Requests \ hurt, p # r PROVE AccountedFor(p)'
  <2>1. channels[p] # g
    BY <1>1, <1>8 DEF EntryOwnsGoroutine
  <2>2. Queued(p)' = Queued(p)
    <3>1. channels[p] # NoGoroutine => channels[p] \in Goroutines \ {g}
      BY <2>1 DEF TypeInv, TypeOK
    <3> QED  BY <1>0, <1>5, <3>1 DEF Queued
  <2>3. AccountedFor(p) /\ executed'[p] = executed[p] /\ Handled' = Handled
    BY <1>0, <1>5, <1>8 DEF FullInv, Handled
  <2> QED  BY <1>0, <2>2, <2>3 DEF AccountedFor
<1>9. ExecutesByNumber'
  <2>1. r \notin hurt => cur'[g] = Len(executed'[r])
    BY <1>4, <1>5, <1>7
  <2>2. ASSUME NEW h \in Goroutines \ {g}, gpc'[h] \in Live, req'[h] \notin hurt
        PROVE  /\ gpc'[h] = "exec" => cur'[h] = Len(executed'[req'[h]])
               /\ gpc'[h] = "exit" => Len(executed'[req'[h]]) = Done
    <3>1. gpc'[h] = gpc[h] /\ req'[h] = req[h] /\ cur'[h] = cur[h] /\ executed'[req[h]] = executed[req[h]]
      BY <1>0, <1>r, <1>1, <1>5, <2>2 DEF TypeInv, Serving
    <3> QED  BY <2>2, <3>1 DEF FullInv, ExecutesByNumber
  <2> QED  BY <1>0, <1>r, <1>5, <2>1, <2>2 DEF ExecutesByNumber
<1>10. TopicNumbered' /\ HurtByStop' /\ TargetIsEntry'
  BY <1>0 DEF FullInv, TopicNumbered, HurtByStop, TargetIsEntry, Hand
<1> QED  BY <1>0, <1>7, <1>8, <1>9, <1>10 DEF FullInv

\* Only Timeout, which hurts the request, or Done lets a goroutine leave: the
\* channel that Leave takes out of the map is empty.
LEMMA FullLeave ==
  ASSUME TypeInv, EntryOwnsGoroutine, FullInv, NEW g \in Goroutines, Leave(g)
  PROVE  FullInv'
<1> DEFINE r == req[g]
<1>0. /\ UNCHANGED <<topic, emitted, pos, loop, target, queue, cur, phase, executed, hurt>>
      /\ gpc[g] = "exit" /\ gpc' = [gpc EXCEPT ![g] = "free"]
      /\ req' = [req EXCEPT ![g] = NoRequest] /\ channels' = [channels EXCEPT ![r] = NoGoroutine]
  BY DEF Leave, source, reader, process, history
<1>1. r \in Requests /\ gpc[g] \in Live
  BY <1>0 DEF Live, TypeInv, Serving
<1>2. channels'[r] = NoGoroutine /\ \A p \in Requests \ {r} : channels'[p] = channels[p]
  BY <1>0, <1>1 DEF TypeInv, TypeOK
<1>3. r \notin hurt => Queued(r) = << >> /\ (loop \in {"route", "send"} => Hand.req # r)
  BY <1>0, <1>1, DoneIsLast DEF FullInv, ExecutesByNumber
<1>4. \A p \in Requests \ hurt : Queued(p)' = Queued(p) /\ Handled' = Handled
  BY <1>0, <1>2, <1>3 DEF Queued, Handled
<1>5. TargetIsEntry'
  <2>1. Hand' = Hand /\ (loop = "send" => Hand.req \in Requests)
    BY <1>0, HandType DEF Hand
  <2> QED  BY <1>0, <1>2, <1>3, <2>1 DEF FullInv, TargetIsEntry
<1>6. ExecutesByNumber' /\ HurtByStop'
  BY <1>0 DEF FullInv, ExecutesByNumber, HurtByStop, TypeInv, TypeOK, Live
<1> QED  BY <1>0, <1>4, <1>5, <1>6, FullKept

\* Every step keeps FullInv.
LEMMA FullStep ==
  TypeInv /\ TypeInv' /\ EntryOwnsGoroutine /\ OrderInv /\ FullInv /\ [Next]_routerVars => FullInv'
<1> SUFFICES ASSUME TypeInv, TypeInv', EntryOwnsGoroutine, OrderInv, FullInv, [Next]_routerVars
             PROVE  FullInv'
  OBVIOUS
<1> USE DEF source, reader, workers, process, history
<1>1. ASSUME NEW r \in Requests, PublishToken(r) PROVE FullInv'
  BY <1>1, FullPublish
<1>2. CASE Send
  BY <1>2, FullSend DEF OrderInv
<1>3. ASSUME NEW g \in Goroutines, Receive(g) PROVE FullInv'
  BY <1>3, FullReceive
<1>4. ASSUME NEW g \in Goroutines, Leave(g) PROVE FullInv'
  BY <1>4, FullLeave
<1>5. CASE Fetch
  <2>1. /\ UNCHANGED <<topic, emitted, executed, hurt, phase, channels, gpc, req, queue, cur>>
        /\ loop = "fetch" /\ loop' = "route" /\ pos' = pos + 1 /\ pos \in Nat
    BY <1>5, LenProperties DEF Fetch, TypeInv, TypeOK
  <2>2. Handled' = Handled
    <3>1. Handled' = pos + 1 - 1 /\ Handled = pos
      BY <2>1 DEF Handled
    <3> QED  BY <2>1, <3>1
  <2>3. HurtByStop' /\ ExecutesByNumber' /\ TargetIsEntry'
    BY <2>1 DEF FullInv, HurtByStop, ExecutesByNumber, TargetIsEntry
  <2>4. \A r \in Requests : Queued(r)' = Queued(r)
    BY <2>1 DEF Queued
  <2> QED  BY <2>1, <2>2, <2>3, <2>4, FullKept
<1>6. CASE Route
  <2>1. /\ UNCHANGED <<topic, emitted, executed, hurt, phase, pos, cur>>
        /\ loop = "route" /\ loop' = "send"
    BY <1>6 DEF Route, Spawn
  <2>2. Handled' = Handled /\ Hand' = Hand /\ Hand.req \in Requests
    BY <2>1, HandType DEF Handled, Hand
  <2>3. CASE channels[Hand.req] # NoGoroutine /\ target' = channels[Hand.req] /\ UNCHANGED workers
    <3>1. HurtByStop' /\ ExecutesByNumber' /\ TargetIsEntry'
      BY <2>1, <2>2, <2>3 DEF FullInv, HurtByStop, ExecutesByNumber, TargetIsEntry
    <3>2. \A r \in Requests : Queued(r)' = Queued(r)
      BY <2>3 DEF Queued
    <3> QED  BY <2>1, <2>2, <3>1, <3>2, FullKept
  <2>4. ASSUME channels[Hand.req] = NoGoroutine, NEW g \in Goroutines, Spawn(g, Hand.req)
        PROVE  FullInv'
    <3>1. /\ channels'[Hand.req] = g /\ queue'[g] = << >> /\ gpc'[g] = "select" /\ target' = g
          /\ \A p \in Requests : p # Hand.req => channels'[p] = channels[p]
          /\ \A h \in Goroutines \ {g} : queue'[h] = queue[h] /\ gpc'[h] = gpc[h] /\ req'[h] = req[h]
      BY <2>2, <2>4 DEF Spawn, TypeInv, TypeOK
    <3>2. \A p \in Requests : channels[p] # NoGoroutine => channels[p] \in Goroutines \ {g}
      <4> SUFFICES ASSUME NEW p \in Requests, channels[p] # NoGoroutine
                   PROVE  channels[p] \in Goroutines /\ channels[p] # g
        OBVIOUS
      <4>1. gpc[g] = "free" /\ gpc[channels[p]] \in Live
        BY <2>4 DEF Spawn, EntryOwnsGoroutine
      <4>2. channels[p] \in Goroutines
        BY DEF TypeInv, TypeOK
      <4> QED  BY <4>1, <4>2 DEF Live
    <3>3. \A r \in Requests : Queued(r)' = Queued(r)
      BY <2>2, <2>4, <3>1, <3>2, RouterAssumption DEF Queued
    <3>4. HurtByStop' /\ TargetIsEntry'
      BY <2>1, <2>2, <3>1 DEF FullInv, HurtByStop, TargetIsEntry
    <3>5. ExecutesByNumber'
      BY <2>1, <3>1 DEF FullInv, ExecutesByNumber
    <3> QED  BY <2>1, <2>2, <3>3, <3>4, <3>5, FullKept
  <2> QED  BY <1>6, <2>3, <2>4 DEF Route
<1>7. ASSUME NEW g \in Goroutines, AfterExecute(g) PROVE FullInv'
  <2>1. /\ UNCHANGED <<topic, emitted, executed, hurt, phase, pos, loop, target, channels, queue, req>>
        /\ gpc[g] = "exec" /\ gpc'[g] \in {"exit", "select"} /\ (gpc'[g] = "exit" => cur[g] = Done)
        /\ \A h \in Goroutines \ {g} : gpc'[h] = gpc[h] /\ cur'[h] = cur[h]
    BY <1>7 DEF AfterExecute, TypeInv, TypeOK
  <2>2. HurtByStop' /\ TargetIsEntry' /\ Handled' = Handled
    BY <2>1 DEF FullInv, HurtByStop, TargetIsEntry, Hand, Handled
  <2>3. ExecutesByNumber'
    BY <2>1 DEF FullInv, ExecutesByNumber, Live
  <2>4. \A r \in Requests : Queued(r)' = Queued(r)
    BY <2>1 DEF Queued
  <2> QED  BY <2>1, <2>2, <2>3, <2>4, FullKept
<1>8. ASSUME NEW g \in Goroutines, Timeout(g) PROVE FullInv'
  <2>1. /\ UNCHANGED <<topic, emitted, executed, phase, pos, loop, target, channels, queue, req, cur>>
        /\ gpc[g] = "select" /\ hurt' = hurt \cup {req[g]}
        /\ \A h \in Goroutines \ {g} : gpc'[h] = gpc[h]
        /\ req[g] \in Requests
    BY <1>8 DEF Timeout, TypeInv, TypeOK, Serving, Live
  <2>2. HurtByStop' /\ TargetIsEntry' /\ Handled' = Handled
    BY <2>1 DEF FullInv, HurtByStop, TargetIsEntry, Hand, Handled
  <2>3. ExecutesByNumber'
    BY <2>1 DEF FullInv, ExecutesByNumber
  <2>4. \A r \in Requests : Queued(r)' = Queued(r)
    BY <2>1 DEF Queued
  <2> QED  BY <2>1, <2>2, <2>3, <2>4, FullKept
<1>9. CASE UNCHANGED routerVars \/ CommitTick
  <2>1. UNCHANGED <<topic, emitted, executed, hurt, phase, pos, loop, target, workers>>
    BY <1>9 DEF routerVars, CommitTick
  <2>2. HurtByStop' /\ TargetIsEntry' /\ ExecutesByNumber' /\ Handled' = Handled
    BY <2>1 DEF FullInv, HurtByStop, TargetIsEntry, ExecutesByNumber, Hand, Handled
  <2>3. \A r \in Requests : Queued(r)' = Queued(r)
    BY <2>1 DEF Queued
  <2> QED  BY <2>1, <2>2, <2>3, FullKept
<1>10. CASE \/ SendCancelled \/ LoopExit \/ Stop \/ Exit \/ Crash \/ Restart
            \/ \E g \in Goroutines : CtxDone(g)
  <2>1. UNCHANGED <<topic, emitted, executed>> /\ hurt' = Requests /\ hurt \subseteq Requests
    BY <1>10 DEF SendCancelled, LoopExit, Stop, Exit, Crash, Restart, CtxDone, LoseMemory, Cancelled,
                 FullInv, HurtByStop, TypeInv, TypeOK
  <2>2. HurtByStop' /\ ExecutesByNumber' /\ TargetIsEntry'
    <3>1. loop' = "send" => topic'[pos'] \in Token
      <4>1. topic' \in Seq(Token) /\ (loop' = "send" => pos' \in 1 .. Len(topic'))
        BY DEF TypeInv, TypeOK, InHand
      <4> QED  BY <4>1, ElementOfSeq
    <3>2. loop' = "send" => Hand'.req \in Requests
      BY <3>1 DEF Token, Hand
    <3> QED  BY <2>1, <3>2 DEF HurtByStop, ExecutesByNumber, TargetIsEntry, TypeInv, Serving
  <2> QED  BY <2>1, <2>2, FullKept
<1> QED
  BY <1>1, <1>2, <1>3, <1>4, <1>5, <1>6, <1>7, <1>8, <1>9, <1>10 DEF Next

\* All that is shown of a state, in one invariant of the specification.
RouterInv == TypeInv /\ EntryOwnsGoroutine /\ OrderInv /\ FullInv

\* RouterInv is inductive and holds in every behaviour; modules that compose
\* the router cite it.
THEOREM RouterInvariant == Spec => []RouterInv
<1>1. Init => RouterInv
  BY TypeInit, EntryInit, OrderInit, FullInit DEF RouterInv
<1>2. RouterInv /\ [Next]_routerVars => RouterInv'
  BY TypeStep, EntryStep, OrderStep, FullStep DEF RouterInv
<1> QED  BY <1>1, <1>2, PTL DEF Spec

\* A request that met no timeout, crash or shutdown has every token fetched
\* for it executed, in its channel or in hand, in order and without a gap.
THEOREM NoneForgotten == Spec => []RoutedInFull
<1>1. RouterInv => RoutedInFull
  BY FullImpliesRouted DEF RouterInv
<1> QED  BY <1>1, RouterInvariant, PTL
=============================================================================
