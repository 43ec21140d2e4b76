# TLA+ models of the chat streaming pipeline

This directory holds TLA+ modules that model the services of this repository, TLC
configurations that check them on small instances, and TLAPS proofs of the properties
that matter most, for instances of any size. `PROJECT.json` links every definition to the
lines it models, every property to a mutant that violates it, and every hazard of the
code to the properties that would notice it.

## 1. The system

A client posts a message to the API and reads the answer from the same HTTP response, token
by token. Between the two lie Kafka, an LLM worker, a streaming worker and gRPC; a second
consumer stores the same tokens in PostgreSQL.

```
browser -- POST /chat/:id --> API --chat.requests--> LLM worker
   ^                          |  ^                    |       |
   |      stream:callback:id  v  | gRPC   stream-llm-fe       persistence-llm
   |                       Redis | tokens             v       v
   +--- NDJSON <--- TokenHub <---+------- streaming worker    persistence --> PostgreSQL
```

| component | state | operations | talks to | what makes it correct |
|---|---|---|---|---|
| Persistence service (`consumer/persistence.go`, `usecase/persist_session.go`, `store/message_store.go`, `cmd/persistence`) | token buffers and counter, `flushing` flag, consumer offsets, tables `sessions` and `messages` | consumer loop with `AddToken`, threshold flush, ticker flush, flush at shutdown | Kafka, PostgreSQL | every token stored once, in order; flushes exclude each other; message rows have their session; nothing waits for ever |
| Streaming worker router (`consumer/streaming_worker.go`, `cmd/streaming-worker`) | map request -> channel, one goroutine per channel, offsets | `Run`, `route`, `processRequest` with a 30 s idle timer | Kafka, the use case below | one goroutine per request, order per request, entries reclaimed |
| Token delivery use case (`usecase/stream_tokens.go`) | `streams`, `addrMap`, `connMap` | `Execute` | Redis, gRPC | tokens reach the instance that has the request; maps are cleaned |
| Token server and hub (`grpc/token_server.go`, `hub/token_hub.go`) | hub: request -> channel | `Register`, cleanup, `Deliver`, receive loop | handler | registered before the first token, never full |
| Chat stream handler (`handler/chat_stream.go`, `usecase/send_message.go`) | the open response | `Stream` | Redis, Kafka, hub | the client sees chunks of the answer in order, none twice, nothing after done |
| Callback store (`cache/callback_store.go`) | Redis key with a TTL | set, get | both sides | - |
| LLM worker (`consumer/worker.go`, `usecase/process_chat_request.go`, `broker/publisher.go`) | semaphore, offsets | consume, generate, publish to both topics | Kafka | tokens in order, Done last, both topics agree |
| API server (`cmd/api`) | HTTP and gRPC server | start, `OnStop` | fx | a stop lets answers under way finish |
| Session ownership, history (`middleware/jwt.go`, `cache/session_owner.go`, `handler/chat.go`, `cache/conversation_cache.go`) | Redis owner key with a TTL, sorted set, table `messages` | claim (Lua), guard, read | Redis, PostgreSQL | one owner at a time, a history is shown to its owner and only grows |
| Pub/sub stream (`cache/pubsub_stream.go`; not wired into a service) | map session -> subscription, one dispatch goroutine each | `Publish`, `Subscribe`, cleanup | Redis | one subscription per session, entries are served, tokens do not get stuck |
| Logging, config, wiring, presenters, generated code | none that another part reads | | | |

What is hard here: three goroutines share the buffers and the database in the persistence
service; `fx` cancels them and closes the database without waiting; offsets are committed on
an interval and not tied to what was stored; a request's goroutine may time out while the
router holds its channel; the consumer loop, the channels and the limit of streams can wait for
each other; a gRPC stream outlives the goroutine that opened it; every failure on
the delivery path is logged and skipped. The list of hazards, each at its line, is in
`PROJECT.json`.

## 2. Modules

| module | models | lines it follows |
|---|---|---|
| `Persistence` | the persistence service, its topic and its tables | whole consumer, use case, store and shutdown |
| `PersistenceProofs` | theorems about it | |
| `StreamRouter` | the streaming worker's loop, channel map and goroutines | whole `streaming_worker.go` |
| `StreamRouterProofs` | theorems about it | |
| `SequenceLemmas` | lemmas: channels as sequences, `Selected` by induction over the length | |
| `ChatStream` | abstract: what the client of one request may see | contract of `Stream` |
| `TokenDelivery` | composition: `StreamRouter` (as `Router`), `Execute`, gRPC, hub, handler, Redis key, the stop of the API | `stream_tokens.go`, `token_hub.go`, `token_server.go`, `chat_stream.go`, `callback_store.go`, `OnStop` of `cmd/api` |
| `TokenDeliveryProofs` | theorems about it: types, what is in transit, the two refinements | |
| `TokenHandlerProofs` | theorems about it where each API instance has its own address | |
| `LLMWorker` | the LLM worker: loop, semaphore, `Execute`, the generator, the two asynchronous Kafka writers | `worker.go`, `process_chat_request.go`, `mock.go`, `publisher.go` |
| `LLMWorkerProofs` | theorems about it | |
| `Selection` | `Selected`: the elements of a sequence that are in a set | `WHERE` of `GetHistory` |
| `SessionHistory` | who owns a session and who reads its history | `jwt.go`, `session_owner.go`, `chat.go`, reads of `message_store.go` |
| `SessionHistoryProofs` | theorems about it | |
| `PubSubStream` | turns of a session that share one Redis subscription | whole `pubsub_stream.go` |
| `PubSubStreamProofs` | theorems about it | |
| `MCPersistence`, `MCStreamRouter`, `MCTokenDelivery`, `MCLLMWorker`, `MCSessionHistory`, `MCPubSubStream` | the instances TLC checks | |

`TokenDelivery` instantiates `StreamRouter` and lets each action of the router be an action of
the whole: the stay in `"exec"` is filled by the steps of `Execute`, `Router!Receive` starts it
and `Router!AfterExecute` ends it. `ImplementsChatStream` says that the composition implements
`ChatStream` under the mapping `status` <- the place of the handler, `got` <- what the client
received, `torn` <- the requests whose stream broke.

### Persistence

* `loop`, `fetchPos`, `queued`: where `Run` is. `FetchMessage` and `CommitMessages` are one
  step (`Fetch`) because the reader commits on `CommitInterval`: the call only queues the offset.
  `CommitTick` sends it. `AddToken`, `ShouldFlush` and the `CompareAndSwap` are separate steps,
  as other goroutines run between them.
* `keys`, `buffers`, `count`: the fields of `PersistSessionUseCase`.
* `fpc`, `snap`, `existing`: the local variables of the two possible flushes. `Snapshot` is the
  part of `Flush` under the lock; the rest is one action per database call. Each of these
  actions is the effect of the call in flight together with the start of the next one, so
  that cancellation (`Stop`) and `sqlDB.Close` (`CloseDB`) meet a flush either with a call
  under way, which may succeed or fail, or about to start one, which fails at once.
* `FinalFlush` is the flush of `runFlusher` at `ctx.Done`: it runs under
  `context.Background()` and does not look at `flushing`.
* `Crash`, `Stop` ... `Exit` and `Restart` model the life of the process. A restart resumes at
  the committed offset.

Text is a sequence of token numbers and the concatenation of strings is the concatenation of
sequences, which is all that order, loss and repetition need.

### StreamRouter

A channel is read by exactly one goroutine, so the goroutine stands for it; `target` is the channel
`route` holds after it has released the mutex. A goroutine that has left keeps its queue until
its identity is used again, because `route` may still send on the channel. Identities are reused,
which bounds the model, and a new goroutine starts only in `Route`, where `target` is set anew.
`Timeout` may be taken with tokens waiting: a process that was paused for 30 seconds finds timer and
channel ready, and `select` picks either.

### TokenDelivery

`Fault(r)` is spent on a refused request, a failed or expired callback key, a lost publication, a
failed `DeliverTokens`, a broken stream or a client that goes away. When a stream breaks, `Execute` notices it at its next
`Send`, and a first part of what was in transit may still be with the server: `late` holds
those tokens, which are delivered whenever, in any order. So a later token, sent on a new stream, can
overtake them; `ChatStream` allows that for a request whose stream broke (`torn`) and for no
other. A late token at an instance without the request would be dropped, so it is not kept. `sapi` is the instance a stream
reaches: any one that advertises the address. The streaming worker does not crash in this
module, so committed offsets are never read and `CommitTick` is left out. Its crashes are in the
router's runs: after one, tokens are executed again, and the client may then get chunks twice.

`server` is the life of an API instance. `ApiStop` is `GracefulStop`: no new stream, those under way
go on. `GrpcStopped` is its return, when the last stream has ended, and the begin of `Shutdown`;
until then the HTTP server takes requests, although their tokens can no longer be delivered.
`HttpStopped` is the return of `Shutdown`, when the last handler has. fx cuts both off after its own
deadline, and an API that is killed drops its clients; neither is modelled. `OpenTo` counts the streams
on the connection to an address: at `MaxStreams` `DeliverTokens` blocks until one ends.

### SessionHistory

A call goes through the JWT check, then claims the session (`ClaimOwner`, one Lua script, so one step)
or passes `guardSession`, and reads in a step of its own. `Expire` removes the key; `term` counts
these, so that properties can speak of the time between two of them. The error of a claim may be a lost
reply: the call is refused, and the key may be set. `Flush` is what the
persistence service does to the table as far as the history shows it: new rows at the end, in the order in which Go
ranges over the snapshot. It is one step, so the order of ids is that of the commits. The flush at shutdown may
overlap another one, as `Persistence` shows, and a row could then be committed after one with a higher id; how
that affects a history that is read in between is not modelled. The history in Redis is always empty: no service calls
`ConversationCacheImpl.SaveMessage`.

### PubSubStream

Sessions are independent, so the model is one session. A subscription is named by the turn that created it, and
its dispatch goroutine is `Take` (up to the unlock of `ss.mu`), `Send` (blocking), `CloseDead` and `Unlink` (the
deferred function). `getOrCreate` is split where it releases the lock: `GetOrCreate`,
`RedisSubscribe`, `Receive` or `ReceiveFails`, `Drop`. `Disconnect` follows the comment in the
code ("Redis disconnect" ends the dispatch goroutine); go-redis itself would first try to reconnect.

### LLMWorker

`tpc[r]` is where the goroutine of request `r` is in `Execute`: it receives a token, writes it to
one topic, then to the other. A write only puts the event in the queue of an asynchronous writer
(`streamQ`, `persistQ`); `SendStream` and `SendPersist` send it, or lose it for good. Neither a crash nor the
shutdown hook closes the writers, so both lose what they hold. `Receive` may end the answer early when ctx
is cancelled: the generator closes its channel and `Execute` cannot tell that from the end. The generator picks
a random answer, so an attempt has an answer of its own, named by its number; all have the
same length here. `Persistence` and `StreamRouter` have their topic filled by the same sequence of
events, tokens and then Done, without the faults of the worker.

## 3. Runs

Passing runs:

| run | instance | shows |
|---|---|---|
| `persistence` | 1 request, 2 tokens and Done, threshold 2, one crash, one stop, one database error | `TypeOK`, `OneFlushAtATime`, `NothingLostOrRepeated`, `NeverReordered`, `RowsHaveSession`, `StoredTextGrows`, `EventuallyStored` |
| `router` | 2 requests, 1 token and Done, 2 goroutine identities, capacity 1, one crash, one stop | `TypeOK`, `SingleExecutor`, `RoutedInFull`, `EntryOwnsGoroutine`, `ExecutedInOrder` |
| `delivery_faults` | 1 request, 2 tokens and Done, capacity 1, 2 API instances, two faults, one stop of an instance | `TypeOK`, `HubNeverFull`, `NoStreamLeftBehind`, `ImplementsChatStream`, `EntriesReclaimed`, `StopDrains` |
| `delivery_two_requests` | 2 requests at one instance, 1 token and Done, one stream per connection | `TokenFindsHandler`, `NoGapWithoutFault`, `AcceptedIsAnswered`, `EntriesReclaimed` |
| `llm_worker` | 2 requests, 1 token and Done, semaphore of 1, one crash, stop, failed write or lost batch | `TypeOK`, `TopicsAgree`, `DoneMeansComplete`, `OneAnswer`, `RequestsAnswered` |
| `pubsub` | 3 turns of a session, 1 token each, capacity 1, one fault | `TypeOK`, `EntryIsServed`, `BoundedSubscriptions`, `AtMostOneLate`, `DispatchGoesOn` |
| `session_history` | 2 users, 1 session, 3 chats, 3 reads, two expiries, one error | `TypeOK`, `OneOwnerPerTerm`, `GuardHoldsForItsTerm`, `HistoryGrows` |

Runs that end in a violation, each for a line of the repository's documents or comments that the
code does not keep:

| run | property | what happens |
|---|---|---|
| `persistence_shutdown` | `UpsertKeepsText` | the flush at shutdown overwrites the text a flush under way has just stored |
| `persistence_replay` | `ReplayIsIdempotent` | tokens replayed after a crash are appended to the text that already holds them |
| `persistence_dberror` | `FailedFlushKeepsText` | a failed database call drops the snapshot, as the buffers were cleared first |
| `delivery_shared_addr` | `TokenFindsHandler` | with the production address, shared by two replicas, tokens reach the wrong one |
| `llm_worker_crash` | `ShownIsSafe` | a crash loses tokens that are in `stream-llm-fe` and that the writer of `persistence-llm` held for its batch |

Remarks on what the runs do not state:

* The flush at shutdown may overlap the flush under way. `OneFlushAtATime` and `StoredTextGrows` are
  therefore stated for a service that is up. `NeverReordered` shows that the overlap never puts stored
  tokens out of order: the overtaken flush has a cancelled ctx. `persistence_shutdown` shows what it
  does cost.
* The offset of a token is committed when it is fetched, so a crash loses it. The README ends a flush
  with "commit Kafka offset", the test of `Run` asserts "must commit each message immediately".
* Two goroutines that miss `connMap` together both make a connection, and the one that is
  overwritten is never closed; nothing the models state depends on it.
* A goroutine that times out leaves its stream open and cached. It counts against the limit of streams
  and holds up `GracefulStop`; `NoStreamLeftBehind` and `StopDrains` exempt it. When such streams fill the
  limit of a connection, the `DeliverTokens` of a later request blocks for good: its ctx has no deadline, and
  the goroutine is inside `Execute`, where it does not hear its idle timer. Its map entry stays as well.
  `EntriesReclaimed` says that an entry that stays for ever stays for this reason
  (`WaitsForLeftStream`). In `delivery_faults` one request cannot fill a limit of two, so there every entry
  goes, through two faults and a stop. In `delivery_two_requests` a request does get stuck:
  without the exemption TLC finds one whose Done went to the abandoned channel of a
  goroutine that had timed out, so that nothing closes its stream, and the other waits behind it.
* With the limit of streams reached, a request that waits holds its tokens in its channel. `AcceptedIsAnswered`
  needs room for an answer in the channel (32 in the code, 15 tokens an answer). With two tokens,
  Done and capacity 1 TLC finds all waiting: `route` for the channel, its reader for a stream, and the stream
  for a Done that is behind in the topic.
* After the owner key has expired, whoever posts next owns the session, and with it reads what older
  owners left in the table. Until then the former owner gets 403 for his own history.
* In `PubSubStream` a turn may be given an entry that is not subscribed yet, against the comment "returns
  a live session subscription"; if `Receive` then fails it hears nothing. A late delete can remove
  the entry of a successor, so after a fault a session may have two subscriptions: `BoundedSubscriptions`
  says how many. A turn that leaves its channel full stops its session's dispatch goroutine for good,
  which is the exemption in `DispatchGoesOn`.

Bounds. Every race in the persistence service is among three goroutines and one row per request; rows
of one snapshot are treated independently (the theorems below are for any number of requests), and
two tokens and Done let some be stored, some be in a snapshot and some in the buffer. One crash and one stop
give three lives of the process. In the router a request needs a goroutine that leaves, a channel
`route` still holds and a successor: two identities. A capacity of 1
makes channels full. Two faults let a stream break, a new one be opened and that break, too. The hub's capacity is NumTokens + 1,
the least that the comment
"1000 >> 15 tokens/request" (and the assumption `HubCap > NumTokens`) allows. One stream per connection
makes the second of two requests wait, for the first or behind a stream that no goroutine serves any more. That
run is without faults and stops to stay small; `EntriesReclaimed` held there also with channels of capacity 1 and
one fault, or one stop, in several minutes each. Three turns are a subscription, its successor and a
turn that shares either; one fault makes one stale delete. Two expiries give three terms, so that a term can be
neither the first nor the last. Deadlock
checking is off except in the persistence runs because those systems may rest: all
requests done, or `route` blocked on a channel nobody reads, which the code permits after a
timeout.

Symmetry is used only in runs without temporal properties.

Fairness. Weak fairness of each goroutine: the Go scheduler runs what can run, the database, Redis
and gRPC answer (with a result or an error), tickers and timers fire. None for crashes, faults,
stops, clients that disconnect, or the commit interval. In `LLMWorker` the writers send what they hold. In `TokenDelivery` the LLM worker is fair:
a request in its topic gets generated. Its idle timers (`TimersFire`) are fair in `TimedSpec`, which `StopDrains` is checked under, and are a
premise of `EntriesReclaimed`; `AcceptedIsAnswered` is checked without, so that no deadlock can hide
behind a timeout. In `PubSubStream` a caller reads its channel until it cleans up. `SessionHistory` has
no liveness. The liveness properties exempt behaviours that a fault or a timeout
has hit, because the code then drops tokens by design and the handler waits without a limit.
`EntriesReclaimed` exempts only the wait described above.

## 4. Proofs

Every invariant and every action property that the passing runs check is also a theorem, and so is the
implementation of `ChatStream`. The theorems are for any set of requests (calls, turns), number of
tokens, threshold, channel capacity and number of faults, under the assumptions named in the modules
they are about; two have one hypothesis more (`TokenHandlerProofs`).

`PersistenceProofs`
* `TypesHold`: `TypeOK`. It contains `committed <= queued <= fetchPos <= Len(log)`. Inductive
  with `Control`: an event is in hand when `AddToken` needs one, and a dead process is nowhere
  in its loops.
* `FlushMutex`: `OneFlushAtATime`. Inductive as `Mutex`: while the service is up, a flush that is
  under way has set `flushing`, only one is, and `runFlusher` has not turned to its last flush.
* `ForeignKeyHolds`: `RowsHaveSession`. Needs `SessionsFirst`: a flush that is about to write
  messages has written their sessions. It holds without the mutex.
* `TextConserved`: `NothingLostOrRepeated`. The invariant `TextInv` adds to types and mutex
  `CleanIsUp` (nothing has failed only while the service is up), `Placement` (text is only where a
  key or a running flush is) and `ReadIsFresh` (what a flush has read is still what the database
  holds). The last is where the mutex is needed: between read and upsert nobody else writes.
  The proof has one step per action; the equalities of concatenations are lemmas of their own.
* `TextGrows`: `StoredTextGrows`, an action property. `ReadIsFresh` holds of every service that is up,
  also after failed calls and replays; what an upsert writes then begins with what it overwrites.
* `OrderKept`: `NeverReordered`. At shutdown two flushes overlap and `Mutex` says nothing, so the
  invariant `OrderInv` compares texts by age: what is stored, in a snapshot or read for a merge is
  older than the buffer, and that older than what the topic has left (`BufferLast`); a flush that may
  still read, or has read, found text older than its snapshot (`ReadIsOlder`); and the flush that
  the last one overtakes has the older snapshot (`OvertakenIsOlder`). That a flush with a
  cancelled ctx can no longer start a read (`CanQuery`) is what makes it inductive.

`StreamRouterProofs`
* `TypesHold`: `TypeOK`, with the capacity of channels; inductive with `InHand` and `Serving`.
* `EntriesMatch`: `EntryOwnsGoroutine`, inductive on top of the types.
* `OneExecutor`: `SingleExecutor`, which follows from it: the entry of a request is one goroutine.
* `InOrderPerRequest`: `ExecutedInOrder`. The invariant places the tokens of a request: those executed, then those in the
  channel that is read, then those of the topic that are still to be handed over
  (`QueueAfterExecuted`, `QueueBeforeTopic`, `ExecutedBeforeTopic`), and the
  channel `route` holds is one of the request in hand or one that nobody reads (`SendsToServing`).
* `NoneForgotten`: `RoutedInFull`, which adds that there is no gap between these.
* `RouterInvariant`: all of it in one invariant, for modules that compose the router.

`TokenDeliveryProofs`
* `ImplementsRouter`: `Spec => RP!Spec`, where `RP` is `StreamRouterProofs` instantiated like `Router`. The assumption
  of the router follows from `DeliveryAssumption` (`RouterAssumed`), so its theorems hold of the composition.
* `DeliveryTypesHold`: `TypeOK`, with the capacity of the hub channel. Inductive with `Equipped`: a goroutine in
  `Execute` has a token, and an address where it needs one.
* `TransitInvariant`: the argument for the next two. The tokens of a request in the response, the hub channel, the
  stream and among the late ones are distinct, and in order while no stream has broken (`InTransit`);
  all were executed, before the token that is being sent (`SentPast`). The latter rests on the
  router's `SingleExecutor` and `ExecutedInOrder`.
* `HubHasRoom`: `HubNeverFull`. Distinct tokens from `1 .. Done`, one of them not yet in the channel, are too few to fill it;
  uses `HubCap > NumTokens`.
* `DeliversChatStream`: `Spec => Client!Spec`, each action of the handler a step of `ChatStream` and every other step a stutter.
* `NothingLeftBehind`: `NoStreamLeftBehind`. Inductive as `CacheInv`: an open stream is cached, `Execute` opens one only if
  none is, and the goroutine that has sent Done takes stream and address out of the caches on every way out.

`TokenHandlerProofs`, from the hypothesis `OwnAddrs` that no two API instances advertise the same address. The hypothesis is
what the code relies on and production does not provide: `delivery_shared_addr` violates the same property
without it.
* `FindsHandler`: `TokenFindsHandler`. Inductive as `RegisterInv`: until the handler has registered the request and set
  the callback nothing of it is published, and the addresses that are cached or in Redis are those of its instance.
* `NoTokenMissing`: `NoGapWithoutFault`. `GapInv` follows the tokens from the router to the client: what is received, in the
  hub channel and on the stream is a first part of the answer, which the token being sent continues.

`LLMWorkerProofs`, from `WorkerAssumption`
* `WorkerTypesHold`: `TypeOK`. The bound of the semaphore needs `SlotPerTask` (a slot for each goroutine), and that needs
  `PublishedOnce` and `BusyFetched`: no request is given to a second goroutine while one has it.
* `DoneIsTheEnd`, `OneAnswerEach`: `DoneMeansComplete` and `OneAnswer`, both from `WorkerInv`. A topic and what its writer holds
  are one line of events (`LineInv`), in which the events of a request are ordered by attempt and number,
  reach as far as `Execute` has got and, while no batch was lost and nobody stopped the worker, have no gap. Sending a
  batch does not change the line; a crash cuts off its end. `TriedOnce` adds that a request has one
  attempt until it is read again.
* `SameOnBothTopics`: `TopicsAgree`, inductive as `FaultFree` on top of the types: without a fault the process is up, so no
  write fails. Uses the lemmas on `Selected`.

`SessionHistoryProofs`, from `SessionAssumption`
* `OneOwner`: `OneOwnerPerTerm`. The property speaks of pairs of accepted
  requests and says nothing of the key, so it is not inductive. `OwnerInv` adds `TermInv`: a
  check that was passed in the current term was passed by the user the key names. A
  claim can therefore only join the requests of its own user. `Expire` ends the term and takes the key with it;
  `AgreeInv` is what remains true of the terms that are over.
* `TypesHold`, `GuardHolds`, `ShownStays`: `TypeOK`, `GuardHoldsForItsTerm` and `HistoryGrows`, from `HistoryInv`. It
  adds that rows are of accepted requests, one each (`RowsInv`), and that a call was shown messages of accepted
  requests of its session, with which the history of now still begins (`AnswerInv`). Two answers begin
  the same history, so one begins the other; and who asked what is shown is a matter of `AgreeInv`.

`PubSubStreamProofs`, from `PubSubAssumption`
* `TypesHold`: `TypeOK`, with the capacity of channels; inductive with `Holding`: a goroutine about
  to send has a token and a channel.
* `EntryServed`: `EntryIsServed`, inductive on top of the types.
* `OneLate`: `AtMostOneLate`. The invariant `LateInv` says that the channel a subscription forwards to
  is that of a turn that reads (`CurrentReads`), that a goroutine sends only to turns of
  its own subscription (`SendsToOwn`), and that a turn that has had its late token is neither
  what a subscription forwards to nor what a goroutine is about to send to (`LateIsLast`). So no goroutine
  can take a second one for it.
* `SubscriptionsBounded`: `BoundedSubscriptions`. Counting subscriptions is not inductive: the harm is done when a stale delete is
  left behind, before there is a second subscription. `BoundInv` counts both: the deletes still to come and the
  subscriptions without an entry are at most one for each fault.

`SequenceLemmas` has what sending and receiving do to a sequence, and what `Selected` leaves of one.
`Selected` is a recursive function. The library's induction theorems take a predicate, which the
provers cannot instantiate, so `UpTo` is induction with a set in its place, from the theorem
that `<` is well-founded; `SelectedAppend`, `SelectedIn` and `SelectedGrows` rest on it.

Only model-checked: the liveness properties `EventuallyStored`, `EntriesReclaimed`, `AcceptedIsAnswered`, `StopDrains`,
`RequestsAnswered` and `DispatchGoesOn`, as fairness and `ENABLED` are out of the prover's reach. The five
violations are TLC's, too.

## 5. Not modelled

* Several partitions and replicas of a consumer: the compose files set
  `KAFKA_NUM_PARTITIONS: 1`, so a topic is one sequence and a group has one consumer at work.
  Rebalancing is left out.
* Writes of the conversation cache (`SaveMessage`, `DeleteSession`) and `SaveMessage`, `BulkSaveMessages` of the
  message store: no service calls them.
* The `continue` branches of the consumer loops. A failed `FetchMessage` is tried again and changes nothing; an event that
  does not unmarshal is skipped, and the producers here write none.
* The error return of `grpc.NewClient`: `Execute` returns as after a failed `DeliverTokens`, which `OpenStream` has.
* A killed API, the deadline of fx, and the check of the callback secret by the gRPC server: a
  wrong secret is a wrong configuration and breaks every stream.
* Logging, configuration, wiring, presenters and generated code: no state another part
  reads. The token callback handler is not wired into a service; it makes the same `Deliver`.

## 6. Plan

Done: all modules of section 2; theorems for all safety properties of the passing runs.

Next, in this order:
1. The topics as the other modules assume them: that what an `LLMWorker` without faults leaves in a topic is, for each
   request, the events that `Router!PublishToken` and `PublishToken` of `Persistence` publish.
2. A streaming worker that crashes in `TokenDelivery`, and what its client may then see.
3. The losses that the runs with a violation show, bounded: what a crash of the persistence service can cost.
