----------------------------- MODULE Persistence -----------------------------
(***************************************************************************)
(* The persistence service: the Kafka consumer loop of PersistenceWorker,  *)
(* the token buffers of PersistSessionUseCase, the two goroutines that     *)
(* flush them, and the tables MessageStoreImpl writes.                     *)
(*                                                                         *)
(* Three goroutines share the buffers and the database: the consumer loop  *)
(* (Run), the flush it spawns when the threshold is reached, and the       *)
(* ticker loop (runFlusher), which also makes the last flush at shutdown.  *)
(*                                                                         *)
(* Data: the text a request generates is the sequence <<1, ..., NumTokens>>*)
(* of its tokens, and content is a sequence of tokens, so concatenation of *)
(* strings in the code is concatenation of sequences here.  The final      *)
(* event of a request (Done) carries the empty delta.                      *)
(***************************************************************************)
EXTENDS Naturals, Sequences, FiniteSets

CONSTANTS
  Requests,       \* request ids
  Sessions,       \* session ids
  SessionOf,      \* the session each request belongs to
  NumTokens,      \* tokens the LLM generates for a request, Done excluded
  Threshold,      \* persistTokenThreshold
  MaxCrashes,     \* bound: how often the process is killed
  MaxStops,       \* bound: how often it is stopped in good order
  MaxDbErrors     \* bound: how many database calls fail while it runs

ASSUME PersistenceAssumption ==
  /\ SessionOf \in [Requests -> Sessions]
  /\ NumTokens \in Nat
  /\ Threshold \in Nat \ {0}
  /\ MaxCrashes \in Nat /\ MaxStops \in Nat /\ MaxDbErrors \in Nat

VARIABLES
  \* Kafka, topic persistence-llm (one partition)
  log,            \* the events published, in order
  emitted,        \* how many events of each request are in log
  committed,      \* the group's committed offset, kept by the broker
  \* the consumer loop
  fetchPos,       \* events fetched: log[fetchPos + 1] is next
  queued,         \* offset handed to CommitMessages, not yet sent
  loop,           \* where Run is: log[fetchPos] is in its hands at "add"
  \* PersistSessionUseCase
  keys,           \* the requests that have a tokenBuffer
  buffers,        \* the content of each tokenBuffer
  count,          \* tokens added since the last snapshot
  \* the flushes
  flushing,       \* PersistenceWorker.flushing
  fpc,            \* where each flush is
  final,          \* runFlusher has seen ctx.Done and makes the last flush
  snapKeys, snap, \* the snapshot each flush holds
  existing,       \* what each flush has read from the database
  \* PostgreSQL
  sessions,       \* rows of table sessions
  rows,           \* requests with their two rows in table messages
  messages,       \* content of the assistant row of each request
  \* the process and its faults
  phase,          \* up, stopping (ctx cancelled), closed (DB closed), down
  crashes, stops, dbErrors,
  \* history
  consumed,       \* content fetched for each request, in order
  clean,          \* no fault and no shutdown so far
  rewound         \* some restart read events again

kafka   == <<log, emitted, committed>>
reader  == <<fetchPos, queued, loop>>
useCase == <<keys, buffers, count>>
flushes == <<flushing, fpc, final, snapKeys, snap, existing>>
db      == <<sessions, rows, messages>>
process == <<phase, crashes, stops, dbErrors>>
history == <<consumed, clean, rewound>>
vars    == <<kafka, reader, useCase, flushes, db, process, history>>

-----------------------------------------------------------------------------
(* Types and initial state *)

Content    == Seq(Nat)
NoContent  == [r \in Requests |-> << >>]
TokenEvent == [req : Requests, delta : Content, done : BOOLEAN]

ThresholdFlush == "threshold"   \* the goroutine Run spawns
TickerFlush    == "ticker"      \* the goroutine of runFlusher
Flushers       == {ThresholdFlush, TickerFlush}

\* A flush whose database call of this name is under way; between two such
\* calls there is nothing another goroutine can see.
Querying == {"read", "sessions", "upsert"}
Active   == {"snapshot", "release"} \cup Querying

Init ==
  /\ log = << >> /\ emitted = [r \in Requests |-> 0] /\ committed = 0
  /\ fetchPos = 0 /\ queued = 0 /\ loop = "fetch"
  /\ keys = {} /\ buffers = NoContent /\ count = 0
  /\ flushing = FALSE /\ final = FALSE
  /\ fpc = [f \in Flushers |-> "idle"]
  /\ snapKeys = [f \in Flushers |-> {}]
  /\ snap = [f \in Flushers |-> NoContent]
  /\ existing = [f \in Flushers |-> NoContent]
  /\ sessions = {} /\ rows = {} /\ messages = NoContent
  /\ phase = "up" /\ crashes = 0 /\ stops = 0 /\ dbErrors = 0
  /\ consumed = NoContent /\ clean = TRUE /\ rewound = FALSE

-----------------------------------------------------------------------------
(* The producer: the LLM worker publishes the tokens of a request in       *)
(* order, then Done with an empty delta (ProcessChatRequestUseCase).       *)

PublishToken(r) ==
  /\ emitted[r] <= NumTokens
  /\ LET n == emitted[r] + 1
         e == IF n <= NumTokens
              THEN [req |-> r, delta |-> <<n>>, done |-> FALSE]
              ELSE [req |-> r, delta |-> << >>, done |-> TRUE]
     IN  log' = Append(log, e) /\ emitted' = [emitted EXCEPT ![r] = n]
  /\ UNCHANGED <<committed, reader, useCase, flushes, db, process, history>>

-----------------------------------------------------------------------------
(* The consumer loop, PersistenceWorker.Run *)

Running == phase # "down"
Cancelled == phase \in {"stopping", "closed"}

\* FetchMessage, then CommitMessages at once.  With CommitInterval set the
\* offset is only queued; once ctx is cancelled either call may still go
\* through, and a failed CommitMessages is only logged.
Fetch ==
  /\ Running /\ loop = "fetch" /\ fetchPos < Len(log)
  /\ fetchPos' = fetchPos + 1
  /\ \/ queued' = fetchPos + 1
     \/ Cancelled /\ UNCHANGED queued
  /\ loop' = "add"
  /\ LET e == log[fetchPos + 1]
     IN  consumed' = [consumed EXCEPT ![e.req] = @ \o e.delta]
  /\ UNCHANGED <<kafka, useCase, flushes, db, process, clean, rewound>>

\* The event Run has fetched and not yet passed to AddToken.
InHand == log[fetchPos]

\* AddToken, under uc.mu.
AddToken ==
  /\ Running /\ loop = "add"
  /\ keys' = keys \cup {InHand.req}
  /\ buffers' = [buffers EXCEPT ![InHand.req] = @ \o InHand.delta]
  /\ count' = count + 1
  /\ loop' = "check"
  /\ UNCHANGED <<kafka, fetchPos, queued, flushes, db, process, history>>

ShouldFlush ==
  /\ Running /\ loop = "check"
  /\ loop' = IF count >= Threshold THEN "cas" ELSE "fetch"
  /\ UNCHANGED <<kafka, fetchPos, queued, useCase, flushes, db, process, history>>

\* Mutant: takes the flag without looking at it.
BugAcquireIgnored(f) ==
  /\ flushing' = TRUE
  /\ fpc[f] = "idle"
  /\ fpc' = [fpc EXCEPT ![f] = "snapshot"]

\* flushing.CompareAndSwap(false, true) by flush f
Acquire(f) ==
  /\ ~flushing
  /\ flushing' = TRUE
  /\ fpc[f] = "idle"
  /\ fpc' = [fpc EXCEPT ![f] = "snapshot"]

\* The second half of the condition in Run: the threshold was seen reached;
\* spawn a flush unless one is marked as running.
TryThresholdFlush ==
  /\ Running /\ loop = "cas"
  /\ loop' = "fetch"
  /\ \/ Acquire(ThresholdFlush)
     \/ flushing /\ UNCHANGED <<flushing, fpc>>
  /\ UNCHANGED <<kafka, fetchPos, queued, useCase, final, snapKeys, snap,
                 existing, db, process, history>>

\* FetchMessage reports the cancelled ctx; Run returns and its deferred
\* reader.Close sends the queued offset, if the broker still answers.
LoopExit ==
  /\ Cancelled /\ loop = "fetch"
  /\ loop' = "stopped"
  /\ committed' \in {committed, queued}
  /\ UNCHANGED <<log, emitted, fetchPos, queued, useCase, flushes, db,
                 process, history>>

\* Every CommitInterval the reader sends the queued offset.
CommitTick ==
  /\ Running /\ loop # "stopped" /\ committed # queued
  /\ committed' = queued
  /\ UNCHANGED <<log, emitted, reader, useCase, flushes, db, process, history>>

-----------------------------------------------------------------------------
(* The flushes: PersistSessionUseCase.Flush under w.flush.  Each action    *)
(* from ReadExisting on is the effect of one database call together with   *)
(* the start of the next: a call that was started may still succeed after  *)
(* ctx is cancelled, one that was not fails at once.                       *)

\* runFlusher, case <-ticker.C (which select may pick after ctx.Done too)
Tick ==
  /\ Running /\ Acquire(TickerFlush)
  /\ UNCHANGED <<kafka, reader, useCase, final, snapKeys, snap, existing, db,
                 process, history>>

\* runFlusher, case <-ctx.Done(): flush(context.Background()), whatever
\* flushing says.
FinalFlush ==
  /\ Cancelled /\ fpc[TickerFlush] = "idle"
  /\ final' = TRUE
  /\ fpc' = [fpc EXCEPT ![TickerFlush] = "snapshot"]
  /\ UNCHANGED <<kafka, reader, useCase, flushing, snapKeys, snap, existing,
                 db, process, history>>

IsFinal(f) == final /\ f = TickerFlush

\* Mutant: ctx is not passed to the database calls.
BugCanQuery(f) == phase # "closed"

\* May flush f start a database call?  Not once its ctx is cancelled (the
\* last flush runs under context.Background) nor once sqlDB.Close was called.
CanQuery(f) == phase = "up" \/ (IsFinal(f) /\ phase = "stopping")

EndFlush(f) ==
  /\ snapKeys' = [snapKeys EXCEPT ![f] = {}]
  /\ snap' = [snap EXCEPT ![f] = NoContent]
  /\ existing' = [existing EXCEPT ![f] = NoContent]
  /\ fpc' = [fpc EXCEPT ![f] = "release"]

\* The locked part of Flush, up to the start of GetContentByRequestIDs: take
\* a snapshot and clear the buffers, or return when there is nothing.
Snapshot(f) ==
  /\ fpc[f] = "snapshot"
  /\ \/ keys = {} /\ EndFlush(f) /\ UNCHANGED useCase
     \/ /\ keys # {}
        /\ keys' = {} /\ buffers' = NoContent /\ count' = 0
        /\ IF CanQuery(f)
           THEN /\ snapKeys' = [snapKeys EXCEPT ![f] = keys]
                /\ snap' = [snap EXCEPT ![f] = buffers]
                /\ fpc' = [fpc EXCEPT ![f] = "read"]
                /\ UNCHANGED existing
           ELSE EndFlush(f)
  /\ UNCHANGED <<kafka, reader, flushing, final, db, process, history>>

\* GetContentByRequestIDs
ReadExisting(f) ==
  /\ fpc[f] = "read"
  /\ IF CanQuery(f)
     THEN /\ existing' = [existing EXCEPT ![f] =
                  [r \in Requests |-> IF r \in snapKeys[f] THEN messages[r] ELSE << >>]]
          /\ fpc' = [fpc EXCEPT ![f] = "sessions"]
          /\ UNCHANGED <<snapKeys, snap>>
     ELSE EndFlush(f)
  /\ UNCHANGED <<kafka, reader, useCase, flushing, final, db, process, history>>

\* Mutant: the insert into sessions is left out.
BugInsertSessions(f) ==
  /\ fpc[f] = "sessions"
  /\ fpc' = [fpc EXCEPT ![f] = "upsert"]
  /\ UNCHANGED <<kafka, reader, useCase, flushing, final, snapKeys, snap, existing,
                 db, process, history>>

\* BulkUpsertMessages, the insert into sessions (ON CONFLICT DO NOTHING)
InsertSessions(f) ==
  /\ fpc[f] = "sessions"
  /\ sessions' = sessions \cup {SessionOf[r] : r \in snapKeys[f]}
  /\ IF CanQuery(f)
     THEN fpc' = [fpc EXCEPT ![f] = "upsert"] /\ UNCHANGED <<snapKeys, snap, existing>>
     ELSE EndFlush(f)
  /\ UNCHANGED <<kafka, reader, useCase, flushing, final, rows, messages, process, history>>

\* Mutant: the stored content is not prepended.
BugMerged(f, r) == snap[f][r]

\* The content Flush writes for request r: existing[requestID] + buf.content.
Merged(f, r) == existing[f][r] \o snap[f][r]

\* BulkUpsertMessages, the upsert of both rows of every request in one
\* statement (ON CONFLICT DO UPDATE SET content).
UpsertMessages(f) ==
  /\ fpc[f] = "upsert"
  /\ rows' = rows \cup snapKeys[f]
  /\ messages' = [r \in Requests |->
                    IF r \in snapKeys[f] THEN Merged(f, r) ELSE messages[r]]
  /\ EndFlush(f)
  /\ UNCHANGED <<kafka, reader, useCase, flushing, final, sessions, process, history>>

\* A database call fails: the database reports an error, or the cancelled
\* ctx aborts the call.  Flush returns the error; w.flush logs it.
QueryFails(f) ==
  /\ fpc[f] \in Querying
  /\ \/ /\ dbErrors < MaxDbErrors
        /\ dbErrors' = dbErrors + 1
        /\ clean' = FALSE
     \/ /\ ~CanQuery(f)
        /\ UNCHANGED <<dbErrors, clean>>
  /\ EndFlush(f)
  /\ UNCHANGED <<kafka, reader, useCase, flushing, final, db, phase, crashes, stops,
                 consumed, rewound>>

\* Mutant: flushing is not reset.
BugRelease(f) ==
  /\ fpc[f] = "release"
  /\ fpc' = [fpc EXCEPT ![f] = IF IsFinal(f) THEN "stopped" ELSE "idle"]
  /\ UNCHANGED <<kafka, reader, useCase, flushing, final, snapKeys, snap, existing, db,
                 process, history>>

\* flush has returned: flushing.Store(false), or runFlusher returns.
Release(f) ==
  /\ fpc[f] = "release"
  /\ fpc' = [fpc EXCEPT ![f] = IF IsFinal(f) THEN "stopped" ELSE "idle"]
  /\ flushing' = IF IsFinal(f) THEN flushing ELSE FALSE
  /\ UNCHANGED <<kafka, reader, useCase, final, snapKeys, snap, existing, db,
                 process, history>>

FlushStep(f) ==
  \/ Snapshot(f) \/ ReadExisting(f) \/ InsertSessions(f) \/ UpsertMessages(f)
  \/ Release(f)

-----------------------------------------------------------------------------
(* The process: fx stops it by OnStop hooks in reverse order, cancel() then*)
(* sqlDB.Close(), waiting for neither goroutine, and exits.                *)

\* What a process that dies takes with it.  fetchPos stays until the
\* restart as the record of how far the dead process had read.
LoseMemory ==
  /\ phase' = "down"
  /\ loop' = "fetch"
  /\ keys' = {} /\ buffers' = NoContent /\ count' = 0
  /\ flushing' = FALSE /\ final' = FALSE
  /\ fpc' = [f \in Flushers |-> "idle"]
  /\ snapKeys' = [f \in Flushers |-> {}]
  /\ snap' = [f \in Flushers |-> NoContent]
  /\ existing' = [f \in Flushers |-> NoContent]
  /\ UNCHANGED <<kafka, fetchPos, queued, db, dbErrors, consumed, rewound>>

Stop ==
  /\ phase = "up" /\ stops < MaxStops
  /\ phase' = "stopping" /\ stops' = stops + 1
  /\ clean' = FALSE
  /\ UNCHANGED <<kafka, reader, useCase, flushes, db, crashes, dbErrors, consumed, rewound>>

CloseDB ==
  /\ phase = "stopping"
  /\ phase' = "closed"
  /\ UNCHANGED <<kafka, reader, useCase, flushes, db, crashes, stops, dbErrors, history>>

Exit ==
  /\ phase = "closed"
  /\ LoseMemory
  /\ UNCHANGED <<crashes, stops, clean>>

Crash ==
  /\ Running /\ crashes < MaxCrashes
  /\ crashes' = crashes + 1
  /\ clean' = FALSE
  /\ LoseMemory
  /\ UNCHANGED stops

\* Mutant: an offset committed is taken for the last one handled, one too far.
BugRestart ==
  /\ phase = "down"
  /\ phase' = "up"
  /\ fetchPos' = committed + 1 /\ queued' = committed
  /\ rewound' = (rewound \/ committed < fetchPos)
  /\ UNCHANGED <<kafka, loop, useCase, flushes, db, crashes, stops, dbErrors,
                 consumed, clean>>

\* The container is started again and the group resumes at the committed
\* offset.
Restart ==
  /\ phase = "down"
  /\ phase' = "up"
  /\ fetchPos' = committed /\ queued' = committed
  /\ rewound' = (rewound \/ committed < fetchPos)
  /\ UNCHANGED <<kafka, loop, useCase, flushes, db, crashes, stops, dbErrors,
                 consumed, clean>>

-----------------------------------------------------------------------------
LoopStep == Fetch \/ AddToken \/ ShouldFlush \/ TryThresholdFlush

Next ==
  \/ \E r \in Requests : PublishToken(r)
  \/ Fetch \/ AddToken \/ ShouldFlush \/ TryThresholdFlush \/ LoopExit
  \/ CommitTick
  \/ Tick \/ FinalFlush
  \/ \E f \in Flushers : Snapshot(f)
  \/ \E f \in Flushers : ReadExisting(f)
  \/ \E f \in Flushers : InsertSessions(f)
  \/ \E f \in Flushers : UpsertMessages(f)
  \/ \E f \in Flushers : QueryFails(f)
  \/ \E f \in Flushers : Release(f)
  \/ Stop \/ CloseDB \/ Exit \/ Crash \/ Restart

Spec == Init /\ [][Next]_vars

\* The Go scheduler runs every goroutine that can move and the ticker keeps
\* firing; nothing is assumed of the producer, of the commit interval or of
\* the faults.
Fairness ==
  /\ WF_vars(LoopStep)
  /\ WF_vars(Tick)
  /\ \A f \in Flushers : WF_vars(FlushStep(f))

FairSpec == Spec /\ Fairness

-----------------------------------------------------------------------------
(* Properties *)

\* Every variable holds a value of its kind, and no offset is ahead of the
\* one it is taken from: the broker's, the reader's, the log's.
TypeOK ==
  /\ log \in Seq(TokenEvent) /\ emitted \in [Requests -> Nat]
  /\ fetchPos \in 0 .. Len(log) /\ queued \in 0 .. fetchPos /\ committed \in 0 .. queued
  /\ loop \in {"fetch", "add", "check", "cas", "stopped"}
  /\ keys \in SUBSET Requests /\ buffers \in [Requests -> Content] /\ count \in Nat
  /\ flushing \in BOOLEAN /\ final \in BOOLEAN
  /\ fpc \in [Flushers -> {"idle", "stopped"} \cup Active]
  /\ snapKeys \in [Flushers -> SUBSET Requests]
  /\ snap \in [Flushers -> [Requests -> Content]]
  /\ existing \in [Flushers -> [Requests -> Content]]
  /\ sessions \in SUBSET Sessions /\ rows \in SUBSET Requests
  /\ messages \in [Requests -> Content]
  /\ phase \in {"up", "stopping", "closed", "down"}
  /\ crashes \in Nat /\ stops \in Nat /\ dbErrors \in Nat
  /\ consumed \in [Requests -> Content] /\ clean \in BOOLEAN /\ rewound \in BOOLEAN

\* While the service is up at most one flush is under way, whatever way the
\* threshold and the ticker race for w.flushing.
OneFlushAtATime ==
  phase = "up" => \A f, g \in Flushers : fpc[f] \in Active /\ fpc[g] \in Active => f = g

\* What Run holds of request r between Fetch and AddToken.
HandOf(r) == IF loop = "add" /\ InHand.req = r THEN InHand.delta ELSE << >>

\* As long as nothing failed and nobody stopped the service, the text fetched
\* for a request is, in order and without a gap or a repetition, the text in
\* the database, then the snapshot being flushed, then the buffer, then the
\* token in Run's hands: tokens added while a flush is under way are neither
\* lost by clearing the buffers nor overwritten by the upsert.
NothingLostOrRepeated ==
  clean => \A r \in Requests :
    ((messages[r] \o (snap[ThresholdFlush][r] \o snap[TickerFlush][r]))
        \o buffers[r]) \o HandOf(r) = consumed[r]

StrictlyIncreasing(s) == \A i, j \in DOMAIN s : i < j => s[i] < s[j]

\* Unless a restart reads events again, stored text never has tokens out of
\* order or twice, whatever database call fails and even though the flush at
\* shutdown does not wait for the flush under way: tokens may be missing, but
\* a flush that was overtaken cannot append behind the one that overtook it.
NeverReordered == ~rewound => \A r \in Requests : StrictlyIncreasing(messages[r])

\* Every message row has its session row, at every point where the process
\* may die between the two statements of BulkUpsertMessages: the foreign key
\* of messages never makes an upsert fail.
RowsHaveSession == \A r \in rows : SessionOf[r] \in sessions

\* If nothing ever fails, the text of a request is in the database, whole, some
\* time after its last token was published, even when no further event comes to
\* trigger a flush and every trigger so far found a flush marked as running.
EventuallyStored ==
  \A r \in Requests :
    (emitted[r] >= NumTokens) ~> (~clean \/ messages[r] = [i \in 1 .. NumTokens |-> i])

\* Stored text of r is a first part of what this step leaves.
KeepsText(r) ==
  /\ Len(messages[r]) <= Len(messages'[r])
  /\ \A i \in DOMAIN messages[r] : messages'[r][i] = messages[r][i]

\* While the service runs a flush only ever adds to the text stored before it,
\* though it read that text before other goroutines moved and writes the row
\* anew: no text once stored is taken back, after replays and failed calls too.
StoredTextGrows == [][phase = "up" => \A r \in Requests : KeepsText(r)]_vars

-----------------------------------------------------------------------------
(* What the documentation says of the service and the code does not do     *)

\* README: "Idempotent on Kafka replay".  Then no token would be in the
\* stored text twice.  Flush appends the replayed tokens to the stored text.
ReplayIsIdempotent ==
  \A r \in Requests : \A i, j \in DOMAIN messages[r] :
    messages[r][i] = messages[r][j] => i = j

\* The comment on Flush: "... upsert -> clear buffer".  Then a database call
\* that fails would leave the text in the buffer, for the next flush.  Flush
\* clears the buffers first, and an error drops the snapshot.
FailedFlushKeepsText ==
  crashes = 0 /\ stops = 0 => \A r \in Requests :
    ((messages[r] \o (snap[ThresholdFlush][r] \o snap[TickerFlush][r]))
        \o buffers[r]) \o HandOf(r) = consumed[r]

\* "prevent concurrent flushes" and, in the README, the upsert is "overwriting
\* with same or more complete content".  The flush at shutdown does not look at
\* flushing: it reads, the upsert of the flush under way lands, and then it
\* writes the row without that text.
UpsertKeepsText == [][\A r \in Requests : KeepsText(r)]_vars
=============================================================================
