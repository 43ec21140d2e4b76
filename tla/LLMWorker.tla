------------------------------ MODULE LLMWorker ------------------------------
(***************************************************************************)
(* The LLM worker: the consumer loop of chat.requests with its semaphore,  *)
(* ProcessChatRequestUseCase.Execute for each request, and the two         *)
(* asynchronous Kafka writers of EventPublisherImpl, which hold events in  *)
(* memory until they send them.                                            *)
(*                                                                         *)
(* A request id is published once, so in one life of the process at most   *)
(* one goroutine has it.  The generator picks an answer at random: each    *)
(* attempt at a request has an answer of its own, named by its number.     *)
(***************************************************************************)
EXTENDS Naturals, Sequences, FiniteSets, Selection

CONSTANTS
  Requests,       \* request ids
  Concurrency,    \* capacity of the semaphore
  NumTokens,      \* tokens of an answer; event NumTokens + 1 is Done
  MaxFaults       \* bound: crashes, stops, failed calls and lost batches

ASSUME WorkerAssumption ==
  /\ Concurrency \in Nat \ {0} /\ NumTokens \in Nat
  /\ MaxFaults \in Nat

VARIABLES
  requests,       \* topic chat.requests, one partition
  committed, pos, \* committed offset of group llm-worker, requests fetched
  loop,           \* where Run is: requests[pos] is in hand at "acquire"
  sem,            \* slots of the semaphore taken
  tpc, cur,       \* each request: where Execute is, the event it publishes
  attempt,        \* history: how often Execute was called for each request
  streamQ, persistQ,          \* what the two writers hold
  streamTopic, persistTopic,  \* stream-llm-fe and persistence-llm
  phase,          \* up, stopping (ctx cancelled), down
  crashes, stops, errors,
  rewound         \* history: some restart read requests again

reader  == <<committed, pos, loop>>
tasks   == <<sem, tpc, cur, attempt>>
writers == <<streamQ, persistQ>>
topics  == <<streamTopic, persistTopic>>
process == <<phase, crashes, stops>>
vars    == <<requests, reader, tasks, writers, topics, process, errors, rewound>>

-----------------------------------------------------------------------------
Done    == NumTokens + 1
Event   == [req : Requests, att : Nat, n : 1 .. Done]
Running == phase # "down"
Cancelled == phase = "stopping"
Busy    == {"recv", "stream", "persist"}

Init ==
  /\ requests = << >> /\ committed = 0 /\ pos = 0 /\ loop = "fetch"
  /\ sem = 0 /\ tpc = [r \in Requests |-> "none"]
  /\ cur = [r \in Requests |-> 0] /\ attempt = [r \in Requests |-> 0]
  /\ streamQ = << >> /\ persistQ = << >>
  /\ streamTopic = << >> /\ persistTopic = << >>
  /\ phase = "up" /\ crashes = 0 /\ stops = 0 /\ errors = 0 /\ rewound = FALSE

Faults == crashes + stops + errors

\* A call or a batch fails.
Failure == Faults < MaxFaults /\ errors' = errors + 1
NoFailure == UNCHANGED errors

-----------------------------------------------------------------------------
(* Worker.Run *)

\* The API publishes a request under a new id.
PublishRequest(r) ==
  /\ \A i \in DOMAIN requests : requests[i] # r
  /\ requests' = Append(requests, r)
  /\ UNCHANGED <<reader, tasks, writers, topics, process, errors, rewound>>

\* FetchMessage and CommitMessages; the offset is sent later (CommitTick).
Fetch ==
  /\ Running /\ loop = "fetch" /\ pos < Len(requests)
  /\ pos' = pos + 1 /\ loop' = "acquire"
  /\ UNCHANGED <<requests, committed, tasks, writers, topics, process, errors, rewound>>

\* sem <- struct{}{}, which does not look at ctx, and the new goroutine.
Acquire ==
  /\ Running /\ loop = "acquire" /\ sem < Concurrency
  /\ sem' = sem + 1 /\ loop' = "fetch"
  /\ LET r == requests[pos]
     IN  /\ tpc' = [tpc EXCEPT ![r] = "recv"]
         /\ cur' = [cur EXCEPT ![r] = 0]
         /\ attempt' = [attempt EXCEPT ![r] = @ + 1]
  /\ UNCHANGED <<requests, committed, pos, writers, topics, process, errors, rewound>>

\* FetchMessage reports the cancelled ctx; reader.Close commits what
\* CommitMessages, which may have failed by then, has queued.
LoopExit ==
  /\ Cancelled /\ loop = "fetch"
  /\ loop' = "stopped" /\ committed' \in committed .. pos
  /\ UNCHANGED <<requests, pos, tasks, writers, topics, process, errors, rewound>>

\* Every CommitInterval the reader sends the offset queued.
CommitTick ==
  /\ Running /\ loop # "stopped" /\ committed < pos
  /\ \/ committed' = pos
     \/ Cancelled /\ committed' \in committed .. pos
  /\ UNCHANGED <<requests, pos, loop, tasks, writers, topics, process, errors, rewound>>

-----------------------------------------------------------------------------
(* ProcessChatRequestUseCase.Execute *)

\* Mutant: the slot of the semaphore is not given back.
BugFinish(r) == tpc' = [tpc EXCEPT ![r] = "none"] /\ UNCHANGED sem

\* Execute has returned: <-sem.
Finish(r) == tpc' = [tpc EXCEPT ![r] = "none"] /\ sem' = sem - 1

\* Mutant: the loop over the tokens ends one early.
BugNextToken(r) == IF cur[r] + 1 < NumTokens THEN cur[r] + 1 ELSE Done

\* What the loop over tokenCh sees after event cur[r]: the next token, or a
\* channel closed after the last one, and then Done is published.
NextToken(r) == cur[r] + 1

\* Generate's goroutine sends a token, or closes the channel: after the last
\* token, or early when ctx is cancelled.  Execute cannot tell the two.
Receive(r) ==
  /\ tpc[r] = "recv"
  /\ \/ cur' = [cur EXCEPT ![r] = NextToken(r)]
     \/ Cancelled /\ cur' = [cur EXCEPT ![r] = Done]
  /\ tpc' = [tpc EXCEPT ![r] = "stream"]
  /\ UNCHANGED <<requests, reader, sem, attempt, writers, topics, process, errors, rewound>>

Current(r) == [req |-> r, att |-> attempt[r], n |-> cur[r]]

\* WriteMessages reports an error: the brokers are out of reach, or ctx is
\* cancelled and the call notices.
WriteFails == (Cancelled /\ NoFailure) \/ Failure

\* PublishToken, the write to stream-llm-fe.  An error ends Execute.
WriteStream(r) ==
  /\ tpc[r] = "stream"
  /\ \/ /\ streamQ' = Append(streamQ, Current(r))
        /\ tpc' = [tpc EXCEPT ![r] = "persist"]
        /\ UNCHANGED sem /\ NoFailure
     \/ Finish(r) /\ UNCHANGED streamQ /\ WriteFails
  /\ UNCHANGED <<requests, reader, cur, attempt, persistQ, topics, process, rewound>>

\* Mutant: Done is published on stream-llm-fe only.
BugWritePersist(r) ==
  /\ tpc[r] = "persist"
  /\ IF cur[r] = Done
     THEN Finish(r) /\ UNCHANGED persistQ
     ELSE /\ persistQ' = Append(persistQ, Current(r))
          /\ tpc' = [tpc EXCEPT ![r] = "recv"] /\ UNCHANGED sem
  /\ NoFailure
  /\ UNCHANGED <<requests, reader, cur, attempt, streamQ, topics, process, rewound>>

\* PublishToken, the write to persistence-llm.  An error ends Execute, after
\* the same event went to stream-llm-fe; Done ends it too.
WritePersist(r) ==
  /\ tpc[r] = "persist"
  /\ \/ /\ persistQ' = Append(persistQ, Current(r)) /\ NoFailure
        /\ IF cur[r] = Done
           THEN Finish(r)
           ELSE tpc' = [tpc EXCEPT ![r] = "recv"] /\ UNCHANGED sem
     \/ Finish(r) /\ UNCHANGED persistQ /\ WriteFails
  /\ UNCHANGED <<requests, reader, cur, attempt, streamQ, topics, process, rewound>>

-----------------------------------------------------------------------------
(* The writers send batches in order; one that fails for good is dropped.  *)

\* streamWriter, BatchSize 1
SendStream ==
  /\ Running /\ streamQ # << >>
  /\ streamQ' = Tail(streamQ)
  /\ \/ streamTopic' = Append(streamTopic, Head(streamQ)) /\ NoFailure
     \/ UNCHANGED streamTopic /\ Failure
  /\ UNCHANGED <<requests, reader, tasks, persistQ, persistTopic, process, rewound>>

\* persistWriter: a batch is what came in within BatchTimeout.
SendPersist ==
  /\ Running
  /\ \E k \in 1 .. Len(persistQ) :
       /\ persistQ' = SubSeq(persistQ, k + 1, Len(persistQ))
       /\ \/ persistTopic' = persistTopic \o SubSeq(persistQ, 1, k) /\ NoFailure
          \/ UNCHANGED persistTopic /\ Failure
  /\ UNCHANGED <<requests, reader, tasks, streamQ, streamTopic, process, rewound>>

-----------------------------------------------------------------------------
(* The process.  OnStop only cancels ctx: nobody waits for Execute, and     *)
(* nobody closes the publisher, so what the writers hold is lost.           *)

LoseMemory ==
  /\ phase' = "down" /\ loop' = "fetch"
  /\ sem' = 0 /\ tpc' = [r \in Requests |-> "none"] /\ cur' = [r \in Requests |-> 0]
  /\ streamQ' = << >> /\ persistQ' = << >>
  /\ UNCHANGED <<requests, committed, pos, attempt, topics, errors, rewound>>

Stop ==
  /\ phase = "up" /\ Faults < MaxFaults
  /\ phase' = "stopping" /\ stops' = stops + 1
  /\ UNCHANGED <<requests, reader, tasks, writers, topics, crashes, errors, rewound>>

Exit == Cancelled /\ LoseMemory /\ UNCHANGED <<crashes, stops>>

Crash ==
  /\ Running /\ Faults < MaxFaults
  /\ crashes' = crashes + 1
  /\ LoseMemory
  /\ UNCHANGED stops

\* Mutant: the group starts at the first request again, whatever was committed.
BugRestart ==
  /\ phase = "down" /\ phase' = "up"
  /\ pos' = 0
  /\ rewound' = (rewound \/ committed < pos)
  /\ UNCHANGED <<requests, committed, loop, tasks, writers, topics, crashes, stops, errors>>

\* The group resumes at the committed offset.
Restart ==
  /\ phase = "down" /\ phase' = "up"
  /\ pos' = committed
  /\ rewound' = (rewound \/ committed < pos)
  /\ UNCHANGED <<requests, committed, loop, tasks, writers, topics, crashes, stops, errors>>

-----------------------------------------------------------------------------
LoopStep == Fetch \/ Acquire
TaskStep(r) == Receive(r) \/ WriteStream(r) \/ WritePersist(r)

Next ==
  \/ \E r \in Requests : PublishRequest(r)
  \/ Fetch \/ Acquire \/ LoopExit \/ CommitTick
  \/ \E r \in Requests : Receive(r)
  \/ \E r \in Requests : WriteStream(r)
  \/ \E r \in Requests : WritePersist(r)
  \/ SendStream \/ SendPersist
  \/ Stop \/ Exit \/ Crash \/ Restart

Spec == Init /\ [][Next]_vars

\* Goroutines that can move do, and the writers send what they hold.
Fairness ==
  /\ WF_vars(LoopStep) /\ WF_vars(SendStream) /\ WF_vars(SendPersist)
  /\ \A r \in Requests : WF_vars(TaskStep(r))

FairSpec == Spec /\ Fairness

-----------------------------------------------------------------------------
(* Properties *)

\* Every variable holds a value of its kind; the semaphore is within its
\* capacity and no offset is ahead of the one it is taken from.
TypeOK ==
  /\ requests \in Seq(Requests)
  /\ pos \in 0 .. Len(requests) /\ committed \in 0 .. pos
  /\ loop \in {"fetch", "acquire", "stopped"}
  /\ sem \in 0 .. Concurrency
  /\ tpc \in [Requests -> {"none"} \cup Busy]
  /\ cur \in [Requests -> 0 .. Done] /\ attempt \in [Requests -> Nat]
  /\ streamQ \in Seq(Event) /\ persistQ \in Seq(Event)
  /\ streamTopic \in Seq(Event) /\ persistTopic \in Seq(Event)
  /\ phase \in {"up", "stopping", "down"}
  /\ crashes \in Nat /\ stops \in Nat /\ errors \in Nat /\ rewound \in BOOLEAN

Of(s, r) == Selected(s, {e \in Event : e.req = r})
HasDone(s, r) == \E i \in DOMAIN s : s[i].req = r /\ s[i].n = Done

\* The two topics carry the same answer: unless a call or a batch has failed
\* or the process was stopped or killed, what a topic has of a request and
\* what its writer holds is the same for both, but for the one event between
\* the two writes of PublishToken.
TopicsAgree ==
  Faults = 0 => \A r \in Requests :
    LET s == Of(streamTopic \o streamQ, r)
        p == Of(persistTopic \o persistQ, r)
    IN  s = IF tpc[r] = "persist" THEN Append(p, Current(r)) ELSE p

\* A Done in a topic says that the whole answer is in it, before Done, unless
\* batches were lost or ctx was cancelled: a crash never makes a truncated
\* answer look complete, nor does a replay after it.
DoneMeansComplete ==
  errors = 0 /\ stops = 0 => \A t \in {streamTopic, persistTopic} :
    \A i \in DOMAIN t : t[i].n = Done => \A n \in 1 .. NumTokens :
      \E j \in 1 .. i - 1 : t[j] = [t[i] EXCEPT !.n = n]

\* A request has events of one answer only, unless a restart has read its
\* request again: committed requests are never processed twice.
OneAnswer ==
  ~rewound => \A t \in {streamTopic, persistTopic} : \A i, j \in DOMAIN t :
    t[i].req = t[j].req => t[i].att = t[j].att /\ (i < j => t[i].n < t[j].n)

\* A request that was published is answered on both topics, however many
\* wait for the semaphore, unless something fails.
RequestsAnswered ==
  \A r \in Requests : (\E i \in DOMAIN requests : requests[i] = r) ~>
    (Faults > 0 \/ (HasDone(streamTopic, r) /\ HasDone(persistTopic, r)))

-----------------------------------------------------------------------------
(* What the documentation says and the code does not do *)

\* README, on a crash of the worker: the tokens generated are "already in
\* persistence-llm Kafka -> safe", and what a refresh shows is "consistent
\* with what they saw".  The writer for persistence-llm holds events for up to
\* 100 ms after the same events were sent to stream-llm-fe.
ShownIsSafe ==
  phase = "down" /\ errors = 0 /\ stops = 0 =>
    \A i \in DOMAIN streamTopic : \E j \in DOMAIN persistTopic :
      persistTopic[j] = streamTopic[i]
=============================================================================
