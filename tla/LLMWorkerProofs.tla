---------------------------- MODULE LLMWorkerProofs ----------------------------
(***************************************************************************)
(* Proofs about LLMWorker, for any set of requests, any capacity of the    *)
(* semaphore and any number of tokens and faults.                          *)
(***************************************************************************)
EXTENDS LLMWorker, SequenceLemmas, FiniteSetTheorems, TLAPS

-----------------------------------------------------------------------------
(* Types and the semaphore *)

ReaderTypes ==
  /\ requests \in Seq(Requests)
  /\ pos \in 0 .. Len(requests) /\ committed \in 0 .. pos
  /\ loop \in {"fetch", "acquire", "stopped"}
TaskTypes ==
  /\ tpc \in [Requests -> {"none"} \cup Busy]
  /\ cur \in [Requests -> 0 .. Done] /\ attempt \in [Requests -> Nat]
WriterTypes ==
  /\ streamQ \in Seq(Event) /\ persistQ \in Seq(Event)
  /\ streamTopic \in Seq(Event) /\ persistTopic \in Seq(Event)
ProcessTypes ==
  /\ phase \in {"up", "stopping", "down"}
  /\ crashes \in Nat /\ stops \in Nat /\ errors \in Nat /\ rewound \in BOOLEAN

\* The requests taken from the topic and handed to a goroutine, or lost with
\* the process.
Handled == IF loop = "acquire" THEN pos - 1 ELSE pos

\* A request is in the topic once, so at most one goroutine has it.
PublishedOnce == \A i, j \in DOMAIN requests : requests[i] = requests[j] => i = j
BusyFetched ==
  /\ loop = "acquire" => pos # 0
  /\ \A r \in Requests : tpc[r] # "none" => \E i \in 1 .. Handled : requests[i] = r

\* Each goroutine has its slot of the semaphore.
BusySet == {r \in Requests : tpc[r] # "none"}
SlotPerTask == IsFiniteSet(BusySet) /\ sem = Cardinality(BusySet) /\ sem <= Concurrency

\* Where Execute is, and the event it has.
TaskEvent ==
  /\ \A r \in Requests : tpc[r] = "recv" => cur[r] # Done
  /\ \A r \in Requests : tpc[r] \in {"stream", "persist"} => cur[r] # 0
  /\ \A r \in Requests : tpc[r] # "none" => attempt[r] # 0

\* A process that is down does nothing, and was stopped or killed.
DownIdle ==
  /\ phase = "down" => loop = "fetch" /\ \A r \in Requests : tpc[r] = "none"
  /\ phase = "stopping" => stops # 0

TypeInv ==
  /\ ReaderTypes /\ TaskTypes /\ WriterTypes /\ ProcessTypes
  /\ PublishedOnce /\ BusyFetched /\ SlotPerTask /\ TaskEvent /\ DownIdle

\* The constants.
LEMMA Constants == Concurrency \in Nat \ {0} /\ NumTokens \in Nat /\ Done \in Nat \ {0} /\ Done = NumTokens + 1
BY WorkerAssumption DEF Done

\* TypeInv is stronger than TypeOK.
LEMMA TypeInvTypes == TypeInv => TypeOK
<1>1. SlotPerTask => sem \in 0 .. Concurrency
  BY Constants, FS_CardinalityType DEF SlotPerTask
<1> QED  BY <1>1 DEF TypeInv, TypeOK, ReaderTypes, TaskTypes, WriterTypes, ProcessTypes

\* Init establishes TypeInv.
LEMMA TypeInit == Init => TypeInv
<1> SUFFICES ASSUME Init PROVE TypeInv
  OBVIOUS
<1>1. << >> \in Seq(Requests) /\ << >> \in Seq(Event) /\ Len(<< >>) = 0 /\ DOMAIN << >> = {}
  OBVIOUS
<1>2. ReaderTypes /\ WriterTypes /\ ProcessTypes
  <2>1. requests \in Seq(Requests) /\ Len(requests) = 0 /\ pos = 0 /\ committed = 0 /\ loop = "fetch"
    BY <1>1, Zenon DEF Init
  <2>2. ReaderTypes
    BY <2>1 DEF ReaderTypes
  <2>3. WriterTypes
    BY <1>1, Zenon DEF Init, WriterTypes
  <2>4. ProcessTypes
    BY DEF Init, ProcessTypes
  <2> QED  BY <2>2, <2>3, <2>4
<1>3. TaskTypes /\ TaskEvent /\ DownIdle
  BY Constants DEF Init, TaskTypes, TaskEvent, DownIdle
<1>4. PublishedOnce /\ BusyFetched
  BY <1>1 DEF Init, PublishedOnce, BusyFetched
<1>5. SlotPerTask
  <2>1. BusySet = {}
    BY DEF Init, BusySet
  <2> QED  BY <2>1, FS_EmptySet, Constants DEF Init, SlotPerTask
<1> QED  BY <1>2, <1>3, <1>4, <1>5 DEF TypeInv

\* A request that is published, and one that is fetched.
LEMMA TypeReader ==
  ASSUME TypeInv, (\E r \in Requests : PublishRequest(r)) \/ Fetch \/ LoopExit \/ CommitTick
  PROVE  TypeInv'
<1> USE DEF reader, tasks, writers, topics, process
<1>0. /\ requests \in Seq(Requests) /\ Len(requests) \in Nat /\ pos \in 0 .. Len(requests) /\ committed \in 0 .. pos
      /\ loop \in {"fetch", "acquire", "stopped"} /\ DOMAIN requests = 1 .. Len(requests)
  BY LenProperties DEF TypeInv, ReaderTypes
<1>1. UNCHANGED <<tasks, writers, topics, process, errors, rewound>>
  BY DEF PublishRequest, Fetch, LoopExit, CommitTick
<1>2. TaskTypes' /\ WriterTypes' /\ ProcessTypes' /\ SlotPerTask' /\ TaskEvent'
  BY <1>1 DEF TypeInv, TaskTypes, WriterTypes, ProcessTypes, SlotPerTask, BusySet, TaskEvent
<1>3. ASSUME NEW r \in Requests, PublishRequest(r)
      PROVE  ReaderTypes' /\ PublishedOnce' /\ BusyFetched' /\ DownIdle'
  <2>1. /\ requests' \in Seq(Requests) /\ DOMAIN requests' = 1 .. Len(requests) + 1 /\ Len(requests') = Len(requests) + 1
        /\ \A i \in 1 .. Len(requests) + 1 : requests'[i] = IF i = Len(requests) + 1 THEN r ELSE requests[i]
    BY <1>0, <1>3, AppendAt, AppendProperties DEF PublishRequest
  <2>2. \A i \in 1 .. Len(requests) : requests'[i] = requests[i] /\ requests[i] # r
    BY <1>0, <1>3, <2>1 DEF PublishRequest
  <2>3. UNCHANGED <<pos, committed, loop, tpc, phase, stops>>
    BY <1>1, <1>3 DEF PublishRequest
  <2>4. ReaderTypes'
    BY <1>0, <2>1, <2>3 DEF ReaderTypes
  <2>5. PublishedOnce'
    <3>1. \A i \in 1 .. Len(requests) + 1 : i \in 1 .. Len(requests) \/ i = Len(requests) + 1
      BY <1>0
    <3>2. requests'[Len(requests) + 1] = r
      BY <1>0, <2>1
    <3> QED  BY <1>0, <2>1, <2>2, <3>1, <3>2 DEF TypeInv, PublishedOnce
  <2>6. BusyFetched'
    <3>1. Handled' = Handled /\ \A i \in 1 .. Handled : i \in 1 .. Len(requests)
      BY <1>0, <2>3 DEF Handled
    <3> QED  BY <2>2, <2>3, <3>1 DEF TypeInv, BusyFetched
  <2> QED  BY <2>3, <2>4, <2>5, <2>6 DEF TypeInv, DownIdle
<1>4. ASSUME Fetch \/ LoopExit \/ CommitTick
      PROVE  ReaderTypes' /\ PublishedOnce' /\ BusyFetched' /\ DownIdle'
  <2>1. requests' = requests /\ phase # "down" /\ Handled' = Handled /\ (loop' = "acquire" => pos' # 0)
    BY <1>0, <1>4 DEF Fetch, LoopExit, CommitTick, Handled, Running, Cancelled, TypeInv, BusyFetched
  <2>2. ReaderTypes'
    BY <1>0, <1>4 DEF Fetch, LoopExit, CommitTick, ReaderTypes
  <2> QED  BY <1>1, <2>1, <2>2 DEF TypeInv, PublishedOnce, BusyFetched, DownIdle
<1> QED  BY <1>2, <1>3, <1>4 DEF TypeInv

\* A goroutine starts with a slot of its own.
LEMMA TypeAcquire ==
  ASSUME TypeInv, Acquire
  PROVE  TypeInv' /\ tpc[requests[pos]] = "none" /\ requests[pos] \in Requests
<1> DEFINE r == requests[pos]
<1> USE DEF reader, tasks, writers, topics, process
<1>0. /\ requests \in Seq(Requests) /\ Len(requests) \in Nat /\ pos \in 1 .. Len(requests)
      /\ DOMAIN requests = 1 .. Len(requests) /\ loop = "acquire" /\ phase # "down"
  BY LenProperties DEF TypeInv, ReaderTypes, BusyFetched, Acquire, Running
<1>1. r \in Requests
  BY <1>0, ElementOfSeq
<1>2. tpc[r] = "none"
  <2> SUFFICES ASSUME tpc[r] # "none" PROVE FALSE
    OBVIOUS
  <2>1. PICK i \in 1 .. pos - 1 : requests[i] = r
    BY <1>0, <1>1 DEF TypeInv, BusyFetched, Handled
  <2>2. i \in DOMAIN requests /\ pos \in DOMAIN requests /\ i # pos
    BY <1>0
  <2> QED  BY <2>1, <2>2 DEF TypeInv, PublishedOnce
<1>3. /\ UNCHANGED <<requests, committed, pos, writers, topics, process, errors, rewound>>
      /\ loop' = "fetch" /\ sem < Concurrency /\ sem' = sem + 1
      /\ tpc' = [tpc EXCEPT ![r] = "recv"] /\ cur' = [cur EXCEPT ![r] = 0]
      /\ attempt' = [attempt EXCEPT ![r] = attempt[r] + 1]
  BY DEF Acquire
<1> HIDE DEF r
<1>4. ReaderTypes' /\ WriterTypes' /\ ProcessTypes' /\ PublishedOnce' /\ DownIdle'
  BY <1>0, <1>3 DEF TypeInv, ReaderTypes, WriterTypes, ProcessTypes, PublishedOnce, DownIdle
<1>5. TaskTypes' /\ TaskEvent'
  BY <1>1, <1>3, Constants DEF TypeInv, TaskTypes, TaskEvent, Busy
<1>6. BusyFetched'
  <2>1. Handled = pos - 1 /\ Handled' = pos
    BY <1>0, <1>3 DEF Handled
  <2>2. ASSUME NEW q \in Requests, tpc'[q] # "none" PROVE \E i \in 1 .. pos : requests[i] = q
    <3>1. CASE q = r
      BY <1>0, <3>1 DEF r
    <3>2. CASE q # r
      <4>1. \E i \in 1 .. pos - 1 : requests[i] = q
        BY <1>3, <2>1, <2>2, <3>2 DEF TypeInv, BusyFetched, TaskTypes
      <4> QED  BY <1>0, <4>1
    <3> QED  BY <3>1, <3>2
  <2> QED  BY <1>0, <1>3, <2>1, <2>2 DEF BusyFetched
<1>7. SlotPerTask'
  <2>1. BusySet' = BusySet \cup {r} /\ r \notin BusySet
    BY <1>1, <1>2, <1>3 DEF BusySet, TypeInv, TaskTypes
  <2>2. IsFiniteSet(BusySet') /\ Cardinality(BusySet') = Cardinality(BusySet) + 1
    BY <2>1, FS_AddElement DEF TypeInv, SlotPerTask
  <2>3. sem \in Nat
    BY FS_CardinalityType DEF TypeInv, SlotPerTask
  <2> QED  BY <1>3, <2>2, <2>3, Constants DEF TypeInv, SlotPerTask
<1> QED  BY <1>1, <1>2, <1>4, <1>5, <1>6, <1>7 DEF TypeInv, r

\* The event a goroutine writes.
LEMMA CurrentType ==
  ASSUME TypeInv, NEW r \in Requests, cur[r] # 0
  PROVE  Current(r) \in Event
BY Constants DEF TypeInv, TaskTypes, Current, Event

\* Execute goes on or returns, and with it its slot.
LEMMA TypeTask ==
  ASSUME TypeInv, NEW r \in Requests, Receive(r) \/ WriteStream(r) \/ WritePersist(r)
  PROVE  TypeInv'
<1> USE DEF reader, tasks, writers, topics, process
<1>0. /\ tpc \in [Requests -> {"none", "recv", "stream", "persist"}] /\ cur \in [Requests -> 0 .. Done]
      /\ errors \in Nat /\ tpc[r] # "none"
  BY DEF TypeInv, TaskTypes, ProcessTypes, Busy, Receive, WriteStream, WritePersist
<1>1. UNCHANGED <<requests, reader, attempt, topics, process, rewound>>
  BY DEF Receive, WriteStream, WritePersist
<1>2. errors' \in Nat
  BY <1>0 DEF Receive, WriteStream, WritePersist, WriteFails, NoFailure, Failure
<1>3. \E to \in {"none", "recv", "stream", "persist"} : tpc' = [tpc EXCEPT ![r] = to]
  BY DEF Receive, WriteStream, WritePersist, Finish
<1>4. ReaderTypes' /\ ProcessTypes' /\ PublishedOnce'
  BY <1>1, <1>2 DEF TypeInv, ReaderTypes, ProcessTypes, PublishedOnce
<1>5. WriterTypes'
  <2>1. cur[r] # 0 => Append(streamQ, Current(r)) \in Seq(Event) /\ Append(persistQ, Current(r)) \in Seq(Event)
    BY CurrentType, AppendProperties DEF TypeInv, WriterTypes
  <2>2. tpc[r] \in {"stream", "persist"} => cur[r] # 0
    BY DEF TypeInv, TaskEvent
  <2> QED  BY <1>1, <2>1, <2>2 DEF Receive, WriteStream, WritePersist, TypeInv, WriterTypes
<1>6. TaskTypes' /\ TaskEvent'
  <2>1. CASE Receive(r)
    <3>1. cur[r] # Done
      BY <2>1 DEF Receive, TypeInv, TaskEvent
    <3>2. /\ tpc' = [tpc EXCEPT ![r] = "stream"]
          /\ cur' = [cur EXCEPT ![r] = cur[r] + 1] \/ cur' = [cur EXCEPT ![r] = Done]
      BY <2>1 DEF Receive, NextToken
    <3>3. \E n \in 1 .. Done : cur' = [cur EXCEPT ![r] = n]
      BY <1>0, <3>1, <3>2, Constants
    <3> QED  BY <1>0, <1>1, <3>2, <3>3 DEF TypeInv, TaskTypes, TaskEvent, Busy
  <2>2. CASE WriteStream(r)
    <3>1. cur' = cur /\ tpc[r] = "stream" /\ (tpc' = [tpc EXCEPT ![r] = "persist"] \/ tpc' = [tpc EXCEPT ![r] = "none"])
      BY <2>2 DEF WriteStream, Finish
    <3> QED  BY <1>0, <1>1, <3>1 DEF TypeInv, TaskTypes, TaskEvent, Busy
  <2>3. CASE WritePersist(r)
    <3>1. /\ cur' = cur /\ tpc[r] = "persist"
          /\ \/ tpc' = [tpc EXCEPT ![r] = "recv"] /\ cur[r] # Done
             \/ tpc' = [tpc EXCEPT ![r] = "none"]
      BY <2>3 DEF WritePersist, Finish
    <3> QED  BY <1>0, <1>1, <3>1 DEF TypeInv, TaskTypes, TaskEvent, Busy
  <2> QED  BY <2>1, <2>2, <2>3
<1>7. BusyFetched'
  <2>1. \A q \in Requests : tpc'[q] # "none" => tpc[q] # "none"
    BY <1>0, <1>3
  <2> QED  BY <1>1, <2>1 DEF TypeInv, BusyFetched, Handled
<1>8. SlotPerTask'
  <2>0. IsFiniteSet(BusySet) /\ sem = Cardinality(BusySet) /\ sem \in Nat /\ sem <= Concurrency /\ r \in BusySet
    BY <1>0, FS_CardinalityType DEF TypeInv, SlotPerTask, BusySet
  <2>1. CASE sem' = sem /\ tpc'[r] # "none"
    <3>1. BusySet' = BusySet
      BY <1>0, <1>3, <2>1 DEF BusySet
    <3> QED  BY <2>0, <2>1, <3>1 DEF SlotPerTask
  <2>2. CASE Finish(r)
    <3>1. BusySet' = BusySet \ {r}
      BY <1>0, <2>2 DEF BusySet, Finish
    <3>2. IsFiniteSet(BusySet') /\ Cardinality(BusySet') = Cardinality(BusySet) - 1
      BY <2>0, <3>1, FS_RemoveElement
    <3>3. Cardinality(BusySet') \in Nat
      BY <3>2, FS_CardinalityType
    <3> QED  BY <2>0, <2>2, <3>2, <3>3, Constants DEF SlotPerTask, Finish
  <2> QED  BY <1>0, <2>1, <2>2 DEF Receive, WriteStream, WritePersist
<1>9. DownIdle'
  BY <1>0, <1>1 DEF TypeInv, DownIdle
<1> QED  BY <1>4, <1>5, <1>6, <1>7, <1>8, <1>9 DEF TypeInv

\* What a batch of k events does to a writer and its topic: it is sent, or
\* dropped.
Batch(T, Q, T2, Q2, k) ==
  /\ Len(Q2) = Len(Q) - k /\ \A i \in 1 .. Len(Q) - k : Q2[i] = Q[k + i]
  /\ \/ T2 = T
     \/ /\ Len(T2) = Len(T) + k
        /\ \A i \in 1 .. Len(T) : T2[i] = T[i]
        /\ \A i \in 1 .. k : T2[Len(T) + i] = Q[i]

\* SendStream is a batch of one.
LEMMA StreamBatch ==
  ASSUME TypeInv, SendStream
  PROVE  /\ Len(streamQ) >= 1 /\ Batch(streamTopic, streamQ, streamTopic', streamQ', 1)
         /\ streamQ' \in Seq(Event) /\ streamTopic' \in Seq(Event)
         /\ streamTopic' = streamTopic => errors' = errors + 1
<1>1. streamQ \in Seq(Event) /\ streamTopic \in Seq(Event) /\ streamQ # << >>
  BY DEF TypeInv, WriterTypes, SendStream
<1>2. /\ Head(streamQ) \in Event /\ Tail(streamQ) \in Seq(Event) /\ Len(streamQ) \in Nat \ {0}
      /\ Head(streamQ) = streamQ[1] /\ Len(Tail(streamQ)) = Len(streamQ) - 1
      /\ \A i \in 1 .. Len(streamQ) - 1 : Tail(streamQ)[i] = streamQ[i + 1]
  BY <1>1, HeadTailProperties, TailAt
<1>3. /\ Append(streamTopic, Head(streamQ)) \in Seq(Event)
      /\ Len(Append(streamTopic, Head(streamQ))) = Len(streamTopic) + 1 /\ Len(streamTopic) \in Nat
      /\ \A i \in 1 .. Len(streamTopic) + 1 : Append(streamTopic, Head(streamQ))[i] =
           IF i = Len(streamTopic) + 1 THEN Head(streamQ) ELSE streamTopic[i]
  BY <1>1, <1>2, AppendAt, AppendProperties, LenProperties
<1>4. /\ streamQ' = Tail(streamQ)
      /\ \/ streamTopic' = Append(streamTopic, Head(streamQ))
         \/ streamTopic' = streamTopic /\ errors' = errors + 1
  BY DEF SendStream, Failure
<1>5. Len(streamQ') = Len(streamQ) - 1 /\ \A i \in 1 .. Len(streamQ) - 1 : streamQ'[i] = streamQ[1 + i]
  <2>1. \A i \in 1 .. Len(streamQ) - 1 : i + 1 = 1 + i
    BY <1>2
  <2> QED  BY <1>2, <1>4, <2>1
<1>6. CASE streamTopic' = Append(streamTopic, Head(streamQ))
  <2>1. /\ Len(streamTopic') = Len(streamTopic) + 1
        /\ \A i \in 1 .. Len(streamTopic) : i \in 1 .. Len(streamTopic) + 1 /\ i # Len(streamTopic) + 1
        /\ Len(streamTopic) + 1 \in 1 .. Len(streamTopic) + 1
    BY <1>3, <1>6
  <2>2. /\ \A i \in 1 .. Len(streamTopic) : streamTopic'[i] = streamTopic[i]
        /\ streamTopic'[Len(streamTopic) + 1] = streamQ[1]
    BY <1>2, <1>3, <1>6, <2>1
  <2>3. \A i \in 1 .. 1 : streamTopic'[Len(streamTopic) + i] = streamQ[i]
    BY <2>2
  <2>4. streamTopic' # streamTopic
    BY <1>3, <2>1
  <2> QED  BY <1>2, <1>3, <1>4, <1>5, <1>6, <2>1, <2>2, <2>3, <2>4 DEF Batch
<1>7. CASE streamTopic' = streamTopic /\ errors' = errors + 1
  BY <1>1, <1>2, <1>4, <1>5, <1>7 DEF Batch
<1> QED  BY <1>4, <1>6, <1>7

\* SendPersist is a batch.
LEMMA PersistBatch ==
  ASSUME TypeInv, SendPersist
  PROVE  /\ \E k \in 1 .. Len(persistQ) : Batch(persistTopic, persistQ, persistTopic', persistQ', k)
         /\ persistQ' \in Seq(Event) /\ persistTopic' \in Seq(Event)
         /\ persistTopic' = persistTopic => errors' = errors + 1
<1>1. persistQ \in Seq(Event) /\ persistTopic \in Seq(Event) /\ Len(persistQ) \in Nat /\ Len(persistTopic) \in Nat
  BY LenProperties DEF TypeInv, WriterTypes
<1>2. PICK k \in 1 .. Len(persistQ) :
        /\ persistQ' = SubSeq(persistQ, k + 1, Len(persistQ))
        /\ \/ persistTopic' = persistTopic \o SubSeq(persistQ, 1, k)
           \/ persistTopic' = persistTopic /\ errors' = errors + 1
  BY DEF SendPersist, Failure
<1>3. /\ persistQ' \in Seq(Event) /\ Len(persistQ') = Len(persistQ) - k
      /\ \A i \in 1 .. Len(persistQ) - k : persistQ'[i] = persistQ[k + i]
  <2>1. \A i \in k + 1 .. Len(persistQ) : i \in 1 .. Len(persistQ)
    BY <1>1
  <2>2. /\ SubSeq(persistQ, k + 1, Len(persistQ)) \in Seq(Event)
        /\ Len(SubSeq(persistQ, k + 1, Len(persistQ))) =
             IF k + 1 <= Len(persistQ) THEN Len(persistQ) - (k + 1) + 1 ELSE 0
        /\ \A i \in 1 .. Len(persistQ) - (k + 1) + 1 :
             SubSeq(persistQ, k + 1, Len(persistQ))[i] = persistQ[(k + 1) + i - 1]
    BY <1>1, <2>1, SubSeqProperties
  <2>3. Len(persistQ) - (k + 1) + 1 = Len(persistQ) - k /\ (k + 1 <= Len(persistQ) \/ Len(persistQ) - k = 0)
    BY <1>1
  <2>4. \A i \in 1 .. Len(persistQ) - k : (k + 1) + i - 1 = k + i
    BY <1>1
  <2> QED  BY <1>2, <2>2, <2>3, <2>4
<1>4. CASE persistTopic' = persistTopic \o SubSeq(persistQ, 1, k)
  <2>1. \A i \in 1 .. k : i \in 1 .. Len(persistQ)
    BY <1>1
  <2>2. /\ SubSeq(persistQ, 1, k) \in Seq(Event) /\ Len(SubSeq(persistQ, 1, k)) = k
        /\ \A i \in 1 .. k : SubSeq(persistQ, 1, k)[i] = persistQ[i]
    <3>1. /\ SubSeq(persistQ, 1, k) \in Seq(Event)
          /\ Len(SubSeq(persistQ, 1, k)) = IF 1 <= k THEN k - 1 + 1 ELSE 0
          /\ \A i \in 1 .. k - 1 + 1 : SubSeq(persistQ, 1, k)[i] = persistQ[1 + i - 1]
      BY <1>1, <2>1, SubSeqProperties
    <3>2. k - 1 + 1 = k /\ 1 <= k /\ \A i \in 1 .. k : 1 + i - 1 = i
      BY <1>1
    <3> QED  BY <3>1, <3>2
  <2>3. PICK B \in Seq(Event) : B = SubSeq(persistQ, 1, k)
    BY <2>2
  <2>4. /\ persistTopic' \in Seq(Event) /\ Len(persistTopic') = Len(persistTopic) + k
        /\ \A i \in 1 .. Len(persistTopic) + k : persistTopic'[i] =
             IF i <= Len(persistTopic) THEN persistTopic[i] ELSE B[i - Len(persistTopic)]
    BY <1>1, <1>4, <2>2, <2>3, ConcatProperties
  <2>5. \A i \in 1 .. Len(persistTopic) : persistTopic'[i] = persistTopic[i]
    BY <1>1, <2>4
  <2>6. \A i \in 1 .. k : persistTopic'[Len(persistTopic) + i] = persistQ[i]
    <3> TAKE i \in 1 .. k
    <3>1. /\ Len(persistTopic) + i \in 1 .. Len(persistTopic) + k /\ ~ (Len(persistTopic) + i <= Len(persistTopic))
          /\ (Len(persistTopic) + i) - Len(persistTopic) = i
      BY <1>1
    <3> QED  BY <2>2, <2>3, <2>4, <3>1
  <2>7. persistTopic' # persistTopic
    BY <1>1, <2>4
  <2> QED  BY <1>3, <2>4, <2>5, <2>6, <2>7 DEF Batch
<1>5. CASE persistTopic' = persistTopic /\ errors' = errors + 1
  BY <1>1, <1>3, <1>5 DEF Batch
<1> QED  BY <1>2, <1>4, <1>5

\* The writers change the topics only.
LEMMA TypeWriters == ASSUME TypeInv, SendStream \/ SendPersist PROVE TypeInv'
<1> USE DEF reader, tasks, writers, topics, process
<1>1. UNCHANGED <<requests, reader, tasks, process, rewound>>
  BY DEF SendStream, SendPersist
<1>2. WriterTypes'
  BY StreamBatch, PersistBatch DEF SendStream, SendPersist, TypeInv, WriterTypes
<1>3. ProcessTypes'
  BY <1>1 DEF SendStream, SendPersist, Failure, NoFailure, TypeInv, ProcessTypes
<1> QED
  BY <1>1, <1>2, <1>3 DEF TypeInv, ReaderTypes, TaskTypes, PublishedOnce, BusyFetched, Handled, SlotPerTask,
    BusySet, TaskEvent, DownIdle

\* The process stops, dies and comes back.
LEMMA TypeProcess == ASSUME TypeInv, Stop \/ Exit \/ Crash \/ Restart PROVE TypeInv'
<1> USE DEF reader, tasks, writers, topics, process
<1>1. CASE Stop
  BY <1>1 DEF Stop, TypeInv, ReaderTypes, TaskTypes, WriterTypes, ProcessTypes, PublishedOnce, BusyFetched,
    Handled, SlotPerTask, BusySet, TaskEvent, DownIdle
<1>2. CASE Exit \/ Crash
  <2>1. LoseMemory /\ stops' = stops /\ crashes' \in Nat
    BY <1>2 DEF Exit, Crash, TypeInv, ProcessTypes
  <2>2. << >> \in Seq(Event)
    OBVIOUS
  <2>3. SlotPerTask'
    <3>1. BusySet' = {}
      BY <2>1 DEF BusySet, LoseMemory
    <3> QED  BY <2>1, <3>1, FS_EmptySet, Constants DEF SlotPerTask, LoseMemory
  <2>4. ReaderTypes' /\ TaskTypes' /\ TaskEvent'
    BY <2>1, Constants DEF LoseMemory, TypeInv, ReaderTypes, TaskTypes, TaskEvent, Busy
  <2>5. WriterTypes' /\ ProcessTypes'
    BY <2>1, <2>2 DEF LoseMemory, TypeInv, WriterTypes, ProcessTypes
  <2>6. PublishedOnce' /\ BusyFetched' /\ DownIdle'
    BY <2>1 DEF LoseMemory, TypeInv, PublishedOnce, BusyFetched, DownIdle
  <2> QED  BY <2>3, <2>4, <2>5, <2>6 DEF TypeInv
<1>3. CASE Restart
  <2>1. /\ phase = "down" /\ phase' = "up" /\ pos' = committed
        /\ UNCHANGED <<requests, committed, loop, tasks, writers, topics, crashes, stops, errors>>
        /\ rewound' \in BOOLEAN
    BY <1>3 DEF Restart, TypeInv, ProcessTypes
  <2>2. loop = "fetch" /\ \A r \in Requests : tpc[r] = "none"
    BY <2>1 DEF TypeInv, DownIdle
  <2>3. ReaderTypes'
    <3>1. Len(requests) \in Nat
      BY LenProperties DEF TypeInv, ReaderTypes
    <3> QED  BY <2>1, <3>1 DEF TypeInv, ReaderTypes
  <2>4. ProcessTypes'
    BY <2>1 DEF TypeInv, ProcessTypes
  <2> QED  BY <2>1, <2>2, <2>3, <2>4 DEF TypeInv, TaskTypes, WriterTypes, PublishedOnce, BusyFetched,
             SlotPerTask, BusySet, TaskEvent, DownIdle
<1> QED  BY <1>1, <1>2, <1>3

\* Every step keeps the types and the slots.
LEMMA TypeStep == TypeInv /\ [Next]_vars => TypeInv'
<1> SUFFICES ASSUME TypeInv, [Next]_vars PROVE TypeInv'
  OBVIOUS
<1>1. CASE UNCHANGED vars
  BY <1>1 DEF vars, reader, tasks, writers, topics, process, TypeInv, ReaderTypes, TaskTypes, WriterTypes,
    ProcessTypes, PublishedOnce, BusyFetched, Handled, SlotPerTask, BusySet, TaskEvent, DownIdle
<1> QED  BY <1>1, TypeReader, TypeAcquire, TypeTask, TypeWriters, TypeProcess DEF Next

\* Every variable of the LLM worker holds a value of its kind, and the semaphore
\* stays within its capacity.
THEOREM WorkerTypesHold == Spec => []TypeOK
BY TypeInit, TypeStep, TypeInvTypes, PTL DEF Spec

-----------------------------------------------------------------------------
(* The line of events to a topic *)

\* Event i of those in topic T and behind it in its writer, Q.
Event_(T, Q, i) == IF i <= Len(T) THEN T[i] ELSE Q[i - Len(T)]
Length(T, Q) == Len(T) + Len(Q)

\* Of one request: a later attempt, or a later event of the same.
Before(a, b) == a.req = b.req => a.att < b.att \/ (a.att = b.att /\ a.n < b.n)

\* The events of each request are in the order of attempts and numbers ...
InLine(T, Q) == \A i, j \in 1 .. Length(T, Q) : i < j => Before(Event_(T, Q, i), Event_(T, Q, j))

\* ... none is ahead of what Execute has written in the attempt A[r], that is
\* up to U[r], while P[r] says that it runs ...
Written(T, Q, A, P, U) ==
  \A i \in 1 .. Length(T, Q) : LET e == Event_(T, Q, i) IN
    e.att \in 1 .. A[e.req] /\ (e.att = A[e.req] /\ P[e.req] # "none" => e.n <= U[e.req])

\* ... each has all the earlier ones of its attempt before it ...
Closed(T, Q) ==
  \A i \in 1 .. Length(T, Q) : LET e == Event_(T, Q, i) IN
    \A n \in 1 .. e.n - 1 : \E j \in 1 .. i - 1 : Event_(T, Q, j) = [req |-> e.req, att |-> e.att, n |-> n]

\* ... and all that Execute has written is there.
AllThere(T, Q, A, P, U) ==
  \A r \in Requests : P[r] # "none" =>
    \A n \in 1 .. U[r] : \E j \in 1 .. Length(T, Q) : Event_(T, Q, j) = [req |-> r, att |-> A[r], n |-> n]

\* C: nothing was lost or cut short.
LineInv(T, Q, A, P, U, C) ==
  InLine(T, Q) /\ Written(T, Q, A, P, U) /\ (C => Closed(T, Q) /\ AllThere(T, Q, A, P, U))

\* The events of a line.
LEMMA LineTypes ==
  ASSUME NEW T \in Seq(Event), NEW Q \in Seq(Event)
  PROVE  /\ Len(T) \in Nat /\ Len(Q) \in Nat /\ Length(T, Q) \in Nat /\ Length(T, Q) = Len(T) + Len(Q)
         /\ \A i \in 1 .. Length(T, Q) : Event_(T, Q, i) \in Event
<1>1. Len(T) \in Nat /\ Len(Q) \in Nat /\ Length(T, Q) \in Nat /\ Length(T, Q) = Len(T) + Len(Q)
  BY LenProperties DEF Length
<1>2. ASSUME NEW i \in 1 .. Length(T, Q) PROVE Event_(T, Q, i) \in Event
  <2>1. CASE i <= Len(T)
    <3>1. i \in 1 .. Len(T)
      BY <1>1, <2>1
    <3> QED  BY <2>1, <3>1, ElementOfSeq DEF Event_
  <2>2. CASE ~ (i <= Len(T))
    <3>1. i - Len(T) \in 1 .. Len(Q)
      BY <1>1, <2>2
    <3> QED  BY <2>2, <3>1, ElementOfSeq DEF Event_
  <2> QED  BY <2>1, <2>2
<1> QED  BY <1>1, <1>2

\* Execute goes on, passing over events only when D is lost, ends or starts anew.
Onward(A, P, U, B, R, V, D) ==
  \A r \in Requests :
    \/ P[r] # "none" /\ R[r] # "none" /\ B[r] = A[r] /\ U[r] <= V[r] /\ (D => V[r] = U[r])
    \/ R[r] = "none" /\ B[r] = A[r]
    \/ R[r] # "none" /\ B[r] = A[r] + 1 /\ V[r] = 0

\* None of that changes the line.
LEMMA LineKept ==
  ASSUME NEW T \in Seq(Event), NEW Q \in Seq(Event),
         NEW A \in [Requests -> Nat], NEW P, NEW U \in [Requests -> Nat], NEW C,
         NEW B \in [Requests -> Nat], NEW R, NEW V \in [Requests -> Nat], NEW D,
         LineInv(T, Q, A, P, U, C), D => C,
         Onward(A, P, U, B, R, V, D)
  PROVE  LineInv(T, Q, B, R, V, D)
<1>0. \A r \in Requests :
        \/ P[r] # "none" /\ R[r] # "none" /\ B[r] = A[r] /\ U[r] <= V[r] /\ (D => V[r] = U[r])
        \/ R[r] = "none" /\ B[r] = A[r]
        \/ R[r] # "none" /\ B[r] = A[r] + 1 /\ V[r] = 0
  BY DEF Onward
<1>1. /\ Length(T, Q) \in Nat
      /\ \A i \in 1 .. Length(T, Q) : /\ Event_(T, Q, i).req \in Requests /\ Event_(T, Q, i).att \in Nat
                                      /\ Event_(T, Q, i).n \in 1 .. Done
  BY LineTypes DEF Event
<1>2. Written(T, Q, B, R, V)
  <2> SUFFICES ASSUME NEW i \in 1 .. Length(T, Q)
               PROVE  LET e == Event_(T, Q, i) IN
                      e.att \in 1 .. B[e.req] /\ (e.att = B[e.req] /\ R[e.req] # "none" => e.n <= V[e.req])
    BY DEF Written
  <2> DEFINE e == Event_(T, Q, i)
  <2>1. e.att \in 1 .. A[e.req] /\ (e.att = A[e.req] /\ P[e.req] # "none" => e.n <= U[e.req])
    BY DEF LineInv, Written
  <2>2. e.req \in Requests /\ e.n \in 1 .. Done /\ e.att \in Nat
    BY <1>1
  <2> HIDE DEF e
  <2>3. PICK r \in Requests : r = e.req
    BY <2>2
  <2>4. A[r] \in Nat /\ B[r] \in Nat /\ U[r] \in Nat /\ V[r] \in Nat /\ e.n \in Nat
    BY <2>2, Constants
  <2>5. e.att \in 1 .. A[r] /\ (e.att = A[r] /\ P[r] # "none" => e.n <= U[r])
    BY <2>1, <2>3, Zenon
  <2>6. e.att \in 1 .. B[r] /\ (e.att = B[r] /\ R[r] # "none" => e.n <= V[r])
    <3>1. CASE P[r] # "none" /\ R[r] # "none" /\ B[r] = A[r] /\ U[r] <= V[r]
      BY <2>4, <2>5, <3>1
    <3>2. CASE R[r] = "none" /\ B[r] = A[r]
      BY <2>5, <3>2
    <3>3. CASE R[r] # "none" /\ B[r] = A[r] + 1
      BY <2>4, <2>5, <3>3
    <3> QED  BY <1>0, <3>1, <3>2, <3>3
  <2> QED  BY <2>3, <2>6, Zenon DEF e
<1>3. ASSUME D PROVE AllThere(T, Q, B, R, V)
  <2> SUFFICES ASSUME NEW r \in Requests, R[r] # "none", NEW n \in 1 .. V[r]
               PROVE  \E j \in 1 .. Length(T, Q) : Event_(T, Q, j) = [req |-> r, att |-> B[r], n |-> n]
    BY DEF AllThere
  <2>1. P[r] # "none" /\ B[r] = A[r] /\ V[r] = U[r]
    BY <1>0, <1>3
  <2> QED  BY <1>3, <2>1 DEF LineInv, AllThere
<1> QED  BY <1>2, <1>3 DEF LineInv

\* Execute writes the event after the last it wrote.
LEMMA LineAppend ==
  ASSUME NEW T \in Seq(Event), NEW Q \in Seq(Event),
         NEW A \in [Requests -> Nat], NEW P, NEW U \in [Requests -> Nat], NEW C,
         NEW r \in Requests, P[r] # "none", A[r] # 0, NEW n \in 1 .. Done, n = U[r] + 1,
         LineInv(T, Q, A, P, U, C)
  PROVE  LineInv(T, Append(Q, [req |-> r, att |-> A[r], n |-> n]), A, P, [U EXCEPT ![r] = n], C)
<1> DEFINE e == [req |-> r, att |-> A[r], n |-> n]
           Z == Append(Q, e)
           N == Length(T, Q)
           V == [U EXCEPT ![r] = n]
<1>0. /\ Len(T) \in Nat /\ Len(Q) \in Nat /\ N \in Nat /\ N = Len(T) + Len(Q) /\ Done \in Nat /\ A[r] \in Nat
      /\ \A i \in 1 .. N : Event_(T, Q, i) \in Event
  BY LineTypes, Constants
<1>1. e \in Event /\ e.req = r /\ e.att = A[r] /\ e.n = n
  BY <1>0 DEF Event
<1>2. Len(Z) = Len(Q) + 1 /\ \A i \in 1 .. Len(Q) + 1 : Z[i] = IF i = Len(Q) + 1 THEN e ELSE Q[i]
  BY <1>1, AppendAt
<1>3. /\ Length(T, Z) = N + 1 /\ Event_(T, Z, N + 1) = e
      /\ \A i \in 1 .. N : Event_(T, Z, i) = Event_(T, Q, i)
  <2>1. Length(T, Z) = N + 1
    BY <1>0, <1>2 DEF Length
  <2>2. Event_(T, Z, N + 1) = e
    <3>1. ~ (N + 1 <= Len(T)) /\ (N + 1) - Len(T) = Len(Q) + 1 /\ Len(Q) + 1 \in 1 .. Len(Q) + 1
      BY <1>0
    <3> HIDE DEF e, Z, N
    <3> QED  BY <1>2, <3>1 DEF Event_
  <2>3. ASSUME NEW i \in 1 .. N, ~ (i <= Len(T)) PROVE Z[i - Len(T)] = Q[i - Len(T)]
    <3>1. i - Len(T) \in 1 .. Len(Q) + 1 /\ i - Len(T) # Len(Q) + 1
      BY <1>0, <2>3
    <3> HIDE DEF e, Z, N
    <3> QED  BY <1>2, <3>1
  <2> HIDE DEF e, Z, N
  <2> QED  BY <2>1, <2>2, <2>3 DEF Event_
<1> HIDE DEF e, Z, N
<1>4. \A i \in 1 .. Length(T, Z) : i \in 1 .. N \/ i = N + 1
  <2>1. N \in Nat
    BY <1>0
  <2>2. \A i \in 1 .. N + 1 : i \in 1 .. N \/ i = N + 1
    BY <2>1
  <2> QED  BY <1>3, <2>2
<1>5. \A i \in 1 .. N : /\ Event_(T, Q, i).req \in Requests /\ Event_(T, Q, i).att \in Nat /\ Event_(T, Q, i).n \in Nat
                        /\ Event_(T, Q, i).att \in 1 .. A[Event_(T, Q, i).req]
                        /\ Event_(T, Q, i).att = A[Event_(T, Q, i).req] /\ P[Event_(T, Q, i).req] # "none" =>
                             Event_(T, Q, i).n <= U[Event_(T, Q, i).req]
  BY <1>0 DEF LineInv, Written, Event, N
<1>6. InLine(T, Z)
  <2> SUFFICES ASSUME NEW i \in 1 .. Length(T, Z), NEW j \in 1 .. Length(T, Z), i < j
               PROVE  Before(Event_(T, Z, i), Event_(T, Z, j))
    BY DEF InLine
  <2>1. i \in 1 .. N
    BY <1>0, <1>4, SMTT(30)
  <2>2. CASE j \in 1 .. N
    BY <1>3, <2>1, <2>2 DEF LineInv, InLine, N
  <2>3. CASE j = N + 1
    <3>1. Event_(T, Z, j) = e /\ Event_(T, Z, i) = Event_(T, Q, i)
      BY <1>3, <2>1, <2>3
    <3>2. Event_(T, Q, i).req = r => Event_(T, Q, i).att < A[r] \/ (Event_(T, Q, i).att = A[r] /\ Event_(T, Q, i).n < n)
      <4>1. PICK d \in Event : d = Event_(T, Q, i)
        BY <1>0, <2>1
      <4>2. d.req = r => d.att \in 1 .. A[r] /\ (d.att = A[r] => d.n <= U[r]) /\ d.n \in Nat
        BY <1>5, <2>1, <4>1, Zenon
      <4>3. d.req = r => d.att < A[r] \/ (d.att = A[r] /\ d.n < n)
        BY <1>0, <4>2
      <4> QED  BY <4>1, <4>3, Zenon
    <3> QED  BY <1>1, <3>1, <3>2 DEF Before
  <2> QED  BY <1>4, <2>2, <2>3
<1>7. Written(T, Z, A, P, V)
  <2> SUFFICES ASSUME NEW i \in 1 .. Length(T, Z)
               PROVE  /\ Event_(T, Z, i).att \in 1 .. A[Event_(T, Z, i).req]
                      /\ Event_(T, Z, i).att = A[Event_(T, Z, i).req] /\ P[Event_(T, Z, i).req] # "none" =>
                             Event_(T, Z, i).n <= V[Event_(T, Z, i).req]
    BY DEF Written
  <2>1. V[r] = n /\ \A q \in Requests : q # r => V[q] = U[q]
    OBVIOUS
  <2> HIDE DEF V
  <2>2. CASE i = N + 1
    BY <1>0, <1>1, <1>3, <2>1, <2>2
  <2>3. CASE i \in 1 .. N
    <3>1. Event_(T, Z, i) = Event_(T, Q, i)
      BY <1>3, <2>3
    <3>2. CASE Event_(T, Q, i).req = r
      <4>1. PICK d \in Event : d = Event_(T, Q, i)
        BY <1>0, <2>3
      <4>2. d.att \in 1 .. A[r] /\ (d.att = A[r] => d.n <= U[r]) /\ d.n \in Nat
        BY <1>5, <2>3, <3>2, <4>1, Zenon
      <4>3. d.att = A[r] => d.n <= V[r]
        BY <1>0, <2>1, <4>2
      <4> QED  BY <3>1, <3>2, <4>1, <4>2, <4>3, Zenon
    <3>3. CASE Event_(T, Q, i).req # r
      BY <1>5, <2>1, <2>3, <3>1, <3>3
    <3> QED  BY <3>2, <3>3
  <2> QED  BY <1>4, <2>2, <2>3
<1>8. ASSUME C PROVE Closed(T, Z)
  <2> SUFFICES ASSUME NEW i \in 1 .. Length(T, Z), NEW m \in 1 .. Event_(T, Z, i).n - 1
               PROVE  \E j \in 1 .. i - 1 :
                        Event_(T, Z, j) = [req |-> Event_(T, Z, i).req, att |-> Event_(T, Z, i).att, n |-> m]
    BY DEF Closed
  <2>1. CASE i = N + 1
    <3>1. Event_(T, Z, i) = e /\ m \in 1 .. U[r]
      BY <1>0, <1>1, <1>3, <2>1
    <3>2. PICK j \in 1 .. N : Event_(T, Q, j) = [req |-> r, att |-> A[r], n |-> m]
      BY <1>8, <3>1 DEF LineInv, AllThere, N
    <3>3. j \in 1 .. i - 1 /\ Event_(T, Z, j) = Event_(T, Q, j)
      BY <1>0, <1>3, <2>1
    <3> QED  BY <1>1, <3>1, <3>2, <3>3
  <2>2. CASE i \in 1 .. N
    <3>1. Event_(T, Z, i) = Event_(T, Q, i)
      BY <1>3, <2>2
    <3>2. PICK j \in 1 .. i - 1 :
            Event_(T, Q, j) = [req |-> Event_(T, Q, i).req, att |-> Event_(T, Q, i).att, n |-> m]
      BY <1>8, <2>2, <3>1 DEF LineInv, Closed, N
    <3>3. j \in 1 .. N
      BY <1>0, <2>2
    <3> QED  BY <1>3, <3>1, <3>2, <3>3
  <2> QED  BY <1>4, <2>1, <2>2
<1>9. ASSUME C PROVE AllThere(T, Z, A, P, V)
  <2> SUFFICES ASSUME NEW q \in Requests, P[q] # "none", NEW m \in 1 .. V[q]
               PROVE  \E j \in 1 .. Length(T, Z) : Event_(T, Z, j) = [req |-> q, att |-> A[q], n |-> m]
    BY DEF AllThere
  <2>1. CASE q = r /\ m = n
    BY <1>0, <1>3, <2>1 DEF e
  <2>2. CASE ~ (q = r /\ m = n)
    <3>1. m \in 1 .. U[q]
      BY <1>0, <2>2
    <3>2. PICK j \in 1 .. N : Event_(T, Q, j) = [req |-> q, att |-> A[q], n |-> m]
      BY <1>9, <3>1 DEF LineInv, AllThere, N
    <3>3. j \in 1 .. Length(T, Z)
      BY <1>0, <1>3
    <3> QED  BY <1>3, <3>2, <3>3
  <2> QED  BY <2>1, <2>2
<1> QED  BY <1>6, <1>7, <1>8, <1>9 DEF LineInv, Z, e

\* A batch is sent, or dropped, which is a failure.
LEMMA LineBatch ==
  ASSUME NEW T \in Seq(Event), NEW Q \in Seq(Event), NEW S \in Seq(Event), NEW Z \in Seq(Event),
         NEW k \in 1 .. Len(Q), Batch(T, Q, S, Z, k),
         NEW A \in [Requests -> Nat], NEW P, NEW U \in [Requests -> Nat], NEW C, NEW D,
         LineInv(T, Q, A, P, U, C), D => C /\ S # T
  PROVE  LineInv(S, Z, A, P, U, D)
<1>0. Len(T) \in Nat /\ Len(Q) \in Nat /\ Length(T, Q) = Len(T) + Len(Q)
  BY LineTypes
<1>1. /\ Len(Z) = Len(Q) - k /\ \A i \in 1 .. Len(Q) - k : Z[i] = Q[k + i]
      /\ \/ S = T
         \/ /\ Len(S) = Len(T) + k
            /\ \A i \in 1 .. Len(T) : S[i] = T[i]
            /\ \A i \in 1 .. k : S[Len(T) + i] = Q[i]
  BY DEF Batch
<1>2. PICK m, l \in Nat : m = Len(T) /\ l = Len(Q) /\ k \in 1 .. l /\ Length(T, Q) = m + l
  BY <1>0
<1>3. CASE S = T
  <2> DEFINE h(i) == IF i <= m THEN i ELSE i + k
  <2>1. Length(S, Z) = m + (l - k) /\ m + (l - k) \in Nat
    BY <1>1, <1>2, <1>3 DEF Length
  <2>2. ASSUME NEW i \in 1 .. m + (l - k)
        PROVE  h(i) \in 1 .. m + l /\ Event_(S, Z, i) = Event_(T, Q, h(i))
    <3>1. CASE i <= m
      BY <1>2, <1>3, <3>1 DEF Event_
    <3>2. CASE ~ (i <= m)
      <4>1. /\ h(i) = i + k /\ i + k \in 1 .. m + l /\ ~ (i + k <= m)
            /\ i - m \in 1 .. l - k /\ k + (i - m) = (i + k) - m
        BY <1>2, <3>2
      <4>2. Event_(S, Z, i) = Z[i - m] /\ Event_(T, Q, i + k) = Q[(i + k) - m]
        BY <1>2, <1>3, <3>2, <4>1 DEF Event_
      <4>3. Z[i - m] = Q[k + (i - m)]
        BY <1>1, <1>2, <4>1
      <4> HIDE DEF h
      <4> QED  BY <4>1, <4>2, <4>3
    <3> QED  BY <3>1, <3>2
  <2>3. \A i, j \in 1 .. m + (l - k) : i < j => h(i) < h(j)
    BY <1>2
  <2> HIDE DEF h
  <2>4. InLine(S, Z)
    BY <1>2, <2>1, <2>2, <2>3 DEF LineInv, InLine
  <2>5. Written(S, Z, A, P, U)
    BY <1>2, <2>1, <2>2, Zenon DEF LineInv, Written
  <2> QED  BY <1>3, <2>4, <2>5 DEF LineInv
<1>4. CASE /\ Len(S) = Len(T) + k
           /\ \A i \in 1 .. Len(T) : S[i] = T[i]
           /\ \A i \in 1 .. k : S[Len(T) + i] = Q[i]
  <2>1. Len(S) = m + k /\ Len(Z) = l - k
    BY <1>1, <1>2, <1>4
  <2>2. Length(S, Z) = m + l
    <3>1. (m + k) + (l - k) = m + l
      BY <1>2
    <3> QED  BY <2>1, <3>1 DEF Length
  <2>3. ASSUME NEW i \in 1 .. m + l PROVE Event_(S, Z, i) = Event_(T, Q, i)
    <3>1. CASE i <= m
      <4>1. i <= m + k /\ i \in 1 .. m
        BY <1>2, <3>1
      <4> QED  BY <1>2, <1>4, <2>1, <3>1, <4>1 DEF Event_
    <3>2. CASE ~ (i <= m) /\ i <= m + k
      <4>1. i - m \in 1 .. k /\ m + (i - m) = i
        BY <1>2, <3>2
      <4>2. S[m + (i - m)] = Q[i - m]
        BY <1>2, <1>4, <4>1
      <4> QED  BY <1>2, <2>1, <3>2, <4>1, <4>2 DEF Event_
    <3>3. CASE ~ (i <= m + k)
      <4>1. i - (m + k) \in 1 .. l - k /\ k + (i - (m + k)) = i - m /\ ~ (i <= m)
        BY <1>2, <3>3
      <4>2. Z[i - (m + k)] = Q[k + (i - (m + k))]
        BY <1>1, <1>2, <4>1
      <4> QED  BY <1>2, <2>1, <3>3, <4>1, <4>2 DEF Event_
    <3> QED  BY <1>2, <3>1, <3>2, <3>3
  <2>4. Length(S, Z) = Length(T, Q) /\ \A i \in 1 .. Length(T, Q) : Event_(S, Z, i) = Event_(T, Q, i)
    BY <1>2, <2>2, <2>3
  <2>5. InLine(S, Z) /\ Written(S, Z, A, P, U)
    BY <2>4, Zenon DEF LineInv, InLine, Written
  <2>6. ASSUME D PROVE Closed(S, Z) /\ AllThere(S, Z, A, P, U)
    <3>1. Closed(T, Q) /\ AllThere(T, Q, A, P, U)
      BY <2>6 DEF LineInv
    <3>2. \A i \in 1 .. Length(T, Q) : \A j \in 1 .. i - 1 : j \in 1 .. Length(T, Q)
      BY <1>2
    <3>3. Closed(S, Z)
      <4> DEFINE E(i) == Event_(S, Z, i)
                 F(i) == Event_(T, Q, i)
                 K == Length(S, Z)
                 L == Length(T, Q)
      <4> HIDE DEF E, F, K, L
      <4>1. K = L /\ \A i \in 1 .. L : E(i) = F(i)
        BY <2>4, Zenon DEF E, F, K, L
      <4>2. \A i \in 1 .. L : \A j \in 1 .. i - 1 : j \in 1 .. L
        BY <3>2, Zenon DEF L
      <4>3. ASSUME NEW i \in 1 .. K, NEW n \in 1 .. E(i).n - 1
            PROVE  \E j \in 1 .. i - 1 : E(j) = [req |-> E(i).req, att |-> E(i).att, n |-> n]
        <5>1. E(i) = F(i) /\ i \in 1 .. L /\ n \in 1 .. F(i).n - 1
          BY <4>1, <4>3, Zenon
        <5>2. PICK j \in 1 .. i - 1 : F(j) = [req |-> F(i).req, att |-> F(i).att, n |-> n]
          BY <3>1, <5>1, Zenon DEF Closed, F, L
        <5>3. E(j) = F(j)
          BY <4>1, <4>2, <5>1, Zenon
        <5> QED  BY <5>1, <5>2, <5>3, Zenon
      <4> QED  BY <4>3, Zenon DEF Closed, E, K
    <3>4. AllThere(S, Z, A, P, U)
      BY <2>4, <3>1, Zenon DEF AllThere
    <3> QED  BY <3>3, <3>4
  <2> QED  BY <2>5, <2>6 DEF LineInv
<1> QED  BY <1>1, <1>3, <1>4

\* The topic without its writer is a line.
LEMMA LineTopic ==
  ASSUME NEW T \in Seq(Event), NEW Q \in Seq(Event),
         NEW A, NEW P, NEW U, NEW C, LineInv(T, Q, A, P, U, C)
  PROVE  /\ \A i, j \in 1 .. Len(T) : i < j => Before(T[i], T[j])
         /\ \A i \in 1 .. Len(T) : T[i].att \in 1 .. A[T[i].req]
         /\ C => \A i \in 1 .. Len(T) : \A n \in 1 .. T[i].n - 1 :
                   \E j \in 1 .. i - 1 : T[j] = [req |-> T[i].req, att |-> T[i].att, n |-> n]
<1>0. Len(T) \in Nat /\ Len(Q) \in Nat /\ Length(T, Q) = Len(T) + Len(Q)
  BY LineTypes
<1>1. \A i \in 1 .. Len(T) : i \in 1 .. Length(T, Q) /\ Event_(T, Q, i) = T[i]
  BY <1>0 DEF Event_
<1>2. \A i, j \in 1 .. Len(T) : i < j => Before(T[i], T[j])
  BY <1>1, Zenon DEF LineInv, InLine
<1>3. \A i \in 1 .. Len(T) : T[i].att \in 1 .. A[T[i].req]
  BY <1>1, Zenon DEF LineInv, Written
<1>4. ASSUME C, NEW i \in 1 .. Len(T), NEW n \in 1 .. T[i].n - 1
      PROVE  \E j \in 1 .. i - 1 : T[j] = [req |-> T[i].req, att |-> T[i].att, n |-> n]
  <2>1. PICK j \in 1 .. i - 1 : Event_(T, Q, j) = [req |-> T[i].req, att |-> T[i].att, n |-> n]
    BY <1>1, <1>4, ZenonT(40) DEF LineInv, Closed
  <2>2. j \in 1 .. Len(T)
    BY <1>0
  <2> QED  BY <1>1, <2>1, <2>2
<1> QED  BY <1>2, <1>3, <1>4

\* What the writer holds dies with the process.
LEMMA LineLost ==
  ASSUME NEW T \in Seq(Event), NEW Q \in Seq(Event),
         NEW A, NEW P, NEW U, NEW C, NEW R, NEW V, LineInv(T, Q, A, P, U, C),
         \A r \in Requests : R[r] = "none"
  PROVE  LineInv(T, << >>, A, R, V, C)
<1>0. Len(T) \in Nat /\ Length(T, << >>) = Len(T) /\ << >> \in Seq(Event)
  <2>1. << >> \in Seq(Event) /\ Len(<< >>) = 0 /\ Len(T) \in Nat
    BY LenProperties
  <2>2. Length(T, << >>) = Len(T) + 0
    BY <2>1, Zenon DEF Length
  <2> QED  BY <2>1, <2>2
<1>1. /\ \A i \in 1 .. Len(T) : Event_(T, << >>, i) = T[i]
      /\ \A i \in 1 .. Len(T) : \A j \in 1 .. i - 1 : j \in 1 .. Len(T)
      /\ \A i \in 1 .. Len(T) : T[i].req \in Requests
  <2>1. \A i \in 1 .. Len(T) : T[i] \in Event
    BY ElementOfSeq
  <2> QED  BY <1>0, <2>1 DEF Event_, Event
<1>2. /\ \A i, j \in 1 .. Len(T) : i < j => Before(T[i], T[j])
      /\ \A i \in 1 .. Len(T) : T[i].att \in 1 .. A[T[i].req]
      /\ C => \A i \in 1 .. Len(T) : \A n \in 1 .. T[i].n - 1 :
                \E j \in 1 .. i - 1 : T[j] = [req |-> T[i].req, att |-> T[i].att, n |-> n]
  BY LineTopic
<1> DEFINE E(i) == Event_(T, << >>, i)
           L == Length(T, << >>)
<1> HIDE DEF L, E
<1>20. L = Len(T) /\ \A i \in 1 .. Len(T) : E(i) = T[i]
  BY <1>0, <1>1 DEF L, E
<1>3. InLine(T, << >>)
  <2>1. \A i, j \in 1 .. L : i < j => Before(E(i), E(j))
    BY <1>2, <1>20
  <2> QED  BY <2>1, Zenon DEF InLine, L, E
<1>4. Written(T, << >>, A, R, V)
  <2>1. \A i \in 1 .. L : E(i).att \in 1 .. A[E(i).req] /\ (E(i).att = A[E(i).req] /\ R[E(i).req] # "none" => E(i).n <= V[E(i).req])
    BY <1>1, <1>2, <1>20
  <2> QED  BY <2>1, Zenon DEF Written, L, E
<1>5. ASSUME C PROVE Closed(T, << >>)
  <2>1. ASSUME NEW i \in 1 .. L, NEW n \in 1 .. E(i).n - 1
        PROVE  \E j \in 1 .. i - 1 : E(j) = [req |-> E(i).req, att |-> E(i).att, n |-> n]
    <3>1. E(i) = T[i] /\ i \in 1 .. Len(T)
      BY <1>20
    <3>2. PICK j \in 1 .. i - 1 : T[j] = [req |-> T[i].req, att |-> T[i].att, n |-> n]
      BY <1>2, <1>5, <3>1, Zenon
    <3> QED  BY <1>1, <1>20, <3>1, <3>2, Zenon
  <2> QED  BY <2>1, Zenon DEF Closed, L, E
<1>6. AllThere(T, << >>, A, R, V)
  BY DEF AllThere
<1> QED  BY <1>3, <1>4, <1>5, <1>6 DEF LineInv

-----------------------------------------------------------------------------
(* What the worker sends *)

\* No call and no batch failed, and ctx was never cancelled.
Clean == errors = 0 /\ stops = 0

\* The last event that Execute has written for each topic.
StreamTop  == [r \in Requests |-> IF tpc[r] = "stream" THEN cur[r] - 1 ELSE cur[r]]
PersistTop == [r \in Requests |-> IF tpc[r] \in {"stream", "persist"} THEN cur[r] - 1 ELSE cur[r]]

StreamLine  == LineInv(streamTopic, streamQ, attempt, tpc, StreamTop, Clean)
PersistLine == LineInv(persistTopic, persistQ, attempt, tpc, PersistTop, Clean)

\* Until a restart reads requests again, each is tried once, when it is handled.
TriedOnce ==
  ~rewound => \A r \in Requests : attempt[r] # 0 => attempt[r] = 1 /\ \E i \in 1 .. Handled : requests[i] = r

WorkerInv == TypeInv /\ StreamLine /\ PersistLine /\ TriedOnce

\* What the lines are about, in any state.
LEMMA WorkerTypes ==
  ASSUME TypeInv
  PROVE  /\ streamQ \in Seq(Event) /\ persistQ \in Seq(Event)
         /\ streamTopic \in Seq(Event) /\ persistTopic \in Seq(Event)
         /\ attempt \in [Requests -> Nat] /\ cur \in [Requests -> 0 .. Done]
         /\ tpc \in [Requests -> {"none", "recv", "stream", "persist"}]
         /\ StreamTop \in [Requests -> Nat] /\ PersistTop \in [Requests -> Nat]
         /\ errors \in Nat /\ stops \in Nat
         /\ Clean \in BOOLEAN
<1>1. /\ streamQ \in Seq(Event) /\ persistQ \in Seq(Event)
      /\ streamTopic \in Seq(Event) /\ persistTopic \in Seq(Event)
      /\ attempt \in [Requests -> Nat] /\ cur \in [Requests -> 0 .. Done]
      /\ tpc \in [Requests -> {"none", "recv", "stream", "persist"}]
      /\ errors \in Nat /\ stops \in Nat
  BY DEF TypeInv, WriterTypes, TaskTypes, ProcessTypes, Busy
<1>2. \A r \in Requests : tpc[r] \in {"stream", "persist"} => cur[r] # 0
  BY DEF TypeInv, TaskEvent
<1>3. \A r \in Requests : StreamTop[r] \in Nat /\ PersistTop[r] \in Nat
  BY <1>1, <1>2, Constants DEF StreamTop, PersistTop
<1>4. Clean \in BOOLEAN
  BY DEF Clean
<1> QED  BY <1>1, <1>3, <1>4 DEF StreamTop, PersistTop

\* The same of the next state.
LEMMA WorkerTypesNext ==
  ASSUME TypeInv'
  PROVE  /\ attempt' \in [Requests -> Nat] /\ cur' \in [Requests -> 0 .. Done]
         /\ tpc' \in [Requests -> {"none", "recv", "stream", "persist"}]
         /\ StreamTop' \in [Requests -> Nat] /\ PersistTop' \in [Requests -> Nat]
<1>1. /\ attempt' \in [Requests -> Nat] /\ cur' \in [Requests -> 0 .. Done]
      /\ tpc' \in [Requests -> {"none", "recv", "stream", "persist"}]
  BY DEF TypeInv, TaskTypes, Busy
<1>2. \A r \in Requests : tpc'[r] \in {"stream", "persist"} => cur'[r] # 0
  BY DEF TypeInv, TaskEvent
<1>3. \A r \in Requests : /\ (IF tpc'[r] = "stream" THEN cur'[r] - 1 ELSE cur'[r]) \in Nat
                          /\ (IF tpc'[r] \in {"stream", "persist"} THEN cur'[r] - 1 ELSE cur'[r]) \in Nat
  BY <1>1, <1>2, Constants
<1> QED  BY <1>1, <1>3 DEF StreamTop, PersistTop

\* Execute goes on, ends or starts anew, and writes nothing.
LEMMA LinesKept ==
  ASSUME WorkerInv, TypeInv', UNCHANGED <<streamQ, persistQ, streamTopic, persistTopic>>, Clean' => Clean,
         \A r \in Requests :
           \/ /\ tpc[r] # "none" /\ tpc'[r] # "none" /\ attempt'[r] = attempt[r]
              /\ StreamTop[r] <= StreamTop'[r] /\ (Clean' => StreamTop'[r] = StreamTop[r])
              /\ PersistTop[r] <= PersistTop'[r] /\ (Clean' => PersistTop'[r] = PersistTop[r])
           \/ tpc'[r] = "none" /\ attempt'[r] = attempt[r]
           \/ tpc'[r] # "none" /\ attempt'[r] = attempt[r] + 1 /\ StreamTop'[r] = 0 /\ PersistTop'[r] = 0
  PROVE  StreamLine' /\ PersistLine'
<1>1. /\ streamQ \in Seq(Event) /\ streamTopic \in Seq(Event) /\ persistQ \in Seq(Event) /\ persistTopic \in Seq(Event)
      /\ attempt \in [Requests -> Nat] /\ StreamTop \in [Requests -> Nat] /\ PersistTop \in [Requests -> Nat]
  BY WorkerTypes DEF WorkerInv
<1>2. attempt' \in [Requests -> Nat] /\ StreamTop' \in [Requests -> Nat] /\ PersistTop' \in [Requests -> Nat]
  BY WorkerTypesNext
<1>3. LineInv(streamTopic, streamQ, attempt', tpc', StreamTop', Clean')
  <2>1. LineInv(streamTopic, streamQ, attempt, tpc, StreamTop, Clean)
    BY DEF WorkerInv, StreamLine
  <2>2. Onward(attempt, tpc, StreamTop, attempt', tpc', StreamTop', Clean')
    BY DEF Onward
  <2>3. Clean' => Clean
    OBVIOUS
  <2> QED  BY <1>1, <1>2, <2>1, <2>2, <2>3, LineKept, Zenon
<1>4. LineInv(persistTopic, persistQ, attempt', tpc', PersistTop', Clean')
  <2>1. LineInv(persistTopic, persistQ, attempt, tpc, PersistTop, Clean)
    BY DEF WorkerInv, PersistLine
  <2>2. Onward(attempt, tpc, PersistTop, attempt', tpc', PersistTop', Clean')
    BY DEF Onward
  <2>3. Clean' => Clean
    OBVIOUS
  <2> QED  BY <1>1, <1>2, <2>1, <2>2, <2>3, LineKept, Zenon
<1>5. UNCHANGED <<streamQ, persistQ, streamTopic, persistTopic>>
  OBVIOUS
<1>6. StreamLine'
  BY <1>3, <1>5, Zenon DEF StreamLine
<1>7. PersistLine'
  BY <1>4, <1>5, Zenon DEF PersistLine
<1> QED  BY <1>6, <1>7

\* Init establishes WorkerInv.
LEMMA WorkerInit == Init => WorkerInv
<1> SUFFICES ASSUME Init PROVE WorkerInv
  OBVIOUS
<1>1. TypeInv
  BY TypeInit
<1>2. /\ streamQ = << >> /\ persistQ = << >> /\ streamTopic = << >> /\ persistTopic = << >>
      /\ \A r \in Requests : tpc[r] = "none" /\ attempt[r] = 0
  BY DEF Init
<1>3. LineInv(<< >>, << >>, attempt, tpc, StreamTop, Clean) /\ LineInv(<< >>, << >>, attempt, tpc, PersistTop, Clean)
  <2>1. Length(<< >>, << >>) = 0
    BY DEF Length
  <2> QED  BY <1>2, <2>1 DEF LineInv, InLine, Written, Closed, AllThere
<1>4. StreamLine /\ PersistLine
  BY <1>2, <1>3, Zenon DEF StreamLine, PersistLine
<1>5. TriedOnce
  BY <1>2 DEF TriedOnce
<1> QED  BY <1>1, <1>4, <1>5 DEF WorkerInv

\* The goroutine of an Acquire tries its request anew.
LEMMA WorkerAcquire == ASSUME WorkerInv, Acquire PROVE WorkerInv'
<1>0. TypeInv /\ TypeInv' /\ tpc[requests[pos]] = "none" /\ requests[pos] \in Requests
  BY TypeAcquire DEF WorkerInv
<1>1. PICK r \in Requests : r = requests[pos]
  BY <1>0
<1>2. /\ tpc[r] = "none" /\ tpc' = [tpc EXCEPT ![r] = "recv"] /\ cur' = [cur EXCEPT ![r] = 0]
      /\ attempt' = [attempt EXCEPT ![r] = attempt[r] + 1]
      /\ UNCHANGED <<requests, pos, streamQ, persistQ, streamTopic, persistTopic, errors, stops, rewound>>
      /\ loop = "acquire" /\ loop' = "fetch"
  BY <1>0, <1>1 DEF Acquire, writers, topics, process
<1>3. Clean' = Clean
  BY <1>2 DEF Clean
<1>4. \A q \in Requests :
        \/ q # r /\ tpc'[q] = tpc[q] /\ attempt'[q] = attempt[q] /\ cur'[q] = cur[q]
        \/ q = r /\ tpc'[q] = "recv" /\ attempt'[q] = attempt[q] + 1 /\ cur'[q] = 0
  BY <1>0, <1>2, WorkerTypes
<1>5. \A q \in Requests :
        /\ \/ q # r /\ StreamTop'[q] = StreamTop[q] /\ PersistTop'[q] = PersistTop[q]
           \/ q = r /\ StreamTop'[q] = 0 /\ PersistTop'[q] = 0
        /\ StreamTop[q] \in Nat /\ PersistTop[q] \in Nat
  BY <1>0, <1>4, WorkerTypes DEF StreamTop, PersistTop
<1>6. StreamLine' /\ PersistLine'
  BY <1>0, <1>2, <1>3, <1>4, <1>5, LinesKept
<1>7. TriedOnce'
  <2>1. /\ requests \in Seq(Requests) /\ Len(requests) \in Nat /\ pos \in 1 .. Len(requests)
        /\ DOMAIN requests = 1 .. Len(requests) /\ Handled = pos - 1 /\ Handled' = pos /\ requests' = requests
    BY <1>0, <1>2, LenProperties DEF TypeInv, ReaderTypes, BusyFetched, Handled
  <2>2. SUFFICES ASSUME ~ rewound, NEW q \in Requests, attempt'[q] # 0
                 PROVE  attempt'[q] = 1 /\ \E i \in 1 .. pos : requests[i] = q
    BY <1>2, <2>1 DEF TriedOnce
  <2>3. attempt[q] # 0 => attempt[q] = 1 /\ \E i \in 1 .. pos - 1 : requests[i] = q
    BY <2>1, <2>2 DEF WorkerInv, TriedOnce
  <2>4. CASE q = r
    <3>1. attempt[r] = 0
      <4> SUFFICES ASSUME attempt[r] # 0 PROVE FALSE
        BY <1>0, WorkerTypes
      <4>1. PICK i \in 1 .. pos - 1 : requests[i] = requests[pos]
        BY <1>1, <2>3, <2>4
      <4>2. i \in DOMAIN requests /\ pos \in DOMAIN requests /\ i # pos
        BY <2>1
      <4> QED  BY <1>0, <4>1, <4>2 DEF TypeInv, PublishedOnce
    <3> QED  BY <1>1, <1>4, <2>1, <2>4, <3>1
  <2>5. CASE q # r
    <3>1. attempt'[q] = attempt[q] /\ \A i \in 1 .. pos - 1 : i \in 1 .. pos
      BY <1>4, <2>1, <2>5
    <3> QED  BY <2>2, <2>3, <3>1
  <2> QED  BY <2>4, <2>5
<1> QED  BY <1>0, <1>6, <1>7 DEF WorkerInv

\* Where a request is does not matter to those handled.
LEMMA TriedKept ==
  ASSUME WorkerInv, attempt' = attempt, rewound' = rewound, requests' = requests, TypeInv', Handled <= Handled'
  PROVE  TriedOnce'
<1>1. Handled \in Int /\ Handled' \in Int
  BY DEF WorkerInv, TypeInv, ReaderTypes, Handled
<1>2. \A i \in 1 .. Handled : i \in 1 .. Handled'
  BY <1>1
<1> QED  BY <1>2 DEF WorkerInv, TriedOnce

\* A request that is published, and one that is fetched.
LEMMA WorkerReader ==
  ASSUME WorkerInv, (\E r \in Requests : PublishRequest(r)) \/ Fetch \/ LoopExit \/ CommitTick
  PROVE  WorkerInv'
<1> USE DEF reader, tasks, writers, topics, process
<1>0. TypeInv /\ TypeInv'
  BY TypeReader DEF WorkerInv
<1>1. UNCHANGED <<tpc, cur, attempt, streamQ, persistQ, streamTopic, persistTopic, errors, stops, rewound>>
  BY DEF PublishRequest, Fetch, LoopExit, CommitTick
<1>2. Clean' = Clean /\ StreamTop' = StreamTop /\ PersistTop' = PersistTop
  BY <1>1 DEF Clean, StreamTop, PersistTop
<1>3. StreamLine' /\ PersistLine'
  BY <1>1, <1>2 DEF WorkerInv, StreamLine, PersistLine
<1>4. TriedOnce'
  <2>1. CASE Fetch \/ LoopExit \/ CommitTick
    <3>1. pos \in Int
      BY <1>0 DEF TypeInv, ReaderTypes
    <3>2. Handled <= Handled' /\ requests' = requests
      BY <2>1, <3>1 DEF Fetch, LoopExit, CommitTick, Handled
    <3> QED  BY <1>0, <1>1, <3>2, TriedKept
  <2>2. ASSUME NEW r \in Requests, PublishRequest(r) PROVE TriedOnce'
    <3>1. requests \in Seq(Requests) /\ Len(requests) \in Nat /\ pos \in 0 .. Len(requests) /\ Handled' = Handled
      BY <1>0, <2>2, LenProperties DEF TypeInv, ReaderTypes, PublishRequest, Handled
    <3>2. \A i \in 1 .. Handled : i \in 1 .. Len(requests) /\ i # Len(requests) + 1 /\ i \in 1 .. Len(requests) + 1
      BY <3>1 DEF Handled
    <3>3. \A i \in 1 .. Handled : requests'[i] = requests[i]
      BY <2>2, <3>1, <3>2, AppendAt DEF PublishRequest
    <3> QED  BY <1>1, <3>1, <3>3 DEF WorkerInv, TriedOnce
  <2> QED  BY <2>1, <2>2
<1> QED  BY <1>0, <1>3, <1>4 DEF WorkerInv

\* A goroutine that ends, or that receives an event, has written nothing.
LEMMA WorkerReceive ==
  ASSUME WorkerInv, NEW r \in Requests, Receive(r)
  PROVE  WorkerInv'
<1> USE DEF reader, tasks, writers, topics, process
<1>0. TypeInv /\ TypeInv'
  BY TypeTask DEF WorkerInv
<1>1. /\ UNCHANGED <<requests, pos, loop, attempt, streamQ, persistQ, streamTopic, persistTopic, errors, stops, rewound>>
      /\ tpc[r] = "recv" /\ tpc' = [tpc EXCEPT ![r] = "stream"] /\ cur[r] # Done
      /\ \/ cur' = [cur EXCEPT ![r] = cur[r] + 1]
         \/ stops # 0 /\ cur' = [cur EXCEPT ![r] = Done]
  BY <1>0 DEF Receive, NextToken, Cancelled, TypeInv, TaskEvent, DownIdle
<1>2. /\ cur \in [Requests -> 0 .. Done] /\ tpc \in [Requests -> {"none", "recv", "stream", "persist"}]
      /\ \A q \in Requests : StreamTop[q] \in Nat /\ PersistTop[q] \in Nat
  BY <1>0, WorkerTypes
<1>3. Clean' = Clean /\ (Clean => stops = 0) /\ Handled' = Handled /\ Handled \in Int
  BY <1>0, <1>1 DEF Clean, Handled, TypeInv, ReaderTypes
<1>4. ASSUME NEW q \in Requests
      PROVE  /\ StreamTop[q] <= StreamTop'[q] /\ PersistTop[q] <= PersistTop'[q]
             /\ Clean => StreamTop'[q] = StreamTop[q] /\ PersistTop'[q] = PersistTop[q]
             /\ tpc'[q] = "none" <=> tpc[q] = "none"
  <2>1. CASE q = r
    <3>1. StreamTop[r] = cur[r] /\ PersistTop[r] = cur[r] /\ cur[r] \in 0 .. Done - 1
      BY <1>1, <1>2, Constants DEF StreamTop, PersistTop
    <3>2. StreamTop'[r] = cur'[r] - 1 /\ PersistTop'[r] = cur'[r] - 1
      BY <1>1, <1>2 DEF StreamTop, PersistTop
    <3>3. cur'[r] = cur[r] + 1 \/ (stops # 0 /\ cur'[r] = Done)
      BY <1>1, <1>2
    <3> QED  BY <1>1, <1>2, <1>3, <2>1, <3>1, <3>2, <3>3, Constants
  <2>2. CASE q # r
    BY <1>1, <1>2, <2>2 DEF StreamTop, PersistTop
  <2> QED  BY <2>1, <2>2
<1>5. StreamLine' /\ PersistLine'
  BY <1>0, <1>1, <1>3, <1>4, LinesKept
<1> QED  BY <1>0, <1>1, <1>3, <1>5, TriedKept DEF WorkerInv

\* A goroutine whose write fails.
LEMMA WorkerFails ==
  ASSUME WorkerInv, TypeInv', NEW r \in Requests, tpc' = [tpc EXCEPT ![r] = "none"], errors' \in {errors, errors + 1},
         UNCHANGED <<requests, pos, loop, cur, attempt, streamQ, persistQ, streamTopic, persistTopic, stops, rewound>>
  PROVE  WorkerInv'
<1>0. TypeInv /\ errors \in Nat /\ tpc \in [Requests -> {"none", "recv", "stream", "persist"}]
  BY WorkerTypes DEF WorkerInv
<1>1. (Clean' => Clean) /\ Handled' = Handled /\ Handled \in Int
  BY <1>0 DEF Clean, Handled, TypeInv, ReaderTypes
<1>2. ASSUME NEW q \in Requests
      PROVE  \/ tpc'[q] = "none"
             \/ /\ tpc'[q] # "none" /\ tpc'[q] = tpc[q] /\ StreamTop'[q] = StreamTop[q] /\ PersistTop'[q] = PersistTop[q]
                /\ StreamTop[q] \in Nat /\ PersistTop[q] \in Nat
  BY <1>0, WorkerTypes DEF StreamTop, PersistTop
<1>3. StreamLine' /\ PersistLine'
  BY <1>1, <1>2, LinesKept
<1> QED  BY <1>1, <1>3, TriedKept DEF WorkerInv

\* Execute writes event n of request r, the next, and goes on, or ends.
Writes(A, P, U, R, V, r, n) ==
  /\ P[r] # "none" /\ A[r] # 0 /\ n = U[r] + 1 /\ (R[r] = "none" \/ V[r] = n)
  /\ \A q \in Requests : q # r => R[q] = P[q] /\ V[q] = U[q]

\* What that does to the line.
LEMMA LineWritten ==
  ASSUME NEW T \in Seq(Event), NEW Q \in Seq(Event),
         NEW A \in [Requests -> Nat], NEW P, NEW U \in [Requests -> Nat], NEW C,
         LineInv(T, Q, A, P, U, C),
         NEW R, NEW V \in [Requests -> Nat], NEW r \in Requests, NEW n \in 1 .. Done, Writes(A, P, U, R, V, r, n)
  PROVE  LineInv(T, Append(Q, [req |-> r, att |-> A[r], n |-> n]), A, R, V, C)
<1> DEFINE e == [req |-> r, att |-> A[r], n |-> n]
           W == [U EXCEPT ![r] = n]
<1>0. /\ P[r] # "none" /\ A[r] # 0 /\ n = U[r] + 1 /\ (R[r] = "none" \/ V[r] = n)
      /\ \A q \in Requests : q # r => R[q] = P[q] /\ V[q] = U[q]
  BY DEF Writes
<1>1. LineInv(T, Append(Q, e), A, P, W, C)
  BY <1>0, LineAppend
<1>2. Append(Q, e) \in Seq(Event) /\ W \in [Requests -> Nat]
  BY AppendProperties, Constants DEF Event
<1>3. Onward(A, P, W, A, R, V, C)
  BY <1>0 DEF Onward
<1> HIDE DEF e, W
<1>4. LineInv(T, Append(Q, e), A, R, V, C)
  BY <1>1, <1>2, <1>3, LineKept, Zenon
<1> QED  BY <1>4 DEF e

\* Execute goes on, or ends, and what it has written for this topic is the same.
LEMMA LineSame ==
  ASSUME NEW T \in Seq(Event), NEW Q \in Seq(Event),
         NEW A \in [Requests -> Nat], NEW P, NEW U \in [Requests -> Nat], NEW C,
         LineInv(T, Q, A, P, U, C), NEW R, \A q \in Requests : R[q] = "none" \/ P[q] # "none"
  PROVE  LineInv(T, Q, A, R, U, C)
<1>1. \A i \in 1 .. Length(T, Q) : Event_(T, Q, i).req \in Requests
  BY LineTypes DEF Event
<1>2. Written(T, Q, A, R, U)
  BY <1>1 DEF LineInv, Written
<1>3. C => AllThere(T, Q, A, R, U)
  BY DEF LineInv, AllThere
<1> QED  BY <1>2, <1>3 DEF LineInv

\* A goroutine writes its event to stream-llm-fe.
LEMMA WorkerStream ==
  ASSUME WorkerInv, NEW r \in Requests, WriteStream(r)
  PROVE  WorkerInv'
<1> USE DEF reader, tasks, writers, topics, process
<1>0. TypeInv /\ TypeInv'
  BY TypeTask DEF WorkerInv
<1>1. /\ UNCHANGED <<requests, pos, loop, cur, attempt, persistQ, streamTopic, persistTopic, stops, rewound>>
      /\ tpc[r] = "stream" /\ cur[r] # 0 /\ attempt[r] # 0
      /\ \/ /\ streamQ' = Append(streamQ, Current(r)) /\ tpc' = [tpc EXCEPT ![r] = "persist"] /\ errors' = errors
         \/ streamQ' = streamQ /\ tpc' = [tpc EXCEPT ![r] = "none"] /\ errors' \in {errors, errors + 1}
  BY <1>0 DEF WriteStream, Finish, WriteFails, Failure, NoFailure, TypeInv, TaskEvent
<1>2. CASE streamQ' = streamQ
  <2>1. tpc' = [tpc EXCEPT ![r] = "none"] /\ errors' \in {errors, errors + 1}
    <3>1. streamQ \in Seq(Event) /\ Current(r) \in Event
      BY <1>0, <1>1, CurrentType, WorkerTypes
    <3>2. Append(streamQ, Current(r)) # streamQ
      <4>1. Len(Append(streamQ, Current(r))) = Len(streamQ) + 1 /\ Len(streamQ) \in Nat
        BY <3>1, AppendAt, LenProperties
      <4> QED  BY <4>1
    <3> QED  BY <1>1, <1>2, <3>2
  <2> QED  BY <1>0, <1>1, <1>2, <2>1, WorkerFails
<1>3. CASE streamQ' = Append(streamQ, Current(r)) /\ tpc' = [tpc EXCEPT ![r] = "persist"] /\ errors' = errors
  <2>1. /\ streamQ \in Seq(Event) /\ streamTopic \in Seq(Event) /\ attempt \in [Requests -> Nat]
        /\ StreamTop \in [Requests -> Nat] /\ StreamTop' \in [Requests -> Nat] /\ PersistTop \in [Requests -> Nat]
        /\ cur \in [Requests -> 0 .. Done] /\ tpc \in [Requests -> {"none", "recv", "stream", "persist"}]
    BY <1>0, WorkerTypes, WorkerTypesNext
  <2>2. Clean' = Clean /\ Handled' = Handled /\ Handled \in Int
    BY <1>0, <1>1, <1>3 DEF Clean, Handled, TypeInv, ReaderTypes
  <2>3. /\ cur[r] \in 1 .. Done /\ cur[r] = StreamTop[r] + 1 /\ StreamTop'[r] = cur[r]
        /\ \A q \in Requests : q # r => tpc'[q] = tpc[q] /\ StreamTop'[q] = StreamTop[q]
        /\ \A q \in Requests : PersistTop'[q] = PersistTop[q] /\ (tpc'[q] = "none" <=> tpc[q] = "none")
    BY <1>1, <1>3, <2>1, Constants DEF StreamTop, PersistTop
  <2>4. StreamLine'
    <3>1. LineInv(streamTopic, streamQ, attempt, tpc, StreamTop, Clean)
      BY DEF WorkerInv, StreamLine
    <3>2. LineInv(streamTopic, Append(streamQ, [req |-> r, att |-> attempt[r], n |-> cur[r]]), attempt, tpc', StreamTop', Clean)
      <4>1. Writes(attempt, tpc, StreamTop, tpc', StreamTop', r, cur[r]) /\ cur[r] \in 1 .. Done
        BY <1>1, <1>3, <2>1, <2>3 DEF Writes
      <4> QED  BY <2>1, <3>1, <4>1, LineWritten, Zenon
    <3>3. streamQ' = Append(streamQ, [req |-> r, att |-> attempt[r], n |-> cur[r]])
      BY <1>3 DEF Current
    <3> QED  BY <1>1, <2>2, <3>2, <3>3, Zenon DEF StreamLine
  <2>5. PersistLine'
    <3>1. PersistTop' = PersistTop
      BY <2>3 DEF PersistTop
    <3>2. LineInv(persistTopic, persistQ, attempt, tpc, PersistTop, Clean)
      BY DEF WorkerInv, PersistLine
    <3>3. persistQ \in Seq(Event) /\ persistTopic \in Seq(Event)
      BY <1>0, WorkerTypes
    <3>4. \A q \in Requests : tpc'[q] = "none" \/ tpc[q] # "none"
      BY <2>3
    <3>5. LineInv(persistTopic, persistQ, attempt, tpc', PersistTop, Clean)
      BY <2>1, <3>2, <3>3, <3>4, LineSame, Zenon
    <3> QED  BY <1>1, <2>2, <3>1, <3>5, Zenon DEF PersistLine
  <2> QED  BY <1>0, <1>1, <1>3, <2>2, <2>4, <2>5, TriedKept DEF WorkerInv
<1> QED  BY <1>1, <1>2, <1>3

\* A goroutine writes its event to persistence-llm, and ends if it is Done.
LEMMA WorkerPersist ==
  ASSUME WorkerInv, NEW r \in Requests, WritePersist(r)
  PROVE  WorkerInv'
<1> USE DEF reader, tasks, writers, topics, process
<1>0. TypeInv /\ TypeInv'
  BY TypeTask DEF WorkerInv
<1>1. /\ UNCHANGED <<requests, pos, loop, cur, attempt, streamQ, streamTopic, persistTopic, stops, rewound>>
      /\ tpc[r] = "persist" /\ cur[r] # 0 /\ attempt[r] # 0
      /\ \/ /\ persistQ' = Append(persistQ, Current(r)) /\ errors' = errors
            /\ tpc' = [tpc EXCEPT ![r] = "recv"] \/ tpc' = [tpc EXCEPT ![r] = "none"]
         \/ persistQ' = persistQ /\ tpc' = [tpc EXCEPT ![r] = "none"] /\ errors' \in {errors, errors + 1}
  BY <1>0 DEF WritePersist, Finish, WriteFails, Failure, NoFailure, TypeInv, TaskEvent
<1>2. CASE persistQ' = persistQ /\ tpc' = [tpc EXCEPT ![r] = "none"] /\ errors' \in {errors, errors + 1}
  BY <1>0, <1>1, <1>2, WorkerFails
<1>3. CASE /\ persistQ' = Append(persistQ, Current(r)) /\ errors' = errors
           /\ tpc' = [tpc EXCEPT ![r] = "recv"] \/ tpc' = [tpc EXCEPT ![r] = "none"]
  <2>1. /\ persistQ \in Seq(Event) /\ persistTopic \in Seq(Event) /\ attempt \in [Requests -> Nat]
        /\ PersistTop \in [Requests -> Nat] /\ PersistTop' \in [Requests -> Nat] /\ StreamTop \in [Requests -> Nat]
        /\ cur \in [Requests -> 0 .. Done] /\ tpc \in [Requests -> {"none", "recv", "stream", "persist"}]
    BY <1>0, WorkerTypes, WorkerTypesNext
  <2>2. Clean' = Clean /\ Handled' = Handled /\ Handled \in Int
    BY <1>0, <1>1, <1>3 DEF Clean, Handled, TypeInv, ReaderTypes
  <2>3. /\ cur[r] \in 1 .. Done /\ cur[r] = PersistTop[r] + 1 /\ PersistTop'[r] = cur[r]
        /\ \A q \in Requests : q # r => tpc'[q] = tpc[q] /\ PersistTop'[q] = PersistTop[q]
        /\ \A q \in Requests : StreamTop'[q] = StreamTop[q] /\ (tpc'[q] = "none" \/ tpc[q] # "none")
    BY <1>1, <1>3, <2>1, Constants DEF StreamTop, PersistTop
  <2>4. PersistLine'
    <3>1. LineInv(persistTopic, persistQ, attempt, tpc, PersistTop, Clean)
      BY DEF WorkerInv, PersistLine
    <3>2. LineInv(persistTopic, Append(persistQ, [req |-> r, att |-> attempt[r], n |-> cur[r]]), attempt, tpc', PersistTop', Clean)
      <4>1. Writes(attempt, tpc, PersistTop, tpc', PersistTop', r, cur[r]) /\ cur[r] \in 1 .. Done
        BY <1>1, <1>3, <2>1, <2>3 DEF Writes
      <4> QED  BY <2>1, <3>1, <4>1, LineWritten, Zenon
    <3>3. persistQ' = Append(persistQ, [req |-> r, att |-> attempt[r], n |-> cur[r]])
      BY <1>3 DEF Current
    <3> QED  BY <1>1, <2>2, <3>2, <3>3, Zenon DEF PersistLine
  <2>5. StreamLine'
    <3>1. StreamTop' = StreamTop
      BY <2>3 DEF StreamTop
    <3>2. LineInv(streamTopic, streamQ, attempt, tpc, StreamTop, Clean)
      BY DEF WorkerInv, StreamLine
    <3>3. streamQ \in Seq(Event) /\ streamTopic \in Seq(Event)
      BY <1>0, WorkerTypes
    <3>4. \A q \in Requests : tpc'[q] = "none" \/ tpc[q] # "none"
      BY <2>3
    <3>5. LineInv(streamTopic, streamQ, attempt, tpc', StreamTop, Clean)
      BY <2>1, <3>2, <3>3, <3>4, LineSame, Zenon
    <3> QED  BY <1>1, <2>2, <3>1, <3>5, Zenon DEF StreamLine
  <2> QED  BY <1>0, <1>1, <1>3, <2>2, <2>4, <2>5, TriedKept DEF WorkerInv
<1> QED  BY <1>1, <1>2, <1>3

\* Nothing happens to one of the lines, and the other one's batch may fail.
LEMMA LineFaults ==
  ASSUME NEW T \in Seq(Event), NEW Q \in Seq(Event),
         NEW A \in [Requests -> Nat], NEW P, NEW U \in [Requests -> Nat], NEW C, NEW D,
         LineInv(T, Q, A, P, U, C), D => C
  PROVE  LineInv(T, Q, A, P, U, D)
BY DEF LineInv

\* The writers send what they hold, or drop it.
LEMMA WorkerSends == ASSUME WorkerInv, SendStream \/ SendPersist PROVE WorkerInv'
<1> USE DEF reader, tasks, writers, topics, process
<1>0. TypeInv /\ TypeInv'
  BY TypeWriters DEF WorkerInv
<1>1. /\ UNCHANGED <<requests, pos, loop, tpc, cur, attempt, stops, rewound>> /\ errors' \in {errors, errors + 1}
      /\ errors \in Nat /\ attempt \in [Requests -> Nat]
      /\ StreamTop \in [Requests -> Nat] /\ PersistTop \in [Requests -> Nat]
      /\ streamQ \in Seq(Event) /\ persistQ \in Seq(Event)
      /\ streamTopic \in Seq(Event) /\ persistTopic \in Seq(Event)
  BY <1>0, WorkerTypes DEF SendStream, SendPersist, NoFailure, Failure
<1>2. /\ StreamTop' = StreamTop /\ PersistTop' = PersistTop /\ (Clean' => Clean /\ errors' = errors)
      /\ Handled' = Handled /\ Handled \in Int
  BY <1>0, <1>1 DEF StreamTop, PersistTop, Clean, Handled, TypeInv, ReaderTypes
<1>3. /\ LineInv(streamTopic, streamQ, attempt, tpc, StreamTop, Clean)
      /\ LineInv(persistTopic, persistQ, attempt, tpc, PersistTop, Clean)
  BY DEF WorkerInv, StreamLine, PersistLine
<1>4. CASE SendStream
  <2>1. /\ 1 \in 1 .. Len(streamQ) /\ Batch(streamTopic, streamQ, streamTopic', streamQ', 1)
        /\ streamQ' \in Seq(Event) /\ streamTopic' \in Seq(Event) /\ (Clean' => Clean /\ streamTopic' # streamTopic)
    <3>1. Len(streamQ) \in Nat
      BY <1>1, LenProperties
    <3> QED  BY <1>0, <1>1, <1>2, <1>4, <3>1, StreamBatch
  <2>2. LineInv(streamTopic', streamQ', attempt, tpc, StreamTop, Clean')
    <3>1. PICK k \in 1 .. Len(streamQ) : Batch(streamTopic, streamQ, streamTopic', streamQ', k)
      BY <2>1
    <3> QED  BY <1>1, <1>3, <2>1, <3>1, LineBatch, Zenon
  <2>3. LineInv(persistTopic, persistQ, attempt, tpc, PersistTop, Clean')
    <3>1. Clean' => Clean
      BY <1>2
    <3> QED  BY <1>1, <1>3, <3>1, LineFaults, Zenon
  <2>4. StreamLine' /\ PersistLine'
    <3>1. persistTopic' = persistTopic /\ persistQ' = persistQ
      BY <1>4 DEF SendStream
    <3> QED  BY <1>1, <1>2, <2>2, <2>3, <3>1, Zenon DEF StreamLine, PersistLine
  <2> QED  BY <1>0, <1>1, <1>2, <2>4, TriedKept DEF WorkerInv
<1>5. CASE SendPersist
  <2>1. PICK k \in 1 .. Len(persistQ) : Batch(persistTopic, persistQ, persistTopic', persistQ', k)
    BY <1>0, <1>5, PersistBatch
  <2>2. persistQ' \in Seq(Event) /\ persistTopic' \in Seq(Event) /\ (Clean' => Clean /\ persistTopic' # persistTopic)
    BY <1>0, <1>1, <1>2, <1>5, PersistBatch
  <2>3. LineInv(persistTopic', persistQ', attempt, tpc, PersistTop, Clean')
    BY <1>1, <1>3, <2>1, <2>2, LineBatch, ZenonT(40)
  <2>4. LineInv(streamTopic, streamQ, attempt, tpc, StreamTop, Clean')
    <3>1. Clean' => Clean
      BY <1>2
    <3> QED  BY <1>1, <1>3, <3>1, LineFaults, Zenon
  <2>5. StreamLine' /\ PersistLine'
    <3>1. streamTopic' = streamTopic /\ streamQ' = streamQ
      BY <1>5 DEF SendPersist
    <3> QED  BY <1>1, <1>2, <2>3, <2>4, <3>1, Zenon DEF StreamLine, PersistLine
  <2> QED  BY <1>0, <1>1, <1>2, <2>5, TriedKept DEF WorkerInv
<1> QED  BY <1>4, <1>5

\* The process stops, dies and comes back.
LEMMA WorkerProcess == ASSUME WorkerInv, Stop \/ Exit \/ Crash \/ Restart PROVE WorkerInv'
<1> USE DEF reader, tasks, writers, topics, process
<1>0. TypeInv /\ TypeInv'
  BY TypeProcess DEF WorkerInv
<1>1. /\ attempt \in [Requests -> Nat] /\ streamQ \in Seq(Event) /\ persistQ \in Seq(Event)
      /\ StreamTop \in [Requests -> Nat] /\ PersistTop \in [Requests -> Nat]
      /\ streamTopic \in Seq(Event) /\ persistTopic \in Seq(Event) /\ stops \in Nat
  BY <1>0, WorkerTypes
<1>2. /\ LineInv(streamTopic, streamQ, attempt, tpc, StreamTop, Clean)
      /\ LineInv(persistTopic, persistQ, attempt, tpc, PersistTop, Clean)
  BY DEF WorkerInv, StreamLine, PersistLine
<1>3. pos \in Int /\ committed \in 0 .. pos
  BY <1>0 DEF TypeInv, ReaderTypes
<1>4. CASE Stop \/ Restart
  <2>1. /\ UNCHANGED <<requests, loop, tpc, cur, attempt, streamQ, persistQ, streamTopic, persistTopic, errors>>
        /\ stops' \in {stops, stops + 1}
    BY <1>4 DEF Stop, Restart
  <2>2. StreamTop' = StreamTop /\ PersistTop' = PersistTop /\ (Clean' => Clean)
    BY <1>1, <2>1 DEF StreamTop, PersistTop, Clean
  <2>3. StreamLine' /\ PersistLine'
    <3>1. /\ LineInv(streamTopic, streamQ, attempt, tpc, StreamTop, Clean')
          /\ LineInv(persistTopic, persistQ, attempt, tpc, PersistTop, Clean')
      BY <1>1, <1>2, <2>2, LineFaults, Zenon
    <3> QED  BY <2>1, <2>2, <3>1, Zenon DEF StreamLine, PersistLine
  <2>4. CASE Stop
    <3>1. rewound' = rewound /\ Handled' = Handled /\ Handled \in Int
      BY <1>3, <2>4 DEF Stop, Handled
    <3> QED  BY <1>0, <2>1, <2>3, <3>1, TriedKept DEF WorkerInv
  <2>5. CASE Restart
    <3>1. loop = "fetch" /\ (rewound' = rewound \/ rewound')
      BY <1>0, <2>5 DEF Restart, TypeInv, DownIdle, ProcessTypes
    <3>2. CASE rewound'
      BY <1>0, <2>3, <3>2 DEF WorkerInv, TriedOnce
    <3>3. CASE ~ rewound'
      <4>0. ~ rewound /\ ~ (committed < pos) /\ pos' = committed
        BY <2>5, <3>3, Zenon DEF Restart
      <4>1. pos' = pos /\ ~ rewound
        BY <1>3, <4>0
      <4>2. Handled' = Handled
        BY <2>1, <4>1 DEF Handled
      <4> QED  BY <1>0, <2>1, <2>3, <3>3, <4>1, <4>2 DEF WorkerInv, TriedOnce
    <3> QED  BY <3>2, <3>3
  <2> QED  BY <1>4, <2>4, <2>5
<1>5. CASE Exit \/ Crash
  <2>1. /\ UNCHANGED <<requests, pos, attempt, streamTopic, persistTopic, errors, stops, rewound>>
        /\ streamQ' = << >> /\ persistQ' = << >> /\ loop' = "fetch" /\ \A r \in Requests : tpc'[r] = "none"
    BY <1>5 DEF Exit, Crash, LoseMemory
  <2>2. Clean' = Clean /\ Handled <= Handled'
    BY <1>3, <2>1 DEF Clean, Handled
  <2>3. LineInv(streamTopic, << >>, attempt, tpc', StreamTop', Clean)
    BY <1>1, <1>2, <2>1, LineLost, Zenon
  <2>4. LineInv(persistTopic, << >>, attempt, tpc', PersistTop', Clean)
    BY <1>1, <1>2, <2>1, LineLost, Zenon
  <2>5. StreamLine' /\ PersistLine'
    BY <2>1, <2>2, <2>3, <2>4, Zenon DEF StreamLine, PersistLine
  <2> QED  BY <1>0, <2>1, <2>2, <2>5, TriedKept DEF WorkerInv
<1> QED  BY <1>4, <1>5

\* Every step keeps the lines and the tries.
LEMMA WorkerStep == WorkerInv /\ [Next]_vars => WorkerInv'
<1> SUFFICES ASSUME WorkerInv, [Next]_vars PROVE WorkerInv'
  OBVIOUS
<1>1. CASE UNCHANGED vars
  <2>1. TypeInv'
    BY TypeStep DEF WorkerInv
  <2>2. /\ UNCHANGED <<requests, pos, loop, tpc, cur, attempt, streamQ, persistQ, streamTopic, persistTopic>>
        /\ UNCHANGED <<errors, stops, rewound>>
    BY <1>1 DEF vars, reader, tasks, writers, topics, process
  <2>3. StreamTop' = StreamTop /\ PersistTop' = PersistTop /\ Clean' = Clean /\ Handled' = Handled
    BY <2>2 DEF StreamTop, PersistTop, Clean, Handled
  <2>4. StreamLine' /\ PersistLine'
    BY <2>2, <2>3 DEF WorkerInv, StreamLine, PersistLine
  <2> QED  BY <2>1, <2>2, <2>3, <2>4 DEF WorkerInv, TriedOnce
<1> QED
  BY <1>1, WorkerReader, WorkerAcquire, WorkerReceive, WorkerStream, WorkerPersist, WorkerSends, WorkerProcess DEF Next

-----------------------------------------------------------------------------
(* What the topics say *)

\* A Done in a topic has the whole answer before it, unless a batch was lost or
\* ctx was cancelled: neither a crash between two events nor the replay after it
\* makes a truncated answer look complete.
THEOREM DoneIsTheEnd == Spec => []DoneMeansComplete
<1>1. ASSUME WorkerInv PROVE DoneMeansComplete
  <2>1. SUFFICES ASSUME Clean, NEW t \in {streamTopic, persistTopic}, NEW i \in DOMAIN t, t[i].n = Done,
                        NEW n \in 1 .. NumTokens
                 PROVE  \E j \in 1 .. i - 1 : t[j] = [t[i] EXCEPT !.n = n]
    BY DEF DoneMeansComplete, Clean
  <2>2. /\ streamQ \in Seq(Event) /\ persistQ \in Seq(Event)
        /\ streamTopic \in Seq(Event) /\ persistTopic \in Seq(Event)
    BY <1>1, WorkerTypes DEF WorkerInv
  <2>3. t \in Seq(Event) /\ DOMAIN t = 1 .. Len(t) /\ i \in 1 .. Len(t) /\ t[i] \in Event
    BY <2>2, LenProperties, ElementOfSeq
  <2>4. \A m \in 1 .. t[i].n - 1 : \E j \in 1 .. i - 1 : t[j] = [req |-> t[i].req, att |-> t[i].att, n |-> m]
    <3>1. CASE t = streamTopic
      <4>1. LineInv(t, streamQ, attempt, tpc, StreamTop, Clean)
        BY <1>1, <3>1, Zenon DEF WorkerInv, StreamLine
      <4> QED  BY <2>1, <2>2, <2>3, <4>1, LineTopic, ZenonT(40)
    <3>2. CASE t = persistTopic
      <4>1. LineInv(t, persistQ, attempt, tpc, PersistTop, Clean)
        BY <1>1, <3>2, Zenon DEF WorkerInv, PersistLine
      <4> QED  BY <2>1, <2>2, <2>3, <4>1, LineTopic, ZenonT(40)
    <3> QED  BY <3>1, <3>2
  <2>5. n \in 1 .. t[i].n - 1
    BY <2>1, Constants
  <2>6. [t[i] EXCEPT !.n = n] = [req |-> t[i].req, att |-> t[i].att, n |-> n]
    <3>1. PICK d \in Event : d = t[i]
      BY <2>3
    <3>2. [d EXCEPT !.n = n] = [req |-> d.req, att |-> d.att, n |-> n]
      BY DEF Event
    <3> QED  BY <3>1, <3>2, Zenon
  <2> QED  BY <2>4, <2>5, <2>6
<1> QED  BY <1>1, WorkerInit, WorkerStep, PTL DEF Spec

\* A request has the events of one answer in each topic, each once and in
\* order, unless a restart has read the request again.
THEOREM OneAnswerEach == Spec => []OneAnswer
<1>1. ASSUME WorkerInv PROVE OneAnswer
  <2>1. SUFFICES ASSUME ~ rewound, NEW t \in {streamTopic, persistTopic}, NEW i \in DOMAIN t, NEW j \in DOMAIN t,
                        t[i].req = t[j].req
                 PROVE  t[i].att = t[j].att /\ (i < j => t[i].n < t[j].n)
    BY DEF OneAnswer
  <2>2. /\ streamQ \in Seq(Event) /\ persistQ \in Seq(Event)
        /\ streamTopic \in Seq(Event) /\ persistTopic \in Seq(Event) /\ attempt \in [Requests -> Nat]
    BY <1>1, WorkerTypes DEF WorkerInv
  <2>3. t \in Seq(Event) /\ DOMAIN t = 1 .. Len(t) /\ t[i] \in Event /\ t[j] \in Event
    BY <2>2, LenProperties, ElementOfSeq
  <2>4. (\A k, l \in 1 .. Len(t) : k < l => Before(t[k], t[l])) /\ (\A k \in 1 .. Len(t) : t[k].att \in 1 .. attempt[t[k].req])
    <3>1. CASE t = streamTopic
      <4>1. LineInv(t, streamQ, attempt, tpc, StreamTop, Clean)
        BY <1>1, <3>1, Zenon DEF WorkerInv, StreamLine
      <4> QED  BY <2>2, <2>3, <4>1, LineTopic, Zenon
    <3>2. CASE t = persistTopic
      <4>1. LineInv(t, persistQ, attempt, tpc, PersistTop, Clean)
        BY <1>1, <3>2, Zenon DEF WorkerInv, PersistLine
      <4> QED  BY <2>2, <2>3, <4>1, LineTopic, Zenon
    <3> QED  BY <3>1, <3>2
  <2>5. PICK r \in Requests : r = t[i].req
    BY <2>3 DEF Event
  <2>6. attempt[r] \in Nat /\ (attempt[r] # 0 => attempt[r] = 1)
    BY <1>1, <2>1, <2>2 DEF WorkerInv, TriedOnce
  <2>7. t[i].att \in 1 .. attempt[r] /\ t[j].att \in 1 .. attempt[r]
    BY <2>1, <2>3, <2>4, <2>5, Zenon
  <2>8. t[i].att = 1 /\ t[j].att = 1
    BY <2>6, <2>7
  <2>9. i < j => Before(t[i], t[j])
    BY <2>3, <2>4
  <2> QED  BY <2>1, <2>8, <2>9 DEF Before
<1> QED  BY <1>1, WorkerInit, WorkerStep, PTL DEF Spec

-----------------------------------------------------------------------------
(* The two topics *)

\* Sending the first event a writer holds leaves the line of events as it is.
LEMMA OneSent ==
  ASSUME NEW T \in Seq(Event), NEW Q \in Seq(Event), Q # << >>
  PROVE  Append(T, Head(Q)) \o Tail(Q) = T \o Q
<1>1. Head(Q) \in Event /\ Tail(Q) \in Seq(Event) /\ << Head(Q) >> \in Seq(Event)
  BY HeadTailProperties
<1>2. << Head(Q) >> \o Tail(Q) = Q
  BY TailAt
<1>3. Append(T, Head(Q)) = T \o << Head(Q) >>
  BY <1>1, AppendIsConcat
<1>4. (T \o << Head(Q) >>) \o Tail(Q) = T \o (<< Head(Q) >> \o Tail(Q))
  BY <1>1, ConcatAssociative
<1> QED  BY <1>2, <1>3, <1>4

\* So does sending the first k.
LEMMA BatchSent ==
  ASSUME NEW T \in Seq(Event), NEW Q \in Seq(Event), NEW k \in 1 .. Len(Q)
  PROVE  (T \o SubSeq(Q, 1, k)) \o SubSeq(Q, k + 1, Len(Q)) = T \o Q
<1>1. Len(Q) \in Nat /\ \A i \in 1 .. Len(Q) : Q[i] \in Event
  BY LenProperties, ElementOfSeq
<1>2. SubSeq(Q, 1, k) \in Seq(Event) /\ SubSeq(Q, k + 1, Len(Q)) \in Seq(Event)
  BY <1>1, SubSeqProperties
<1>3. SubSeq(Q, 1, k) \o SubSeq(Q, k + 1, Len(Q)) = SubSeq(Q, 1, Len(Q))
  BY <1>1, ConcatAdjacentSubSeq
<1>4. SubSeq(Q, 1, Len(Q)) = Q
  BY <1>1, SubSeqFull
<1>5. (T \o SubSeq(Q, 1, k)) \o SubSeq(Q, k + 1, Len(Q)) = T \o (SubSeq(Q, 1, k) \o SubSeq(Q, k + 1, Len(Q)))
  <2>1. PICK u \in Seq(Event), v \in Seq(Event) : u = SubSeq(Q, 1, k) /\ v = SubSeq(Q, k + 1, Len(Q))
    BY <1>2
  <2>2. (T \o u) \o v = T \o (u \o v)
    <3> HIDE DEF Event
    <3> QED  BY SMTT(30)
  <2> QED  BY <2>1, <2>2
<1> QED  BY <1>3, <1>4, <1>5

\* An event that is written is the last of its line.
LEMMA OneWritten ==
  ASSUME NEW T \in Seq(Event), NEW Q \in Seq(Event), NEW e \in Event, NEW r
  PROVE  Of(T \o Append(Q, e), r) = IF e.req = r THEN Append(Of(T \o Q, r), e) ELSE Of(T \o Q, r)
<1>1. << e >> \in Seq(Event)
  OBVIOUS
<1>2. Append(Q, e) = Q \o << e >>
  BY AppendIsConcat
<1>3. (T \o Q) \o << e >> = T \o (Q \o << e >>)
  BY <1>1, ConcatAssociative
<1>4. PICK l \in Seq(Event) : l = T \o Q
  BY ConcatProperties
<1>5. Append(l, e) = l \o << e >>
  BY AppendIsConcat
<1>6. T \o Append(Q, e) = Append(l, e)
  BY <1>2, <1>3, <1>4, <1>5
<1>7. Of(Append(l, e), r) = IF e \in {f \in Event : f.req = r} THEN Append(Of(l, r), e) ELSE Of(l, r)
  BY SelectedAppend DEF Of
<1>8. e \in {f \in Event : f.req = r} <=> e.req = r
  OBVIOUS
<1> QED  BY <1>4, <1>6, <1>7, <1>8

\* What Execute has written of r on both topics, s and p, when it is at t with
\* event e.
Agrees(s, p, t, e) == s = IF t = "persist" THEN Append(p, e) ELSE p

StreamLineOf(r)  == Of(streamTopic \o streamQ, r)
PersistLineOf(r) == Of(persistTopic \o persistQ, r)

\* Without a fault the process is up, and the topics agree.
FaultFree ==
  Faults = 0 => phase = "up" /\ \A r \in Requests : Agrees(StreamLineOf(r), PersistLineOf(r), tpc[r], Current(r))

\* A step that leaves the lines as they are, and moves no request to or from
\* the point between its two writes.
LEMMA AgreesKept ==
  ASSUME \A r \in Requests : Agrees(StreamLineOf(r), PersistLineOf(r), tpc[r], Current(r)),
         \A r \in Requests : StreamLineOf(r)' = StreamLineOf(r) /\ PersistLineOf(r)' = PersistLineOf(r),
         \A r \in Requests : \/ tpc'[r] = tpc[r] /\ Current(r)' = Current(r)
                             \/ tpc[r] # "persist" /\ tpc'[r] # "persist"
  PROVE  \A r \in Requests : Agrees(StreamLineOf(r)', PersistLineOf(r)', tpc'[r], Current(r)')
BY DEF Agrees

\* A request that is acquired is not being processed already.
LEMMA AcquiredIsNew ==
  ASSUME TypeInv, loop = "acquire"
  PROVE  requests[pos] \in Requests /\ tpc[requests[pos]] = "none"
<1>1. /\ requests \in Seq(Requests) /\ pos \in 1 .. Len(requests) /\ Len(requests) \in Nat
      /\ DOMAIN requests = 1 .. Len(requests) /\ Handled = pos - 1
  BY LenProperties DEF TypeInv, ReaderTypes, BusyFetched, Handled
<1>2. requests[pos] \in Requests
  BY <1>1, ElementOfSeq
<1>3. \A i \in 1 .. pos - 1 : i \in DOMAIN requests /\ i # pos
  BY <1>1
<1>4. \A i \in 1 .. pos - 1 : requests[i] # requests[pos]
  BY <1>1, <1>3 DEF TypeInv, PublishedOnce
<1> QED  BY <1>1, <1>2, <1>4 DEF TypeInv, BusyFetched

\* Every step keeps the agreement.
LEMMA AgreeStep ==
  ASSUME TypeInv, FaultFree, [Next]_vars
  PROVE  FaultFree'
<1> USE DEF reader, tasks, writers, topics, process
<1>0. TypeInv'
  BY TypeStep
<1> SUFFICES ASSUME Faults' = 0
             PROVE  phase' = "up" /\ \A r \in Requests : Agrees(StreamLineOf(r)', PersistLineOf(r)', tpc'[r], Current(r)')
  BY DEF FaultFree
<1>2. /\ crashes \in Nat /\ stops \in Nat /\ errors \in Nat
      /\ crashes' \in Nat /\ stops' \in Nat /\ errors' \in Nat
  BY <1>0 DEF TypeInv, ProcessTypes
<1>3. crashes' = 0 /\ stops' = 0 /\ errors' = 0
  <2>1. Faults' = crashes' + stops' + errors'
    BY DEF Faults
  <2>2. PICK x \in Nat, y \in Nat, z \in Nat : x = crashes' /\ y = stops' /\ z = errors'
    BY <1>2
  <2>3. Faults' = x + y + z
    BY <2>1, <2>2
  <2>4. Faults' = 0
    OBVIOUS
  <2>5. x + y + z = 0
    BY <2>3, <2>4, Zenon
  <2>6. x = 0 /\ y = 0 /\ z = 0
    BY <2>5
  <2> QED  BY <2>2, <2>6
<1>4. /\ streamQ \in Seq(Event) /\ persistQ \in Seq(Event)
      /\ streamTopic \in Seq(Event) /\ persistTopic \in Seq(Event)
      /\ tpc \in [Requests -> {"none"} \cup Busy]
      /\ cur \in [Requests -> 0 .. Done] /\ attempt \in [Requests -> Nat]
  BY DEF TypeInv, WriterTypes, TaskTypes
<1>5. ~ Failure
  BY <1>2, <1>3 DEF Failure
<1>6. Faults = 0
  <2>1. crashes <= crashes' /\ stops <= stops' /\ errors <= errors'
    BY <1>2 DEF Next, vars, PublishRequest, Fetch, Acquire, LoopExit, CommitTick, Receive, WriteStream, WritePersist,
                SendStream, SendPersist, Stop, Exit, Crash, Restart, LoseMemory, NoFailure, Failure, WriteFails
  <2> QED  BY <1>2, <1>3, <2>1 DEF Faults
<1>7. phase = "up" /\ \A r \in Requests : Agrees(StreamLineOf(r), PersistLineOf(r), tpc[r], Current(r))
  BY <1>6 DEF FaultFree
<1>8. ASSUME UNCHANGED <<streamTopic, streamQ>> PROVE \A r : StreamLineOf(r)' = StreamLineOf(r)
  BY <1>8, Zenon DEF StreamLineOf
<1>9. ASSUME UNCHANGED <<persistTopic, persistQ>> PROVE \A r : PersistLineOf(r)' = PersistLineOf(r)
  BY <1>9, Zenon DEF PersistLineOf
<1>10. ASSUME UNCHANGED <<tpc, cur, attempt, phase>>,
              \A r \in Requests : StreamLineOf(r)' = StreamLineOf(r) /\ PersistLineOf(r)' = PersistLineOf(r)
       PROVE  phase' = "up" /\ \A r \in Requests : Agrees(StreamLineOf(r)', PersistLineOf(r)', tpc'[r], Current(r)')
  BY <1>7, <1>10 DEF Current
<1>11. CASE UNCHANGED <<tpc, cur, attempt, phase, streamTopic, streamQ, persistTopic, persistQ>>
  BY <1>8, <1>9, <1>10, <1>11
<1>12. CASE (\E r \in Requests : PublishRequest(r)) \/ Fetch \/ LoopExit \/ CommitTick \/ UNCHANGED vars
  BY <1>11, <1>12 DEF PublishRequest, Fetch, LoopExit, CommitTick, vars
<1>13. CASE Stop \/ Exit \/ Crash \/ Restart
  BY <1>2, <1>3, <1>7, <1>13 DEF Stop, Exit, Crash, Restart, Cancelled
<1>14. CASE SendStream
  <2>1. UNCHANGED <<tpc, cur, attempt, phase, persistTopic, persistQ>>
    BY <1>14 DEF SendStream
  <2>2. /\ streamQ # << >> /\ streamQ' = Tail(streamQ) /\ streamTopic' = Append(streamTopic, Head(streamQ))
    BY <1>5, <1>14 DEF SendStream
  <2>3. streamTopic' \o streamQ' = streamTopic \o streamQ
    BY <1>4, <2>2, OneSent
  <2>4. \A r : StreamLineOf(r)' = StreamLineOf(r)
    BY <2>3, Zenon DEF StreamLineOf
  <2> QED  BY <1>9, <1>10, <2>1, <2>4
<1>15. CASE SendPersist
  <2>1. UNCHANGED <<tpc, cur, attempt, phase, streamTopic, streamQ>>
    BY <1>15 DEF SendPersist
  <2>2. PICK k \in 1 .. Len(persistQ) :
          persistQ' = SubSeq(persistQ, k + 1, Len(persistQ)) /\ persistTopic' = persistTopic \o SubSeq(persistQ, 1, k)
    BY <1>5, <1>15 DEF SendPersist
  <2>3. persistTopic' \o persistQ' = persistTopic \o persistQ
    BY <1>4, <2>2, BatchSent
  <2>4. \A r : PersistLineOf(r)' = PersistLineOf(r)
    BY <2>3, Zenon DEF PersistLineOf
  <2> QED  BY <1>8, <1>10, <2>1, <2>4
<1>16. ASSUME UNCHANGED <<phase, streamTopic, streamQ, persistTopic, persistQ>>,
              NEW r \in Requests, tpc[r] # "persist", tpc'[r] # "persist",
              \A q \in Requests \ {r} : tpc'[q] = tpc[q] /\ cur'[q] = cur[q] /\ attempt'[q] = attempt[q]
       PROVE  phase' = "up" /\ \A q \in Requests : Agrees(StreamLineOf(q)', PersistLineOf(q)', tpc'[q], Current(q)')
  <2>1. \A q \in Requests : \/ tpc'[q] = tpc[q] /\ Current(q)' = Current(q)
                            \/ tpc[q] # "persist" /\ tpc'[q] # "persist"
    BY <1>16 DEF Current
  <2>2. \A q \in Requests : StreamLineOf(q)' = StreamLineOf(q) /\ PersistLineOf(q)' = PersistLineOf(q)
    BY <1>8, <1>9, <1>16
  <2> QED  BY <1>7, <1>16, <2>1, <2>2, AgreesKept, Zenon
<1>17. CASE Acquire
  <2>1. PICK r \in Requests : /\ r = requests[pos] /\ tpc[r] = "none" /\ tpc' = [tpc EXCEPT ![r] = "recv"]
                              /\ cur' = [cur EXCEPT ![r] = 0] /\ attempt' = [attempt EXCEPT ![r] = @ + 1]
    BY <1>17, AcquiredIsNew DEF Acquire
  <2>2. UNCHANGED <<phase, streamTopic, streamQ, persistTopic, persistQ>>
    BY <1>17 DEF Acquire
  <2> QED  BY <1>4, <1>16, <2>1, <2>2
<1>18. ASSUME NEW r \in Requests, Receive(r)
       PROVE  phase' = "up" /\ \A q \in Requests : Agrees(StreamLineOf(q)', PersistLineOf(q)', tpc'[q], Current(q)')
  <2>1. /\ UNCHANGED <<phase, streamTopic, streamQ, persistTopic, persistQ, attempt>>
        /\ tpc[r] = "recv" /\ tpc' = [tpc EXCEPT ![r] = "stream"] /\ \E n : cur' = [cur EXCEPT ![r] = n]
    BY <1>18 DEF Receive
  <2> QED  BY <1>4, <1>16, <2>1
<1>19. ASSUME NEW r \in Requests, WriteStream(r)
       PROVE  phase' = "up" /\ \A q \in Requests : Agrees(StreamLineOf(q)', PersistLineOf(q)', tpc'[q], Current(q)')
  <2>1. /\ UNCHANGED <<phase, cur, attempt, streamTopic, persistTopic, persistQ>>
        /\ tpc[r] = "stream" /\ tpc' = [tpc EXCEPT ![r] = "persist"] /\ streamQ' = Append(streamQ, Current(r))
    BY <1>5, <1>7, <1>19 DEF WriteStream, WriteFails, Cancelled
  <2>2. Current(r) \in Event /\ Current(r).req = r
    <3>1. cur[r] \in 1 .. Done /\ attempt[r] \in Nat
      BY <1>4, <2>1, Constants DEF TypeInv, TaskEvent
    <3> QED  BY <3>1 DEF Current, Event
  <2>3. \A q : StreamLineOf(q)' = IF r = q THEN Append(StreamLineOf(q), Current(r)) ELSE StreamLineOf(q)
    <3>1. PICK e \in Event : e = Current(r) /\ e.req = r
      BY <2>2
    <3>2. \A q : Of(streamTopic \o Append(streamQ, e), q) =
                   IF e.req = q THEN Append(Of(streamTopic \o streamQ, q), e) ELSE Of(streamTopic \o streamQ, q)
      BY <1>4, OneWritten
    <3> QED  BY <2>1, <3>1, <3>2, Zenon DEF StreamLineOf
  <2>4. \A q : PersistLineOf(q)' = PersistLineOf(q) /\ Current(q)' = Current(q)
    BY <1>9, <2>1 DEF Current
  <2>5. tpc'[r] = "persist" /\ \A q \in Requests \ {r} : tpc'[q] = tpc[q]
    BY <1>4, <2>1
  <2> QED  BY <1>7, <2>1, <2>3, <2>4, <2>5 DEF Agrees
<1>20. ASSUME NEW r \in Requests, WritePersist(r)
       PROVE  phase' = "up" /\ \A q \in Requests : Agrees(StreamLineOf(q)', PersistLineOf(q)', tpc'[q], Current(q)')
  <2>1. /\ UNCHANGED <<phase, cur, attempt, streamTopic, persistTopic, streamQ>> /\ persistQ' = Append(persistQ, Current(r))
        /\ tpc[r] = "persist" /\ (tpc' = [tpc EXCEPT ![r] = "recv"] \/ tpc' = [tpc EXCEPT ![r] = "none"])
    BY <1>5, <1>7, <1>20 DEF WritePersist, WriteFails, Cancelled, Finish
  <2>2. Current(r) \in Event /\ Current(r).req = r
    <3>1. cur[r] \in 1 .. Done /\ attempt[r] \in Nat
      BY <1>4, <2>1, Constants DEF TypeInv, TaskEvent
    <3> QED  BY <3>1 DEF Current, Event
  <2>3. \A q : PersistLineOf(q)' = IF r = q THEN Append(PersistLineOf(q), Current(r)) ELSE PersistLineOf(q)
    <3>1. PICK e \in Event : e = Current(r) /\ e.req = r
      BY <2>2
    <3>2. \A q : Of(persistTopic \o Append(persistQ, e), q) =
                   IF e.req = q THEN Append(Of(persistTopic \o persistQ, q), e) ELSE Of(persistTopic \o persistQ, q)
      BY <1>4, OneWritten
    <3> QED  BY <2>1, <3>1, <3>2, Zenon DEF PersistLineOf
  <2>4. \A q : StreamLineOf(q)' = StreamLineOf(q) /\ Current(q)' = Current(q)
    BY <1>8, <2>1 DEF Current
  <2>5. tpc'[r] # "persist" /\ \A q \in Requests \ {r} : tpc'[q] = tpc[q]
    BY <1>4, <2>1
  <2> QED  BY <1>7, <2>1, <2>3, <2>4, <2>5 DEF Agrees
<1> QED
  BY <1>12, <1>13, <1>14, <1>15, <1>17, <1>18, <1>19, <1>20 DEF Next

\* Until something fails the topics carry the same answers, but for the one
\* event between the two writes of PublishToken.
THEOREM SameOnBothTopics == Spec => []TopicsAgree
<1>1. Init => TypeInv /\ FaultFree
  <2> SUFFICES ASSUME Init PROVE FaultFree
    BY TypeInit
  <2>1. /\ streamTopic \o streamQ = persistTopic \o persistQ /\ phase = "up"
        /\ \A r \in Requests : tpc[r] # "persist"
    BY DEF Init
  <2> QED  BY <2>1 DEF FaultFree, Agrees, StreamLineOf, PersistLineOf
<1>2. TypeInv /\ FaultFree /\ [Next]_vars => (TypeInv /\ FaultFree)'
  BY TypeStep, AgreeStep
<1>3. FaultFree => TopicsAgree
  BY Zenon DEF FaultFree, TopicsAgree, Agrees, StreamLineOf, PersistLineOf
<1> QED  BY <1>1, <1>2, <1>3, PTL DEF Spec
=============================================================================
