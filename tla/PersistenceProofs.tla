-------------------------- MODULE PersistenceProofs --------------------------
(***************************************************************************)
(* Proofs about Persistence, for any set of requests, any number of tokens,*)
(* any threshold and any number of faults.                                 *)
(***************************************************************************)
EXTENDS Persistence, SequenceTheorems, TLAPS

-----------------------------------------------------------------------------
(* Types *)

\* What TypeOK needs to be inductive: AddToken is only reached with an event
\* in hand, and a dead process is nowhere in its loops.
Control ==
  /\ loop = "add" => fetchPos >= 1
  /\ phase = "down" =>
       loop = "fetch" /\ ~final /\ ~flushing /\ fpc = [f \in Flushers |-> "idle"]

TypeInv == TypeOK /\ Control

\* Init establishes the types.
LEMMA TypeInit == Init => TypeInv
<1> SUFFICES ASSUME Init PROVE TypeInv
  OBVIOUS
<1>1. NoContent \in [Requests -> Content] /\ log \in Seq(TokenEvent) /\ Len(log) = 0
  BY DEF Init, NoContent, Content
<1>2. clean \in BOOLEAN /\ rewound \in BOOLEAN /\ flushing \in BOOLEAN /\ final \in BOOLEAN
  BY Zenon DEF Init
<1> QED  BY <1>1, <1>2 DEF Init, TypeInv, TypeOK, Control, Active

\* The parts of a well-typed state that the actions read.
LEMMA InHandType == ASSUME TypeInv, loop = "add"
                    PROVE  InHand \in TokenEvent /\ fetchPos \in 1 .. Len(log)
BY ElementOfSeq DEF TypeInv, TypeOK, Control, InHand

\* Concatenation of texts is a text.
LEMMA ContentConcat == ASSUME NEW s \in Content, NEW t \in Content
                       PROVE  s \o t \in Content
BY ConcatProperties DEF Content

\* The buffers Flush leaves behind are empty texts.
LEMMA NoContentType == NoContent \in [Requests -> Content]
BY DEF NoContent, Content

\* Ending a flush keeps the types of what it holds.
LEMMA EndFlushType ==
  ASSUME TypeInv, NEW f \in Flushers, EndFlush(f)
  PROVE  /\ fpc' \in [Flushers -> {"idle", "stopped"} \cup Active]
         /\ snapKeys' \in [Flushers -> SUBSET Requests]
         /\ snap' \in [Flushers -> [Requests -> Content]]
         /\ existing' \in [Flushers -> [Requests -> Content]]
BY NoContentType DEF TypeInv, TypeOK, EndFlush, Active

\* Every step keeps the types, whatever fails.
LEMMA TypeStep == TypeInv /\ [Next]_vars => TypeInv'
<1> SUFFICES ASSUME TypeInv, [Next]_vars PROVE TypeInv'
  OBVIOUS
<1> USE PersistenceAssumption
<1> USE DEF TypeInv, Control, kafka, reader, useCase, flushes, db, process, history
<1>1. ASSUME NEW r \in Requests, PublishToken(r) PROVE TypeInv'
  <2>1. log' \in Seq(TokenEvent) /\ Len(log') = Len(log) + 1
    BY <1>1, AppendProperties DEF PublishToken, TypeOK, TokenEvent, Content
  <2>2. emitted' \in [Requests -> Nat]
    BY <1>1 DEF PublishToken, TypeOK
  <2> QED  BY <1>1, <2>1, <2>2 DEF PublishToken, TypeOK
<1>2. CASE Fetch
  <2>1. log[fetchPos + 1] \in TokenEvent
    BY <1>2, ElementOfSeq DEF Fetch, TypeOK
  <2>2. consumed' \in [Requests -> Content]
    BY <1>2, <2>1, ContentConcat DEF Fetch, TypeOK, TokenEvent
  <2> QED  BY <1>2, <2>2 DEF Fetch, TypeOK, Running
<1>3. CASE AddToken
  <2>1. InHand \in TokenEvent
    BY <1>3, InHandType DEF AddToken
  <2>2. buffers' \in [Requests -> Content] /\ keys' \in SUBSET Requests
    BY <1>3, <2>1, ContentConcat DEF AddToken, TypeOK, TokenEvent
  <2> QED  BY <1>3, <2>2 DEF AddToken, TypeOK, Running
<1>4. CASE ShouldFlush
  BY <1>4 DEF ShouldFlush, TypeOK, Running
<1>5. CASE TryThresholdFlush
  BY <1>5 DEF TryThresholdFlush, Acquire, TypeOK, Running, Active
<1>6. CASE LoopExit
  BY <1>6 DEF LoopExit, TypeOK, Cancelled
<1>7. CASE CommitTick
  BY <1>7 DEF CommitTick, TypeOK, Running
<1>8. CASE Tick
  BY <1>8 DEF Tick, Acquire, TypeOK, Running, Active
<1>9. CASE FinalFlush
  BY <1>9 DEF FinalFlush, TypeOK, Cancelled, Active
<1>10. ASSUME NEW f \in Flushers, Snapshot(f) PROVE TypeInv'
  <2>1. phase # "down"
    BY <1>10 DEF Snapshot
  <2>2. keys' \in SUBSET Requests /\ buffers' \in [Requests -> Content] /\ count' \in Nat
    BY <1>10, NoContentType DEF Snapshot, TypeOK
  <2>3. CASE EndFlush(f)
    BY <1>10, <2>1, <2>2, <2>3, EndFlushType DEF Snapshot, TypeOK
  <2>4. CASE ~EndFlush(f)
    BY <1>10, <2>1, <2>2, <2>4, ZenonT(40) DEF Snapshot, TypeOK, Active, Querying
  <2> QED  BY <2>3, <2>4
<1>11. ASSUME NEW f \in Flushers, ReadExisting(f) PROVE TypeInv'
  <2>1. phase # "down"
    BY <1>11 DEF ReadExisting
  <2>2. CASE EndFlush(f)
    BY <1>11, <2>1, <2>2, EndFlushType DEF ReadExisting, TypeOK
  <2>3. CASE ~EndFlush(f)
    <3> DEFINE read == [r \in Requests |-> IF r \in snapKeys[f] THEN messages[r] ELSE << >>]
    <3>1. read \in [Requests -> Content]
      BY EmptySeq DEF TypeOK, Content
    <3>2. existing' = [existing EXCEPT ![f] = read]
      BY <1>11, <2>3, Zenon DEF ReadExisting
    <3>3. existing' \in [Flushers -> [Requests -> Content]]
      BY <3>1, <3>2 DEF TypeOK
    <3> HIDE DEF read
    <3> QED  BY <1>11, <2>1, <2>3, <3>3 DEF ReadExisting, TypeOK, Active, Querying
  <2> QED  BY <2>2, <2>3
<1>12. ASSUME NEW f \in Flushers, InsertSessions(f) PROVE TypeInv'
  <2>1. phase # "down"
    BY <1>12 DEF InsertSessions
  <2>2. sessions' \in SUBSET Sessions
    BY <1>12 DEF InsertSessions, TypeOK
  <2>3. CASE EndFlush(f)
    BY <1>12, <2>1, <2>2, <2>3, EndFlushType DEF InsertSessions, TypeOK
  <2>4. CASE ~EndFlush(f)
    BY <1>12, <2>1, <2>2, <2>4 DEF InsertSessions, TypeOK, Active, Querying
  <2> QED  BY <2>3, <2>4
<1>13. ASSUME NEW f \in Flushers, UpsertMessages(f) PROVE TypeInv'
  <2>1. phase # "down"
    BY <1>13 DEF UpsertMessages
  <2>2. \A r \in Requests : Merged(f, r) \in Content
    BY ContentConcat DEF Merged, TypeOK
  <2>3. messages' \in [Requests -> Content] /\ rows' \in SUBSET Requests
    BY <1>13, <2>2 DEF UpsertMessages, TypeOK
  <2> QED  BY <1>13, <2>1, <2>3, EndFlushType DEF UpsertMessages, TypeOK
<1>14. ASSUME NEW f \in Flushers, QueryFails(f) PROVE TypeInv'
  <2>1. phase # "down"
    BY <1>14 DEF QueryFails, Querying
  <2>2. clean' \in BOOLEAN
    BY <1>14, Zenon DEF QueryFails, TypeOK
  <2> QED  BY <1>14, <2>1, <2>2, EndFlushType DEF QueryFails, TypeOK
<1>15. ASSUME NEW f \in Flushers, Release(f) PROVE TypeInv'
  BY <1>15 DEF Release, TypeOK
<1>16. CASE Stop
  <2>1. clean' \in BOOLEAN
    BY <1>16, Zenon DEF Stop
  <2> QED  BY <1>16, <2>1 DEF Stop, TypeOK
<1>17. CASE CloseDB
  BY <1>17 DEF CloseDB, TypeOK
<1>18. CASE Exit
  BY <1>18, NoContentType DEF Exit, LoseMemory, TypeOK, Active
<1>19. CASE Crash
  <2>1. clean' \in BOOLEAN /\ flushing' \in BOOLEAN /\ final' \in BOOLEAN
    BY <1>19, Zenon DEF Crash, LoseMemory
  <2> QED  BY <1>19, <2>1, NoContentType DEF Crash, LoseMemory, TypeOK, Active
<1>20. CASE Restart
  BY <1>20 DEF Restart, TypeOK
<1>21. CASE UNCHANGED vars
  BY <1>21 DEF vars, TypeOK
<1> QED
  BY <1>1, <1>2, <1>3, <1>4, <1>5, <1>6, <1>7, <1>8, <1>9, <1>10, <1>11, <1>12,
     <1>13, <1>14, <1>15, <1>16, <1>17, <1>18, <1>19, <1>20, <1>21 DEF Next

\* The types hold, and the committed offset never passes the queued one, nor
\* that one the offset fetched, through every crash, restart and shutdown.
THEOREM TypesHold == Spec => []TypeOK
<1>1. TypeInv => TypeOK
  BY DEF TypeInv
<1> QED  BY TypeInit, TypeStep, <1>1, PTL DEF Spec

-----------------------------------------------------------------------------
(* One flush at a time *)

\* w.flushing guards the flushes as long as ctx is not cancelled: a flush
\* that is under way has set it, only one has, and runFlusher has not turned
\* to its last flush, which does not look at w.flushing.
Mutex ==
  phase = "up" =>
    /\ ~final
    /\ \A f \in Flushers : fpc[f] # "stopped"
    /\ \A f \in Flushers : fpc[f] \in Active => flushing
    /\ \A f, g \in Flushers : fpc[f] \in Active /\ fpc[g] \in Active => f = g

\* The service starts with no flush under way.
LEMMA MutexInit == Init => Mutex
BY DEF Init, Mutex, Active, Querying

\* No step that leaves the service up lets a second flush in.
LEMMA MutexStep == TypeInv /\ Mutex /\ [Next]_vars => Mutex'
<1> SUFFICES ASSUME TypeInv, Mutex, [Next]_vars, phase' = "up" PROVE Mutex'
  BY DEF Mutex
<1> USE DEF kafka, reader, useCase, flushes, db, process, history
<1>1. CASE UNCHANGED <<phase, fpc, flushing, final>>
  BY <1>1 DEF Mutex
<1>2. ASSUME NEW f \in Flushers, Acquire(f), UNCHANGED <<phase, final>>
      PROVE Mutex'
  BY <1>2 DEF Acquire, Mutex, TypeInv, TypeOK
<1>3. ASSUME NEW f \in Flushers, NEW pc \in Active, UNCHANGED <<phase, final, flushing>>,
             fpc[f] \in Active, fpc' = [fpc EXCEPT ![f] = pc]
      PROVE Mutex'
  <2>1. pc # "stopped"
    BY DEF Active, Querying
  <2> QED  BY <1>3, <2>1 DEF Mutex, TypeInv, TypeOK
<1>4. CASE TryThresholdFlush
  BY <1>1, <1>2, <1>4 DEF TryThresholdFlush, Flushers
<1>5. CASE Tick
  BY <1>2, <1>5 DEF Tick, Flushers
<1>6. CASE FinalFlush
  BY <1>6 DEF FinalFlush, Cancelled
<1>7. ASSUME NEW f \in Flushers,
             Snapshot(f) \/ ReadExisting(f) \/ InsertSessions(f) \/ UpsertMessages(f)
               \/ QueryFails(f)
      PROVE Mutex'
  <2>1. fpc[f] \in Active /\ UNCHANGED <<phase, final, flushing>>
    BY <1>7 DEF Snapshot, ReadExisting, InsertSessions, UpsertMessages, QueryFails,
                Active, Querying
  <2>2. \E pc \in Active : fpc' = [fpc EXCEPT ![f] = pc]
    BY <1>7 DEF Snapshot, ReadExisting, InsertSessions, UpsertMessages, QueryFails,
                EndFlush, Active, Querying
  <2> QED  BY <1>3, <2>1, <2>2
<1>8. ASSUME NEW f \in Flushers, Release(f) PROVE Mutex'
  <2>1. phase = "up" /\ fpc[f] \in Active /\ ~IsFinal(f)
    BY <1>8 DEF Release, Mutex, Active, IsFinal
  <2>2. fpc' = [fpc EXCEPT ![f] = "idle"] /\ UNCHANGED <<phase, final>>
    BY <1>8, <2>1 DEF Release
  <2>3. "idle" \notin Active
    BY DEF Active, Querying
  <2>4. \A g \in Flushers : fpc'[g] \notin Active
    BY <2>1, <2>2, <2>3 DEF Mutex, TypeInv, TypeOK
  <2> QED  BY <2>1, <2>2, <2>4 DEF Mutex, TypeInv, TypeOK
<1>9. CASE Restart
  <2>1. fpc' = [f \in Flushers |-> "idle"] /\ ~final'
    BY <1>9 DEF Restart, TypeInv, Control
  <2> QED  BY <2>1 DEF Mutex, Active, Querying
<1>10. CASE Stop \/ CloseDB \/ Exit \/ Crash
  BY <1>10 DEF Stop, CloseDB, Exit, Crash, LoseMemory
<1>11. CASE Fetch \/ AddToken \/ ShouldFlush \/ LoopExit \/ CommitTick
            \/ \E r \in Requests : PublishToken(r)
  BY <1>1, <1>11 DEF Fetch, AddToken, ShouldFlush, LoopExit, CommitTick, PublishToken
<1>12. CASE UNCHANGED vars
  BY <1>1, <1>12 DEF vars
<1> QED
  BY <1>4, <1>5, <1>6, <1>7, <1>8, <1>9, <1>10, <1>11, <1>12 DEF Next

\* While the service is up at most one flush is under way, for any number of
\* tokens and any threshold: the CompareAndSwap on w.flushing excludes the
\* ticker and the threshold flush from each other, also after every restart.
THEOREM FlushMutex == Spec => []OneFlushAtATime
<1>1. Mutex => OneFlushAtATime
  BY DEF Mutex, OneFlushAtATime
<1>2. Init => TypeInv /\ Mutex
  BY TypeInit, MutexInit
<1>3. TypeInv /\ Mutex /\ [Next]_vars => (TypeInv /\ Mutex)'
  BY TypeStep, MutexStep
<1> QED  BY <1>1, <1>2, <1>3, PTL DEF Spec

-----------------------------------------------------------------------------
(* Message rows have their session *)

\* A flush that is about to write messages has written their sessions.
SessionsFirst ==
  \A f \in Flushers : fpc[f] = "upsert" =>
    \A r \in snapKeys[f] : SessionOf[r] \in sessions

\* The tables start empty, so no message row lacks its session.
LEMMA SessionInit == Init => SessionsFirst /\ RowsHaveSession
BY DEF Init, SessionsFirst, RowsHaveSession

\* No step, a crash between the two statements included, leaves a message
\* without its session.
LEMMA SessionStep ==
  TypeInv /\ SessionsFirst /\ RowsHaveSession /\ [Next]_vars
    => (SessionsFirst /\ RowsHaveSession)'
<1> SUFFICES ASSUME TypeInv, SessionsFirst, RowsHaveSession, [Next]_vars
             PROVE  (SessionsFirst /\ RowsHaveSession)'
  OBVIOUS
<1> USE DEF kafka, reader, useCase, flushes, db, process, history
<1>1. CASE UNCHANGED <<fpc, snapKeys, sessions, rows>>
  BY <1>1 DEF SessionsFirst, RowsHaveSession
\* A flush that moves to a place other than the upsert, with the same tables
<1>2. ASSUME NEW f \in Flushers, UNCHANGED <<sessions, rows>>,
             fpc'[f] # "upsert",
             \A g \in Flushers \ {f} : fpc'[g] = fpc[g] /\ snapKeys'[g] = snapKeys[g]
      PROVE (SessionsFirst /\ RowsHaveSession)'
  BY <1>2 DEF SessionsFirst, RowsHaveSession
<1>3. ASSUME NEW f \in Flushers, Acquire(f), UNCHANGED <<snapKeys, sessions, rows>>
      PROVE (SessionsFirst /\ RowsHaveSession)'
  BY <1>2, <1>3 DEF Acquire, TypeInv, TypeOK
<1>4. CASE TryThresholdFlush \/ Tick
  BY <1>1, <1>3, <1>4 DEF TryThresholdFlush, Tick, Flushers
<1>5. CASE FinalFlush
  BY <1>2, <1>5 DEF FinalFlush, Flushers, TypeInv, TypeOK
<1>6. ASSUME NEW f \in Flushers,
             Snapshot(f) \/ ReadExisting(f) \/ QueryFails(f) \/ Release(f)
      PROVE (SessionsFirst /\ RowsHaveSession)'
  <2>1. /\ fpc'[f] # "upsert"
        /\ \A g \in Flushers \ {f} : fpc'[g] = fpc[g] /\ snapKeys'[g] = snapKeys[g]
    BY <1>6 DEF Snapshot, ReadExisting, QueryFails, Release, EndFlush, TypeInv, TypeOK
  <2>2. UNCHANGED <<sessions, rows>>
    BY <1>6 DEF Snapshot, ReadExisting, QueryFails, Release
  <2> QED  BY <1>2, <2>1, <2>2
<1>7. ASSUME NEW f \in Flushers, InsertSessions(f)
      PROVE (SessionsFirst /\ RowsHaveSession)'
  <2>1. sessions \subseteq sessions' /\ \A r \in snapKeys[f] : SessionOf[r] \in sessions'
    BY <1>7 DEF InsertSessions
  <2>2. /\ fpc'[f] = "upsert" => snapKeys'[f] = snapKeys[f]
        /\ \A g \in Flushers \ {f} : fpc'[g] = fpc[g] /\ snapKeys'[g] = snapKeys[g]
        /\ rows' = rows
    BY <1>7 DEF InsertSessions, EndFlush, TypeInv, TypeOK
  <2> QED  BY <2>1, <2>2 DEF SessionsFirst, RowsHaveSession
<1>8. ASSUME NEW f \in Flushers, UpsertMessages(f)
      PROVE (SessionsFirst /\ RowsHaveSession)'
  <2>1. /\ fpc'[f] # "upsert"
        /\ \A g \in Flushers \ {f} : fpc'[g] = fpc[g] /\ snapKeys'[g] = snapKeys[g]
    BY <1>8 DEF UpsertMessages, EndFlush, TypeInv, TypeOK
  <2>2. sessions' = sessions /\ rows' = rows \cup snapKeys[f] /\ fpc[f] = "upsert"
    BY <1>8 DEF UpsertMessages
  <2> QED  BY <2>1, <2>2 DEF SessionsFirst, RowsHaveSession
<1>9. CASE Exit \/ Crash
  <2>1. \A f \in Flushers : fpc'[f] = "idle"
    BY <1>9 DEF Exit, Crash, LoseMemory
  <2>2. UNCHANGED <<sessions, rows>>
    BY <1>9 DEF Exit, Crash, LoseMemory
  <2> QED  BY <2>1, <2>2 DEF SessionsFirst, RowsHaveSession
<1>10. CASE Stop \/ CloseDB \/ Restart
  BY <1>1, <1>10 DEF Stop, CloseDB, Restart
<1>11. CASE Fetch \/ AddToken \/ ShouldFlush \/ LoopExit \/ CommitTick
            \/ \E r \in Requests : PublishToken(r)
  BY <1>1, <1>11 DEF Fetch, AddToken, ShouldFlush, LoopExit, CommitTick, PublishToken
<1>12. CASE UNCHANGED vars
  BY <1>1, <1>12 DEF vars
<1> QED
  BY <1>4, <1>5, <1>6, <1>7, <1>8, <1>9, <1>10, <1>11, <1>12 DEF Next

\* Every message row has its session row, however often the service is killed
\* between the two statements of BulkUpsertMessages or the database fails one
\* of them.
THEOREM ForeignKeyHolds == Spec => []RowsHaveSession
<1>1. Init => TypeInv /\ SessionsFirst /\ RowsHaveSession
  BY TypeInit, SessionInit
<1>2. TypeInv /\ SessionsFirst /\ RowsHaveSession /\ [Next]_vars
        => (TypeInv /\ SessionsFirst /\ RowsHaveSession)'
  BY TypeStep, SessionStep
<1> QED  BY <1>1, <1>2, PTL DEF Spec

-----------------------------------------------------------------------------
(* Nothing lost or repeated *)

\* clean says that only a running service has acted.
CleanIsUp == clean => phase = "up"

\* Text is only where a key is: a request without a tokenBuffer has none in
\* the buffers, and only a flush between its snapshot and its upsert holds a
\* snapshot, of the requests it lists.
Placement ==
  /\ \A r \in Requests : r \notin keys => buffers[r] = << >>
  /\ \A f \in Flushers : fpc[f] \notin Querying => snap[f] = NoContent
  /\ \A f \in Flushers : \A r \in Requests : r \notin snapKeys[f] => snap[f][r] = << >>

\* What a flush has read is still what the database holds when it writes, as
\* long as the service is up, whatever has failed.
ReadIsFresh ==
  phase = "up" => \A f \in Flushers : fpc[f] \in {"sessions", "upsert"} =>
    \A r \in snapKeys[f] : existing[f][r] = messages[r]

TextInv ==
  TypeInv /\ Mutex /\ CleanIsUp /\ Placement /\ ReadIsFresh /\ NothingLostOrRepeated

\* Nothing has been fetched and every place a text can be is empty.
LEMMA TextInit == Init => TextInv
<1> SUFFICES ASSUME Init PROVE TextInv
  OBVIOUS
<1>1. TypeInv /\ Mutex
  BY TypeInit, MutexInit
<1>2. CleanIsUp /\ Placement /\ ReadIsFresh
  BY DEF Init, CleanIsUp, Placement, ReadIsFresh, NoContent, Querying
<1>3. << >> \o << >> = << >>
  OBVIOUS
<1>4. NothingLostOrRepeated
  BY <1>3 DEF Init, NothingLostOrRepeated, NoContent, HandOf, Flushers, ThresholdFlush, TickerFlush
<1> QED  BY <1>1, <1>2, <1>4 DEF TextInv

\* CleanIsUp is kept by every step: what ends "up" ends clean, and clean does
\* not come back.
LEMMA CleanStep == CleanIsUp /\ [Next]_vars => CleanIsUp' /\ (clean' => clean)
<1> SUFFICES ASSUME CleanIsUp, [Next]_vars PROVE CleanIsUp' /\ (clean' => clean)
  OBVIOUS
<1> USE DEF CleanIsUp, kafka, reader, useCase, flushes, db, process, history
<1>1. CASE Stop \/ CloseDB \/ Exit \/ Crash \/ Restart
  BY <1>1 DEF Stop, CloseDB, Exit, Crash, Restart, LoseMemory
<1>2. ASSUME NEW f \in Flushers,
             Snapshot(f) \/ ReadExisting(f) \/ InsertSessions(f) \/ UpsertMessages(f)
               \/ QueryFails(f) \/ Release(f)
      PROVE  CleanIsUp' /\ (clean' => clean)
  <2>1. phase' = phase /\ (clean' = clean \/ clean' = FALSE)
    BY <1>2, Zenon DEF Snapshot, ReadExisting, InsertSessions, UpsertMessages, QueryFails,
                       Release
  <2>2. CASE clean' = clean
    BY <2>1, <2>2, Zenon
  <2>3. CASE clean' = FALSE
    BY <2>3, Zenon
  <2> QED  BY <2>1, <2>2, <2>3
<1>3. CASE Fetch \/ AddToken \/ ShouldFlush \/ TryThresholdFlush \/ LoopExit \/ CommitTick
           \/ Tick \/ FinalFlush \/ \E r \in Requests : PublishToken(r)
  <2>1. phase' = phase /\ clean' = clean
    BY <1>3, Zenon DEF Fetch, AddToken, ShouldFlush, TryThresholdFlush, LoopExit, CommitTick,
                       Tick, FinalFlush, PublishToken
  <2> QED  BY <2>1, Zenon
<1>4. CASE UNCHANGED vars
  BY <1>4 DEF vars
<1> QED  BY <1>1, <1>2, <1>3, <1>4 DEF Next

\* Placement is kept by every step.
LEMMA PlacementStep == TypeInv /\ Placement /\ [Next]_vars => Placement'
<1> SUFFICES ASSUME TypeInv, Placement, [Next]_vars PROVE Placement'
  OBVIOUS
<1> USE DEF kafka, reader, useCase, flushes, db, process, history
<1>1. CASE UNCHANGED <<keys, buffers, fpc, snapKeys, snap>>
  BY <1>1 DEF Placement
<1>2. ASSUME NEW f \in Flushers, NEW pc, UNCHANGED <<keys, buffers, snapKeys, snap>>,
             fpc' = [fpc EXCEPT ![f] = pc], fpc[f] \in Querying => pc \in Querying
      PROVE Placement'
  BY <1>2 DEF Placement, TypeInv, TypeOK
<1>3. ASSUME NEW f \in Flushers, EndFlush(f),
             UNCHANGED <<keys, buffers>> \/ (keys' = {} /\ buffers' = NoContent)
      PROVE Placement'
  BY <1>3 DEF EndFlush, Placement, TypeInv, TypeOK, NoContent, Querying
<1>4. CASE AddToken
  <2>1. InHand.req \in Requests
    BY <1>4, InHandType DEF AddToken, TokenEvent
  <2> QED  BY <1>4, <2>1 DEF AddToken, Placement, TypeInv, TypeOK
<1>5. CASE TryThresholdFlush \/ Tick \/ FinalFlush
  BY <1>1, <1>2, <1>5 DEF TryThresholdFlush, Tick, FinalFlush, Acquire, Flushers, Querying
<1>6. ASSUME NEW f \in Flushers, Snapshot(f) PROVE Placement'
  <2>1. CASE EndFlush(f)
    BY <1>3, <1>6, <2>1 DEF Snapshot
  <2>2. CASE ~EndFlush(f)
    <3>1. /\ snapKeys' = [snapKeys EXCEPT ![f] = keys] /\ snap' = [snap EXCEPT ![f] = buffers]
          /\ fpc' = [fpc EXCEPT ![f] = "read"] /\ keys' = {} /\ buffers' = NoContent
      BY <1>6, <2>2 DEF Snapshot
    <3>2. \A r \in Requests : buffers'[r] = << >>
      BY <3>1 DEF NoContent
    <3>3. \A g \in Flushers : fpc'[g] \notin Querying => snap'[g] = NoContent
      BY <3>1 DEF Placement, TypeInv, TypeOK, Querying
    <3>4. \A g \in Flushers : \A r \in Requests : r \notin snapKeys'[g] => snap'[g][r] = << >>
      BY <3>1 DEF Placement, TypeInv, TypeOK
    <3> QED  BY <3>2, <3>3, <3>4 DEF Placement
  <2> QED  BY <2>1, <2>2
<1>7. ASSUME NEW f \in Flushers, ReadExisting(f) \/ InsertSessions(f) PROVE Placement'
  BY <1>2, <1>3, <1>7 DEF ReadExisting, InsertSessions, Querying
<1>8. ASSUME NEW f \in Flushers, UpsertMessages(f) \/ QueryFails(f) PROVE Placement'
  BY <1>3, <1>8 DEF UpsertMessages, QueryFails
<1>9. ASSUME NEW f \in Flushers, Release(f) PROVE Placement'
  BY <1>2, <1>9 DEF Release, Querying
<1>10. CASE Exit \/ Crash
  BY <1>10 DEF Exit, Crash, LoseMemory, Placement, NoContent
<1>11. CASE Stop \/ CloseDB \/ Restart
  BY <1>1, <1>11 DEF Stop, CloseDB, Restart
<1>12. CASE Fetch \/ ShouldFlush \/ LoopExit \/ CommitTick
            \/ \E r \in Requests : PublishToken(r)
  BY <1>1, <1>12 DEF Fetch, ShouldFlush, LoopExit, CommitTick, PublishToken
<1>13. CASE UNCHANGED vars
  BY <1>1, <1>13 DEF vars
<1> QED
  BY <1>4, <1>5, <1>6, <1>7, <1>8, <1>9, <1>10, <1>11, <1>12, <1>13 DEF Next

\* Only a restart brings the service up.
LEMMA ComesUp == [Next]_vars /\ phase' = "up" => phase = "up" \/ Restart
<1> SUFFICES ASSUME [Next]_vars, phase' = "up" PROVE phase = "up" \/ Restart
  OBVIOUS
<1> USE DEF kafka, reader, useCase, flushes, db, process, history
<1>1. CASE Stop \/ CloseDB \/ Exit \/ Crash \/ Restart
  BY <1>1 DEF Stop, CloseDB, Exit, Crash, LoseMemory
<1>2. ASSUME NEW f \in Flushers,
             Snapshot(f) \/ ReadExisting(f) \/ InsertSessions(f) \/ UpsertMessages(f)
               \/ QueryFails(f) \/ Release(f)
      PROVE  phase = "up"
  BY <1>2 DEF Snapshot, ReadExisting, InsertSessions, UpsertMessages, QueryFails, Release
<1>3. CASE Fetch \/ AddToken \/ ShouldFlush \/ TryThresholdFlush \/ LoopExit \/ CommitTick
           \/ Tick \/ FinalFlush \/ \E r \in Requests : PublishToken(r)
  BY <1>3 DEF Fetch, AddToken, ShouldFlush, TryThresholdFlush, LoopExit, CommitTick, Tick, FinalFlush, PublishToken
<1>4. CASE UNCHANGED vars
  BY <1>4 DEF vars
<1> QED  BY <1>1, <1>2, <1>3, <1>4 DEF Next

\* Between the read of a flush and its upsert no other flush writes.
LEMMA FreshStep ==
  TypeInv /\ Mutex /\ ReadIsFresh /\ [Next]_vars => ReadIsFresh'
<1> USE DEF kafka, reader, useCase, flushes, db, process, history
<1> SUFFICES ASSUME TypeInv, Mutex, ReadIsFresh, [Next]_vars, phase = "up", phase' = "up"
             PROVE  ReadIsFresh'
  <2> SUFFICES ASSUME TypeInv, Restart PROVE ReadIsFresh'
    BY ComesUp DEF ReadIsFresh
  <2> QED  BY DEF Restart, TypeInv, Control, ReadIsFresh
<1>0. phase = "up"
  OBVIOUS
<1>1. CASE UNCHANGED <<fpc, snapKeys, existing, messages>>
  BY <1>0, <1>1 DEF ReadIsFresh
<1>2. ASSUME NEW f \in Flushers, UNCHANGED messages,
             fpc'[f] \notin {"sessions", "upsert"},
             \A g \in Flushers \ {f} : /\ fpc'[g] = fpc[g] /\ snapKeys'[g] = snapKeys[g]
                                       /\ existing'[g] = existing[g]
      PROVE ReadIsFresh'
  BY <1>0, <1>2 DEF ReadIsFresh
<1>3. CASE TryThresholdFlush \/ Tick \/ FinalFlush
  BY <1>0, <1>1, <1>2, <1>3
  DEF TryThresholdFlush, Tick, FinalFlush, Cancelled, Acquire, Flushers, TypeInv, TypeOK
<1>4. ASSUME NEW f \in Flushers, Snapshot(f) \/ QueryFails(f) \/ Release(f)
      PROVE ReadIsFresh'
  <2>1. UNCHANGED messages
    BY <1>4 DEF Snapshot, QueryFails, Release
  <2>2. /\ fpc'[f] \notin {"sessions", "upsert"}
        /\ \A g \in Flushers \ {f} : /\ fpc'[g] = fpc[g] /\ snapKeys'[g] = snapKeys[g]
                                     /\ existing'[g] = existing[g]
    BY <1>4 DEF Snapshot, QueryFails, Release, EndFlush, TypeInv, TypeOK
  <2> QED  BY <1>2, <2>1, <2>2
<1>5. ASSUME NEW f \in Flushers, ReadExisting(f) PROVE ReadIsFresh'
  <2>1. CanQuery(f) /\ UNCHANGED messages
    BY <1>0, <1>5 DEF ReadExisting, CanQuery
  <2>2. \A r \in snapKeys'[f] : existing'[f][r] = messages[r]
    BY <1>5, <2>1 DEF ReadExisting, TypeInv, TypeOK
  <2>3. \A g \in Flushers \ {f} : /\ fpc'[g] = fpc[g] /\ snapKeys'[g] = snapKeys[g]
                                  /\ existing'[g] = existing[g]
    BY <1>5, <2>1 DEF ReadExisting, TypeInv, TypeOK
  <2> QED  BY <1>0, <2>1, <2>2, <2>3 DEF ReadIsFresh
<1>6. ASSUME NEW f \in Flushers, InsertSessions(f) PROVE ReadIsFresh'
  <2>1. fpc' = [fpc EXCEPT ![f] = "upsert"] /\ UNCHANGED <<snapKeys, existing, messages>>
    BY <1>0, <1>6 DEF InsertSessions, CanQuery
  <2>2. fpc[f] = "sessions"
    BY <1>6 DEF InsertSessions
  <2> QED  BY <1>0, <2>1, <2>2 DEF ReadIsFresh, TypeInv, TypeOK
<1>7. ASSUME NEW f \in Flushers, UpsertMessages(f) PROVE ReadIsFresh'
  <2>1. fpc[f] \in Active /\ fpc' = [fpc EXCEPT ![f] = "release"]
    BY <1>7 DEF UpsertMessages, EndFlush, Active, Querying
  <2>2. \A g \in Flushers \ {f} : fpc[g] \notin Active
    BY <1>0, <2>1 DEF Mutex
  <2>3. \A g \in Flushers : fpc'[g] \notin {"sessions", "upsert"}
    BY <2>1, <2>2 DEF TypeInv, TypeOK, Active, Querying
  <2> QED  BY <2>3 DEF ReadIsFresh
<1>8. CASE Stop \/ CloseDB \/ Exit \/ Crash \/ Restart
  BY <1>0, <1>8 DEF Stop, CloseDB, Exit, Crash, Restart, LoseMemory
<1>9. CASE Fetch \/ AddToken \/ ShouldFlush \/ LoopExit \/ CommitTick
           \/ \E r \in Requests : PublishToken(r)
  BY <1>1, <1>9 DEF Fetch, AddToken, ShouldFlush, LoopExit, CommitTick, PublishToken
<1>10. CASE UNCHANGED vars
  BY <1>1, <1>10 DEF vars
<1> QED
  BY <1>3, <1>4, <1>5, <1>6, <1>7, <1>8, <1>9, <1>10 DEF Next

\* Moving a text from one place to the next, or appending at the end, changes
\* the concatenation of the places as it should.
LEMMA Regroup ==
  ASSUME NEW a \in Content, NEW b \in Content, NEW c \in Content
  PROVE  /\ (a \o b) \o c = a \o (b \o c)
         /\ a \o << >> = a
         /\ << >> \o a = a
BY ConcatAssociative, ConcatEmptySeq DEF Content

\* A token appended to the last place is appended to the concatenation.
LEMMA AppendRegroup ==
  ASSUME NEW a \in Content, NEW b \in Content, NEW c \in Content, NEW d \in Content
  PROVE  (a \o b) \o (c \o d) = ((a \o b) \o c) \o d
<1> DEFINE ab == a \o b
<1>1. ab \in Content
  BY ContentConcat
<1> HIDE DEF ab
<1>2. (ab \o c) \o d = ab \o (c \o d)
  BY <1>1, Regroup
<1> QED  BY <1>2 DEF ab

\* The snapshots a request has with the two flushes, when one of them holds none.
LEMMA OneSnapshot ==
  ASSUME TypeInv, Mutex, Placement, phase = "up", NEW f \in Flushers, fpc[f] \in Active,
         NEW r \in Requests
  PROVE  /\ snap[ThresholdFlush][r] \o snap[TickerFlush][r] = snap[f][r]
         /\ \A g \in Flushers \ {f} : snap[g][r] = << >>
<1>1. \A g \in Flushers \ {f} : fpc[g] \notin Querying
  BY DEF Mutex, Active
<1>2. \A g \in Flushers \ {f} : snap[g][r] = << >>
  BY <1>1 DEF Placement, NoContent
<1>3. snap[ThresholdFlush][r] \in Content /\ snap[TickerFlush][r] \in Content
  BY DEF TypeInv, TypeOK, Flushers
<1>4. CASE f = ThresholdFlush
  BY <1>2, <1>3, <1>4, Regroup, ZenonT(40) DEF Flushers, ThresholdFlush, TickerFlush
<1>5. CASE f = TickerFlush
  BY <1>2, <1>3, <1>5, Regroup DEF Flushers, ThresholdFlush, TickerFlush
<1> QED  BY <1>2, <1>4, <1>5 DEF Flushers

\* Every step of a service on which nothing has failed keeps each token in
\* exactly one place, in order.
LEMMA TextStep ==
  TypeInv /\ Mutex /\ CleanIsUp /\ Placement /\ ReadIsFresh /\ NothingLostOrRepeated
    /\ [Next]_vars => NothingLostOrRepeated'
<1> SUFFICES ASSUME TypeInv, Mutex, CleanIsUp, Placement, ReadIsFresh,
                    NothingLostOrRepeated, [Next]_vars, clean', NEW r \in Requests
             PROVE  (((messages[r] \o (snap[ThresholdFlush][r] \o snap[TickerFlush][r]))
                        \o buffers[r]) \o HandOf(r))' = consumed'[r]
  BY DEF NothingLostOrRepeated
<1> DEFINE m == messages[r]
           s == snap[ThresholdFlush][r] \o snap[TickerFlush][r]
           b == buffers[r]
           h == HandOf(r)
<1>0. clean /\ phase = "up"
  BY CleanStep DEF CleanIsUp
<1>1. ((m \o s) \o b) \o h = consumed[r]
  BY <1>0 DEF NothingLostOrRepeated
<1>2. h \in Content
  BY InHandType, EmptySeq DEF HandOf, TokenEvent, Content
<1>3. m \in Content /\ s \in Content /\ b \in Content
  BY ContentConcat DEF TypeInv, TypeOK, Flushers
<1> USE DEF kafka, reader, useCase, flushes, db, process, history
\* A step that leaves the log and the loop alone leaves the hand alone.
<1>4. ASSUME UNCHANGED <<log, fetchPos, loop>> PROVE h' = h
  BY <1>4 DEF HandOf, InHand
<1>5. CASE UNCHANGED <<messages, snap, buffers, consumed>> /\ h' = h
  BY <1>1, <1>5
<1>6. CASE \E q \in Requests : PublishToken(q)
  <2>1. UNCHANGED <<messages, snap, buffers, consumed, fetchPos, loop>>
    BY <1>6 DEF PublishToken
  <2>2. PICK q \in Requests : PublishToken(q)
    BY <1>6
  <2> DEFINE n == emitted[q] + 1
             e == IF n <= NumTokens
                  THEN [req |-> q, delta |-> <<n>>, done |-> FALSE]
                  ELSE [req |-> q, delta |-> << >>, done |-> TRUE]
  <2>3. log' = Append(log, e)
    BY <2>2 DEF PublishToken
  <2>4. e \in TokenEvent
    BY DEF TokenEvent, Content, TypeInv, TypeOK
  <2> HIDE DEF e
  <2>5. loop = "add" => InHand' = InHand
    BY <2>1, <2>3, <2>4, InHandType, AppendProperties DEF InHand, TypeInv, TypeOK
  <2>6. h' = h
    BY <2>1, <2>5 DEF HandOf
  <2> QED  BY <1>5, <2>1, <2>6
<1>7. CASE Fetch
  <2>1. /\ UNCHANGED <<messages, snap, buffers, log>> /\ loop = "fetch" /\ loop' = "add"
        /\ InHand' = log[fetchPos + 1]
        /\ consumed' = [consumed EXCEPT ![InHand'.req] = @ \o InHand'.delta]
    BY <1>7 DEF Fetch, InHand
  <2>2. InHand' \in TokenEvent
    BY <1>7, <2>1, ElementOfSeq DEF Fetch, TypeInv, TypeOK
  <2>3. h = << >> /\ (m \o s) \o b = consumed[r]
    BY <1>1, <1>3, <2>1, Regroup, ContentConcat DEF HandOf
  <2>4. h' = IF InHand'.req = r THEN InHand'.delta ELSE << >>
    BY <2>1 DEF HandOf
  <2>5. CASE InHand'.req = r
    BY <2>1, <2>3, <2>4, <2>5 DEF TypeInv, TypeOK
  <2>6. CASE InHand'.req # r
    BY <1>1, <2>1, <2>2, <2>3, <2>4, <2>6 DEF TypeInv, TypeOK, TokenEvent
  <2> QED  BY <2>5, <2>6
<1>8. CASE AddToken
  <2>1. /\ UNCHANGED <<messages, snap, consumed>> /\ loop = "add" /\ loop' # "add"
        /\ buffers' = [buffers EXCEPT ![InHand.req] = @ \o InHand.delta]
    BY <1>8 DEF AddToken
  <2>2. h' = << >> /\ h = IF InHand.req = r THEN InHand.delta ELSE << >>
    BY <2>1 DEF HandOf
  <2>3. b' = b \o h
    BY <1>3, <2>1, <2>2, Regroup DEF TypeInv, TypeOK
  <2>4. b \o h \in Content /\ m \o s \in Content
    BY <1>2, <1>3, ContentConcat
  <2>5. ((m \o s) \o (b \o h)) \o << >> = (m \o s) \o (b \o h)
    BY <2>4, Regroup, ContentConcat
  <2>6. (m \o s) \o (b \o h) = ((m \o s) \o b) \o h
    <3>1. \A w, x, y, z \in Content : (w \o x) \o (y \o z) = ((w \o x) \o y) \o z
      BY AppendRegroup
    <3>2. m \in Content /\ s \in Content /\ b \in Content /\ h \in Content
      BY <1>2, <1>3
    <3> HIDE DEF m, s, b, h
    <3> QED  BY <3>1, <3>2, SMTT(30)
  <2> QED  BY <1>1, <2>1, <2>2, <2>3, <2>5, <2>6
<1>9. CASE ShouldFlush \/ TryThresholdFlush
  <2>1. UNCHANGED <<messages, snap, buffers, consumed>> /\ loop # "add" /\ loop' # "add"
    BY <1>9 DEF ShouldFlush, TryThresholdFlush
  <2>2. h' = h
    BY <2>1 DEF HandOf
  <2> QED  BY <1>5, <2>1, <2>2
<1>10. CASE LoopExit \/ FinalFlush \/ Stop \/ CloseDB \/ Exit \/ Crash \/ Restart
  BY <1>0, <1>10 DEF LoopExit, FinalFlush, Cancelled, Stop, CloseDB, Exit, Crash, Restart
<1>11. CASE CommitTick \/ Tick
  BY <1>4, <1>5, <1>11 DEF CommitTick, Tick
<1>12. ASSUME NEW f \in Flushers, Snapshot(f)
       PROVE  (((m \o s) \o b) \o h)' = consumed'[r]
  <2>1. h' = h /\ UNCHANGED <<messages, consumed>> /\ CanQuery(f) /\ fpc[f] \in Active
    BY <1>0, <1>4, <1>12 DEF Snapshot, CanQuery, Active
  <2>2. s = snap[f][r] /\ \A g \in Flushers \ {f} : snap[g][r] = << >>
    BY <1>0, <2>1, OneSnapshot
  <2>3. snap[f] = NoContent /\ s = << >>
    BY <1>12, <2>2 DEF Snapshot, Placement, Querying, NoContent
  <2>4. CASE keys = {}
    <3>1. snap' = snap /\ buffers' = buffers
      BY <1>12, <2>3, <2>4 DEF Snapshot, EndFlush, TypeInv, TypeOK
    <3> QED  BY <1>1, <2>1, <3>1
  <2>5. CASE keys # {}
    <3>1. snap' = [snap EXCEPT ![f] = buffers] /\ buffers' = NoContent
      BY <1>12, <2>1, <2>5 DEF Snapshot
    <3>2. /\ snap'[f][r] = b /\ b' = << >>
          /\ \A g \in Flushers \ {f} : snap'[g][r] = << >>
      BY <2>2, <3>1 DEF TypeInv, TypeOK, NoContent
    <3>3. s' = b
      BY <1>3, <3>2, Regroup DEF Flushers, ThresholdFlush, TickerFlush
    <3>4. ((m \o b) \o << >>) \o h = ((m \o << >>) \o b) \o h
      BY <1>3, Regroup, ContentConcat
    <3> QED  BY <1>1, <2>1, <2>3, <3>2, <3>3, <3>4
  <2> QED  BY <2>4, <2>5
<1>13. ASSUME NEW f \in Flushers, ReadExisting(f) \/ InsertSessions(f) \/ Release(f)
       PROVE  (((m \o s) \o b) \o h)' = consumed'[r]
  <2>1. UNCHANGED <<messages, buffers, consumed, log, fetchPos, loop>>
    BY <1>13 DEF ReadExisting, InsertSessions, Release
  <2>2. snap' = snap
    BY <1>0, <1>13 DEF ReadExisting, InsertSessions, Release, CanQuery
  <2> QED  BY <1>4, <1>5, <2>1, <2>2
<1>14. ASSUME NEW f \in Flushers, QueryFails(f)
       PROVE  (((m \o s) \o b) \o h)' = consumed'[r]
  BY <1>0, <1>14, Zenon DEF QueryFails, CanQuery
<1>15. ASSUME NEW f \in Flushers, UpsertMessages(f)
       PROVE  (((m \o s) \o b) \o h)' = consumed'[r]
  <2>1. h' = h /\ UNCHANGED <<buffers, consumed>> /\ fpc[f] \in Active
    BY <1>4, <1>15 DEF UpsertMessages, Active, Querying
  <2>2. s = snap[f][r] /\ \A g \in Flushers \ {f} : snap[g][r] = << >>
    BY <1>0, <2>1, OneSnapshot
  <2>3. m' = m \o s
    <3>1. CASE r \in snapKeys[f]
      BY <1>0, <1>15, <2>2, <3>1 DEF UpsertMessages, Merged, ReadIsFresh
    <3>2. CASE r \notin snapKeys[f]
      <4>1. m' = m /\ s = << >>
        BY <1>15, <2>2, <3>2 DEF UpsertMessages, Placement
      <4>2. m \o << >> = m
        BY <1>3, Regroup
      <4> QED  BY <4>1, <4>2
    <3> QED  BY <3>1, <3>2
  <2>4. \A g \in Flushers : snap'[g][r] = << >>
    BY <1>15, <2>2 DEF UpsertMessages, EndFlush, TypeInv, TypeOK, NoContent
  <2>5. s' = << >>
    BY <2>4, EmptySeq, Regroup DEF Flushers, Content
  <2>6. (m \o s) \o << >> = m \o s
    BY <1>3, Regroup, ContentConcat
  <2> QED  BY <1>1, <2>1, <2>3, <2>5, <2>6
<1>16. CASE UNCHANGED vars
  BY <1>4, <1>5, <1>16 DEF vars
<1> QED
  BY <1>6, <1>7, <1>8, <1>9, <1>10, <1>11, <1>12, <1>13, <1>14, <1>15, <1>16 DEF Next

\* As long as nothing fails and nobody stops the service, for any number of
\* requests, tokens and flushes, every token fetched is exactly once in the
\* database, the snapshot under way, the buffers or Run's hands, in order.
THEOREM TextConserved == Spec => []NothingLostOrRepeated
<1>1. TextInv => NothingLostOrRepeated
  BY DEF TextInv
<1>2. TextInv /\ [Next]_vars => TextInv'
  BY TypeStep, MutexStep, CleanStep, PlacementStep, FreshStep, TextStep DEF TextInv
<1> QED  BY TextInit, <1>1, <1>2, PTL DEF Spec

-----------------------------------------------------------------------------
(* Stored text grows *)

\* A text is a first part of itself and what is appended to it.
LEMMA FirstPart ==
  ASSUME NEW a \in Content, NEW b \in Content
  PROVE  Len(a) <= Len(a \o b) /\ \A i \in DOMAIN a : (a \o b)[i] = a[i]
<1>1. /\ Len(a) \in Nat /\ Len(b) \in Nat /\ DOMAIN a = 1 .. Len(a) /\ Len(a \o b) = Len(a) + Len(b)
      /\ \A i \in 1 .. Len(a) + Len(b) : (a \o b)[i] = IF i <= Len(a) THEN a[i] ELSE b[i - Len(a)]
  BY ConcatProperties, LenProperties DEF Content
<1>2. \A i \in 1 .. Len(a) : i \in 1 .. Len(a) + Len(b) /\ i <= Len(a)
  BY <1>1
<1> QED  BY <1>1, <1>2

\* Only an upsert changes the stored text.
LEMMA OnlyUpsertWrites ==
  [Next]_vars => UNCHANGED messages \/ \E f \in Flushers : UpsertMessages(f)
<1> SUFFICES ASSUME [Next]_vars, ~ \E f \in Flushers : UpsertMessages(f) PROVE messages' = messages
  OBVIOUS
<1> USE DEF kafka, reader, useCase, flushes, db, process, history
<1>1. CASE Stop \/ CloseDB \/ Exit \/ Crash \/ Restart
  BY <1>1 DEF Stop, CloseDB, Exit, Crash, Restart, LoseMemory
<1>2. ASSUME NEW f \in Flushers,
             Snapshot(f) \/ ReadExisting(f) \/ InsertSessions(f) \/ QueryFails(f) \/ Release(f)
      PROVE  messages' = messages
  BY <1>2 DEF Snapshot, ReadExisting, InsertSessions, QueryFails, Release
<1>3. CASE Fetch \/ AddToken \/ ShouldFlush \/ TryThresholdFlush \/ LoopExit \/ CommitTick
           \/ Tick \/ FinalFlush \/ \E r \in Requests : PublishToken(r)
  BY <1>3 DEF Fetch, AddToken, ShouldFlush, TryThresholdFlush, LoopExit, CommitTick, Tick, FinalFlush, PublishToken
<1>4. CASE UNCHANGED vars
  BY <1>4 DEF vars
<1> QED  BY <1>1, <1>2, <1>3, <1>4 DEF Next

\* An upsert of a service that is up appends to what is stored.
LEMMA GrowStep ==
  TypeInv /\ ReadIsFresh /\ [Next]_vars => (phase = "up" => \A r \in Requests : KeepsText(r))
<1> SUFFICES ASSUME TypeInv, ReadIsFresh, [Next]_vars, phase = "up", NEW r \in Requests PROVE KeepsText(r)
  OBVIOUS
<1>0. messages \in [Requests -> Content] /\ Len(messages[r]) \in Nat
  BY LenProperties DEF TypeInv, TypeOK, Content
<1>1. CASE messages'[r] = messages[r]
  BY <1>0, <1>1 DEF KeepsText
<1>2. ASSUME NEW f \in Flushers, UpsertMessages(f), r \in snapKeys[f] PROVE KeepsText(r)
  <2>1. messages'[r] = messages[r] \o snap[f][r]
    BY <1>2 DEF UpsertMessages, Merged, ReadIsFresh
  <2>2. snap[f][r] \in Content
    BY DEF TypeInv, TypeOK
  <2> QED  BY <1>0, <2>1, <2>2, FirstPart DEF KeepsText
<1>3. ASSUME NEW f \in Flushers, UpsertMessages(f), r \notin snapKeys[f] PROVE messages'[r] = messages[r]
  BY <1>3 DEF UpsertMessages
<1> QED  BY <1>1, <1>2, <1>3, OnlyUpsertWrites

\* No step of a service that is up takes back text once stored: what a flush
\* has read before its upsert is what it overwrites, as w.flushing keeps other
\* flushes out, after replays, crashes and failed calls too.
THEOREM TextGrows == Spec => StoredTextGrows
<1>1. Init => TypeInv /\ Mutex /\ ReadIsFresh
  BY TextInit DEF TextInv
<1>2. TypeInv /\ Mutex /\ ReadIsFresh /\ [Next]_vars => (TypeInv /\ Mutex /\ ReadIsFresh)'
  BY TypeStep, MutexStep, FreshStep
<1>3. TypeInv /\ Mutex /\ ReadIsFresh /\ [Next]_vars => [phase = "up" => \A r \in Requests : KeepsText(r)]_vars
  BY GrowStep
<1> QED  BY <1>1, <1>2, <1>3, PTL DEF Spec, StoredTextGrows

-----------------------------------------------------------------------------
(* Stored text is in order *)

\* Every token of s is before every token of t.
Precedes(s, t) == \A i \in DOMAIN s, j \in DOMAIN t : s[i] < t[j]

\* The events passed to AddToken, or lost with the process before it.
Taken == IF loop = "add" THEN fetchPos - 1 ELSE fetchPos

\* The producer numbers the tokens of a request.
LogInOrder ==
  /\ \A i \in DOMAIN log : /\ Len(log[i].delta) <= 1
                           /\ \A k \in DOMAIN log[i].delta : log[i].delta[k] <= emitted[log[i].req]
  /\ \A i, j \in DOMAIN log : i < j /\ log[i].req = log[j].req => Precedes(log[i].delta, log[j].delta)

\* A text of r that is in order, and before all that is still to come: what is
\* behind place k of the topic L, and the tokens after the e-th.
Orderly(s, r, L, e, k) ==
  /\ StrictlyIncreasing(s)
  /\ \A i \in DOMAIN s : s[i] <= e
  /\ \A j \in DOMAIN L : k < j /\ L[j].req = r => Precedes(s, L[j].delta)

\* What is stored or in a flush was in the buffer before what is there now.
BufferLast ==
  \A r \in Requests :
    /\ Orderly(buffers[r], r, log, emitted[r], Taken)
    /\ Orderly(messages[r], r, log, emitted[r], Taken) /\ Precedes(messages[r], buffers[r])
    /\ \A f \in Flushers :
         /\ Orderly(snap[f][r], r, log, emitted[r], Taken) /\ Precedes(snap[f][r], buffers[r])
         /\ Orderly(existing[f][r], r, log, emitted[r], Taken) /\ Precedes(existing[f][r], buffers[r])

\* A flush may still read the stored text, or has read it, only while that
\* is older than its snapshot.
ReadIsOlder ==
  \A r \in Requests : \A f \in Flushers :
    /\ fpc[f] = "read" /\ CanQuery(f) => Precedes(messages[r], snap[f][r])
    /\ fpc[f] \in {"sessions", "upsert"} => Precedes(existing[f][r], snap[f][r])

\* The flush that the last one overtakes has older text.
OvertakenIsOlder ==
  final => \A r \in Requests :
    /\ Precedes(snap[ThresholdFlush][r], snap[TickerFlush][r])
    /\ Precedes(existing[ThresholdFlush][r], snap[TickerFlush][r])

OrderInv ==
  /\ TypeInv /\ Mutex /\ Placement /\ LogInOrder
  /\ ~rewound => BufferLast /\ ReadIsOlder /\ OvertakenIsOlder

\* No text at all is in order.
LEMMA NothingOrderly ==
  /\ \A s : Precedes(<< >>, s) /\ Precedes(s, << >>)
  /\ \A r, L, e, k : Orderly(<< >>, r, L, e, k)
  /\ \A r \in Requests : NoContent[r] = << >>
BY DEF Precedes, Orderly, StrictlyIncreasing, NoContent

\* The tokens of two texts, one after the other.
LEMMA ConcatTokens ==
  ASSUME NEW a \in Content, NEW b \in Content
  PROVE  /\ Len(a) \in Nat /\ DOMAIN a = 1 .. Len(a) /\ DOMAIN b = 1 .. Len(b) /\ Len(b) \in Nat
         /\ \A i \in DOMAIN (a \o b) :
              \/ i \in DOMAIN a /\ (a \o b)[i] = a[i]
              \/ \E k \in DOMAIN b : i = Len(a) + k /\ (a \o b)[i] = b[k]
<1>1. /\ Len(a) \in Nat /\ Len(b) \in Nat /\ DOMAIN a = 1 .. Len(a) /\ DOMAIN b = 1 .. Len(b)
      /\ a \o b \in Seq(Nat) /\ Len(a \o b) = Len(a) + Len(b)
      /\ \A i \in 1 .. Len(a) + Len(b) : (a \o b)[i] = IF i <= Len(a) THEN a[i] ELSE b[i - Len(a)]
  BY ConcatProperties, LenProperties DEF Content
<1>2. DOMAIN (a \o b) = 1 .. Len(a) + Len(b)
  BY <1>1, LenProperties
<1>3. ASSUME NEW i \in 1 .. Len(a) + Len(b)
      PROVE  \/ i \in 1 .. Len(a) /\ (a \o b)[i] = a[i]
             \/ \E k \in 1 .. Len(b) : i = Len(a) + k /\ (a \o b)[i] = b[k]
  <2>1. CASE i <= Len(a)
    BY <1>1, <2>1
  <2>2. CASE ~ (i <= Len(a))
    <3>1. i - Len(a) \in 1 .. Len(b) /\ i = Len(a) + (i - Len(a))
      BY <1>1, <2>2
    <3>2. (a \o b)[i] = b[i - Len(a)]
      BY <1>1, <2>2
    <3> QED  BY <3>1, <3>2, Zenon
  <2> QED  BY <2>1, <2>2
<1> QED  BY <1>1, <1>2, <1>3, Zenon

\* What comes after both of two texts, or before both.
LEMMA PrecedesConcat ==
  ASSUME NEW a \in Content, NEW b \in Content, NEW c
  PROVE  /\ Precedes(a, c) /\ Precedes(b, c) => Precedes(a \o b, c)
         /\ Precedes(c, a) /\ Precedes(c, b) => Precedes(c, a \o b)
<1>1. \A i \in DOMAIN (a \o b) :
        (\E k \in DOMAIN a : (a \o b)[i] = a[k]) \/ (\E k \in DOMAIN b : (a \o b)[i] = b[k])
  BY ConcatTokens, Zenon
<1> DEFINE d == a \o b
<1> HIDE DEF d
<1>2. \A i \in DOMAIN d : (\E k \in DOMAIN a : d[i] = a[k]) \/ (\E k \in DOMAIN b : d[i] = b[k])
  BY <1>1 DEF d
<1>3. Precedes(a, c) /\ Precedes(b, c) => Precedes(d, c)
  BY <1>2, Zenon DEF Precedes
<1>4. Precedes(c, a) /\ Precedes(c, b) => Precedes(c, d)
  BY <1>2, Zenon DEF Precedes
<1> QED  BY <1>3, <1>4 DEF d

\* A text in order behind another one.
LEMMA OrderlyConcat ==
  ASSUME NEW a \in Content, NEW b \in Content, Precedes(a, b), NEW r, NEW L, NEW e, NEW k,
         Orderly(a, r, L, e, k), Orderly(b, r, L, e, k)
  PROVE  Orderly(a \o b, r, L, e, k)
<1> DEFINE d == a \o b
<1>1. /\ Len(a) \in Nat /\ DOMAIN a = 1 .. Len(a) /\ DOMAIN b = 1 .. Len(b) /\ Len(b) \in Nat
      /\ \A i \in DOMAIN d : \/ i \in DOMAIN a /\ d[i] = a[i]
                             \/ \E m \in DOMAIN b : i = Len(a) + m /\ d[i] = b[m]
  BY ConcatTokens, Zenon
<1>2. \A j \in DOMAIN L : k < j /\ L[j].req = r => Precedes(d, L[j].delta)
  BY PrecedesConcat, Zenon DEF Orderly
<1> HIDE DEF d
<1>3. \A i \in DOMAIN d : d[i] <= e
  BY <1>1, Zenon DEF Orderly
<1>4. StrictlyIncreasing(d)
  <2> SUFFICES ASSUME NEW i \in DOMAIN d, NEW j \in DOMAIN d, i < j PROVE d[i] < d[j]
    BY DEF StrictlyIncreasing
  <2>1. CASE i \in DOMAIN a /\ d[i] = a[i]
    <3>1. CASE j \in DOMAIN a /\ d[j] = a[j]
      BY <2>1, <3>1 DEF Orderly, StrictlyIncreasing
    <3>2. CASE \E m \in DOMAIN b : j = Len(a) + m /\ d[j] = b[m]
      BY <2>1, <3>2 DEF Precedes
    <3> QED  BY <1>1, <3>1, <3>2
  <2>2. CASE \E m \in DOMAIN b : i = Len(a) + m /\ d[i] = b[m]
    <3>1. PICK m \in DOMAIN b : i = Len(a) + m /\ d[i] = b[m]
      BY <2>2
    <3>2. CASE j \in DOMAIN a
      BY <1>1, <3>1, <3>2
    <3>3. CASE \E n \in DOMAIN b : j = Len(a) + n /\ d[j] = b[n]
      <4>1. PICK n \in DOMAIN b : j = Len(a) + n /\ d[j] = b[n]
        BY <3>3
      <4>2. m < n
        BY <1>1, <3>1, <4>1
      <4> QED  BY <3>1, <4>1, <4>2 DEF Orderly, StrictlyIncreasing
    <3> QED  BY <1>1, <3>2, <3>3
  <2> QED  BY <1>1, <2>1, <2>2
<1> QED  BY <1>2, <1>3, <1>4 DEF Orderly, d

\* A text in order stays so when the topic goes on.
LEMMA OrderlyLater ==
  ASSUME NEW s \in Content, NEW r, NEW L, NEW e \in Nat, NEW k \in Int, Orderly(s, r, L, e, k),
         NEW M \in Seq(TokenEvent), NEW f \in Nat, NEW l \in Int, e <= f, k <= l,
         \A j \in DOMAIN M : l < j /\ M[j].req = r =>
           (j \in DOMAIN L /\ M[j] = L[j]) \/ (\A i \in DOMAIN M[j].delta : e < M[j].delta[i])
  PROVE  Orderly(s, r, M, f, l)
<1>1. \A i \in DOMAIN s : s[i] \in Nat /\ s[i] <= e
  BY ElementOfSeq DEF Content, Orderly
<1>2. \A i \in DOMAIN s : s[i] <= f
  BY <1>1
<1>3. ASSUME NEW j \in DOMAIN M, l < j, M[j].req = r PROVE Precedes(s, M[j].delta)
  <2>1. j \in Int
    BY <1>3, LenProperties
  <2>2. CASE j \in DOMAIN L /\ M[j] = L[j]
    BY <1>3, <2>1, <2>2 DEF Orderly
  <2>3. CASE \A i \in DOMAIN M[j].delta : e < M[j].delta[i]
    <3>0. M[j] \in TokenEvent
      BY <1>3, LenProperties, ElementOfSeq
    <3>1. M[j].delta \in Content
      BY <3>0 DEF TokenEvent
    <3>2. PICK t \in Content : t = M[j].delta
      BY <3>1
    <3>3. \A i \in DOMAIN t : t[i] \in Nat /\ e < t[i]
      BY <2>3, <3>2, ElementOfSeq DEF Content
    <3>4. Precedes(s, t)
      BY <1>1, <3>3 DEF Precedes
    <3> QED  BY <3>2, <3>4
  <2> QED  BY <1>3, <2>2, <2>3
<1> QED  BY <1>2, <1>3 DEF Orderly

\* The parts of the state the argument is about.
LEMMA OrderTypes ==
  ASSUME TypeInv
  PROVE  /\ log \in Seq(TokenEvent) /\ emitted \in [Requests -> Nat] /\ fetchPos \in 0 .. Len(log)
         /\ Len(log) \in Nat /\ DOMAIN log = 1 .. Len(log) /\ Taken \in Int
         /\ buffers \in [Requests -> Content] /\ messages \in [Requests -> Content]
         /\ snap \in [Flushers -> [Requests -> Content]] /\ existing \in [Flushers -> [Requests -> Content]]
         /\ ThresholdFlush \in Flushers /\ TickerFlush \in Flushers /\ ThresholdFlush # TickerFlush
         /\ \A f \in Flushers : f = ThresholdFlush \/ f = TickerFlush
BY LenProperties DEF TypeInv, TypeOK, Taken, Flushers, ThresholdFlush, TickerFlush

\* The service starts with nothing anywhere.
LEMMA OrderInit == Init => OrderInv
<1> SUFFICES ASSUME Init PROVE OrderInv
  OBVIOUS
<1>1. TypeInv /\ Mutex /\ Placement
  BY TextInit DEF TextInv
<1>2. LogInOrder
  BY DEF Init, LogInOrder
<1>3. /\ messages = NoContent /\ buffers = NoContent /\ \A f \in Flushers : snap[f] = NoContent /\ existing[f] = NoContent
      /\ ~ final /\ \A f \in Flushers : fpc[f] = "idle"
  BY DEF Init
<1>4. BufferLast
  <2>1. \A r \in Requests : /\ messages[r] = << >> /\ buffers[r] = << >>
                            /\ \A f \in Flushers : snap[f][r] = << >> /\ existing[f][r] = << >>
    BY <1>3, NothingOrderly, Zenon
  <2> QED  BY <2>1, NothingOrderly, Zenon DEF BufferLast
<1> QED  BY <1>1, <1>2, <1>3, <1>4 DEF OrderInv, ReadIsOlder, OvertakenIsOlder

\* The producer publishes the tokens of a request in order.
LEMMA LogPublish ==
  ASSUME OrderInv, NEW r \in Requests, PublishToken(r)
  PROVE  /\ LogInOrder' /\ \A q \in Requests : emitted[q] <= emitted'[q]
         /\ \A j \in DOMAIN log' : \A q \in Requests : log'[j].req = q =>
              (j \in DOMAIN log /\ log'[j] = log[j]) \/ (\A i \in DOMAIN log'[j].delta : emitted[q] < log'[j].delta[i])
<1>0. /\ log \in Seq(TokenEvent) /\ emitted \in [Requests -> Nat] /\ NumTokens \in Nat
      /\ Len(log) \in Nat /\ DOMAIN log = 1 .. Len(log)
  BY OrderTypes, PersistenceAssumption DEF OrderInv
<1> DEFINE n == emitted[r] + 1
<1>1. PICK e \in TokenEvent : /\ log' = Append(log, e) /\ e.req = r
                              /\ e.delta = IF n <= NumTokens THEN <<n>> ELSE << >>
  <2> DEFINE d == IF n <= NumTokens
                  THEN [req |-> r, delta |-> <<n>>, done |-> FALSE]
                  ELSE [req |-> r, delta |-> << >>, done |-> TRUE]
  <2>1. log' = Append(log, d)
    BY DEF PublishToken
  <2>2. d \in TokenEvent
    BY <1>0 DEF TokenEvent, Content
  <2>3. d.req = r /\ d.delta = IF n <= NumTokens THEN <<n>> ELSE << >>
    OBVIOUS
  <2> HIDE DEF d
  <2> QED  BY <2>1, <2>2, <2>3
<1>2. emitted' = [emitted EXCEPT ![r] = n]
  BY DEF PublishToken
<1>3. emitted'[r] = n /\ (\A q \in Requests : q # r => emitted'[q] = emitted[q]) /\ n \in Nat /\ emitted[r] < n
  BY <1>0, <1>2
<1>4. Len(e.delta) <= 1 /\ \A k \in DOMAIN e.delta : e.delta[k] = n
  BY <1>1
<1> HIDE DEF n
<1>5. /\ DOMAIN log' = 1 .. Len(log) + 1 /\ log'[Len(log) + 1] = e
      /\ \A i \in 1 .. Len(log) : log'[i] = log[i]
  <2>1. \A i \in 1 .. Len(log) : i \in 1 .. Len(log) + 1 /\ i # Len(log) + 1
    BY <1>0
  <2>2. log' \in Seq(TokenEvent) /\ Len(log') = Len(log) + 1
    BY <1>0, <1>1, AppendProperties
  <2>3. DOMAIN log' = 1 .. Len(log) + 1
    BY <2>2, LenProperties
  <2>4. \A i \in 1 .. Len(log) : log'[i] = log[i]
    BY <1>0, <1>1, <2>1, AppendProperties
  <2>5. log'[Len(log) + 1] = e
    BY <1>0, <1>1, AppendProperties
  <2> QED  BY <2>3, <2>4, <2>5
<1>6. \A i \in 1 .. Len(log) + 1 : i \in 1 .. Len(log) \/ i = Len(log) + 1
  BY <1>0
<1>7. \A i \in 1 .. Len(log) : /\ log[i].req \in Requests /\ log[i].delta \in Content
                               /\ \A k \in DOMAIN log[i].delta : log[i].delta[k] \in Nat
  <2> TAKE i \in 1 .. Len(log)
  <2>1. log[i] \in TokenEvent
    BY <1>0, ElementOfSeq
  <2>2. log[i].req \in Requests /\ log[i].delta \in Content
    BY <2>1 DEF TokenEvent
  <2>3. PICK t \in Content : t = log[i].delta
    BY <2>2
  <2>4. \A k \in DOMAIN t : t[k] \in Nat
    BY ElementOfSeq DEF Content
  <2> QED  BY <2>2, <2>3, <2>4
<1>8. \A i \in 1 .. Len(log) : /\ Len(log[i].delta) <= 1
                               /\ \A k \in DOMAIN log[i].delta : log[i].delta[k] <= emitted[log[i].req]
  BY <1>0 DEF OrderInv, LogInOrder
<1>9. \A i \in 1 .. Len(log) + 1 : /\ Len(log'[i].delta) <= 1
                                   /\ \A k \in DOMAIN log'[i].delta : log'[i].delta[k] <= emitted'[log'[i].req]
  <2> TAKE i \in 1 .. Len(log) + 1
  <2>1. CASE i = Len(log) + 1
    <3>1. log'[i] = e
      BY <1>5, <2>1
    <3>2. \A k \in DOMAIN e.delta : e.delta[k] <= emitted'[e.req]
      BY <1>1, <1>3, <1>4
    <3> QED  BY <1>4, <3>1, <3>2, Zenon
  <2>2. CASE i \in 1 .. Len(log)
    <3>1. log'[i] = log[i] /\ log[i].req \in Requests
      BY <1>5, <1>7, <2>2
    <3>2. PICK q \in Requests : q = log[i].req
      BY <3>1
    <3>3. emitted[q] \in Nat /\ emitted'[q] \in Nat /\ emitted[q] <= emitted'[q]
      BY <1>0, <1>3
    <3>4. \A k \in DOMAIN log[i].delta : log[i].delta[k] \in Nat /\ log[i].delta[k] <= emitted[q]
      BY <1>7, <1>8, <2>2, <3>2, Zenon
    <3>5. \A k \in DOMAIN log[i].delta : log[i].delta[k] <= emitted'[q]
      BY <3>3, <3>4
    <3> QED  BY <1>8, <2>2, <3>1, <3>2, <3>5, Zenon
  <2> QED  BY <1>6, <2>1, <2>2
<1>10. ASSUME NEW i \in 1 .. Len(log) + 1, NEW j \in 1 .. Len(log) + 1, i < j, log'[i].req = log'[j].req
       PROVE  Precedes(log'[i].delta, log'[j].delta)
  <2>1. i \in 1 .. Len(log)
    BY <1>0, <1>10
  <2>2. CASE j \in 1 .. Len(log)
    <3>1. log'[i] = log[i] /\ log'[j] = log[j]
      BY <1>5, <2>1, <2>2
    <3> QED  BY <1>0, <1>10, <2>1, <2>2, <3>1 DEF OrderInv, LogInOrder
  <2>3. CASE j = Len(log) + 1
    <3>1. log'[i] = log[i] /\ log'[j] = e /\ log[i].req = r
      BY <1>1, <1>5, <1>10, <2>1, <2>3
    <3>2. \A k \in DOMAIN log[i].delta : log[i].delta[k] \in Nat /\ log[i].delta[k] <= emitted[r]
      BY <1>7, <1>8, <2>1, <3>1
    <3>3. \A k \in DOMAIN log[i].delta : log[i].delta[k] < n
      BY <1>0, <1>3, <3>2
    <3>4. Precedes(log[i].delta, e.delta)
      BY <1>4, <3>3 DEF Precedes
    <3> QED  BY <3>1, <3>4
  <2> QED  BY <1>6, <2>2, <2>3
<1>11. LogInOrder'
  BY <1>5, <1>9, <1>10 DEF LogInOrder
<1>12. \A q \in Requests : emitted[q] <= emitted'[q]
  BY <1>0, <1>3
<1>13. ASSUME NEW j \in DOMAIN log', NEW q \in Requests, log'[j].req = q
       PROVE  (j \in DOMAIN log /\ log'[j] = log[j]) \/ (\A i \in DOMAIN log'[j].delta : emitted[q] < log'[j].delta[i])
  <2>1. CASE j \in 1 .. Len(log)
    BY <1>0, <1>5, <2>1
  <2>2. CASE j = Len(log) + 1
    <3>1. log'[j] = e /\ q = r
      BY <1>1, <1>5, <1>13, <2>2
    <3> QED  BY <1>3, <1>4, <3>1
  <2> QED  BY <1>5, <1>6, <2>1, <2>2
<1> QED  BY <1>11, <1>12, <1>13

\* The topic goes on, or the reader does; the texts stay where they are.
LEMMA BufferLastLater ==
  ASSUME TypeInv, TypeInv', BufferLast, UNCHANGED <<buffers, messages, snap, existing>>,
         \A q \in Requests : emitted[q] <= emitted'[q], Taken <= Taken',
         \A j \in DOMAIN log' : \A q \in Requests : log'[j].req = q =>
           (j \in DOMAIN log /\ log'[j] = log[j]) \/ (\A i \in DOMAIN log'[j].delta : emitted[q] < log'[j].delta[i])
  PROVE  BufferLast'
<1>1. /\ emitted \in [Requests -> Nat] /\ Taken \in Int
      /\ buffers \in [Requests -> Content] /\ messages \in [Requests -> Content]
      /\ snap \in [Flushers -> [Requests -> Content]] /\ existing \in [Flushers -> [Requests -> Content]]
  BY OrderTypes
<1>2. log' \in Seq(TokenEvent) /\ emitted' \in [Requests -> Nat] /\ Taken' \in Int
  BY SMTT(30) DEF TypeInv, TypeOK, Taken
<1>3. ASSUME NEW r \in Requests, NEW s \in Content, Orderly(s, r, log, emitted[r], Taken)
      PROVE  Orderly(s, r, log', emitted'[r], Taken')
  <2>1. emitted[r] \in Nat /\ emitted'[r] \in Nat /\ emitted[r] <= emitted'[r]
    BY <1>1, <1>2
  <2>2. \A j \in DOMAIN log' : Taken' < j /\ log'[j].req = r =>
          (j \in DOMAIN log /\ log'[j] = log[j]) \/ (\A i \in DOMAIN log'[j].delta : emitted[r] < log'[j].delta[i])
    OBVIOUS
  <2> QED  BY <1>1, <1>2, <1>3, <2>1, <2>2, OrderlyLater
<1>4. \A r \in Requests : /\ buffers[r] \in Content /\ messages[r] \in Content
                          /\ \A f \in Flushers : snap[f][r] \in Content /\ existing[f][r] \in Content
  BY <1>1
<1> QED  BY <1>3, <1>4, Zenon DEF BufferLast

\* The texts a process holds, with those of some flushes dropped.
LEMMA OrderDrops ==
  ASSUME TypeInv, TypeInv', BufferLast, ReadIsOlder, OvertakenIsOlder,
         UNCHANGED <<log, emitted, messages>>, Taken <= Taken',
         buffers' = buffers \/ buffers' = NoContent,
         \A g \in Flushers : snap'[g] = snap[g] \/ snap'[g] = NoContent,
         \A g \in Flushers : existing'[g] = existing[g] \/ existing'[g] = NoContent,
         final' => final \/ snap'[TickerFlush] = NoContent,
         \A g \in Flushers :
           \/ fpc'[g] \notin {"read", "sessions", "upsert"}
           \/ /\ fpc'[g] = fpc[g] \/ (fpc[g] = "sessions" /\ fpc'[g] = "upsert")
              /\ snap'[g] = snap[g] /\ existing'[g] = existing[g] /\ (CanQuery(g)' => CanQuery(g))
  PROVE  BufferLast' /\ ReadIsOlder' /\ OvertakenIsOlder'
<1>1. /\ log \in Seq(TokenEvent) /\ emitted \in [Requests -> Nat] /\ Taken \in Int /\ Taken' \in Int
      /\ buffers \in [Requests -> Content] /\ messages \in [Requests -> Content]
      /\ snap \in [Flushers -> [Requests -> Content]] /\ existing \in [Flushers -> [Requests -> Content]]
      /\ ThresholdFlush \in Flushers /\ TickerFlush \in Flushers
  BY OrderTypes, SMTT(30) DEF TypeInv, TypeOK, Taken
<1>2. ASSUME NEW r \in Requests, NEW s \in Content, Orderly(s, r, log, emitted[r], Taken)
      PROVE  Orderly(s, r, log', emitted'[r], Taken')
  <2>1. log' = log /\ emitted'[r] = emitted[r] /\ emitted[r] \in Nat /\ emitted[r] <= emitted[r]
    BY <1>1
  <2>2. \A j \in DOMAIN log : Taken' < j /\ log[j].req = r => j \in DOMAIN log /\ log[j] = log[j]
    OBVIOUS
  <2>3. Orderly(s, r, log, emitted[r], Taken')
    BY <1>1, <1>2, <2>1, <2>2, OrderlyLater
  <2> QED  BY <2>1, <2>3
<1>3. \A r \in Requests : /\ buffers'[r] = buffers[r] \/ buffers'[r] = << >>
                          /\ \A g \in Flushers : /\ snap'[g][r] = snap[g][r] \/ snap'[g][r] = << >>
                                                 /\ existing'[g][r] = existing[g][r] \/ existing'[g][r] = << >>
  BY NothingOrderly
<1>4. BufferLast'
  <2> SUFFICES ASSUME NEW r \in Requests
               PROVE  /\ Orderly(buffers'[r], r, log', emitted'[r], Taken')
                      /\ Orderly(messages[r], r, log', emitted'[r], Taken') /\ Precedes(messages[r], buffers'[r])
                      /\ \A f \in Flushers :
                           /\ Orderly(snap'[f][r], r, log', emitted'[r], Taken') /\ Precedes(snap'[f][r], buffers'[r])
                           /\ Orderly(existing'[f][r], r, log', emitted'[r], Taken')
                           /\ Precedes(existing'[f][r], buffers'[r])
    BY Zenon DEF BufferLast
  <2>1. /\ Orderly(buffers[r], r, log', emitted'[r], Taken')
        /\ Orderly(messages[r], r, log', emitted'[r], Taken') /\ Precedes(messages[r], buffers[r])
    BY <1>1, <1>2 DEF BufferLast
  <2>2. ASSUME NEW f \in Flushers
        PROVE  /\ Orderly(snap[f][r], r, log', emitted'[r], Taken') /\ Precedes(snap[f][r], buffers[r])
               /\ Orderly(existing[f][r], r, log', emitted'[r], Taken') /\ Precedes(existing[f][r], buffers[r])
    BY <1>1, <1>2 DEF BufferLast
  <2>3. Orderly(buffers'[r], r, log', emitted'[r], Taken') /\ Precedes(messages[r], buffers'[r])
    BY <1>3, <2>1, NothingOrderly, Zenon
  <2>4. ASSUME NEW f \in Flushers
        PROVE  /\ Orderly(snap'[f][r], r, log', emitted'[r], Taken') /\ Precedes(snap'[f][r], buffers'[r])
               /\ Orderly(existing'[f][r], r, log', emitted'[r], Taken') /\ Precedes(existing'[f][r], buffers'[r])
    <3>1. Orderly(snap'[f][r], r, log', emitted'[r], Taken') /\ Orderly(existing'[f][r], r, log', emitted'[r], Taken')
      BY <1>3, <2>2, NothingOrderly, Zenon
    <3>2. Precedes(snap'[f][r], buffers[r]) /\ Precedes(existing'[f][r], buffers[r])
      BY <1>3, <2>2, NothingOrderly, Zenon
    <3>3. Precedes(snap'[f][r], buffers'[r]) /\ Precedes(existing'[f][r], buffers'[r])
      BY <1>3, <3>2, NothingOrderly, Zenon
    <3> QED  BY <3>1, <3>3
  <2> QED  BY <2>1, <2>3, <2>4
<1>5. ReadIsOlder'
  BY DEF ReadIsOlder
<1>6. OvertakenIsOlder'
  <2> SUFFICES ASSUME final', NEW r \in Requests
               PROVE  /\ Precedes(snap'[ThresholdFlush][r], snap'[TickerFlush][r])
                      /\ Precedes(existing'[ThresholdFlush][r], snap'[TickerFlush][r])
    BY DEF OvertakenIsOlder
  <2>1. CASE snap'[TickerFlush] = NoContent
    BY <2>1, NothingOrderly
  <2>2. CASE final
    <3>1. /\ Precedes(snap[ThresholdFlush][r], snap[TickerFlush][r])
          /\ Precedes(existing[ThresholdFlush][r], snap[TickerFlush][r])
      BY <2>2 DEF OvertakenIsOlder
    <3>2. /\ Precedes(snap'[ThresholdFlush][r], snap[TickerFlush][r])
          /\ Precedes(existing'[ThresholdFlush][r], snap[TickerFlush][r])
      BY <1>1, <1>3, <3>1, NothingOrderly, Zenon
    <3> QED  BY <1>1, <1>3, <3>2, NothingOrderly, Zenon
  <2> QED  BY <2>1, <2>2
<1> QED  BY <1>4, <1>5, <1>6

\* A token goes to the end of the buffer.
LEMMA OrderAdd ==
  ASSUME OrderInv, ~ rewound, TypeInv', AddToken
  PROVE  BufferLast' /\ ReadIsOlder' /\ OvertakenIsOlder'
<1> USE DEF kafka, reader, useCase, flushes, db, process, history
<1>1. /\ log \in Seq(TokenEvent) /\ emitted \in [Requests -> Nat] /\ Taken \in Int /\ Taken' \in Int
      /\ buffers \in [Requests -> Content] /\ messages \in [Requests -> Content]
      /\ snap \in [Flushers -> [Requests -> Content]] /\ existing \in [Flushers -> [Requests -> Content]]
      /\ DOMAIN log = 1 .. Len(log) /\ Len(log) \in Nat
  BY OrderTypes, SMTT(30) DEF OrderInv, TypeInv, TypeOK, Taken
<1>2. InHand \in TokenEvent /\ fetchPos \in 1 .. Len(log) /\ InHand = log[fetchPos]
  BY InHandType DEF AddToken, OrderInv, InHand
<1>3. PICK q \in Requests, d \in Content : q = InHand.req /\ d = InHand.delta
  BY <1>2 DEF TokenEvent
<1>4. /\ buffers' = [buffers EXCEPT ![q] = buffers[q] \o d] /\ Taken = fetchPos - 1 /\ Taken' = fetchPos
      /\ UNCHANGED <<log, emitted, messages, snap, existing, fpc, final, phase, rewound>>
  BY <1>3 DEF AddToken, Taken
<1>5. BufferLast /\ ReadIsOlder /\ OvertakenIsOlder /\ LogInOrder
  BY DEF OrderInv
<1>6. ASSUME NEW r \in Requests, NEW s \in Content, Orderly(s, r, log, emitted[r], Taken)
      PROVE  Orderly(s, r, log, emitted[r], Taken')
  <2>1. emitted[r] \in Nat /\ emitted[r] <= emitted[r] /\ Taken <= Taken'
    BY <1>1, <1>2, <1>4
  <2>2. \A j \in DOMAIN log : Taken' < j /\ log[j].req = r => j \in DOMAIN log /\ log[j] = log[j]
    OBVIOUS
  <2> QED  BY <1>1, <1>6, <2>1, <2>2, OrderlyLater
<1>7. ASSUME NEW s \in Content, Orderly(s, q, log, emitted[q], Taken) PROVE Precedes(s, d)
  <2>1. fetchPos \in DOMAIN log /\ Taken < fetchPos /\ log[fetchPos].req = q /\ log[fetchPos].delta = d
    BY <1>1, <1>2, <1>3, <1>4
  <2> QED  BY <1>7, <2>1 DEF Orderly
<1>8. Orderly(d, q, log, emitted[q], Taken')
  <2>1. fetchPos \in DOMAIN log /\ log[fetchPos].req = q /\ log[fetchPos].delta = d
    BY <1>1, <1>2, <1>3
  <2>2. Len(d) <= 1 /\ \A k \in DOMAIN d : d[k] <= emitted[q]
    BY <1>5, <2>1 DEF LogInOrder
  <2>3. StrictlyIncreasing(d)
    <3>1. DOMAIN d = 1 .. Len(d) /\ Len(d) \in Nat
      BY LenProperties DEF Content
    <3> QED  BY <2>2, <3>1 DEF StrictlyIncreasing
  <2>4. \A j \in DOMAIN log : Taken' < j /\ log[j].req = q => Precedes(d, log[j].delta)
    BY <1>4, <1>5, <2>1 DEF LogInOrder
  <2> QED  BY <2>2, <2>3, <2>4 DEF Orderly
<1>9. BufferLast'
  <2> SUFFICES ASSUME NEW r \in Requests
               PROVE  /\ Orderly(buffers'[r], r, log, emitted[r], Taken')
                      /\ Orderly(messages[r], r, log, emitted[r], Taken') /\ Precedes(messages[r], buffers'[r])
                      /\ \A f \in Flushers :
                           /\ Orderly(snap[f][r], r, log, emitted[r], Taken') /\ Precedes(snap[f][r], buffers'[r])
                           /\ Orderly(existing[f][r], r, log, emitted[r], Taken')
                           /\ Precedes(existing[f][r], buffers'[r])
    BY <1>4, Zenon DEF BufferLast
  <2>1. /\ buffers[r] \in Content /\ messages[r] \in Content
        /\ \A f \in Flushers : snap[f][r] \in Content /\ existing[f][r] \in Content
    BY <1>1
  <2>2. /\ Orderly(buffers[r], r, log, emitted[r], Taken)
        /\ Orderly(messages[r], r, log, emitted[r], Taken) /\ Precedes(messages[r], buffers[r])
        /\ \A f \in Flushers :
             /\ Orderly(snap[f][r], r, log, emitted[r], Taken) /\ Precedes(snap[f][r], buffers[r])
             /\ Orderly(existing[f][r], r, log, emitted[r], Taken) /\ Precedes(existing[f][r], buffers[r])
    BY <1>5, Zenon DEF BufferLast
  <2>3. /\ Orderly(buffers[r], r, log, emitted[r], Taken') /\ Orderly(messages[r], r, log, emitted[r], Taken')
        /\ \A f \in Flushers : /\ Orderly(snap[f][r], r, log, emitted[r], Taken')
                               /\ Orderly(existing[f][r], r, log, emitted[r], Taken')
    BY <1>6, <2>1, <2>2, Zenon
  <2>4. CASE r # q
    <3>1. buffers'[r] = buffers[r]
      BY <1>1, <1>4, <2>4
    <3> QED  BY <2>2, <2>3, <3>1, Zenon
  <2>5. CASE r = q
    <3>1. buffers'[r] = buffers[r] \o d
      BY <1>1, <1>4, <2>5
    <3>2. Orderly(buffers[r] \o d, r, log, emitted[r], Taken')
      BY <1>7, <1>8, <2>1, <2>2, <2>3, <2>5, OrderlyConcat, Zenon
    <3>3. \A s \in Content : Orderly(s, r, log, emitted[r], Taken) /\ Precedes(s, buffers[r]) => Precedes(s, buffers[r] \o d)
      BY <1>7, <2>1, <2>5, PrecedesConcat, Zenon
    <3> QED  BY <2>1, <2>2, <2>3, <3>1, <3>2, <3>3, Zenon
  <2> QED  BY <2>4, <2>5
<1>10. ReadIsOlder' /\ OvertakenIsOlder'
  BY <1>4, <1>5 DEF ReadIsOlder, OvertakenIsOlder, CanQuery, IsFinal
<1> QED  BY <1>9, <1>10

\* The texts are where they were, and no flush has come to a database call.
LEMMA OrderStands ==
  ASSUME OrderInv, ~ rewound, TypeInv', Taken <= Taken',
         UNCHANGED <<log, emitted, messages, buffers, snap, existing>>,
         final' => final \/ snap[TickerFlush] = NoContent,
         \A g \in Flushers :
           \/ fpc'[g] \notin {"read", "sessions", "upsert"}
           \/ fpc'[g] = fpc[g] /\ (CanQuery(g)' => CanQuery(g))
  PROVE  BufferLast' /\ ReadIsOlder' /\ OvertakenIsOlder'
<1>1. TypeInv /\ BufferLast /\ ReadIsOlder /\ OvertakenIsOlder
  BY DEF OrderInv
<1>2. /\ \A g \in Flushers : snap'[g] = snap[g] \/ snap'[g] = NoContent
      /\ \A g \in Flushers : existing'[g] = existing[g] \/ existing'[g] = NoContent
      /\ buffers' = buffers \/ buffers' = NoContent
      /\ final' => final \/ snap'[TickerFlush] = NoContent
  OBVIOUS
<1>3. \A g \in Flushers :
        \/ fpc'[g] \notin {"read", "sessions", "upsert"}
        \/ /\ fpc'[g] = fpc[g] \/ (fpc[g] = "sessions" /\ fpc'[g] = "upsert")
           /\ snap'[g] = snap[g] /\ existing'[g] = existing[g] /\ (CanQuery(g)' => CanQuery(g))
  OBVIOUS
<1> QED  BY <1>1, <1>2, <1>3, OrderDrops

\* A flush that ends drops what it holds.
LEMMA OrderEndFlush ==
  ASSUME OrderInv, ~ rewound, TypeInv', NEW f \in Flushers, EndFlush(f),
         UNCHANGED <<log, emitted, messages, final, phase, loop, fetchPos>>,
         buffers' = buffers \/ buffers' = NoContent
  PROVE  BufferLast' /\ ReadIsOlder' /\ OvertakenIsOlder'
<1>1. TypeInv /\ BufferLast /\ ReadIsOlder /\ OvertakenIsOlder
  BY DEF OrderInv
<1>2. /\ snap' = [snap EXCEPT ![f] = NoContent] /\ existing' = [existing EXCEPT ![f] = NoContent]
      /\ fpc' = [fpc EXCEPT ![f] = "release"]
  BY DEF EndFlush
<1>3. DOMAIN snap = Flushers /\ DOMAIN existing = Flushers /\ DOMAIN fpc = Flushers
  BY <1>1 DEF TypeInv, TypeOK
<1>4. /\ \A g \in Flushers : snap'[g] = snap[g] \/ snap'[g] = NoContent
      /\ \A g \in Flushers : existing'[g] = existing[g] \/ existing'[g] = NoContent
      /\ final' => final \/ snap'[TickerFlush] = NoContent
  BY <1>2, <1>3
<1>5. \A g \in Flushers : CanQuery(g)' => CanQuery(g)
  BY DEF CanQuery, IsFinal
<1>6. \A g \in Flushers :
        \/ fpc'[g] \notin {"read", "sessions", "upsert"}
        \/ /\ fpc'[g] = fpc[g] \/ (fpc[g] = "sessions" /\ fpc'[g] = "upsert")
           /\ snap'[g] = snap[g] /\ existing'[g] = existing[g] /\ (CanQuery(g)' => CanQuery(g))
  BY <1>2, <1>3, <1>5
<1>7. Taken' = Taken /\ Taken \in Int
  BY <1>1, OrderTypes DEF Taken
<1>8. Taken <= Taken'
  BY <1>7
<1> QED  BY <1>1, <1>4, <1>6, <1>8, OrderDrops

\* While a flush may query and the last one has begun, it is the last one.
LEMMA LastMayQuery ==
  ASSUME Mutex, NEW f \in Flushers, CanQuery(f), final
  PROVE  f = TickerFlush /\ phase # "up"
BY DEF Mutex, CanQuery, IsFinal

\* The snapshot takes the buffers, and what is stored and in the other flush
\* is older.
LEMMA OrderSnapshot ==
  ASSUME OrderInv, ~ rewound, TypeInv', NEW f \in Flushers, Snapshot(f)
  PROVE  BufferLast' /\ ReadIsOlder' /\ OvertakenIsOlder'
<1> USE DEF kafka, reader, useCase, flushes, db, process, history
<1>0. UNCHANGED <<log, emitted, messages, final, phase, loop, fetchPos>>
  BY DEF Snapshot
<1>1. CASE EndFlush(f)
  <2>1. buffers' = buffers \/ buffers' = NoContent
    BY DEF Snapshot
  <2> QED  BY <1>0, <1>1, <2>1, OrderEndFlush
<1>2. CASE ~ EndFlush(f)
  <2>1. /\ CanQuery(f) /\ buffers' = NoContent /\ snap' = [snap EXCEPT ![f] = buffers]
        /\ fpc' = [fpc EXCEPT ![f] = "read"] /\ existing' = existing
    BY <1>2 DEF Snapshot
  <2>2. /\ buffers \in [Requests -> Content] /\ ThresholdFlush \in Flushers /\ TickerFlush \in Flushers
        /\ ThresholdFlush # TickerFlush /\ DOMAIN snap = Flushers /\ DOMAIN fpc = Flushers
    BY OrderTypes DEF OrderInv, TypeInv, TypeOK
  <2>3. Taken' = Taken
    BY <1>0 DEF Taken
  <2>4. Mutex /\ BufferLast /\ ReadIsOlder /\ OvertakenIsOlder
    BY DEF OrderInv
  <2>5. /\ \A r \in Requests : buffers'[r] = << >>
        /\ snap'[f] = buffers /\ \A g \in Flushers : g # f => snap'[g] = snap[g] /\ fpc'[g] = fpc[g]
        /\ fpc'[f] = "read"
    BY <2>1, <2>2, NothingOrderly
  <2>6. BufferLast'
    <3> SUFFICES ASSUME NEW r \in Requests
                 PROVE  /\ Orderly(buffers'[r], r, log, emitted[r], Taken)
                        /\ Orderly(messages[r], r, log, emitted[r], Taken) /\ Precedes(messages[r], buffers'[r])
                        /\ \A g \in Flushers :
                             /\ Orderly(snap'[g][r], r, log, emitted[r], Taken) /\ Precedes(snap'[g][r], buffers'[r])
                             /\ Orderly(existing[g][r], r, log, emitted[r], Taken)
                             /\ Precedes(existing[g][r], buffers'[r])
      BY <1>0, <2>1, <2>3, Zenon DEF BufferLast
    <3>1. /\ Orderly(buffers[r], r, log, emitted[r], Taken) /\ Orderly(messages[r], r, log, emitted[r], Taken)
          /\ \A g \in Flushers : /\ Orderly(snap[g][r], r, log, emitted[r], Taken)
                                 /\ Orderly(existing[g][r], r, log, emitted[r], Taken)
      BY <2>4, Zenon DEF BufferLast
    <3>2. \A g \in Flushers : snap'[g][r] = buffers[r] \/ snap'[g][r] = snap[g][r]
      BY <2>5, Zenon
    <3> QED  BY <2>5, <3>1, <3>2, NothingOrderly, Zenon
  <2>7. ReadIsOlder'
    <3> SUFFICES ASSUME NEW r \in Requests, NEW g \in Flushers
                 PROVE  /\ fpc'[g] = "read" /\ CanQuery(g)' => Precedes(messages'[r], snap'[g][r])
                        /\ fpc'[g] \in {"sessions", "upsert"} => Precedes(existing'[g][r], snap'[g][r])
      BY DEF ReadIsOlder
    <3>1. CASE g = f
      BY <1>0, <2>4, <2>5, <3>1 DEF BufferLast
    <3>2. CASE g # f
      <4>1. CanQuery(g)' => CanQuery(g)
        BY <1>0 DEF CanQuery, IsFinal
      <4>2. fpc'[g] = fpc[g] /\ snap'[g] = snap[g] /\ messages' = messages /\ existing' = existing
        BY <1>0, <2>1, <2>5, <3>2
      <4> QED  BY <2>4, <4>1, <4>2 DEF ReadIsOlder
    <3> QED  BY <3>1, <3>2
  <2>8. OvertakenIsOlder'
    <3> SUFFICES ASSUME final, NEW r \in Requests
                 PROVE  /\ Precedes(snap'[ThresholdFlush][r], snap'[TickerFlush][r])
                        /\ Precedes(existing'[ThresholdFlush][r], snap'[TickerFlush][r])
      BY <1>0 DEF OvertakenIsOlder
    <3>1. f = TickerFlush
      BY <2>1, <2>4, LastMayQuery
    <3>2. /\ snap'[ThresholdFlush] = snap[ThresholdFlush] /\ snap'[TickerFlush] = buffers
          /\ existing'[ThresholdFlush] = existing[ThresholdFlush]
      BY <2>1, <2>2, <2>5, <3>1
    <3>3. Precedes(snap[ThresholdFlush][r], buffers[r]) /\ Precedes(existing[ThresholdFlush][r], buffers[r])
      BY <2>2, <2>4 DEF BufferLast
    <3> QED  BY <3>2, <3>3
  <2> QED  BY <2>6, <2>7, <2>8
<1> QED  BY <1>1, <1>2

\* What a flush reads is older than its snapshot.
LEMMA OrderRead ==
  ASSUME OrderInv, ~ rewound, TypeInv', NEW f \in Flushers, ReadExisting(f)
  PROVE  BufferLast' /\ ReadIsOlder' /\ OvertakenIsOlder'
<1> USE DEF kafka, reader, useCase, flushes, db, process, history
<1>0. UNCHANGED <<log, emitted, messages, final, phase, loop, fetchPos, buffers>> /\ fpc[f] = "read"
  BY DEF ReadExisting
<1>1. CASE EndFlush(f)
  BY <1>0, <1>1, OrderEndFlush
<1>2. CASE ~ EndFlush(f)
  <2>1. /\ CanQuery(f) /\ fpc' = [fpc EXCEPT ![f] = "sessions"] /\ snap' = snap
        /\ existing' = [existing EXCEPT ![f] =
             [r \in Requests |-> IF r \in snapKeys[f] THEN messages[r] ELSE << >>]]
    BY <1>2 DEF ReadExisting
  <2>2. /\ ThresholdFlush \in Flushers /\ TickerFlush \in Flushers
        /\ ThresholdFlush # TickerFlush /\ DOMAIN existing = Flushers /\ DOMAIN fpc = Flushers
    BY OrderTypes DEF OrderInv, TypeInv, TypeOK
  <2>3. Taken' = Taken
    BY <1>0 DEF Taken
  <2>4. Mutex /\ BufferLast /\ ReadIsOlder /\ OvertakenIsOlder
    BY DEF OrderInv
  <2>5. /\ \A r \in Requests : existing'[f][r] = messages[r] \/ existing'[f][r] = << >>
        /\ \A g \in Flushers : g # f => existing'[g] = existing[g] /\ fpc'[g] = fpc[g]
        /\ fpc'[f] = "sessions"
    BY <2>1, <2>2
  <2>6. BufferLast'
    <3> SUFFICES ASSUME NEW r \in Requests
                 PROVE  /\ Orderly(buffers[r], r, log, emitted[r], Taken)
                        /\ Orderly(messages[r], r, log, emitted[r], Taken) /\ Precedes(messages[r], buffers[r])
                        /\ \A g \in Flushers :
                             /\ Orderly(snap[g][r], r, log, emitted[r], Taken) /\ Precedes(snap[g][r], buffers[r])
                             /\ Orderly(existing'[g][r], r, log, emitted[r], Taken)
                             /\ Precedes(existing'[g][r], buffers[r])
      BY <1>0, <2>1, <2>3, Zenon DEF BufferLast
    <3>1. /\ Orderly(buffers[r], r, log, emitted[r], Taken)
          /\ Orderly(messages[r], r, log, emitted[r], Taken) /\ Precedes(messages[r], buffers[r])
          /\ \A g \in Flushers :
               /\ Orderly(snap[g][r], r, log, emitted[r], Taken) /\ Precedes(snap[g][r], buffers[r])
               /\ Orderly(existing[g][r], r, log, emitted[r], Taken) /\ Precedes(existing[g][r], buffers[r])
      BY <2>4, Zenon DEF BufferLast
    <3>2. \A g \in Flushers : \/ existing'[g][r] = messages[r] \/ existing'[g][r] = << >>
                              \/ existing'[g][r] = existing[g][r]
      BY <2>5, Zenon
    <3> QED  BY <3>1, <3>2, NothingOrderly, Zenon
  <2>7. ReadIsOlder'
    <3> SUFFICES ASSUME NEW r \in Requests, NEW g \in Flushers
                 PROVE  /\ fpc'[g] = "read" /\ CanQuery(g)' => Precedes(messages'[r], snap'[g][r])
                        /\ fpc'[g] \in {"sessions", "upsert"} => Precedes(existing'[g][r], snap'[g][r])
      BY DEF ReadIsOlder
    <3>1. CASE g = f
      <4>1. Precedes(messages[r], snap[f][r])
        BY <1>0, <2>1, <2>4 DEF ReadIsOlder
      <4>2. Precedes(existing'[f][r], snap[f][r])
        BY <2>5, <4>1, NothingOrderly, Zenon
      <4> QED  BY <2>1, <2>5, <3>1, <4>2
    <3>2. CASE g # f
      <4>1. CanQuery(g)' => CanQuery(g)
        BY <1>0 DEF CanQuery, IsFinal
      <4>2. fpc'[g] = fpc[g] /\ snap' = snap /\ messages' = messages /\ existing'[g] = existing[g]
        BY <1>0, <2>1, <2>5, <3>2
      <4> QED  BY <2>4, <4>1, <4>2 DEF ReadIsOlder
    <3> QED  BY <3>1, <3>2
  <2>8. OvertakenIsOlder'
    <3> SUFFICES ASSUME final, NEW r \in Requests
                 PROVE  /\ Precedes(snap'[ThresholdFlush][r], snap'[TickerFlush][r])
                        /\ Precedes(existing'[ThresholdFlush][r], snap'[TickerFlush][r])
      BY <1>0 DEF OvertakenIsOlder
    <3>1. f = TickerFlush
      BY <2>1, <2>4, LastMayQuery
    <3>2. snap' = snap /\ existing'[ThresholdFlush] = existing[ThresholdFlush]
      BY <2>1, <2>2, <2>5, <3>1
    <3> QED  BY <2>4, <3>2 DEF OvertakenIsOlder
  <2> QED  BY <2>6, <2>7, <2>8
<1> QED  BY <1>1, <1>2

\* The upsert writes a text in order, and it is older than the snapshot of the
\* only flush that may still read it: the last one.
LEMMA OrderUpsert ==
  ASSUME OrderInv, ~ rewound, TypeInv', NEW f \in Flushers, UpsertMessages(f)
  PROVE  BufferLast' /\ ReadIsOlder' /\ OvertakenIsOlder'
<1> USE DEF kafka, reader, useCase, flushes, db, process, history
<1>0. /\ UNCHANGED <<log, emitted, final, phase, loop, fetchPos, buffers>> /\ fpc[f] = "upsert" /\ EndFlush(f)
  BY DEF UpsertMessages
<1>1. /\ messages' = [r \in Requests |-> IF r \in snapKeys[f] THEN Merged(f, r) ELSE messages[r]]
      /\ snap' = [snap EXCEPT ![f] = NoContent] /\ existing' = [existing EXCEPT ![f] = NoContent]
      /\ fpc' = [fpc EXCEPT ![f] = "release"]
  BY DEF UpsertMessages, EndFlush
<1>2. /\ ThresholdFlush \in Flushers /\ TickerFlush \in Flushers /\ ThresholdFlush # TickerFlush
      /\ \A g \in Flushers : g = ThresholdFlush \/ g = TickerFlush
      /\ DOMAIN existing = Flushers /\ DOMAIN fpc = Flushers /\ DOMAIN snap = Flushers
      /\ \A r \in Requests : snap[f][r] \in Content /\ existing[f][r] \in Content
  BY OrderTypes, SMTT(30) DEF OrderInv, TypeInv, TypeOK
<1>3. Taken' = Taken
  BY <1>0 DEF Taken
<1>4. Mutex /\ BufferLast /\ ReadIsOlder /\ OvertakenIsOlder
  BY DEF OrderInv
<1>5. \A r \in Requests : messages'[r] = existing[f][r] \o snap[f][r] \/ messages'[r] = messages[r]
  BY <1>1 DEF Merged
<1>6. /\ \A r \in Requests : snap'[f][r] = << >> /\ existing'[f][r] = << >>
      /\ \A g \in Flushers : g # f => snap'[g] = snap[g] /\ existing'[g] = existing[g] /\ fpc'[g] = fpc[g]
      /\ fpc'[f] = "release"
  BY <1>1, <1>2, NothingOrderly
<1>7. \A r \in Requests : Precedes(existing[f][r], snap[f][r])
  BY <1>0, <1>4 DEF ReadIsOlder
<1>8. BufferLast'
  <2> SUFFICES ASSUME NEW r \in Requests
               PROVE  /\ Orderly(buffers[r], r, log, emitted[r], Taken)
                      /\ Orderly(messages'[r], r, log, emitted[r], Taken) /\ Precedes(messages'[r], buffers[r])
                      /\ \A g \in Flushers :
                           /\ Orderly(snap'[g][r], r, log, emitted[r], Taken) /\ Precedes(snap'[g][r], buffers[r])
                           /\ Orderly(existing'[g][r], r, log, emitted[r], Taken)
                           /\ Precedes(existing'[g][r], buffers[r])
    BY <1>0, <1>3, Zenon DEF BufferLast
  <2>1. /\ Orderly(buffers[r], r, log, emitted[r], Taken)
        /\ Orderly(messages[r], r, log, emitted[r], Taken) /\ Precedes(messages[r], buffers[r])
        /\ \A g \in Flushers :
             /\ Orderly(snap[g][r], r, log, emitted[r], Taken) /\ Precedes(snap[g][r], buffers[r])
             /\ Orderly(existing[g][r], r, log, emitted[r], Taken) /\ Precedes(existing[g][r], buffers[r])
    BY <1>4, Zenon DEF BufferLast
  <2>2. Orderly(existing[f][r] \o snap[f][r], r, log, emitted[r], Taken)
    BY <1>2, <1>7, <2>1, OrderlyConcat, Zenon
  <2>3. Precedes(existing[f][r] \o snap[f][r], buffers[r])
    BY <1>2, <2>1, PrecedesConcat, Zenon
  <2>4. Orderly(messages'[r], r, log, emitted[r], Taken) /\ Precedes(messages'[r], buffers[r])
    BY <1>5, <2>1, <2>2, <2>3, Zenon
  <2>5. \A g \in Flushers : /\ snap'[g][r] = snap[g][r] \/ snap'[g][r] = << >>
                            /\ existing'[g][r] = existing[g][r] \/ existing'[g][r] = << >>
    BY <1>6, Zenon
  <2> QED  BY <2>1, <2>4, <2>5, NothingOrderly, Zenon
<1>9. ReadIsOlder'
  <2> SUFFICES ASSUME NEW r \in Requests, NEW g \in Flushers
               PROVE  /\ fpc'[g] = "read" /\ CanQuery(g)' => Precedes(messages'[r], snap'[g][r])
                      /\ fpc'[g] \in {"sessions", "upsert"} => Precedes(existing'[g][r], snap'[g][r])
    BY DEF ReadIsOlder
  <2>1. CASE g = f
    BY <1>6, <2>1
  <2>2. CASE g # f
    <3>1. CanQuery(g)' => CanQuery(g)
      BY <1>0 DEF CanQuery, IsFinal
    <3>2. fpc'[g] = fpc[g] /\ snap'[g] = snap[g] /\ existing'[g] = existing[g]
      BY <1>6, <2>2
    <3>3. ASSUME fpc[g] = "read", CanQuery(g) PROVE Precedes(messages'[r], snap[g][r])
      <4>1. phase # "up"
        BY <1>0, <1>4, <2>2, <3>3 DEF Mutex, Active, Querying
      <4>2. final /\ g = TickerFlush /\ f = ThresholdFlush
        BY <1>2, <2>2, <3>3, <4>1 DEF CanQuery, IsFinal
      <4>3. Precedes(existing[f][r], snap[g][r]) /\ Precedes(snap[f][r], snap[g][r])
        BY <1>4, <4>2 DEF OvertakenIsOlder
      <4>4. Precedes(existing[f][r] \o snap[f][r], snap[g][r])
        BY <1>2, <4>3, PrecedesConcat, Zenon
      <4>5. Precedes(messages[r], snap[g][r])
        BY <1>4, <3>3 DEF ReadIsOlder
      <4> QED  BY <1>5, <4>4, <4>5, Zenon
    <3> QED  BY <1>4, <3>1, <3>2, <3>3 DEF ReadIsOlder
  <2> QED  BY <2>1, <2>2
<1>10. OvertakenIsOlder'
  <2> SUFFICES ASSUME final, NEW r \in Requests
               PROVE  /\ Precedes(snap'[ThresholdFlush][r], snap'[TickerFlush][r])
                      /\ Precedes(existing'[ThresholdFlush][r], snap'[TickerFlush][r])
    BY <1>0 DEF OvertakenIsOlder
  <2>1. /\ Precedes(snap[ThresholdFlush][r], snap[TickerFlush][r])
        /\ Precedes(existing[ThresholdFlush][r], snap[TickerFlush][r])
    BY <1>4 DEF OvertakenIsOlder
  <2>2. \A g \in Flushers : /\ snap'[g][r] = snap[g][r] \/ snap'[g][r] = << >>
                            /\ existing'[g][r] = existing[g][r] \/ existing'[g][r] = << >>
    BY <1>6, Zenon
  <2>3. /\ Precedes(snap'[ThresholdFlush][r], snap[TickerFlush][r])
        /\ Precedes(existing'[ThresholdFlush][r], snap[TickerFlush][r])
    BY <1>2, <2>1, <2>2, NothingOrderly, Zenon
  <2> QED  BY <1>2, <2>2, <2>3, NothingOrderly, Zenon
<1> QED  BY <1>8, <1>9, <1>10

\* Only the producer writes the topic, and no restart is forgotten.
LEMMA OnlyProducerWrites ==
  [Next]_vars => /\ UNCHANGED <<log, emitted>> \/ \E r \in Requests : PublishToken(r)
                 /\ rewound' => rewound \/ Restart
                 /\ rewound => rewound'
<1> SUFFICES ASSUME [Next]_vars
             PROVE  /\ UNCHANGED <<log, emitted>> \/ \E r \in Requests : PublishToken(r)
                    /\ rewound' => rewound \/ Restart
                    /\ rewound => rewound'
  OBVIOUS
<1> USE DEF kafka, reader, useCase, flushes, db, process, history
<1>1. CASE Stop \/ CloseDB \/ Exit \/ Crash
  <2>1. UNCHANGED <<log, emitted>> /\ rewound' = rewound
    BY <1>1, Zenon DEF Stop, CloseDB, Exit, Crash, LoseMemory
  <2> QED  BY <2>1, Zenon
<1>2. CASE Restart
  <2>1. UNCHANGED <<log, emitted>> /\ (rewound' = (rewound \/ committed < fetchPos))
    BY <1>2, Zenon DEF Restart
  <2>2. rewound => rewound'
    BY <2>1, Zenon
  <2> QED  BY <1>2, <2>1, <2>2, Zenon
<1>3. ASSUME NEW f \in Flushers,
             Snapshot(f) \/ ReadExisting(f) \/ InsertSessions(f) \/ UpsertMessages(f)
               \/ QueryFails(f) \/ Release(f)
      PROVE  UNCHANGED <<log, emitted, rewound>>
  BY <1>3, Zenon DEF Snapshot, ReadExisting, InsertSessions, UpsertMessages, QueryFails, Release
<1>4. CASE Fetch \/ AddToken \/ ShouldFlush \/ TryThresholdFlush \/ LoopExit \/ CommitTick \/ Tick \/ FinalFlush
  <2>1. UNCHANGED <<log, emitted>> /\ rewound' = rewound
    BY <1>4, Zenon DEF Fetch, AddToken, ShouldFlush, TryThresholdFlush, LoopExit, CommitTick, Tick, FinalFlush
  <2> QED  BY <2>1, Zenon
<1>5. ASSUME NEW r \in Requests, PublishToken(r) PROVE rewound' = rewound
  BY <1>5, Zenon DEF PublishToken
<1>6. CASE UNCHANGED vars
  BY <1>6, Zenon DEF vars
<1> QED  BY <1>1, <1>2, <1>3, <1>4, <1>5, <1>6, Zenon DEF Next

\* Every step leaves the texts in order that no restart has read again.
LEMMA OrderTextStep ==
  ASSUME OrderInv, [Next]_vars, TypeInv', ~ rewound, ~ rewound'
  PROVE  BufferLast' /\ ReadIsOlder' /\ OvertakenIsOlder'
<1> USE DEF kafka, reader, useCase, flushes, db, process, history
<1>0. /\ TypeInv /\ Mutex /\ Placement /\ BufferLast /\ ReadIsOlder /\ OvertakenIsOlder
      /\ fetchPos \in Int /\ Taken \in Int /\ DOMAIN fpc = Flushers /\ ThresholdFlush # TickerFlush
      /\ ThresholdFlush \in Flushers /\ TickerFlush \in Flushers
  BY OrderTypes, SMTT(30) DEF OrderInv, TypeInv, TypeOK
<1> DEFINE Stands == /\ UNCHANGED <<log, emitted, messages, buffers, snap, existing>> /\ Taken <= Taken'
                     /\ final' => final \/ snap[TickerFlush] = NoContent
                     /\ \A g \in Flushers :
                          \/ fpc'[g] \notin {"read", "sessions", "upsert"}
                          \/ fpc'[g] = fpc[g] /\ (CanQuery(g)' => CanQuery(g))
<1>1. Stands => BufferLast' /\ ReadIsOlder' /\ OvertakenIsOlder'
  BY OrderStands
<1>2. UNCHANGED <<final, phase>> => \A g \in Flushers : CanQuery(g)' => CanQuery(g)
  BY DEF CanQuery, IsFinal
<1>3. UNCHANGED <<loop, fetchPos>> => Taken <= Taken'
  BY <1>0 DEF Taken
<1>4. ASSUME NEW r \in Requests, PublishToken(r) PROVE BufferLast' /\ ReadIsOlder' /\ OvertakenIsOlder'
  <2>1. UNCHANGED <<buffers, messages, snap, existing, fpc, final, phase, loop, fetchPos>>
    BY <1>4 DEF PublishToken
  <2>2. /\ \A q \in Requests : emitted[q] <= emitted'[q]
        /\ \A j \in DOMAIN log' : \A q \in Requests : log'[j].req = q =>
             (j \in DOMAIN log /\ log'[j] = log[j]) \/ (\A i \in DOMAIN log'[j].delta : emitted[q] < log'[j].delta[i])
    BY <1>4, LogPublish
  <2>3. BufferLast'
    BY <1>0, <1>3, <2>1, <2>2, BufferLastLater
  <2>4. ReadIsOlder' /\ OvertakenIsOlder'
    BY <1>0, <2>1 DEF ReadIsOlder, OvertakenIsOlder, CanQuery, IsFinal
  <2> QED  BY <2>3, <2>4
<1>5. CASE Fetch
  <2>1. Taken <= Taken'
    BY <1>0, <1>5 DEF Fetch, Taken
  <2>2. UNCHANGED <<log, emitted, messages, buffers, snap, existing, fpc, final, phase>>
    BY <1>5 DEF Fetch
  <2> QED  BY <1>1, <1>2, <2>1, <2>2
<1>6. CASE ShouldFlush \/ LoopExit
  <2>1. Taken <= Taken'
    BY <1>0, <1>6 DEF ShouldFlush, LoopExit, Taken
  <2>2. UNCHANGED <<log, emitted, messages, buffers, snap, existing, fpc, final, phase>>
    BY <1>6 DEF ShouldFlush, LoopExit
  <2> QED  BY <1>1, <1>2, <2>1, <2>2
<1>7. CASE CommitTick \/ UNCHANGED vars
  <2>1. UNCHANGED <<log, emitted, messages, buffers, snap, existing, fpc, final, phase, loop, fetchPos>>
    BY <1>7 DEF CommitTick, vars
  <2> QED  BY <1>1, <1>2, <1>3, <2>1
<1>8. CASE AddToken
  BY <1>8, OrderAdd
<1>9. CASE TryThresholdFlush \/ Tick
  <2>1. Taken <= Taken'
    BY <1>0, <1>9 DEF TryThresholdFlush, Tick, Taken
  <2>2. UNCHANGED <<log, emitted, messages, buffers, snap, existing, final, phase>>
    BY <1>9 DEF TryThresholdFlush, Tick
  <2>3. \A g \in Flushers : fpc'[g] = fpc[g] \/ fpc'[g] = "snapshot"
    BY <1>0, <1>9 DEF TryThresholdFlush, Tick, Acquire
  <2> QED  BY <1>1, <1>2, <2>1, <2>2, <2>3
<1>10. CASE FinalFlush
  <2>1. UNCHANGED <<log, emitted, messages, buffers, snap, existing, phase, loop, fetchPos>>
    BY <1>10 DEF FinalFlush
  <2>2. snap[TickerFlush] = NoContent
    BY <1>0, <1>10 DEF FinalFlush, Placement, Querying
  <2>3. fpc'[TickerFlush] = "snapshot" /\ \A g \in Flushers : g # TickerFlush => fpc'[g] = fpc[g]
    BY <1>0, <1>10 DEF FinalFlush
  <2>4. \A g \in Flushers : g # TickerFlush => (CanQuery(g)' => CanQuery(g))
    BY <2>1 DEF CanQuery, IsFinal
  <2> QED  BY <1>1, <1>3, <2>1, <2>2, <2>3, <2>4
<1>11. ASSUME NEW f \in Flushers, Snapshot(f) \/ ReadExisting(f) \/ UpsertMessages(f)
       PROVE  BufferLast' /\ ReadIsOlder' /\ OvertakenIsOlder'
  BY <1>11, OrderSnapshot, OrderRead, OrderUpsert
<1>12. ASSUME NEW f \in Flushers, InsertSessions(f) PROVE BufferLast' /\ ReadIsOlder' /\ OvertakenIsOlder'
  <2>1. UNCHANGED <<log, emitted, messages, buffers, final, phase, loop, fetchPos>> /\ fpc[f] = "sessions"
    BY <1>12 DEF InsertSessions
  <2>2. CASE EndFlush(f)
    BY <2>1, <2>2, OrderEndFlush
  <2>3. CASE ~ EndFlush(f)
    <3>1. fpc' = [fpc EXCEPT ![f] = "upsert"] /\ UNCHANGED <<snap, existing>>
      BY <1>12, <2>3 DEF InsertSessions
    <3>2. \A g \in Flushers :
            \/ fpc'[g] \notin {"read", "sessions", "upsert"}
            \/ /\ fpc'[g] = fpc[g] \/ (fpc[g] = "sessions" /\ fpc'[g] = "upsert")
               /\ snap'[g] = snap[g] /\ existing'[g] = existing[g] /\ (CanQuery(g)' => CanQuery(g))
      BY <1>0, <1>2, <2>1, <3>1
    <3>3. /\ \A g \in Flushers : snap'[g] = snap[g] \/ snap'[g] = NoContent
          /\ \A g \in Flushers : existing'[g] = existing[g] \/ existing'[g] = NoContent
          /\ final' => final \/ snap'[TickerFlush] = NoContent
      BY <2>1, <3>1
    <3> QED  BY <1>0, <1>3, <2>1, <3>2, <3>3, OrderDrops
  <2> QED  BY <2>2, <2>3
<1>13. ASSUME NEW f \in Flushers, QueryFails(f) PROVE BufferLast' /\ ReadIsOlder' /\ OvertakenIsOlder'
  <2>1. UNCHANGED <<log, emitted, messages, buffers, final, phase, loop, fetchPos>> /\ EndFlush(f)
    BY <1>13 DEF QueryFails
  <2> QED  BY <2>1, OrderEndFlush
<1>14. ASSUME NEW f \in Flushers, Release(f) PROVE BufferLast' /\ ReadIsOlder' /\ OvertakenIsOlder'
  <2>1. UNCHANGED <<log, emitted, messages, buffers, snap, existing, final, phase, loop, fetchPos>>
    BY <1>14 DEF Release
  <2>2. \A g \in Flushers : fpc'[g] = fpc[g] \/ fpc'[g] \in {"idle", "stopped"}
    BY <1>0, <1>14 DEF Release
  <2> QED  BY <1>1, <1>2, <1>3, <2>1, <2>2
<1>15. CASE Stop \/ CloseDB
  <2>1. UNCHANGED <<log, emitted, messages, buffers, snap, existing, fpc, final, loop, fetchPos>>
    BY <1>15 DEF Stop, CloseDB
  <2>2. \A g \in Flushers : CanQuery(g)' => CanQuery(g)
    BY <1>15, <2>1 DEF Stop, CloseDB, CanQuery, IsFinal
  <2> QED  BY <1>1, <1>3, <2>1, <2>2
<1>16. CASE Exit \/ Crash
  <2>1. LoseMemory
    BY <1>16 DEF Exit, Crash
  <2>2. /\ UNCHANGED <<log, emitted, messages>> /\ buffers' = NoContent /\ ~ final'
        /\ \A g \in Flushers : snap'[g] = NoContent /\ existing'[g] = NoContent /\ fpc'[g] = "idle"
    BY <2>1, Zenon DEF LoseMemory
  <2>3. Taken <= Taken'
    BY <1>0, <2>1 DEF LoseMemory, Taken
  <2>4. /\ \A g \in Flushers : snap'[g] = snap[g] \/ snap'[g] = NoContent
        /\ \A g \in Flushers : existing'[g] = existing[g] \/ existing'[g] = NoContent
        /\ \A g \in Flushers : fpc'[g] \notin {"read", "sessions", "upsert"}
        /\ final' => final \/ snap'[TickerFlush] = NoContent
    BY <2>2
  <2> QED  BY <1>0, <2>2, <2>3, <2>4, OrderDrops
<1>17. CASE Restart
  <2>1. rewound' = (rewound \/ committed < fetchPos)
    BY <1>17, Zenon DEF Restart
  <2>2. ~ (committed < fetchPos)
    BY <2>1, Zenon
  <2>3. committed = fetchPos
    BY <1>0, <2>2 DEF TypeInv, TypeOK
  <2>4. UNCHANGED <<log, emitted, messages, buffers, snap, existing, fpc, final, loop, fetchPos>>
    BY <1>17, <2>3 DEF Restart
  <2>5. \A g \in Flushers : fpc'[g] = "idle"
    BY <1>0, <1>17, <2>4 DEF Restart, TypeInv, Control
  <2> QED  BY <1>1, <1>3, <2>4, <2>5
<1> QED
  BY <1>4, <1>5, <1>6, <1>7, <1>8, <1>9, <1>10, <1>11, <1>12, <1>13, <1>14, <1>15, <1>16, <1>17 DEF Next

\* Every step keeps all the argument needs.
LEMMA OrderStep == OrderInv /\ [Next]_vars => OrderInv'
<1> SUFFICES ASSUME OrderInv, [Next]_vars PROVE OrderInv'
  OBVIOUS
<1>1. TypeInv' /\ Mutex' /\ Placement'
  BY TypeStep, MutexStep, PlacementStep DEF OrderInv
<1>2. LogInOrder'
  <2>1. CASE UNCHANGED <<log, emitted>>
    BY <2>1 DEF OrderInv, LogInOrder
  <2>2. CASE \E r \in Requests : PublishToken(r)
    BY <2>2, LogPublish
  <2> QED  BY <2>1, <2>2, OnlyProducerWrites
<1>3. ~ rewound' => ~ rewound
  BY OnlyProducerWrites, Zenon
<1>4. ~ rewound' => BufferLast' /\ ReadIsOlder' /\ OvertakenIsOlder'
  BY <1>1, <1>3, OrderTextStep
<1> QED  BY <1>1, <1>2, <1>4 DEF OrderInv

\* Unless a restart reads events again the stored text of a request has its
\* tokens in order and each once, whatever database call fails, whenever the
\* service is killed or stopped, and though the flush at shutdown does not wait
\* for the one under way.
THEOREM OrderKept == Spec => []NeverReordered
<1>1. OrderInv => NeverReordered
  BY DEF OrderInv, NeverReordered, BufferLast, Orderly
<1> QED  BY OrderInit, OrderStep, <1>1, PTL DEF Spec
=============================================================================
