-------------------------- MODULE PubSubStreamProofs --------------------------
(***************************************************************************)
(* Proofs about PubSubStream, for any set of turns, number of tokens,      *)
(* capacity of the channels and number of faults.                          *)
(***************************************************************************)
EXTENDS PubSubStream, SequenceTheorems, FiniteSetTheorems, TLAPS

\* What the dispatch goroutine holds when it is about to send, and the
\* subscription of a turn that creates one.
Holding ==
  /\ \A u \in Turns : dpc[u] = "send" => token[u] \in Token /\ dest[u] \in Turns
  /\ \A c \in Turns : tpc[c] \in {"subscribe", "receive"} => sub[c] = c

TypeInv == TypeOK /\ Holding

\* Init establishes the types.
LEMMA TypeInit == Init => TypeInv
  BY PubSubAssumption DEF Init, TypeInv, TypeOK, Holding, NoToken

\* Every step keeps the types.
LEMMA TypeStep == TypeInv /\ [Next]_vars => TypeInv'
<1> SUFFICES ASSUME TypeInv, [Next]_vars PROVE TypeInv'
  OBVIOUS
<1> USE PubSubAssumption DEF TypeInv
<1>1. ASSUME NEW c \in Turns, GetOrCreate(c) PROVE TypeInv'
  <2>1. CASE Usable /\ sub' = [sub EXCEPT ![c] = entry] /\ At(c, "new", "attach") /\ UNCHANGED entry
    <3>1. entry \in Turns /\ entry # NoTurn
      BY <2>1 DEF Usable, TypeOK
    <3> QED
      BY <1>1, <2>1, <3>1 DEF GetOrCreate, At, redisVars, TypeOK, Holding
  <2>2. CASE sub' = [sub EXCEPT ![c] = c] /\ At(c, "new", "subscribe") /\ entry' = c
    BY <1>1, <2>2 DEF GetOrCreate, At, redisVars, TypeOK, Holding
  <2> QED
    BY <1>1, <2>1, <2>2 DEF GetOrCreate
<1>2. ASSUME NEW c \in Turns, RedisSubscribe(c) PROVE TypeInv'
  BY <1>2 DEF RedisSubscribe, At, TypeOK, Holding
<1>3. ASSUME NEW c \in Turns, Receive(c) PROVE TypeInv'
  BY <1>3 DEF Receive, At, redisVars, TypeOK, Holding
<1>4. ASSUME NEW c \in Turns, ReceiveFails(c) PROVE TypeInv'
  BY <1>4 DEF ReceiveFails, Fault, TypeOK, Holding
<1>5. ASSUME NEW c \in Turns, Drop(c) PROVE TypeInv'
  BY <1>5 DEF Drop, At, redisVars, TypeOK, Holding
<1>6. ASSUME NEW c \in Turns, Attach(c) PROVE TypeInv'
  BY <1>6 DEF Attach, At, redisVars, TypeOK, Holding
<1>7. ASSUME NEW c \in Turns, Cleanup(c) PROVE TypeInv'
  BY <1>7 DEF Cleanup, At, redisVars, TypeOK, Holding
<1>8. ASSUME NEW c \in Turns, Read(c) PROVE TypeInv'
  <2>1. Tail(ch[c]) \in Seq(Token) /\ Len(Tail(ch[c])) <= ChanCap
    BY <1>8 DEF Read, TypeOK
  <2> QED
    BY <1>8, <2>1 DEF Read, redisVars, TypeOK, Holding
<1>9. ASSUME NEW c \in Turns, Publish(c) PROVE TypeInv'
  <2>1. [turn |-> c, n |-> published[c] + 1] \in Token
    BY <1>9 DEF Publish, TypeOK, Token
  <2>2. inbox' \in [Turns -> Seq(Token)]
    BY <1>9, <2>1 DEF Publish, TypeOK
  <2>3. published' \in [Turns -> 0 .. NumTokens]
    BY <1>9 DEF Publish, TypeOK
  <2> QED
    BY <1>9, <2>2, <2>3 DEF Publish, goVars, TypeOK, Holding
<1>10. ASSUME NEW u \in Turns, Disconnect(u) PROVE TypeInv'
  BY <1>10, SMTT(30) DEF Disconnect, Fault, goVars, TypeOK, Holding
<1>11. ASSUME NEW u \in Turns, Take(u) PROVE TypeInv'
  <2>1. Head(inbox[u]) \in Token /\ Tail(inbox[u]) \in Seq(Token)
    BY <1>11 DEF Take, TypeOK
  <2>2. CASE current[u] = NoTurn /\ UNCHANGED <<dpc, token, dest>>
    BY <1>11, <2>1, <2>2 DEF Take, TypeOK, Holding
  <2>3. CASE /\ current[u] # NoTurn
             /\ dpc' = [dpc EXCEPT ![u] = "send"]
             /\ token' = [token EXCEPT ![u] = Head(inbox[u])]
             /\ dest' = [dest EXCEPT ![u] = current[u]]
    <3>1. current[u] \in Turns
      BY <2>3 DEF TypeOK
    <3> QED
      BY <1>11, <2>1, <2>3, <3>1 DEF Take, TypeOK, Holding
  <2> QED
    BY <1>11, <2>2, <2>3 DEF Take
<1>12. ASSUME NEW u \in Turns, Send(u) PROVE TypeInv'
  <2>1. /\ dest[u] \in Turns
        /\ Append(ch[dest[u]], token[u]) \in Seq(Token)
        /\ Len(Append(ch[dest[u]], token[u])) <= ChanCap
    BY <1>12 DEF Send, TypeOK, Holding
  <2>2. late' \in [Turns -> Nat]
    BY <1>12, <2>1, SMTT(30) DEF Send, TypeOK
  <2> QED
    BY <1>12, <2>1, <2>2 DEF Send, redisVars, TypeOK, Holding
<1>13. ASSUME NEW u \in Turns, CloseDead(u) PROVE TypeInv'
  BY <1>13 DEF CloseDead, redisVars, TypeOK, Holding
<1>14. ASSUME NEW u \in Turns, Unlink(u) PROVE TypeInv'
  BY <1>14 DEF Unlink, redisVars, TypeOK, Holding
<1>15. CASE UNCHANGED vars
  BY <1>15 DEF vars, goVars, redisVars, TypeOK, Holding
<1> QED
  BY <1>1, <1>2, <1>3, <1>4, <1>5, <1>6, <1>7, <1>8, <1>9, <1>10, <1>11, <1>12, <1>13,
     <1>14, <1>15 DEF Next

\* The types and the capacity of the channels hold for ever.
THEOREM TypesHold == Spec => []TypeOK
  BY TypeInit, TypeStep, PTL DEF Spec, TypeInv

-----------------------------------------------------------------------------
(* The map entry *)

\* EntryIsServed is inductive on top of the types: a turn makes an entry as it
\* starts to subscribe, its dispatch goroutine takes over from it, and both
\* ways out, a failed Receive and the end of the goroutine, delete the entry.
LEMMA EntryStep == TypeInv /\ EntryIsServed /\ [Next]_vars => EntryIsServed'
<1> SUFFICES ASSUME TypeInv, EntryIsServed, [Next]_vars PROVE EntryIsServed'
  OBVIOUS
<1> USE PubSubAssumption DEF TypeInv, EntryIsServed, TypeOK
<1>1. ASSUME NEW c \in Turns, GetOrCreate(c) PROVE EntryIsServed'
  BY <1>1 DEF GetOrCreate, At
<1>2. ASSUME NEW c \in Turns, RedisSubscribe(c) \/ Receive(c) \/ Attach(c) \/ Cleanup(c)
      PROVE EntryIsServed'
  BY <1>2, SMTT(30) DEF RedisSubscribe, Receive, Attach, Cleanup, At
<1>3. ASSUME NEW c \in Turns, ReceiveFails(c) PROVE EntryIsServed'
  BY <1>3 DEF ReceiveFails
<1>4. ASSUME NEW c \in Turns, Drop(c) \/ Unlink(c) PROVE EntryIsServed'
  BY <1>4 DEF Drop, Unlink
<1>5. ASSUME NEW u \in Turns, Take(u) \/ Send(u) \/ CloseDead(u) PROVE EntryIsServed'
  BY <1>5 DEF Take, Send, CloseDead
<1>6. ASSUME UNCHANGED <<entry, tpc, dpc>> PROVE EntryIsServed'
  BY <1>6
<1>7. ASSUME NEW c \in Turns, Read(c) \/ Publish(c) \/ Disconnect(c) PROVE EntryIsServed'
  BY <1>6, <1>7 DEF Read, Publish, Disconnect, goVars
<1>8. CASE UNCHANGED vars
  BY <1>6, <1>8 DEF vars, goVars
<1> QED
  BY <1>1, <1>2, <1>3, <1>4, <1>5, <1>7, <1>8 DEF Next

\* No entry that nobody serves is left in the map, however failed Receives,
\* lost connections and the deletes after them interleave (getOrCreate).
THEOREM EntryServed == Spec => []EntryIsServed
<1>1. Init => EntryIsServed
  BY DEF Init, EntryIsServed
<1> QED
  BY <1>1, TypeInit, TypeStep, EntryStep, PTL DEF Spec

-----------------------------------------------------------------------------
(* Late tokens *)

\* ss.current of a subscription is the channel of a turn that has it and reads.
CurrentReads ==
  \A u \in Turns : current[u] # NoTurn =>
    sub[current[u]] = u /\ tpc[current[u]] = "reading"

\* A dispatch goroutine sends to a turn that has its subscription.
SendsToOwn ==
  \A u \in Turns : dpc[u] = "send" =>
    sub[dest[u]] = u /\ tpc[dest[u]] \in {"reading", "left"}

\* A turn that got a late token is not the current one any more and no token
\* is on its way to it, so the one it got is the last.
LateIsLast ==
  \A c \in Turns : late[c] # 0 =>
    /\ late[c] = 1 /\ tpc[c] \in {"reading", "left"}
    /\ \A u \in Turns : current[u] # c
    /\ \A u \in Turns : ~(dpc[u] = "send" /\ dest[u] = c)

LateInv == CurrentReads /\ SendsToOwn /\ LateIsLast

\* Every step keeps the invariant.
LEMMA LateStep == TypeInv /\ LateInv /\ [Next]_vars => LateInv'
<1> SUFFICES ASSUME TypeInv, LateInv, [Next]_vars PROVE LateInv'
  OBVIOUS
<1>0. /\ current \in [Turns -> Turns \cup {NoTurn}] /\ dest \in [Turns -> Turns \cup {NoTurn}]
      /\ dpc \in [Turns -> {"none", "range", "send", "unlink", "gone"}]
      /\ tpc \in [Turns -> {"new", "subscribe", "receive", "drop", "failed", "attach",
                            "reading", "left"}]
      /\ sub \in [Turns -> Turns \cup {NoTurn}] /\ late \in [Turns -> Nat]
      /\ \A c \in Turns : tpc[c] \in {"attach", "reading", "left"} => sub[c] \in Turns
      /\ \A u \in Turns : dpc[u] = "send" => dest[u] \in Turns
  BY DEF TypeInv, TypeOK, Holding
<1> USE PubSubAssumption, <1>0 DEF LateInv
\* A turn that neither reads nor has left moves to such a place.
<1>1. ASSUME NEW c \in Turns, tpc[c] \notin {"reading", "left"},
             \A d \in Turns : d # c => tpc'[d] = tpc[d] /\ sub'[d] = sub[d],
             UNCHANGED <<current, dest, late>>,
             \A u \in Turns : dpc'[u] = "send" => dpc[u] = "send"
      PROVE  LateInv'
  <2>1. CurrentReads'
    BY <1>1 DEF CurrentReads
  <2>2. SendsToOwn'
    BY <1>1 DEF SendsToOwn
  <2>3. LateIsLast'
    BY <1>1 DEF LateIsLast
  <2> QED
    BY <2>1, <2>2, <2>3
<1>2. ASSUME NEW c \in Turns,
             GetOrCreate(c) \/ RedisSubscribe(c) \/ Drop(c) \/ ReceiveFails(c)
      PROVE LateInv'
  <2>1. \A d \in Turns : d # c => tpc'[d] = tpc[d] /\ sub'[d] = sub[d]
    BY <1>2 DEF GetOrCreate, RedisSubscribe, Drop, ReceiveFails, At
  <2>2. tpc[c] \notin {"reading", "left"} /\ UNCHANGED <<current, dest, late, dpc>>
    BY <1>2 DEF GetOrCreate, RedisSubscribe, Drop, ReceiveFails, At
  <2> QED
    BY <1>1, <2>1, <2>2
<1>3. ASSUME NEW c \in Turns, Receive(c) PROVE LateInv'
  BY <1>1, <1>3 DEF Receive, At
<1>5. ASSUME NEW c \in Turns, Attach(c) PROVE LateInv'
  <2>0. /\ tpc[c] = "attach" /\ tpc' = [tpc EXCEPT ![c] = "reading"] /\ sub[c] \in Turns
        /\ current' = [current EXCEPT ![sub[c]] = c]
        /\ UNCHANGED <<dpc, dest, sub, late>>
    BY <1>5 DEF Attach, At
  <2>1. CurrentReads'
    BY <2>0 DEF CurrentReads
  <2>2. SendsToOwn'
    BY <2>0 DEF SendsToOwn
  <2>3. LateIsLast'
    BY <2>0 DEF LateIsLast
  <2> QED
    BY <2>1, <2>2, <2>3
<1>6. ASSUME NEW c \in Turns, Cleanup(c) PROVE LateInv'
  <2>0. /\ tpc[c] = "reading" /\ tpc' = [tpc EXCEPT ![c] = "left"] /\ sub[c] \in Turns
        /\ current' = [current EXCEPT ![sub[c]] = IF @ = c THEN NoTurn ELSE @]
        /\ UNCHANGED <<dpc, dest, sub, late>>
    BY <1>6 DEF Cleanup, At
  <2>1. CurrentReads'
    BY <2>0 DEF CurrentReads
  <2>2. SendsToOwn'
    BY <2>0 DEF SendsToOwn
  <2>3. LateIsLast'
    BY <2>0 DEF LateIsLast
  <2> QED
    BY <2>1, <2>2, <2>3
\* Nothing of the invariant changes, but a goroutine may have come to its end.
<1>7. ASSUME UNCHANGED <<current, dest, tpc, sub, late>>,
             \A u \in Turns : dpc'[u] = "send" => dpc[u] = "send"
      PROVE LateInv'
  BY <1>7 DEF CurrentReads, SendsToOwn, LateIsLast
<1>8. ASSUME NEW u \in Turns, Take(u) PROVE LateInv'
  <2>1. CASE current[u] = NoTurn /\ UNCHANGED <<dpc, token, dest>>
    BY <1>7, <1>8, <2>1 DEF Take
  <2>2. CASE /\ current[u] # NoTurn
             /\ dpc' = [dpc EXCEPT ![u] = "send"]
             /\ dest' = [dest EXCEPT ![u] = current[u]]
    BY <1>8, <2>2 DEF Take, CurrentReads, SendsToOwn, LateIsLast
  <2> QED
    BY <1>8, <2>1, <2>2 DEF Take
<1>9. ASSUME NEW u \in Turns, Send(u) PROVE LateInv'
  <2>0. /\ dest[u] \in Turns /\ dpc[u] = "send" /\ dpc' = [dpc EXCEPT ![u] = "range"]
        /\ late' = [late EXCEPT ![dest[u]] = IF Listening(dest[u]) THEN @ ELSE @ + 1]
        /\ dest' = [dest EXCEPT ![u] = NoTurn]
        /\ UNCHANGED <<current, tpc, sub>>
    BY <1>9 DEF Send
  <2>1. sub[dest[u]] = u /\ tpc[dest[u]] \in {"reading", "left"} /\ late[dest[u]] = 0
    BY <2>0 DEF SendsToOwn, LateIsLast
  <2>2. CurrentReads'
    BY <2>0 DEF CurrentReads
  <2>3. SendsToOwn'
    BY <2>0 DEF SendsToOwn
  <2>4. ~Listening(dest[u]) => \A v \in Turns : current[v] # dest[u]
    BY <2>0, <2>1 DEF Listening, CurrentReads
  <2>5. \A v \in Turns : v # u => ~(dpc[v] = "send" /\ dest[v] = dest[u])
    BY <2>1 DEF SendsToOwn
  <2>6. LateIsLast'
    BY <2>0, <2>1, <2>4, <2>5 DEF LateIsLast
  <2> QED
    BY <2>2, <2>3, <2>6
<1>10. ASSUME NEW u \in Turns, CloseDead(u) \/ Unlink(u) PROVE LateInv'
  BY <1>7, <1>10 DEF CloseDead, Unlink
<1>11. ASSUME NEW c \in Turns, Read(c) \/ Publish(c) \/ Disconnect(c) PROVE LateInv'
  BY <1>7, <1>11 DEF Read, Publish, Disconnect, goVars
<1>12. CASE UNCHANGED vars
  BY <1>7, <1>12 DEF vars, goVars
<1> QED
  BY <1>2, <1>3, <1>5, <1>6, <1>8, <1>9, <1>10, <1>11, <1>12 DEF Next

\* A channel that was cleaned up or replaced gets at most one more token,
\* although the dispatch goroutine sends after it has released ss.mu.
THEOREM OneLate == Spec => []AtMostOneLate
<1>1. Init => LateInv
  BY PubSubAssumption DEF Init, LateInv, CurrentReads, SendsToOwn, LateIsLast
<1>2. TypeInv /\ LateInv => AtMostOneLate
  <2> SUFFICES ASSUME TypeInv, LateInv, NEW c \in Turns PROVE late[c] <= 1
    BY DEF AtMostOneLate
  <2>1. late[c] \in Nat
    BY DEF TypeInv, TypeOK
  <2> QED
    BY <2>1 DEF LateInv, LateIsLast
<1> QED
  BY <1>1, <1>2, TypeInit, TypeStep, LateStep, PTL DEF Spec

-----------------------------------------------------------------------------
(* Subscriptions *)

\* A dispatch goroutine starts once Receive has returned, and Redis serves a
\* subscription only from the SUBSCRIBE to the end of the connection.
Stages ==
  \A u \in Turns :
    /\ tpc[u] \in {"new", "subscribe", "receive", "drop", "failed"} => dpc[u] = "none"
    /\ tpc[u] = "receive" => u \in subscribed
    /\ u \in subscribed => tpc[u] = "receive" \/ dpc[u] \in {"range", "send"}

\* A subscription that has ended and whose delete from the map is still to come.
Deleting(u) ==
  tpc[u] = "drop" \/ dpc[u] = "unlink" \/ (dpc[u] \in {"range", "send"} /\ u \notin subscribed)

\* A subscription Redis serves or is about to.
Alive(u) == tpc[u] = "subscribe" \/ u \in subscribed

\* What faults leave behind: a delete to come, which may hit the entry of
\* another subscription, or a subscription that has lost its entry to one.
Behind == {u \in Turns : Deleting(u) \/ (Alive(u) /\ u # entry)}

\* Each fault leaves at most one behind.
OnePerFault == IsFiniteSet(Behind) /\ Cardinality(Behind) <= faults

BoundInv == Stages /\ OnePerFault

\* Every step keeps the stages.
LEMMA StagesStep == TypeInv /\ Stages /\ [Next]_vars => Stages'
<1> SUFFICES ASSUME TypeInv, Stages, [Next]_vars PROVE Stages'
  OBVIOUS
<1>0. DOMAIN tpc = Turns /\ DOMAIN dpc = Turns
  BY DEF TypeInv, TypeOK
<1> USE <1>0 DEF Stages
<1>1. ASSUME NEW c \in Turns, GetOrCreate(c) \/ RedisSubscribe(c) \/ Receive(c) \/ ReceiveFails(c) \/ Drop(c)
      PROVE  Stages'
  <2>1. CASE GetOrCreate(c)
    BY <2>1 DEF GetOrCreate, At, redisVars
  <2>2. CASE RedisSubscribe(c)
    BY <2>2 DEF RedisSubscribe, At
  <2>3. CASE Receive(c)
    BY <2>3 DEF Receive, At, redisVars
  <2>4. CASE ReceiveFails(c)
    BY <2>4 DEF ReceiveFails
  <2>5. CASE Drop(c)
    BY <2>5 DEF Drop, At, redisVars
  <2> QED  BY <1>1, <2>1, <2>2, <2>3, <2>4, <2>5
<1>2. ASSUME NEW c \in Turns, Attach(c) \/ Cleanup(c) PROVE Stages'
  BY <1>2 DEF Attach, Cleanup, At, redisVars
<1>3. CASE UNCHANGED <<tpc, dpc, subscribed>>
  BY <1>3
<1>4. ASSUME NEW c \in Turns, Read(c) \/ Publish(c) PROVE Stages'
  BY <1>3, <1>4 DEF Read, Publish, goVars, redisVars
<1>5. ASSUME NEW u \in Turns, Disconnect(u) PROVE Stages'
  BY <1>5 DEF Disconnect, goVars
<1>6. ASSUME NEW u \in Turns, Take(u) \/ Send(u) PROVE Stages'
  BY <1>6 DEF Take, Send, redisVars
<1>7. ASSUME NEW u \in Turns, CloseDead(u) \/ Unlink(u) PROVE Stages'
  BY <1>7 DEF CloseDead, Unlink, redisVars
<1>8. CASE UNCHANGED vars
  BY <1>3, <1>8 DEF vars, goVars, redisVars
<1> QED  BY <1>1, <1>2, <1>4, <1>5, <1>6, <1>7, <1>8 DEF Next

\* Nothing is left behind without a fault, a fault adds at most one, and a
\* delete takes itself away for the entry it hits.
LEMMA BehindChanges ==
  ASSUME OnePerFault, faults \in Nat, NEW B, NEW n,
         \/ B \subseteq Behind /\ n = faults
         \/ n = faults + 1 /\ \E c \in Turns : B \subseteq Behind \cup {c}
         \/ n = faults /\ \E c \in Behind : \E e : B \subseteq (Behind \ {c}) \cup {e}
  PROVE  IsFiniteSet(B) /\ Cardinality(B) <= n
<1>0. IsFiniteSet(Behind) /\ Cardinality(Behind) \in Nat /\ Cardinality(Behind) <= faults
  BY FS_CardinalityType DEF OnePerFault
<1> HIDE DEF Behind
<1>1. CASE B \subseteq Behind /\ n = faults
  <2>1. IsFiniteSet(B) /\ Cardinality(B) <= Cardinality(Behind)
    BY <1>0, <1>1, FS_Subset
  <2>2. Cardinality(B) \in Nat
    BY <2>1, FS_CardinalityType
  <2> QED  BY <1>0, <1>1, <2>1, <2>2
<1>2. ASSUME NEW c, n = faults + 1, B \subseteq Behind \cup {c} PROVE IsFiniteSet(B) /\ Cardinality(B) <= n
  <2>1. /\ IsFiniteSet(Behind \cup {c})
        /\ Cardinality(Behind \cup {c}) = IF c \in Behind THEN Cardinality(Behind) ELSE Cardinality(Behind) + 1
    BY <1>0, FS_AddElement
  <2>2. IsFiniteSet(B) /\ Cardinality(B) <= Cardinality(Behind \cup {c})
    BY <1>2, <2>1, FS_Subset
  <2>3. Cardinality(B) \in Nat
    BY <2>2, FS_CardinalityType
  <2> QED  BY <1>0, <1>2, <2>1, <2>2, <2>3
<1>3. ASSUME NEW c \in Behind, NEW e, n = faults, B \subseteq (Behind \ {c}) \cup {e}
      PROVE  IsFiniteSet(B) /\ Cardinality(B) <= n
  <2>1. IsFiniteSet(Behind \ {c}) /\ Cardinality(Behind \ {c}) = Cardinality(Behind) - 1
    BY <1>0, FS_RemoveElement
  <2> DEFINE D == Behind \ {c}
  <2>2. /\ IsFiniteSet(D \cup {e})
        /\ Cardinality(D \cup {e}) <= Cardinality(Behind)
    <3> HIDE DEF D
    <3>1. IsFiniteSet(D) /\ Cardinality(D) = Cardinality(Behind) - 1
      BY <2>1 DEF D
    <3>2. /\ IsFiniteSet(D \cup {e})
          /\ Cardinality(D \cup {e}) = IF e \in D THEN Cardinality(D) ELSE Cardinality(D) + 1
      BY <3>1, FS_AddElement
    <3> QED  BY <1>0, <3>1, <3>2
  <2>3. IsFiniteSet(B) /\ Cardinality(B) <= Cardinality((Behind \ {c}) \cup {e})
    BY <1>3, <2>2, FS_Subset
  <2>4. Cardinality(B) \in Nat /\ Cardinality((Behind \ {c}) \cup {e}) \in Nat
    BY <2>2, <2>3, FS_CardinalityType
  <2> QED  BY <1>0, <1>3, <2>2, <2>3, <2>4
<1> QED  BY <1>1, <1>2, <1>3

\* Every step keeps the count.
LEMMA BehindStep == TypeInv /\ BoundInv /\ [Next]_vars => OnePerFault'
<1> SUFFICES ASSUME TypeInv, BoundInv, [Next]_vars PROVE OnePerFault'
  OBVIOUS
<1>0. /\ DOMAIN tpc = Turns /\ DOMAIN dpc = Turns /\ entry \in Turns \cup {NoTurn} /\ faults \in Nat
      /\ Stages /\ OnePerFault
  BY PubSubAssumption DEF TypeInv, TypeOK, BoundInv
<1> SUFFICES \/ Behind' \subseteq Behind /\ faults' = faults
             \/ faults' = faults + 1 /\ \E c \in Turns : Behind' \subseteq Behind \cup {c}
             \/ faults' = faults /\ \E c \in Behind : \E e : Behind' \subseteq (Behind \ {c}) \cup {e}
  <2>1. PICK B : B = Behind'
    OBVIOUS
  <2>2. PICK n : n = faults'
    OBVIOUS
  <2>3. \/ B \subseteq Behind /\ n = faults
        \/ n = faults + 1 /\ \E c \in Turns : B \subseteq Behind \cup {c}
        \/ n = faults /\ \E c \in Behind : \E e : B \subseteq (Behind \ {c}) \cup {e}
    BY <2>1, <2>2, Zenon
  <2>4. IsFiniteSet(B) /\ Cardinality(B) <= n
    BY <1>0, <2>3, BehindChanges
  <2> QED  BY <2>1, <2>2, <2>4, Zenon DEF OnePerFault
<1> DEFINE Same == Behind' \subseteq Behind /\ faults' = faults
           More == faults' = faults + 1 /\ \E c \in Turns : Behind' \subseteq Behind \cup {c}
           Hit  == faults' = faults /\ \E c \in Behind : \E e : Behind' \subseteq (Behind \ {c}) \cup {e}
<1>1. ASSUME NEW c \in Turns, GetOrCreate(c) PROVE Same
  <2>0. UNCHANGED <<dpc, subscribed, faults>> /\ tpc[c] = "new" /\ dpc[c] = "none" /\ c \notin subscribed
    BY <1>0, <1>1 DEF GetOrCreate, At, redisVars, Stages
  <2>1. CASE Usable /\ At(c, "new", "attach") /\ UNCHANGED entry
    BY <1>0, <2>0, <2>1 DEF At, Behind, Deleting, Alive
  <2>2. CASE ~Usable /\ At(c, "new", "subscribe") /\ entry' = c
    <3>1. ASSUME NEW u \in Turns, Deleting(u)' PROVE Deleting(u)
      BY <1>0, <2>0, <2>2, <3>1 DEF At, Deleting
    <3>2. ASSUME NEW u \in Turns, u # c, Alive(u)' PROVE Alive(u)
      BY <1>0, <2>0, <2>2, <3>2 DEF At, Alive
    <3>3. ASSUME NEW u \in Turns, Alive(u) PROVE u # entry
      BY <1>0, <2>0, <2>2, <3>3, PubSubAssumption DEF Alive, Usable, Dead, Stages
    <3>4. Behind' \subseteq Behind
      BY <2>2, <3>1, <3>2, <3>3 DEF Behind
    <3> QED  BY <2>0, <3>4
  <2> QED  BY <1>1, <2>1, <2>2 DEF GetOrCreate
<1>2. ASSUME NEW c \in Turns, RedisSubscribe(c) PROVE Same
  BY <1>0, <1>2 DEF RedisSubscribe, At, Behind, Deleting, Alive, Stages
<1>3. ASSUME NEW c \in Turns, Receive(c) PROVE Same
  BY <1>0, <1>3 DEF Receive, At, redisVars, Behind, Deleting, Alive, Stages
<1>4. ASSUME NEW c \in Turns, ReceiveFails(c) PROVE More
  BY <1>0, <1>4 DEF ReceiveFails, Fault, Behind, Deleting, Alive
<1>5. ASSUME NEW c \in Turns, Drop(c) PROVE Hit
  <2>1. faults' = faults /\ c \in Behind /\ UNCHANGED <<dpc, subscribed>> /\ tpc' = [tpc EXCEPT ![c] = "failed"]
    BY <1>5 DEF Drop, At, redisVars, Behind, Deleting
  <2>2. tpc[c] = "drop" /\ dpc[c] = "none" /\ c \notin subscribed
    BY <1>0, <1>5 DEF Drop, At, Stages
  <2>3. Behind' \subseteq (Behind \ {c}) \cup {entry}
    BY <1>0, <2>1, <2>2 DEF Behind, Deleting, Alive
  <2> QED  BY <2>1, <2>3
<1>6. ASSUME NEW c \in Turns, Attach(c) \/ Cleanup(c) PROVE Same
  BY <1>0, <1>6 DEF Attach, Cleanup, At, redisVars, Behind, Deleting, Alive
<1>7. ASSUME NEW c \in Turns, Read(c) \/ Publish(c) PROVE Same
  BY <1>7 DEF Read, Publish, goVars, redisVars, Behind, Deleting, Alive
<1>8. ASSUME NEW u \in Turns, Disconnect(u) PROVE More
  BY <1>8 DEF Disconnect, Fault, goVars, Behind, Deleting, Alive
<1>9. ASSUME NEW u \in Turns, Take(u) \/ Send(u) PROVE Same
  BY <1>0, <1>9 DEF Take, Send, redisVars, Behind, Deleting, Alive
<1>10. ASSUME NEW u \in Turns, CloseDead(u) PROVE Same
  BY <1>0, <1>10 DEF CloseDead, redisVars, Behind, Deleting, Alive
<1>11. ASSUME NEW u \in Turns, Unlink(u) PROVE Hit
  <2>1. faults' = faults /\ u \in Behind /\ UNCHANGED <<tpc, subscribed>> /\ dpc' = [dpc EXCEPT ![u] = "gone"]
    BY <1>11 DEF Unlink, redisVars, Behind, Deleting
  <2>2. dpc[u] = "unlink" /\ tpc[u] \notin {"subscribe", "drop"} /\ u \notin subscribed
    BY <1>0, <1>11 DEF Unlink, Stages
  <2>3. Behind' \subseteq (Behind \ {u}) \cup {entry}
    BY <1>0, <2>1, <2>2 DEF Behind, Deleting, Alive
  <2> QED  BY <2>1, <2>3
<1>12. ASSUME UNCHANGED vars PROVE Same
  BY <1>12 DEF vars, goVars, redisVars, Behind, Deleting, Alive
<1> HIDE DEF Same, More, Hit
<1>13. Same \/ More \/ Hit
  BY <1>1, <1>2, <1>3, <1>4, <1>5, <1>6, <1>7, <1>8, <1>9, <1>10, <1>11, <1>12 DEF Next
<1> QED  BY <1>13, Zenon DEF Same, More, Hit

\* A session has one subscription in Redis and at most one more for every
\* failed Receive or lost connection, for any number of turns: getOrCreate
\* makes the entry before it releases the lock, and the deletes that may hit
\* the entry of another subscription are one for each fault.
THEOREM SubscriptionsBounded == Spec => []BoundedSubscriptions
<1>1. Init => BoundInv
  <2> SUFFICES ASSUME Init PROVE BoundInv
    OBVIOUS
  <2>1. Stages /\ Behind = {} /\ faults = 0
    BY DEF Init, Stages, Behind, Deleting, Alive
  <2> QED  BY <2>1, FS_EmptySet DEF BoundInv, OnePerFault
<1>2. TypeInv /\ BoundInv => BoundedSubscriptions
  <2> SUFFICES ASSUME TypeInv, BoundInv PROVE Cardinality(subscribed) <= 1 + faults
    BY DEF BoundedSubscriptions
  <2>1. IsFiniteSet(Behind) /\ Cardinality(Behind) <= faults /\ faults \in Nat
    BY PubSubAssumption DEF BoundInv, OnePerFault, TypeInv, TypeOK
  <2>2. subscribed \subseteq Behind \cup {entry}
    BY DEF TypeInv, TypeOK, Behind, Alive
  <2>3. /\ IsFiniteSet(Behind \cup {entry}) /\ Cardinality(Behind) \in Nat
        /\ Cardinality(Behind \cup {entry}) <= Cardinality(Behind) + 1
    <3> HIDE DEF Behind
    <3>1. Cardinality(Behind) \in Nat
      BY <2>1, FS_CardinalityType
    <3>2. /\ IsFiniteSet(Behind \cup {entry})
          /\ Cardinality(Behind \cup {entry}) = IF entry \in Behind THEN Cardinality(Behind) ELSE Cardinality(Behind) + 1
      BY <2>1, FS_AddElement
    <3> QED  BY <3>1, <3>2
  <2>4. IsFiniteSet(subscribed) /\ Cardinality(subscribed) <= Cardinality(Behind \cup {entry})
    BY <2>2, <2>3, FS_Subset
  <2>5. Cardinality(subscribed) \in Nat /\ Cardinality(Behind \cup {entry}) \in Nat
    BY <2>3, <2>4, FS_CardinalityType
  <2> QED  BY <2>1, <2>3, <2>4, <2>5
<1>3. TypeInv /\ BoundInv /\ [Next]_vars => BoundInv'
  BY StagesStep, BehindStep DEF BoundInv
<1> QED  BY <1>1, <1>2, <1>3, TypeInit, TypeStep, PTL DEF Spec
=============================================================================
