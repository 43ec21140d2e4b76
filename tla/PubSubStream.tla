----------------------------- MODULE PubSubStream -----------------------------
(***************************************************************************)
(* PubSubStreamImpl: chat turns that subscribe to the tokens of a session, *)
(* the map of shared subscriptions, one dispatch goroutine for each, and   *)
(* Redis between them and the publisher.                                   *)
(*                                                                         *)
(* Sessions share nothing but s.mu, which is never held while waiting, so  *)
(* this is one session, and "entry" is its place in the map.  A sessionSub *)
(* is named by the turn that created it, a channel by the turn that reads  *)
(* it.                                                                     *)
(***************************************************************************)
EXTENDS Naturals, Sequences, FiniteSets

CONSTANTS
  Turns,          \* calls of Subscribe for the session
  NoTurn,
  NumTokens,      \* tokens published for a turn, the last one is done
  ChanCap,        \* capacity of a channel (100)
  MaxFaults       \* bound: failed Receives and lost connections

ASSUME PubSubAssumption ==
  /\ NoTurn \notin Turns
  /\ NumTokens \in Nat /\ ChanCap \in Nat \ {0} /\ MaxFaults \in Nat

VARIABLES
  entry,          \* PubSubStreamImpl.sessions[sessionID]
  current,        \* sessionSub.current of each subscription
  dpc,            \* where the dispatch goroutine of each subscription is
  token, dest,    \* the token it holds and the channel it sends it to
  tpc,            \* where each turn is
  sub,            \* the subscription it was given
  ch,             \* its channel
  subscribed,     \* subscriptions Redis serves
  inbox,          \* what Redis has sent to each of them
  published,      \* tokens published for each turn
  faults,
  late            \* history: tokens sent to a channel given up before

goVars    == <<entry, current, dpc, token, dest, tpc, sub, ch>>
redisVars == <<subscribed, inbox, published>>
vars      == <<goVars, redisVars, faults, late>>

Token   == [turn : Turns, n : 1 .. NumTokens]
NoToken == [turn |-> NoTurn, n |-> 0]

\* close(ss.dead) was called
Dead(u) == dpc[u] \in {"unlink", "gone"}
\* the turn has not cleaned up and its channel was not replaced
Listening(c) == tpc[c] = "reading" /\ current[sub[c]] = c
Usable  == entry # NoTurn /\ ~Dead(entry)

Init ==
  /\ entry = NoTurn
  /\ current = [u \in Turns |-> NoTurn]
  /\ dpc = [u \in Turns |-> "none"]
  /\ token = [u \in Turns |-> NoToken] /\ dest = [u \in Turns |-> NoTurn]
  /\ tpc = [c \in Turns |-> "new"]
  /\ sub = [c \in Turns |-> NoTurn]
  /\ ch = [c \in Turns |-> << >>]
  /\ subscribed = {} /\ inbox = [u \in Turns |-> << >>]
  /\ published = [c \in Turns |-> 0]
  /\ faults = 0 /\ late = [c \in Turns |-> 0]

Fault == faults < MaxFaults /\ faults' = faults + 1
At(c, from, to) == tpc[c] = from /\ tpc' = [tpc EXCEPT ![c] = to]

-----------------------------------------------------------------------------
(* Subscribe and getOrCreate *)

\* Mutant: the entry is not made before the lock is released.
BugGetOrCreate(c) ==
  /\ \/ /\ Usable
        /\ sub' = [sub EXCEPT ![c] = entry]
        /\ At(c, "new", "attach")
        /\ UNCHANGED entry
     \/ /\ ~Usable
        /\ sub' = [sub EXCEPT ![c] = c]
        /\ At(c, "new", "subscribe")
        /\ entry' = NoTurn
  /\ UNCHANGED <<current, dpc, token, dest, ch, redisVars, faults, late>>

\* The locked part of getOrCreate: take the entry, unless it is dead, or make
\* one.  The entry may be one whose creator still waits for Redis.
GetOrCreate(c) ==
  /\ \/ /\ Usable
        /\ sub' = [sub EXCEPT ![c] = entry]
        /\ At(c, "new", "attach")
        /\ UNCHANGED entry
     \/ /\ ~Usable
        /\ sub' = [sub EXCEPT ![c] = c]
        /\ At(c, "new", "subscribe")
        /\ entry' = c
  /\ UNCHANGED <<current, dpc, token, dest, ch, redisVars, faults, late>>

\* client.Subscribe reaches Redis.
RedisSubscribe(c) ==
  /\ At(c, "subscribe", "receive")
  /\ subscribed' = subscribed \cup {c}
  /\ UNCHANGED <<entry, current, dpc, token, dest, sub, ch, inbox, published, faults, late>>

\* ps.Receive returns the confirmation; the dispatch goroutine starts.
Receive(c) ==
  /\ At(c, "receive", "attach")
  /\ dpc' = [dpc EXCEPT ![c] = "range"]
  /\ UNCHANGED <<entry, current, token, dest, sub, ch, redisVars, faults, late>>

\* ps.Receive returns an error, ps.Close.
ReceiveFails(c) ==
  /\ tpc[c] \in {"subscribe", "receive"}
  /\ tpc' = [tpc EXCEPT ![c] = "drop"]
  /\ subscribed' = subscribed \ {c}
  /\ inbox' = [inbox EXCEPT ![c] = << >>]
  /\ Fault
  /\ UNCHANGED <<entry, current, dpc, token, dest, sub, ch, published, late>>

\* Mutant: the entry is left in the map.
BugDrop(c) ==
  /\ At(c, "drop", "failed")
  /\ UNCHANGED <<entry, current, dpc, token, dest, sub, ch, redisVars, faults, late>>

\* delete(s.sessions, sessionID), whatever is there; Subscribe fails.
Drop(c) ==
  /\ At(c, "drop", "failed")
  /\ entry' = NoTurn
  /\ UNCHANGED <<current, dpc, token, dest, sub, ch, redisVars, faults, late>>

\* The rest of Subscribe: a new channel, which replaces the one of another
\* turn.
Attach(c) ==
  /\ At(c, "attach", "reading")
  /\ current' = [current EXCEPT ![sub[c]] = c]
  /\ UNCHANGED <<entry, dpc, token, dest, sub, ch, redisVars, faults, late>>

\* cleanup, called when the turn ends or its client goes away.
Cleanup(c) ==
  /\ At(c, "reading", "left")
  /\ current' = [current EXCEPT ![sub[c]] = IF @ = c THEN NoTurn ELSE @]
  /\ UNCHANGED <<entry, dpc, token, dest, sub, ch, redisVars, faults, late>>

\* The caller takes a token from the channel.
Read(c) ==
  /\ tpc[c] = "reading" /\ ch[c] # << >>
  /\ ch' = [ch EXCEPT ![c] = Tail(@)]
  /\ UNCHANGED <<entry, current, dpc, token, dest, tpc, sub, redisVars, faults, late>>

-----------------------------------------------------------------------------
(* Redis *)

\* Publish: Redis sends the next token of a turn to all who are subscribed
\* now.  A turn asks for its answer after Subscribe has returned.
Publish(c) ==
  /\ tpc[c] \in {"reading", "left"} /\ published[c] < NumTokens
  /\ published' = [published EXCEPT ![c] = @ + 1]
  /\ inbox' = [u \in Turns |-> IF u \in subscribed
                THEN Append(inbox[u], [turn |-> c, n |-> published[c] + 1]) ELSE inbox[u]]
  /\ UNCHANGED <<goVars, subscribed, faults, late>>

\* "Redis disconnect": nothing more comes, ps.Channel is closed.
Disconnect(u) ==
  /\ u \in subscribed /\ dpc[u] \in {"range", "send"}
  /\ subscribed' = subscribed \ {u}
  /\ Fault
  /\ UNCHANGED <<goVars, inbox, published, late>>

-----------------------------------------------------------------------------
(* The dispatch goroutine of subscription u *)

\* Mutant: the token waits for a reader.
BugTake(u) ==
  /\ dpc[u] = "range" /\ inbox[u] # << >> /\ current[u] # NoTurn
  /\ inbox' = [inbox EXCEPT ![u] = Tail(@)]
  /\ dpc' = [dpc EXCEPT ![u] = "send"]
  /\ token' = [token EXCEPT ![u] = Head(inbox[u])]
  /\ dest' = [dest EXCEPT ![u] = current[u]]
  /\ UNCHANGED <<entry, current, tpc, sub, ch, subscribed, published, faults, late>>

\* Mutant: the channel of the turn that made the subscription is used for all.
BugTakeFirst(u) ==
  /\ dpc[u] = "range" /\ inbox[u] # << >>
  /\ inbox' = [inbox EXCEPT ![u] = Tail(@)]
  /\ \/ current[u] = NoTurn /\ UNCHANGED <<dpc, token, dest>>
     \/ /\ current[u] # NoTurn
        /\ dpc' = [dpc EXCEPT ![u] = "send"]
        /\ token' = [token EXCEPT ![u] = Head(inbox[u])]
        /\ dest' = [dest EXCEPT ![u] = u]
  /\ UNCHANGED <<entry, current, tpc, sub, ch, subscribed, published, faults, late>>

\* for msg := range ps.Channel(), up to ss.mu.Unlock: a token that comes when
\* nobody listens is dropped.
Take(u) ==
  /\ dpc[u] = "range" /\ inbox[u] # << >>
  /\ inbox' = [inbox EXCEPT ![u] = Tail(@)]
  /\ \/ current[u] = NoTurn /\ UNCHANGED <<dpc, token, dest>>
     \/ /\ current[u] # NoTurn
        /\ dpc' = [dpc EXCEPT ![u] = "send"]
        /\ token' = [token EXCEPT ![u] = Head(inbox[u])]
        /\ dest' = [dest EXCEPT ![u] = current[u]]
  /\ UNCHANGED <<entry, current, tpc, sub, ch, subscribed, published, faults, late>>

\* Mutant: the channel has no bound.
BugSend(u) ==
  /\ dpc[u] = "send"
  /\ ch' = [ch EXCEPT ![dest[u]] = Append(@, token[u])]
  /\ late' = [late EXCEPT ![dest[u]] = IF Listening(dest[u]) THEN @ ELSE @ + 1]
  /\ dpc' = [dpc EXCEPT ![u] = "range"]
  /\ token' = [token EXCEPT ![u] = NoToken] /\ dest' = [dest EXCEPT ![u] = NoTurn]
  /\ UNCHANGED <<entry, current, tpc, sub, redisVars, faults>>

\* ch <- token, which waits for room although its reader may have left.
Send(u) ==
  /\ dpc[u] = "send" /\ Len(ch[dest[u]]) < ChanCap
  /\ ch' = [ch EXCEPT ![dest[u]] = Append(@, token[u])]
  /\ late' = [late EXCEPT ![dest[u]] = IF Listening(dest[u]) THEN @ ELSE @ + 1]
  /\ dpc' = [dpc EXCEPT ![u] = "range"]
  /\ token' = [token EXCEPT ![u] = NoToken] /\ dest' = [dest EXCEPT ![u] = NoTurn]
  /\ UNCHANGED <<entry, current, tpc, sub, redisVars, faults>>

\* The channel is closed and empty: the deferred function, close(ss.dead) ...
CloseDead(u) ==
  /\ dpc[u] = "range" /\ inbox[u] = << >> /\ u \notin subscribed
  /\ dpc' = [dpc EXCEPT ![u] = "unlink"]
  /\ UNCHANGED <<entry, current, token, dest, tpc, sub, ch, redisVars, faults, late>>

\* ... and delete(s.sessions, sessionID), whatever is there by now.
Unlink(u) ==
  /\ dpc[u] = "unlink"
  /\ dpc' = [dpc EXCEPT ![u] = "gone"]
  /\ entry' = NoTurn
  /\ UNCHANGED <<current, token, dest, tpc, sub, ch, redisVars, faults, late>>

-----------------------------------------------------------------------------
TurnStep(c) ==
  GetOrCreate(c) \/ RedisSubscribe(c) \/ Receive(c) \/ Drop(c) \/ Attach(c) \/ Read(c)
DispatchStep(u) == Take(u) \/ Send(u) \/ CloseDead(u) \/ Unlink(u)

Next == \E c \in Turns :
  \/ GetOrCreate(c) \/ RedisSubscribe(c) \/ Receive(c) \/ ReceiveFails(c) \/ Drop(c)
  \/ Attach(c) \/ Cleanup(c) \/ Read(c)
  \/ Publish(c) \/ Disconnect(c)
  \/ Take(c) \/ Send(c) \/ CloseDead(c) \/ Unlink(c)

Spec == Init /\ [][Next]_vars

\* Goroutines that can move do, Redis answers, callers read their channel as
\* long as they have not cleaned up.
Fairness == \A c \in Turns : WF_vars(TurnStep(c)) /\ WF_vars(DispatchStep(c))

FairSpec == Spec /\ Fairness

-----------------------------------------------------------------------------
(* Properties *)

\* Every variable holds a value of its kind.
TypeOK ==
  /\ entry \in Turns \cup {NoTurn}
  /\ current \in [Turns -> Turns \cup {NoTurn}]
  /\ dpc \in [Turns -> {"none", "range", "send", "unlink", "gone"}]
  /\ token \in [Turns -> Token \cup {NoToken}] /\ dest \in [Turns -> Turns \cup {NoTurn}]
  /\ tpc \in [Turns -> {"new", "subscribe", "receive", "drop", "failed", "attach",
                        "reading", "left"}]
  /\ sub \in [Turns -> Turns \cup {NoTurn}]
  /\ \A c \in Turns : tpc[c] \in {"attach", "reading", "left"} => sub[c] # NoTurn
  /\ ch \in [Turns -> Seq(Token)] /\ \A c \in Turns : Len(ch[c]) <= ChanCap
  /\ subscribed \in SUBSET Turns /\ inbox \in [Turns -> Seq(Token)]
  /\ published \in [Turns -> 0 .. NumTokens]
  /\ faults \in 0 .. MaxFaults /\ late \in [Turns -> Nat]

\* What getOrCreate finds in the map is being set up, served, or about to be
\* taken out: no failed Receive and no race of two deletes leaves an entry
\* behind that nobody serves and that later turns would be given for ever.
EntryIsServed ==
  entry # NoTurn =>
    tpc[entry] \in {"subscribe", "receive", "drop"} \/ dpc[entry] \in {"range", "send", "unlink"}

\* "one Redis subscription per session rather than one per request": with
\* turns that subscribe together there is one, and each fault can leave at
\* most one more behind, the one whose entry a late delete has removed.
BoundedSubscriptions == Cardinality(subscribed) <= 1 + faults

\* The dispatch goroutine reads ss.current under the lock and sends after it:
\* a channel that was cleaned up or replaced gets at most one more token.
AtMostOneLate == \A c \in Turns : late[c] <= 1

\* Tokens that Redis has sent to a subscription are passed on or dropped, and
\* do not hold up the turns that come later, unless a turn has left its
\* channel full, on which the dispatch goroutine may wait for ever.
DispatchGoesOn ==
  (\E u \in Turns : inbox[u] # << >>) ~>
    \/ \A u \in Turns : inbox[u] = << >>
    \/ \E c \in Turns : tpc[c] = "left" /\ Len(ch[c]) = ChanCap
=============================================================================
