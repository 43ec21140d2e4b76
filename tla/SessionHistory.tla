---------------------------- MODULE SessionHistory ----------------------------
(***************************************************************************)
(* Who owns a session and who reads its history: the owner key in Redis    *)
(* that POST /chat/:session_id claims by a Lua script, the guard of        *)
(* GET /history/:session_id and /history/:session_id/db, and the messages  *)
(* the latter returns.                                                     *)
(*                                                                         *)
(* The key expires 24 hours after it was set and is never refreshed.  The  *)
(* time between two expiries is a term of the session.  In the table a     *)
(* request stands for its two rows, question and answer, which one         *)
(* statement inserts in this order.                                        *)
(***************************************************************************)
EXTENDS Integers, Sequences, FiniteSets, SequencesExt, Selection

CONSTANTS
  Calls,          \* HTTP calls; a "chat" call is a request id too
  Kind,           \* chat, history (from Redis) or history_db
  Users, UserOf,  \* the user in the token of each call
  Sessions, SessionOf,
  NoUser,
  MaxExpiries,    \* bound: expiries of the key of a session
  MaxErrors       \* bound: errors of Redis and PostgreSQL

Chats == {c \in Calls : Kind[c] = "chat"}

ASSUME SessionAssumption ==
  /\ Kind \in [Calls -> {"chat", "history", "history_db"}]
  /\ UserOf \in [Calls -> Users] /\ SessionOf \in [Calls -> Sessions]
  /\ NoUser \notin Users
  /\ MaxExpiries \in Nat /\ MaxErrors \in Nat

VARIABLES
  owner,          \* Redis: session_owner:{sessionID}
  pc,             \* where each call is, or the status it was answered with
  table,          \* PostgreSQL: requests in table messages, by id
  answer,         \* the messages each history call returned
  errors,
  term,           \* history: expiries of the key so far
  passed          \* history: the term in which a call got past its check

vars == <<owner, pc, table, answer, errors, term, passed>>

Open == {"jwt", "claim", "guard", "read"}

Init ==
  /\ owner = [s \in Sessions |-> NoUser]
  /\ pc = [c \in Calls |-> "jwt"]
  /\ table = << >> /\ answer = [c \in Calls |-> << >>]
  /\ errors = 0
  /\ term = [s \in Sessions |-> 0] /\ passed = [c \in Calls |-> -1]

At(c, from, to) == pc[c] = from /\ pc' = [pc EXCEPT ![c] = to]
Error   == errors < MaxErrors /\ errors' = errors + 1
NoError == UNCHANGED errors
Owner(c) == owner[SessionOf[c]]
Pass(c) == passed' = [passed EXCEPT ![c] = term[SessionOf[c]]]

-----------------------------------------------------------------------------
(* The handlers *)

\* The middleware: a call whose token is missing or invalid goes no further.
JWT(c) ==
  /\ \/ At(c, "jwt", IF c \in Chats THEN "claim" ELSE "guard")
     \/ At(c, "jwt", "401")
  /\ UNCHANGED <<owner, table, answer, errors, term, passed>>

\* Stream: a body without content is refused before the session is claimed.
BadBody(c) ==
  /\ At(c, "claim", "400")
  /\ UNCHANGED <<owner, table, answer, errors, term, passed>>

\* Mutant: the script sets the key whoever has it.
BugClaimOwner(c) ==
  /\ At(c, "claim", "accepted")
  /\ owner' = [owner EXCEPT ![SessionOf[c]] = UserOf[c]]
  /\ Pass(c)
  /\ UNCHANGED <<table, answer, errors, term>>

\* Stream: ClaimOwner runs the script, which claims a key that is not there
\* and compares one that is; an error of Redis is answered like a refusal,
\* also if the script has run and only its reply is lost.
ClaimOwner(c) ==
  /\ \/ /\ Owner(c) \in {NoUser, UserOf[c]}
        /\ At(c, "claim", "accepted")
        /\ owner' = [owner EXCEPT ![SessionOf[c]] = UserOf[c]]
        /\ Pass(c) /\ NoError
     \/ /\ Owner(c) \notin {NoUser, UserOf[c]}
        /\ At(c, "claim", "403")
        /\ UNCHANGED <<owner, passed>> /\ NoError
     \/ /\ At(c, "claim", "403")
        /\ UNCHANGED owner \/ (Owner(c) = NoUser /\ owner' = [owner EXCEPT ![SessionOf[c]] = UserOf[c]])
        /\ UNCHANGED passed /\ Error
  /\ UNCHANGED <<table, answer, term>>

\* Mutant: a session nobody owns is open to all.
BugGuardSession(c) ==
  /\ \/ /\ Owner(c) \in {NoUser, UserOf[c]}
        /\ At(c, "guard", "read") /\ Pass(c) /\ NoError
     \/ /\ Owner(c) \notin {NoUser, UserOf[c]}
        /\ At(c, "guard", "403") /\ UNCHANGED passed /\ NoError
     \/ At(c, "guard", "500") /\ UNCHANGED passed /\ Error
  /\ UNCHANGED <<owner, table, answer, term>>

\* guardSession: GetOwner finds no key (redis.Nil) or another user: 403; any
\* other error: 500.
GuardSession(c) ==
  /\ \/ /\ Owner(c) = UserOf[c]
        /\ At(c, "guard", "read") /\ Pass(c) /\ NoError
     \/ /\ Owner(c) # UserOf[c]
        /\ At(c, "guard", "403") /\ UNCHANGED passed /\ NoError
     \/ At(c, "guard", "500") /\ UNCHANGED passed /\ Error
  /\ UNCHANGED <<owner, table, answer, term>>

\* GetHistory: the last 20 members of the sorted set conversation:{sessionID}.
\* No service calls SaveMessage, so there are none.
GetHistory(c) ==
  /\ Kind[c] = "history"
  /\ \/ At(c, "read", "200") /\ NoError
     \/ At(c, "read", "500") /\ Error
  /\ UNCHANGED <<owner, table, answer, term, passed>>

\* MessageStoreImpl.GetHistory: the messages of a session in the order of their
\* ids.
HistoryOf(s) == Selected(table, {r \in Chats : SessionOf[r] = s})

GetHistoryDB(c) ==
  /\ Kind[c] = "history_db"
  /\ \/ /\ At(c, "read", "200") /\ NoError
        /\ answer' = [answer EXCEPT ![c] = HistoryOf(SessionOf[c])]
     \/ At(c, "read", "500") /\ UNCHANGED answer /\ Error
  /\ UNCHANGED <<owner, table, term, passed>>

-----------------------------------------------------------------------------
(* Redis and the persistence service *)

\* The 24 hours are over, whether the session is in use or not.
Expire(s) ==
  /\ owner[s] # NoUser /\ term[s] < MaxExpiries
  /\ owner' = [owner EXCEPT ![s] = NoUser]
  /\ term' = [term EXCEPT ![s] = @ + 1]
  /\ UNCHANGED <<pc, table, answer, errors, passed>>

\* Mutant: a row that is there is replaced by a new one.
BugFlush(S) ==
  /\ S # {} /\ \A r \in S : pc[r] = "accepted"
  /\ \E new \in SetToSeqs(S) :
       table' = SelectSeq(table, LAMBDA r : r \notin S) \o new
  /\ UNCHANGED <<owner, pc, answer, errors, term, passed>>

\* Mutant: a plain insert.
BugFlushInsert(S) ==
  /\ S # {} /\ \A r \in S : pc[r] = "accepted"
  /\ Len(table) < Cardinality(Calls)
  /\ \E new \in SetToSeqs(S) : table' = table \o new
  /\ UNCHANGED <<owner, pc, answer, errors, term, passed>>

\* A flush of the persistence service with text for the requests S, finitely
\* many.  Flush ranges over a map, so the rows that are new come in any order; a
\* row that is there keeps its id.
Flush(S) ==
  /\ S # {} /\ IsFiniteSet(S) /\ \A r \in S : pc[r] = "accepted"
  /\ \E new \in SetToSeqs(S \ ToSet(table)) : table' = table \o new
  /\ UNCHANGED <<owner, pc, answer, errors, term, passed>>

-----------------------------------------------------------------------------
Next ==
  \/ \E c \in Calls : JWT(c)
  \/ \E c \in Calls : BadBody(c)
  \/ \E c \in Calls : ClaimOwner(c)
  \/ \E c \in Calls : GuardSession(c)
  \/ \E c \in Calls : GetHistory(c)
  \/ \E c \in Calls : GetHistoryDB(c)
  \/ \E s \in Sessions : Expire(s)
  \/ \E S \in SUBSET Chats : Flush(S)

Spec == Init /\ [][Next]_vars

-----------------------------------------------------------------------------
(* Properties *)

\* Every variable holds a value of its kind, and no request is in the table
\* twice (the unique index on request and role).
TypeOK ==
  /\ owner \in [Sessions -> Users \cup {NoUser}]
  /\ pc \in [Calls -> Open \cup {"accepted", "200", "400", "401", "403", "500"}]
  /\ table \in Seq(Chats) /\ \A i, j \in DOMAIN table : table[i] = table[j] => i = j
  /\ answer \in [Calls -> Seq(Chats)]
  /\ errors \in 0 .. MaxErrors
  /\ term \in [Sessions -> 0 .. MaxExpiries]
  /\ passed \in [Calls -> -1 .. MaxExpiries]

\* "atomically claims or verifies session ownership": between two expiries of
\* the key all requests accepted for a session come from one user, however
\* the claims of several users, errors and expiries interleave.
OneOwnerPerTerm ==
  \A c, d \in Chats :
    pc[c] = "accepted" /\ pc[d] = "accepted" /\ SessionOf[c] = SessionOf[d]
      /\ passed[c] = passed[d] => UserOf[c] = UserOf[d]

\* The guard is checked before the messages are read.  Of the term in which
\* it was checked the answer shows only what its own user asked, although the
\* key may expire, another user claim it and new messages be stored between
\* check and read; what other terms left in the table is shown too.
GuardHoldsForItsTerm ==
  \A c \in Calls : \A i \in DOMAIN answer[c] :
    passed[answer[c][i]] = passed[c] => UserOf[answer[c][i]] = UserOf[c]

\* A history that was shown stays as it is and grows at its end: of any two
\* answers for a session one begins with the other, although answers are
\* stored in parts and rows are upserted again with every part.
HistoryGrows ==
  \A c, d \in Calls :
    Kind[c] = "history_db" /\ Kind[d] = "history_db" /\ SessionOf[c] = SessionOf[d] =>
      IsPrefix(answer[c], answer[d]) \/ IsPrefix(answer[d], answer[c])
=============================================================================
