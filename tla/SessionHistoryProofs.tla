------------------------- MODULE SessionHistoryProofs -------------------------
(***************************************************************************)
(* Proofs about SessionHistory, for any set of calls, users and sessions   *)
(* and any number of expiries and errors.                                  *)
(***************************************************************************)
EXTENDS SessionHistory, SequenceLemmas, FiniteSetTheorems, TLAPS

\* Where a call may be without having got past its check, and all its places.
Outside == {"jwt", "claim", "guard", "200", "400", "401", "403", "500"}
Places  == Outside \cup {"accepted", "read"}

\* The variables the argument is about hold values of their kind.
OwnerTypes ==
  /\ owner \in [Sessions -> Users \cup {NoUser}]
  /\ pc \in [Calls -> Places]
  /\ term \in [Sessions -> Nat]
  /\ passed \in [Calls -> Int]

\* The call has got past its check.
Held(c) == passed[c] # -1

\* A call that was accepted, or is let through to the messages, has got past
\* its check.
HeldInv == \A c \in Calls : pc[c] \in {"accepted", "read"} => Held(c)

\* A check was passed in this term or an earlier one; if in this one, the key
\* is there and names the user of the call.
TermInv ==
  \A c \in Calls : Held(c) =>
    /\ passed[c] \in 0 .. term[SessionOf[c]]
    /\ passed[c] = term[SessionOf[c]] => owner[SessionOf[c]] = UserOf[c]

\* Calls that passed their checks in the same term are the same user's: the
\* part of TermInv that outlives the term.
AgreeInv ==
  \A c, d \in Calls :
    Held(c) /\ Held(d) /\ SessionOf[c] = SessionOf[d] /\ passed[c] = passed[d] =>
      UserOf[c] = UserOf[d]

OwnerInv == OwnerTypes /\ HeldInv /\ TermInv /\ AgreeInv

\* No call has passed a check at the start.
LEMMA OwnerInit == Init => OwnerInv
  BY SessionAssumption DEF Outside, Places, Init, OwnerInv, OwnerTypes, HeldInv, TermInv, AgreeInv, Held

\* A call that gets past its check, as the owner by then, keeps the invariant.
LEMMA PassKeeps ==
  ASSUME OwnerInv, NEW c \in Calls, Pass(c),
         owner' \in [Sessions -> Users \cup {NoUser}],
         owner'[SessionOf[c]] = UserOf[c],
         owner[SessionOf[c]] \in {NoUser, UserOf[c]},
         \A s \in Sessions \ {SessionOf[c]} : owner'[s] = owner[s],
         NEW to \in Places, pc' = [pc EXCEPT ![c] = to],
         UNCHANGED term
  PROVE  OwnerInv'
<1> USE SessionAssumption
<1>0. SessionOf[c] \in Sessions /\ term[SessionOf[c]] \in Nat
  BY DEF OwnerInv, OwnerTypes
<1>1. OwnerTypes'
  <2>1. pc' \in [Calls -> Places]
    BY DEF OwnerInv, OwnerTypes
  <2>2. passed' \in [Calls -> Int]
    BY <1>0 DEF OwnerInv, OwnerTypes, Pass
  <2>3. term' \in [Sessions -> Nat]
    BY DEF OwnerInv, OwnerTypes
  <2> QED
    BY <2>1, <2>2, <2>3 DEF OwnerTypes
<1>2. \A d \in Calls : passed'[d] = IF d = c THEN term[SessionOf[c]] ELSE passed[d]
  BY DEF OwnerInv, OwnerTypes, Pass
<1>3. HeldInv'
  <2> SUFFICES ASSUME NEW d \in Calls, pc'[d] \in {"accepted", "read"}
               PROVE  passed'[d] # -1
    BY DEF HeldInv, Held
  <2>1. CASE d = c
    BY <1>0, <1>2, <2>1
  <2>2. CASE d # c
    <3>1. pc'[d] = pc[d]
      BY <2>2 DEF OwnerInv, OwnerTypes
    <3> QED
      BY <1>2, <2>2, <3>1 DEF OwnerInv, HeldInv, Held
  <2> QED
    BY <2>1, <2>2
<1>4. \A d \in Calls : Held(d) /\ SessionOf[d] = SessionOf[c] /\ passed[d] = term[SessionOf[c]] =>
        UserOf[d] = UserOf[c]
  BY DEF OwnerInv, TermInv
<1>5. TermInv'
  <2> SUFFICES ASSUME NEW d \in Calls, Held(d)'
               PROVE  /\ passed'[d] \in 0 .. term[SessionOf[d]]
                      /\ passed'[d] = term[SessionOf[d]] => owner'[SessionOf[d]] = UserOf[d]
    BY DEF TermInv
  <2>1. CASE d = c
    BY <1>0, <1>2, <2>1
  <2>2. CASE d # c
    BY <1>2, <1>4, <2>2 DEF OwnerInv, OwnerTypes, TermInv, Held
  <2> QED
    BY <2>1, <2>2
<1>6. AgreeInv'
  BY <1>2, <1>4 DEF OwnerInv, AgreeInv, Held
<1> QED
  BY <1>1, <1>3, <1>5, <1>6 DEF OwnerInv

\* A step that only moves a call elsewhere keeps the invariant.
LEMMA MoveKeeps ==
  ASSUME OwnerInv, NEW c \in Calls,
         NEW to \in Outside, pc' = [pc EXCEPT ![c] = to],
         UNCHANGED <<owner, term, passed>>
  PROVE  OwnerInv'
  BY SessionAssumption DEF Outside, Places, OwnerInv, OwnerTypes, HeldInv, TermInv, AgreeInv, Held

\* A claim of which only the reply is lost takes a key nobody has, so no check
\* was passed in this term.
LEMMA LostReplyKeeps ==
  ASSUME OwnerInv, NEW c \in Calls, Owner(c) = NoUser,
         NEW to \in Outside, pc' = [pc EXCEPT ![c] = to],
         owner' = [owner EXCEPT ![SessionOf[c]] = UserOf[c]],
         UNCHANGED <<term, passed>>
  PROVE  OwnerInv'
<1> USE SessionAssumption DEF Outside, Places
<1>1. OwnerTypes' /\ HeldInv' /\ AgreeInv'
  BY DEF OwnerInv, OwnerTypes, HeldInv, AgreeInv, Held
<1>2. \A d \in Calls : Held(d) /\ SessionOf[d] = SessionOf[c] => passed[d] # term[SessionOf[d]]
  BY DEF OwnerInv, TermInv, Owner
<1>3. TermInv'
  BY <1>2 DEF OwnerInv, OwnerTypes, TermInv, Held
<1> QED
  BY <1>1, <1>3 DEF OwnerInv

\* Every step keeps the invariant.
LEMMA OwnerStep == OwnerInv /\ [Next]_vars => OwnerInv'
<1> SUFFICES ASSUME OwnerInv, [Next]_vars PROVE OwnerInv'
  OBVIOUS
<1> USE SessionAssumption DEF Outside, Places
<1>1. ASSUME NEW c \in Calls, JWT(c) PROVE OwnerInv'
  <2>1. PICK to \in Outside : pc' = [pc EXCEPT ![c] = to]
    BY <1>1 DEF JWT, At
  <2> QED
    BY <1>1, <2>1, MoveKeeps DEF JWT
<1>2. ASSUME NEW c \in Calls, BadBody(c) PROVE OwnerInv'
  BY <1>2, MoveKeeps DEF BadBody, At
<1>3. ASSUME NEW c \in Calls, ClaimOwner(c) PROVE OwnerInv'
  <2>1. CASE At(c, "claim", "403") /\ UNCHANGED <<owner, passed>>
    BY <1>3, <2>1, MoveKeeps DEF ClaimOwner, At
  <2>2. CASE /\ Owner(c) \in {NoUser, UserOf[c]} /\ At(c, "claim", "accepted")
             /\ owner' = [owner EXCEPT ![SessionOf[c]] = UserOf[c]] /\ Pass(c)
    <3>1. /\ owner' \in [Sessions -> Users \cup {NoUser}]
          /\ owner'[SessionOf[c]] = UserOf[c]
          /\ \A s \in Sessions \ {SessionOf[c]} : owner'[s] = owner[s]
      BY <2>2 DEF OwnerInv, OwnerTypes
    <3> QED
      BY <1>3, <2>2, <3>1, PassKeeps DEF ClaimOwner, At, Owner
  <2>3. CASE /\ Owner(c) = NoUser /\ At(c, "claim", "403")
             /\ owner' = [owner EXCEPT ![SessionOf[c]] = UserOf[c]] /\ UNCHANGED passed
    BY <1>3, <2>3, LostReplyKeeps DEF ClaimOwner, At
  <2> QED
    BY <1>3, <2>1, <2>2, <2>3 DEF ClaimOwner
<1>4. ASSUME NEW c \in Calls, GuardSession(c) PROVE OwnerInv'
  <2>1. CASE UNCHANGED passed /\ (At(c, "guard", "403") \/ At(c, "guard", "500"))
    BY <1>4, <2>1, MoveKeeps DEF GuardSession, At
  <2>2. CASE Owner(c) = UserOf[c] /\ At(c, "guard", "read") /\ Pass(c)
    <3>1. UNCHANGED <<owner, term>>
      BY <1>4 DEF GuardSession
    <3> QED
      BY <2>2, <3>1, PassKeeps DEF At, Owner, OwnerInv, OwnerTypes
  <2> QED
    BY <1>4, <2>1, <2>2 DEF GuardSession
<1>5. ASSUME NEW c \in Calls, GetHistory(c) \/ GetHistoryDB(c) PROVE OwnerInv'
  <2>1. PICK to \in Outside : pc' = [pc EXCEPT ![c] = to]
    BY <1>5 DEF GetHistory, GetHistoryDB, At
  <2> QED
    BY <1>5, <2>1, MoveKeeps DEF GetHistory, GetHistoryDB
<1>6. ASSUME NEW s \in Sessions, Expire(s) PROVE OwnerInv'
  <2>1. /\ UNCHANGED <<pc, passed>>
        /\ owner' = [owner EXCEPT ![s] = NoUser] /\ term' = [term EXCEPT ![s] = @ + 1]
    BY <1>6 DEF Expire
  <2>2. OwnerTypes' /\ HeldInv' /\ AgreeInv'
    BY <2>1 DEF OwnerInv, OwnerTypes, HeldInv, AgreeInv, Held
  <2>3. TermInv'
    BY <2>1 DEF OwnerInv, OwnerTypes, TermInv, Held
  <2> QED
    BY <2>2, <2>3 DEF OwnerInv
<1>7. ASSUME UNCHANGED <<owner, pc, term, passed>> PROVE OwnerInv'
  BY <1>7 DEF OwnerInv, OwnerTypes, HeldInv, TermInv, AgreeInv, Held
<1>8. ASSUME NEW S \in SUBSET Chats, Flush(S) PROVE OwnerInv'
  BY <1>7, <1>8 DEF Flush
<1>9. CASE UNCHANGED vars
  BY <1>7, <1>9 DEF vars
<1> QED
  BY <1>1, <1>2, <1>3, <1>4, <1>5, <1>6, <1>8, <1>9 DEF Next

\* Between two expiries of its key a session has one owner: all requests that
\* are accepted come from one user (SessionOwnerStoreImpl.ClaimOwner).
THEOREM OneOwner == Spec => []OneOwnerPerTerm
<1>1. OwnerInv => OneOwnerPerTerm
  BY DEF OwnerInv, HeldInv, AgreeInv, OneOwnerPerTerm, Chats
<1> QED
  BY <1>1, OwnerInit, OwnerStep, PTL DEF Spec

-----------------------------------------------------------------------------
(* What the table holds and what was shown of it *)

\* No request has two rows, and every row is of a request that was accepted.
RowsInv ==
  /\ table \in Seq(Chats)
  /\ \A i, j \in 1 .. Len(table) : table[i] = table[j] => i = j
  /\ \A i \in 1 .. Len(table) : pc[table[i]] = "accepted"

\* Only a call that got past its check was shown messages, all of them of
\* accepted requests of its session; the history still begins with them.
AnswerInv ==
  /\ answer \in [Calls -> Seq(Chats)]
  /\ \A c \in Calls : Len(answer[c]) # 0 => Held(c)
  /\ \A c \in Calls : \A i \in 1 .. Len(answer[c]) :
       pc[answer[c][i]] = "accepted" /\ SessionOf[answer[c][i]] = SessionOf[c]
  /\ \A c \in Calls : Begins(answer[c], HistoryOf(SessionOf[c]))

Bounds == errors \in 0 .. MaxErrors /\ \A s \in Sessions : term[s] <= MaxExpiries

HistoryInv == OwnerInv /\ Bounds /\ RowsInv /\ AnswerInv

\* Nothing is stored or shown at the start.
LEMMA HistoryInit == Init => HistoryInv
<1> SUFFICES ASSUME Init PROVE HistoryInv
  OBVIOUS
<1>1. /\ OwnerInv /\ table = << >> /\ errors = 0
      /\ answer = [c \in Calls |-> << >>] /\ term = [s \in Sessions |-> 0]
  BY OwnerInit DEF Init
<1>2. << >> \in Seq(Chats) /\ Len(<< >>) = 0
  OBVIOUS
<1>3. Bounds
  BY <1>1, SessionAssumption DEF Bounds
<1>4. RowsInv
  BY <1>1, <1>2 DEF RowsInv
<1>5. ASSUME NEW c \in Calls PROVE Begins(answer[c], HistoryOf(SessionOf[c]))
  <2>1. HistoryOf(SessionOf[c]) = << >>
    BY <1>1, SelectedNone DEF HistoryOf
  <2> QED  BY <1>1, <1>2, <2>1 DEF Begins
<1>6. AnswerInv
  BY <1>1, <1>2, <1>5 DEF AnswerInv
<1> QED  BY <1>1, <1>3, <1>4, <1>6 DEF HistoryInv

\* A flush appends rows of accepted requests that had none.
LEMMA FlushRows ==
  ASSUME RowsInv, NEW S \in SUBSET Chats, Flush(S)
  PROVE  RowsInv' /\ Begins(table, table')
<1> DEFINE R == S \ ToSet(table)
           n == Cardinality(R)
<1>1. PICK new \in SetToSeqs(R) : table' = table \o new
  BY DEF Flush
<1>2. IsFiniteSet(S) /\ (\A r \in S : pc[r] = "accepted") /\ pc' = pc
  BY DEF Flush
<1>3. n \in Nat
  BY <1>2, FS_Subset, FS_CardinalityType
<1>4. R \subseteq Chats /\ \A r \in R : pc[r] = "accepted"
  BY <1>2
<1>5. table \in Seq(Chats) /\ Len(table) \in Nat /\ DOMAIN table = 1 .. Len(table)
  BY LenProperties DEF RowsInv
<1>6. \A i \in 1 .. Len(table) : table[i] \notin R
  BY <1>5 DEF ToSet
<1>7. new \in [1 .. n -> R] /\ \A i, j \in 1 .. n : i # j => new[i] # new[j]
  BY <1>1 DEF SetToSeqs
<1> HIDE DEF R, n
<1>8. new \in Seq(Chats) /\ Len(new) = n
  BY <1>3, <1>4, <1>7
<1>9. /\ table' \in Seq(Chats) /\ Len(table') = Len(table) + n
      /\ \A i \in 1 .. Len(table) + n : table'[i] = IF i <= Len(table) THEN table[i] ELSE new[i - Len(table)]
  BY <1>1, <1>5, <1>8, ConcatProperties
<1>10. PICK m \in Nat : m = Len(table)
  BY <1>5
<1>11. \A i \in 1 .. m + n : IF i <= m THEN i \in 1 .. Len(table) /\ table'[i] = table[i]
                             ELSE i - m \in 1 .. n /\ table'[i] = new[i - m]
  BY <1>3, <1>9, <1>10
<1>12. Begins(table, table')
  BY <1>3, <1>9, <1>10, <1>11 DEF Begins
<1>13. \A i, j \in 1 .. m + n : table'[i] = table'[j] => i = j
  <2> SUFFICES ASSUME NEW i \in 1 .. m + n, NEW j \in 1 .. m + n, table'[i] = table'[j] PROVE i = j
    OBVIOUS
  <2>1. CASE i <= m /\ j <= m
    BY <1>11, <2>1 DEF RowsInv
  <2>2. CASE i <= m /\ ~ (j <= m)
    BY <1>6, <1>7, <1>11, <2>2
  <2>3. CASE ~ (i <= m) /\ j <= m
    BY <1>6, <1>7, <1>11, <2>3
  <2>4. CASE ~ (i <= m) /\ ~ (j <= m)
    <3>1. i - m \in 1 .. n /\ j - m \in 1 .. n /\ new[i - m] = new[j - m]
      BY <1>11, <2>4
    <3>2. i - m = j - m
      BY <1>7, <3>1
    <3> QED  BY <1>3, <3>2
  <2> QED  BY <2>1, <2>2, <2>3, <2>4
<1>14. \A i \in 1 .. m + n : pc[table'[i]] = "accepted"
  BY <1>4, <1>7, <1>11 DEF RowsInv
<1> QED  BY <1>2, <1>9, <1>10, <1>12, <1>13, <1>14 DEF RowsInv

\* A history begins with what it was before the table grew.
LEMMA HistoryBegins ==
  ASSUME NEW u \in Seq(Chats), NEW t \in Seq(Chats), Begins(u, t), NEW T,
         NEW a \in Seq(Chats), Begins(a, Selected(u, T))
  PROVE  Begins(a, Selected(t, T))
<1>1. Begins(Selected(u, T), Selected(t, T))
  BY SelectedGrows
<1>2. Selected(u, T) \in Seq(Chats \cap T) /\ Selected(t, T) \in Seq(Chats \cap T)
  BY SelectedIn
<1>3. PICK v \in Seq(Chats \cap T) : v = Selected(u, T)
  BY <1>2
<1>4. PICK w \in Seq(Chats \cap T) : w = Selected(t, T)
  BY <1>2
<1>5. Begins(v, w) /\ Begins(a, v)
  BY <1>1, <1>3, <1>4
<1>6. Begins(a, w)
  <2>1. Len(a) \in Nat /\ Len(v) \in Nat /\ Len(w) \in Nat
    BY LenProperties
  <2>2. \A i \in 1 .. Len(a) : i \in 1 .. Len(v)
    BY <1>5, <2>1 DEF Begins
  <2> QED  BY <1>5, <2>1, <2>2 DEF Begins
<1> QED  BY <1>4, <1>6

\* A step that leaves the table and the answers alone, and takes back neither
\* an acceptance nor a check, keeps them.
LEMMA RowsKept ==
  ASSUME HistoryInv, UNCHANGED <<table, answer>>,
         \A c \in Calls : (pc[c] = "accepted" => pc'[c] = "accepted") /\ (Held(c) => Held(c)')
  PROVE  RowsInv' /\ AnswerInv'
<1>1. /\ \A i \in 1 .. Len(table) : table[i] \in Calls
      /\ \A c \in Calls : \A i \in 1 .. Len(answer[c]) : answer[c][i] \in Calls
  BY ElementOfSeq, LenProperties DEF HistoryInv, RowsInv, AnswerInv, Chats
<1>2. \A s : HistoryOf(s)' = HistoryOf(s)
  BY DEF HistoryOf
<1>3. RowsInv'
  BY <1>1 DEF HistoryInv, RowsInv
<1>4. AnswerInv'
  BY <1>1, <1>2 DEF HistoryInv, AnswerInv
<1> QED  BY <1>3, <1>4

\* A call that reads the messages is shown the history as it is.
LEMMA ShowKeeps == ASSUME HistoryInv, NEW c \in Calls, GetHistoryDB(c) PROVE RowsInv' /\ AnswerInv'
<1> USE SessionAssumption
<1>1. CASE UNCHANGED answer
  <2>1. UNCHANGED <<table, answer, passed>>
    BY <1>1 DEF GetHistoryDB
  <2>2. \A d \in Calls : pc[d] = "accepted" => pc'[d] = "accepted"
    BY DEF GetHistoryDB, At, HistoryInv, OwnerInv, OwnerTypes
  <2> QED  BY <2>1, <2>2, RowsKept DEF Held
<1>2. CASE At(c, "read", "200") /\ answer' = [answer EXCEPT ![c] = HistoryOf(SessionOf[c])]
  <2> DEFINE h == HistoryOf(SessionOf[c])
             T == {r \in Chats : SessionOf[r] = SessionOf[c]}
  <2>1. UNCHANGED <<table, passed>> /\ table \in Seq(Chats) /\ pc \in [Calls -> Places]
    BY <1>2 DEF GetHistoryDB, HistoryInv, OwnerInv, OwnerTypes, RowsInv
  <2>2. h \in Seq(Chats \cap T) /\ Chats \cap T \subseteq Chats /\ Chats \subseteq Calls
    BY <2>1, SelectedIn DEF HistoryOf, Chats
  <2>3. h \in Seq(Chats) /\ Len(h) \in Nat /\ \A i \in 1 .. Len(h) : h[i] \in T
    BY <2>2, SeqMonotonic, ElementOfSeq, LenProperties
  <2>4. \A d \in Calls : pc[d] = "accepted" => pc'[d] = "accepted"
    BY <1>2, <2>1 DEF At
  <2>5. \A s : HistoryOf(s)' = HistoryOf(s)
    BY <2>1 DEF HistoryOf
  <2>6. \A d \in Calls : answer'[d] = IF d = c THEN h ELSE answer[d]
    BY <1>2 DEF HistoryInv, AnswerInv
  <2>7. Held(c)
    BY <1>2 DEF HistoryInv, OwnerInv, HeldInv, At
  <2>8. \A i \in 1 .. Len(h) : pc[h[i]] = "accepted"
    <3> DEFINE A == {r \in Chats : pc[r] = "accepted"}
    <3>1. table \in Seq(A)
      <4>1. \A i \in 1 .. Len(table) : table[i] \in A
        BY <2>1, ElementOfSeq, LenProperties DEF HistoryInv, RowsInv
      <4> HIDE DEF A
      <4> QED  BY <2>1, <4>1
    <3>2. h \in Seq(A \cap T)
      BY <3>1, SelectedIn DEF HistoryOf
    <3>3. \A i \in 1 .. Len(h) : h[i] \in A
      <4> HIDE DEF A, T, h
      <4> QED  BY <3>2, ElementOfSeq, LenProperties
    <3> QED  BY <3>3
  <2>9. RowsInv'
    BY <2>1, <2>2, <2>4, ElementOfSeq, LenProperties DEF HistoryInv, RowsInv
  <2> HIDE DEF h
  <2>10. /\ answer' \in [Calls -> Seq(Chats)]
         /\ \A d \in Calls : Len(answer'[d]) # 0 => Held(d)'
    BY <1>2, <2>1, <2>3, <2>6, <2>7 DEF HistoryInv, AnswerInv, Held, h
  <2>11. ASSUME NEW d \in Calls, NEW i \in 1 .. Len(answer'[d])
         PROVE  pc'[answer'[d][i]] = "accepted" /\ SessionOf[answer'[d][i]] = SessionOf[d]
    <3>1. CASE d = c
      <4>1. i \in 1 .. Len(h) /\ answer'[d][i] = h[i]
        BY <2>6, <2>11, <3>1
      <4>2. h[i] \in T /\ pc[h[i]] = "accepted"
        BY <2>3, <2>8, <4>1
      <4> QED  BY <2>2, <2>4, <3>1, <4>1, <4>2
    <3>2. CASE d # c
      <4>1. answer'[d] = answer[d] /\ i \in 1 .. Len(answer[d]) /\ answer[d] \in Seq(Chats)
        BY <2>6, <2>11, <3>2 DEF HistoryInv, AnswerInv
      <4>2. answer[d][i] \in Calls
        BY <2>2, <4>1, ElementOfSeq, LenProperties
      <4> QED  BY <2>4, <4>1, <4>2 DEF HistoryInv, AnswerInv
    <3> QED  BY <3>1, <3>2
  <2>12. ASSUME NEW d \in Calls PROVE Begins(answer'[d], HistoryOf(SessionOf[d])')
    <3>1. CASE d = c
      <4>1. Begins(h, h)
        BY <2>3 DEF Begins
      <4> QED  BY <2>5, <2>6, <3>1, <4>1 DEF h
    <3>2. CASE d # c
      BY <2>5, <2>6, <3>2 DEF HistoryInv, AnswerInv
    <3> QED  BY <3>1, <3>2
  <2>13. AnswerInv'
    BY <2>10, <2>11, <2>12 DEF AnswerInv
  <2> QED  BY <2>9, <2>13
<1> QED  BY <1>1, <1>2 DEF GetHistoryDB

\* A flush adds to the histories and to no answer.
LEMMA FlushKeeps == ASSUME HistoryInv, NEW S \in SUBSET Chats, Flush(S) PROVE RowsInv' /\ AnswerInv'
<1>1. RowsInv' /\ Begins(table, table') /\ UNCHANGED <<pc, answer, passed>>
  BY FlushRows DEF HistoryInv, Flush
<1>2. table \in Seq(Chats) /\ table' \in Seq(Chats)
  BY <1>1 DEF HistoryInv, RowsInv
<1>3. ASSUME NEW c \in Calls PROVE Begins(answer'[c], HistoryOf(SessionOf[c])')
  <2> DEFINE T == {r \in Chats : SessionOf[r] = SessionOf[c]}
  <2>1. answer[c] \in Seq(Chats) /\ Begins(answer[c], Selected(table, T))
    BY DEF HistoryInv, AnswerInv, HistoryOf
  <2>2. Begins(answer[c], Selected(table', T))
    <3> HIDE DEF T
    <3> QED  BY <1>1, <1>2, <2>1, HistoryBegins
  <2> QED  BY <1>1, <2>2 DEF HistoryOf
<1>4. AnswerInv'
  BY <1>1, <1>3 DEF HistoryInv, AnswerInv, Held
<1> QED  BY <1>1, <1>4

\* Every step keeps the rows and the answers.
LEMMA HistoryStep == HistoryInv /\ [Next]_vars => HistoryInv'
<1> SUFFICES ASSUME HistoryInv, [Next]_vars PROVE HistoryInv'
  OBVIOUS
<1> USE SessionAssumption
<1>1. OwnerInv'
  BY OwnerStep DEF HistoryInv
<1>2. /\ pc \in [Calls -> Places] /\ passed \in [Calls -> Int] /\ term \in [Sessions -> Nat]
      /\ errors \in 0 .. MaxErrors /\ \A s \in Sessions : term[s] <= MaxExpiries
  BY DEF HistoryInv, OwnerInv, OwnerTypes, Bounds
<1>3. Bounds'
  <2>1. errors' \in 0 .. MaxErrors
    <3>1. UNCHANGED errors \/ Error
      BY DEF Next, vars, JWT, BadBody, ClaimOwner, GuardSession, GetHistory, GetHistoryDB, Expire, Flush, NoError
    <3>2. MaxErrors \in Nat
      OBVIOUS
    <3> QED  BY <1>2, <3>1, <3>2 DEF Error
  <2>2. UNCHANGED term \/ \E s \in Sessions : term[s] < MaxExpiries /\ term' = [term EXCEPT ![s] = @ + 1]
    BY DEF Next, vars, JWT, BadBody, ClaimOwner, GuardSession, GetHistory, GetHistoryDB, Expire, Flush
  <2>3. \A s \in Sessions : term'[s] <= MaxExpiries
    BY <1>2, <2>2
  <2> QED  BY <2>1, <2>3 DEF Bounds
<1>4. ASSUME UNCHANGED <<table, answer>>, NEW c \in Calls, pc[c] # "accepted",
             NEW to, pc' = [pc EXCEPT ![c] = to], UNCHANGED passed \/ Pass(c)
      PROVE  RowsInv' /\ AnswerInv'
  <2>1. \A d \in Calls : pc[d] = "accepted" => pc'[d] = "accepted"
    BY <1>2, <1>4
  <2>2. \A d \in Calls : Held(d) => Held(d)'
    BY <1>2, <1>4 DEF Held, Pass
  <2> QED  BY <1>4, <2>1, <2>2, RowsKept
<1>5. ASSUME NEW c \in Calls, JWT(c) \/ BadBody(c) \/ ClaimOwner(c) \/ GuardSession(c) \/ GetHistory(c)
      PROVE  RowsInv' /\ AnswerInv'
  <2>1. UNCHANGED <<table, answer>> /\ (UNCHANGED passed \/ Pass(c))
    BY <1>5 DEF JWT, BadBody, ClaimOwner, GuardSession, GetHistory
  <2>2. PICK from, to : At(c, from, to) /\ from # "accepted"
    BY <1>5 DEF JWT, BadBody, ClaimOwner, GuardSession, GetHistory
  <2> QED  BY <1>4, <2>1, <2>2 DEF At
<1>6. ASSUME UNCHANGED <<pc, table, answer, passed>> PROVE RowsInv' /\ AnswerInv'
  BY <1>6, RowsKept DEF Held
<1>7. ASSUME NEW s \in Sessions, Expire(s) PROVE RowsInv' /\ AnswerInv'
  BY <1>6, <1>7 DEF Expire
<1>8. CASE UNCHANGED vars
  BY <1>1, <1>3, <1>6, <1>8 DEF vars, HistoryInv
<1> QED
  BY <1>1, <1>3, <1>5, <1>7, <1>8, ShowKeeps, FlushKeeps DEF Next, HistoryInv

\* Every variable of a reachable state holds a value of its kind, and no
\* request is in the table twice, though every flush upserts its rows again.
THEOREM TypesHold == Spec => []TypeOK
<1>1. ASSUME HistoryInv PROVE TypeOK
  <2>1. /\ owner \in [Sessions -> Users \cup {NoUser}] /\ errors \in 0 .. MaxErrors
        /\ pc \in [Calls -> Open \cup {"accepted", "200", "400", "401", "403", "500"}]
        /\ table \in Seq(Chats) /\ answer \in [Calls -> Seq(Chats)]
    BY <1>1 DEF HistoryInv, OwnerInv, OwnerTypes, Places, Outside, Open, RowsInv, AnswerInv, Bounds
  <2>2. \A i, j \in DOMAIN table : table[i] = table[j] => i = j
    BY <1>1, <2>1, LenProperties DEF HistoryInv, RowsInv
  <2>3. term \in [Sessions -> 0 .. MaxExpiries]
    BY <1>1, SessionAssumption DEF HistoryInv, OwnerInv, OwnerTypes, Bounds
  <2>4. passed \in [Calls -> -1 .. MaxExpiries]
    BY <1>1, <2>3, SessionAssumption DEF HistoryInv, OwnerInv, OwnerTypes, TermInv, Held
  <2> QED  BY <2>1, <2>2, <2>3, <2>4 DEF TypeOK
<1> QED  BY <1>1, HistoryInit, HistoryStep, PTL DEF Spec

\* Of the term in which it passed the guard a call is shown only what its own
\* user asked, whatever expires, is claimed or stored between the check and
\* the read (guardSession, MessageStoreImpl.GetHistory).
THEOREM GuardHolds == Spec => []GuardHoldsForItsTerm
<1>1. ASSUME HistoryInv PROVE GuardHoldsForItsTerm
  <2>1. SUFFICES ASSUME NEW c \in Calls, NEW i \in DOMAIN answer[c], passed[answer[c][i]] = passed[c]
                 PROVE  UserOf[answer[c][i]] = UserOf[c]
    BY DEF GuardHoldsForItsTerm
  <2>2. answer[c] \in Seq(Chats) /\ i \in 1 .. Len(answer[c]) /\ Len(answer[c]) \in Nat
    BY <1>1, <2>1, LenProperties DEF HistoryInv, AnswerInv
  <2>3. answer[c][i] \in Calls /\ Len(answer[c]) # 0
    BY <2>2, ElementOfSeq DEF Chats
  <2>4. Held(c) /\ pc[answer[c][i]] = "accepted" /\ SessionOf[answer[c][i]] = SessionOf[c]
    BY <1>1, <2>2, <2>3 DEF HistoryInv, AnswerInv
  <2>5. Held(answer[c][i])
    BY <1>1, <2>3, <2>4 DEF HistoryInv, OwnerInv, HeldInv
  <2> QED  BY <1>1, <2>1, <2>3, <2>4, <2>5 DEF HistoryInv, OwnerInv, AgreeInv
<1> QED  BY <1>1, HistoryInit, HistoryStep, PTL DEF Spec

\* Of any two answers for a session one begins with the other: both begin the
\* history of now (the upsert of MessageStoreImpl.Flush keeps a row's id).
THEOREM ShownStays == Spec => []HistoryGrows
<1>1. ASSUME NEW S, NEW a \in Seq(S), NEW b \in Seq(S), NEW h, Begins(a, h), Begins(b, h), Len(a) <= Len(b)
      PROVE  IsPrefix(a, b)
  <2>1. Len(a) \in Nat /\ Len(b) \in Nat
    BY LenProperties
  <2>2. \A i \in 1 .. Len(a) : i \in 1 .. Len(b) /\ a[i] = b[i]
    BY <1>1, <2>1 DEF Begins
  <2>3. SubSeq(a, 1, Len(a)) = SubSeq(b, 1, Len(a))
    BY <2>1, <2>2
  <2> QED  BY <1>1, <2>3 DEF IsPrefix
<1>2. ASSUME HistoryInv PROVE HistoryGrows
  <2>1. SUFFICES ASSUME NEW c \in Calls, NEW d \in Calls, SessionOf[c] = SessionOf[d]
                 PROVE  IsPrefix(answer[c], answer[d]) \/ IsPrefix(answer[d], answer[c])
    BY DEF HistoryGrows
  <2>2. /\ answer[c] \in Seq(Chats) /\ Begins(answer[c], HistoryOf(SessionOf[c]))
        /\ answer[d] \in Seq(Chats) /\ Begins(answer[d], HistoryOf(SessionOf[c]))
    BY <1>2, <2>1 DEF HistoryInv, AnswerInv
  <2>3. Len(answer[c]) <= Len(answer[d]) \/ Len(answer[d]) <= Len(answer[c])
    BY <2>2, LenProperties
  <2> QED  BY <1>1, <2>2, <2>3
<1> QED  BY <1>2, HistoryInit, HistoryStep, PTL DEF Spec
=============================================================================
