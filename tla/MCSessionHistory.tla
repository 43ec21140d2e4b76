--------------------------- MODULE MCSessionHistory ---------------------------
(***************************************************************************)
(* Instances of SessionHistory for TLC: two users at one session.          *)
(***************************************************************************)
EXTENDS SessionHistory

CONSTANTS c1, c2, c3, h1, h2, h3, u1, u2, s1

MCCalls == {c1, c2, c3, h1, h2, h3}
MCKind == [c \in Calls |-> CASE c \in {c1, c2, c3} -> "chat"
                             [] c \in {h1, h2} -> "history_db"
                             [] c = h3 -> "history"]
MCUsers == {u1, u2}
MCUserOf == [c \in Calls |-> IF c \in {c1, c3, h1, h3} THEN u1 ELSE u2]
MCSessions == {s1}
MCSessionOf == [c \in Calls |-> s1]
=============================================================================
