------------------------------ MODULE ChatStream ------------------------------
(***************************************************************************)
(* What POST /chat/:session_id promises its client as long as the          *)
(* streaming worker stays up: a refused request gets nothing; an accepted  *)
(* one gets chunks of the generated text, none twice and none after the one*)
(* that says done, and with growing positions unless the gRPC stream of the*)
(* request breaks, which may hold chunks up behind later ones.             *)
(***************************************************************************)
EXTENDS Naturals, Sequences

CONSTANTS Requests, Last     \* Last is the position of the done chunk

VARIABLES
  status,         \* of the response: new, open, closed
  got,            \* positions of the chunks received
  torn            \* requests whose stream broke

chatVars == <<status, got, torn>>

Init ==
  /\ status = [r \in Requests |-> "new"]
  /\ got = [r \in Requests |-> << >>]
  /\ torn = {}

\* The response header is sent: 200, the body follows.
Accept(r) ==
  /\ status[r] = "new"
  /\ status' = [status EXCEPT ![r] = "open"]
  /\ UNCHANGED <<got, torn>>

\* 400, 403 or 500
Refuse(r) ==
  /\ status[r] = "new"
  /\ status' = [status EXCEPT ![r] = "closed"]
  /\ UNCHANGED <<got, torn>>

\* One chunk; the done chunk ends the response.
Chunk(r, n) ==
  /\ status[r] = "open"
  /\ \A i \in DOMAIN got[r] : got[r][i] # n /\ (r \notin torn => got[r][i] < n)
  /\ got' = [got EXCEPT ![r] = Append(@, n)]
  /\ status' = [status EXCEPT ![r] = IF n = Last THEN "closed" ELSE "open"]
  /\ UNCHANGED torn

\* The stream that carries the chunks of r breaks.
Tear(r) ==
  /\ torn' = torn \cup {r}
  /\ UNCHANGED <<status, got>>

\* The connection ends without done.
Abort(r) ==
  /\ status[r] = "open"
  /\ status' = [status EXCEPT ![r] = "closed"]
  /\ UNCHANGED <<got, torn>>

Next == \E r \in Requests :
  Accept(r) \/ Refuse(r) \/ Abort(r) \/ Tear(r) \/ \E n \in 1 .. Last : Chunk(r, n)

Spec == Init /\ [][Next]_chatVars
=============================================================================
