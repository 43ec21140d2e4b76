---------------------------- MODULE MCTokenDelivery ----------------------------
(***************************************************************************)
(* Instances of TokenDelivery for TLC.                                     *)
(***************************************************************************)
EXTENDS TokenDelivery, TLC

CONSTANTS r1, r2, g1, g2, a1, a2, h1, h2

MCRequests == {r1, r2}
MCOneRequest == {r1}
MCGoroutines == {g1, g2}
MCApis == {a1, a2}
MCApiOf == [r \in Requests |-> IF r = r1 THEN a1 ELSE a2]
MCApiOfOne == [r \in Requests |-> a1]
\* every instance has an address of its own
MCOwnAddr == [a \in Apis |-> IF a = a1 THEN h1 ELSE h2]
\* docker-compose.prod.yml: both replicas advertise "api:50051"
MCSharedAddr == [a \in Apis |-> h1]
MCSymmetry == Permutations(Goroutines)
=============================================================================
