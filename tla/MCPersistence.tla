---------------------------- MODULE MCPersistence ----------------------------
(***************************************************************************)
(* Instances of Persistence for TLC.                                       *)
(***************************************************************************)
EXTENDS Persistence

CONSTANTS r1, s1

MCOneRequest == {r1}
MCSessions == {s1}
MCSessionOf == [r \in Requests |-> s1]
=============================================================================
