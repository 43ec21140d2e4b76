---------------------------- MODULE MCPubSubStream ----------------------------
(***************************************************************************)
(* Instances of PubSubStream for TLC.                                      *)
(***************************************************************************)
EXTENDS PubSubStream

CONSTANTS t1, t2, t3

MCTurns == {t1, t2, t3}
=============================================================================
