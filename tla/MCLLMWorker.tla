----------------------------- MODULE MCLLMWorker -----------------------------
(***************************************************************************)
(* Instances of LLMWorker for TLC.                                         *)
(***************************************************************************)
EXTENDS LLMWorker

CONSTANTS r1, r2

MCRequests == {r1, r2}
MCOneRequest == {r1}
=============================================================================
