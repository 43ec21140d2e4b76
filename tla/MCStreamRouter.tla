---------------------------- MODULE MCStreamRouter ----------------------------
(***************************************************************************)
(* Instances of StreamRouter for TLC.                                      *)
(***************************************************************************)
EXTENDS StreamRouter, TLC

CONSTANTS r1, r2, g1, g2

MCRequests == {r1, r2}
MCGoroutines == {g1, g2}
MCSymmetry == Permutations(Requests) \cup Permutations(Goroutines)
=============================================================================
