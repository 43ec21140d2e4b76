------------------------------- MODULE Selection -------------------------------
(***************************************************************************)
(* The elements of a sequence that are in a set, in their order.  SelectSeq*)
(* with a set for its test, written as a recursive function, of which the  *)
(* provers can reason.                                                     *)
(***************************************************************************)
EXTENDS Naturals, Sequences

\* upTo[i] is what the first i elements of s leave.
Selected(s, T) ==
  LET upTo[i \in 0 .. Len(s)] ==
        IF i = 0 THEN << >>
        ELSE IF s[i] \in T THEN Append(upTo[i - 1], s[i]) ELSE upTo[i - 1]
  IN  upTo[Len(s)]
=============================================================================
