---------------------------- MODULE SequenceLemmas ----------------------------
(***************************************************************************)
(* What a channel does to the sequence that models it: one element more at *)
(* the end (send), the first one taken away (receive); and what Selected   *)
(* leaves of a sequence, by induction over its length.  The library's      *)
(* induction theorems have an operator as parameter; here a set takes its  *)
(* place.                                                                  *)
(***************************************************************************)
EXTENDS Selection, Integers, SequenceTheorems, WellFoundedInduction, TLAPS

\* The elements of a sequence with one more at the end.
LEMMA AppendAt ==
  ASSUME NEW S, NEW s \in Seq(S), NEW e \in S
  PROVE  /\ DOMAIN Append(s, e) = 1 .. Len(s) + 1 /\ Len(Append(s, e)) = Len(s) + 1
         /\ \A i \in 1 .. Len(s) + 1 : Append(s, e)[i] = IF i = Len(s) + 1 THEN e ELSE s[i]
<1>1. Append(s, e) \in Seq(S) /\ Len(Append(s, e)) = Len(s) + 1
  BY AppendProperties
<1>2. Len(s) \in Nat /\ DOMAIN Append(s, e) = 1 .. Len(s) + 1
  BY <1>1, LenProperties
<1>3. \A i \in 1 .. Len(s) + 1 : i = Len(s) + 1 \/ i \in 1 .. Len(s)
  BY <1>2
<1> QED  BY <1>1, <1>2, <1>3, AppendProperties

\* The elements of a sequence without its first.
LEMMA TailAt ==
  ASSUME NEW S, NEW s \in Seq(S), s # << >>
  PROVE  /\ Len(s) \in Nat \ {0} /\ DOMAIN s = 1 .. Len(s) /\ Head(s) = s[1]
         /\ DOMAIN Tail(s) = 1 .. Len(s) - 1 /\ Len(Tail(s)) = Len(s) - 1
         /\ \A i \in 1 .. Len(s) - 1 : Tail(s)[i] = s[i + 1]
<1>1. Tail(s) \in Seq(S) /\ Len(Tail(s)) = Len(s) - 1
  BY HeadTailProperties
<1>2. Len(s) \in Nat \ {0} /\ DOMAIN s = 1 .. Len(s)
  BY EmptySeq, LenProperties
<1>3. DOMAIN Tail(s) = 1 .. Len(s) - 1
  BY <1>1, LenProperties
<1>4. Head(s) = s[1]
  BY <1>2
<1> QED  BY <1>1, <1>2, <1>3, <1>4, HeadTailProperties

-----------------------------------------------------------------------------
(* Selected *)

\* Induction up to k, with a set in the place of the predicate.
LEMMA UpTo ==
  ASSUME NEW k \in Nat, NEW I, 0 \in I, \A n \in 0 .. k - 1 : n \in I => n + 1 \in I
  PROVE  \A n \in 0 .. k : n \in I
<1> SUFFICES ASSUME \E n \in 0 .. k : n \notin I PROVE FALSE
  OBVIOUS
<1> DEFINE T == (0 .. k) \ I
<1> DEFINE R == OpToRel(<, Nat)
<1>1. T \subseteq Nat /\ T # {}
  OBVIOUS
<1>2. IsWellFoundedOn(R, Nat)
  BY NatLessThanWellFounded
<1>3. \A x, y \in Nat : x < y => <<x, y>> \in R
  BY DEF OpToRel
<1> HIDE DEF T, R
<1>4. PICK x \in T : \A y \in T : ~ (<<y, x>> \in R)
  BY <1>1, <1>2, WFMin
<1>5. x \in 0 .. k /\ x \notin I /\ x # 0
  BY <1>4 DEF T
<1>6. x - 1 \in Nat /\ x \in Nat /\ x - 1 < x /\ x - 1 \in 0 .. k - 1 /\ x - 1 \in 0 .. k /\ (x - 1) + 1 = x
  BY <1>5
<1>7. <<x - 1, x>> \in R
  BY <1>3, <1>6
<1>8. x - 1 \notin T
  BY <1>4, <1>7
<1>9. x - 1 \in I
  BY <1>6, <1>8 DEF T
<1> QED  BY <1>5, <1>6, <1>9

\* g tells what each beginning of s up to n leaves.
Picks(g, s, T, n) ==
  g = [i \in 0 .. n |-> IF i = 0 THEN << >>
                        ELSE IF s[i] \in T THEN Append(g[i - 1], s[i]) ELSE g[i - 1]]

\* There is such a function: the recursion of Selected defines one.
LEMMA PicksExist ==
  ASSUME NEW s, NEW T, NEW n \in Nat
  PROVE  \E g : Picks(g, s, T, n)
<1> DEFINE I == {m \in 0 .. n : \E g : Picks(g, s, T, m)}
<1>1. 0 \in I
  <2> DEFINE g == [i \in 0 .. 0 |-> << >>]
  <2>1. Picks(g, s, T, 0)
    BY DEF Picks
  <2> HIDE DEF g
  <2>2. 0 \in 0 .. n
    OBVIOUS
  <2> QED  BY <2>1, <2>2
<1>2. ASSUME NEW m \in 0 .. n - 1, m \in I PROVE m + 1 \in I
  <2>1. PICK g : Picks(g, s, T, m)
    BY <1>2
  <2> DEFINE h == [i \in 0 .. m + 1 |->
                     IF i = m + 1 THEN (IF s[m + 1] \in T THEN Append(g[m], s[m + 1]) ELSE g[m]) ELSE g[i]]
  <2>2. Picks(h, s, T, m + 1)
    <3>1. ASSUME NEW i \in 0 .. m + 1
          PROVE  h[i] = IF i = 0 THEN << >> ELSE IF s[i] \in T THEN Append(h[i - 1], s[i]) ELSE h[i - 1]
      <4>1. CASE i = m + 1
        <5>1. i # 0 /\ i - 1 = m /\ m \in 0 .. m + 1 /\ m # m + 1
          BY <4>1
        <5>2. h[m] = g[m]
          BY <5>1
        <5>3. h[m + 1] = IF s[m + 1] \in T THEN Append(g[m], s[m + 1]) ELSE g[m]
          OBVIOUS
        <5> QED  BY <4>1, <5>1, <5>2, <5>3
      <4>2. CASE i # m + 1
        <5>1. i \in 0 .. m
          BY <4>2
        <5>2. h[i] = g[i] /\ (i # 0 => h[i - 1] = g[i - 1])
          BY <5>1
        <5>3. g[i] = IF i = 0 THEN << >> ELSE IF s[i] \in T THEN Append(g[i - 1], s[i]) ELSE g[i - 1]
          BY <2>1, <5>1, Zenon DEF Picks
        <5> HIDE DEF h
        <5> QED  BY <5>2, <5>3
      <4> QED  BY <4>1, <4>2
    <3>2. h = [i \in 0 .. m + 1 |-> h[i]]
      OBVIOUS
    <3> HIDE DEF h
    <3> QED  BY <3>1, <3>2 DEF Picks
  <2> HIDE DEF h
  <2>3. m + 1 \in 0 .. n
    OBVIOUS
  <2> QED  BY <2>2, <2>3
<1> HIDE DEF I
<1>3. n \in I
  BY <1>1, <1>2, UpTo
<1> QED  BY <1>3 DEF I

\* Selected is what that function says of the whole sequence.
LEMMA SelectedPicks ==
  ASSUME NEW S, NEW s \in Seq(S), NEW T
  PROVE  \E g : Picks(g, s, T, Len(s)) /\ Selected(s, T) = g[Len(s)]
<1>1. Len(s) \in Nat
  BY LenProperties
<1> DEFINE g == CHOOSE u : Picks(u, s, T, Len(s))
<1>2. \E u : Picks(u, s, T, Len(s))
  BY <1>1, PicksExist
<1>3. Picks(g, s, T, Len(s))
  BY <1>2, Zenon
<1>4. Selected(s, T) = g[Len(s)]
  BY Zenon DEF Selected, Picks
<1> QED  BY <1>3, <1>4

\* a and b have the same first n elements.
SameUpTo(a, b, n) == \A i \in 1 .. n : a[i] = b[i]

\* What a beginning leaves depends on that beginning alone.
LEMMA PicksAgree ==
  ASSUME NEW s, NEW t, NEW T, NEW n \in Nat, NEW m \in Nat, n <= m, SameUpTo(s, t, n),
         NEW g, Picks(g, s, T, n), NEW h, Picks(h, t, T, m)
  PROVE  g[n] = h[n]
<1>0. /\ \A i \in 0 .. n : g[i] = IF i = 0 THEN << >> ELSE IF s[i] \in T THEN Append(g[i - 1], s[i]) ELSE g[i - 1]
      /\ \A i \in 0 .. m : h[i] = IF i = 0 THEN << >> ELSE IF t[i] \in T THEN Append(h[i - 1], t[i]) ELSE h[i - 1]
  BY Zenon DEF Picks
<1> DEFINE I == {i \in 0 .. n : g[i] = h[i]}
<1>1. 0 \in I
  BY <1>0
<1>2. ASSUME NEW i \in 0 .. n - 1, i \in I PROVE i + 1 \in I
  <2>1. i + 1 \in 0 .. n /\ i + 1 \in 0 .. m /\ i + 1 # 0 /\ (i + 1) - 1 = i /\ i + 1 \in 1 .. n
    OBVIOUS
  <2>2. g[i] = h[i] /\ s[i + 1] = t[i + 1]
    BY <1>2, <2>1 DEF SameUpTo
  <2>3. /\ g[i + 1] = IF s[i + 1] \in T THEN Append(g[i], s[i + 1]) ELSE g[i]
        /\ h[i + 1] = IF t[i + 1] \in T THEN Append(h[i], t[i + 1]) ELSE h[i]
    BY <1>0, <2>1
  <2> QED  BY <2>1, <2>2, <2>3
<1> HIDE DEF I
<1>3. \A i \in 0 .. n : i \in I
  BY <1>1, <1>2, UpTo
<1> QED  BY <1>3 DEF I

\* Nothing leaves nothing.
LEMMA SelectedNone == ASSUME NEW T PROVE Selected(<< >>, T) = << >>
<1>1. << >> \in Seq({}) /\ Len(<< >>) = 0
  OBVIOUS
<1>2. PICK g : Picks(g, << >>, T, 0) /\ Selected(<< >>, T) = g[0]
  BY <1>1, SelectedPicks
<1>3. g[0] = << >>
  BY <1>2 DEF Picks
<1> QED  BY <1>2, <1>3

\* One element more is one more if it is in the set.
LEMMA SelectedAppend ==
  ASSUME NEW S, NEW s \in Seq(S), NEW e \in S, NEW T
  PROVE  Selected(Append(s, e), T) = IF e \in T THEN Append(Selected(s, T), e) ELSE Selected(s, T)
<1> DEFINE t == Append(s, e)
<1>1. /\ t \in Seq(S) /\ Len(t) = Len(s) + 1 /\ Len(s) \in Nat
      /\ t[Len(s) + 1] = e /\ \A i \in 1 .. Len(s) : t[i] = s[i]
  BY AppendProperties, LenProperties
<1> HIDE DEF t
<1>2. PICK g : Picks(g, s, T, Len(s)) /\ Selected(s, T) = g[Len(s)]
  BY SelectedPicks
<1>3. PICK h : Picks(h, t, T, Len(t)) /\ Selected(t, T) = h[Len(t)]
  BY <1>1, SelectedPicks
<1>4. g[Len(s)] = h[Len(s)]
  <2>1. PICK n \in Nat : n = Len(s)
    BY <1>1
  <2>2. PICK m \in Nat : m = Len(t)
    BY <1>1
  <2>3. n <= m /\ SameUpTo(s, t, n)
    BY <1>1, <2>1, <2>2 DEF SameUpTo
  <2>4. Picks(g, s, T, n) /\ Picks(h, t, T, m)
    BY <1>2, <1>3, <2>1, <2>2
  <2>5. g[n] = h[n]
    BY <2>3, <2>4, PicksAgree
  <2> QED  BY <2>1, <2>5
<1>5. h[Len(s) + 1] = IF t[Len(s) + 1] \in T THEN Append(h[Len(s)], t[Len(s) + 1]) ELSE h[Len(s)]
  <2>1. \A i \in 0 .. Len(t) : h[i] = IF i = 0 THEN << >> ELSE IF t[i] \in T THEN Append(h[i - 1], t[i]) ELSE h[i - 1]
    BY <1>3, Zenon DEF Picks
  <2>2. Len(s) + 1 \in 0 .. Len(t) /\ Len(s) + 1 # 0 /\ (Len(s) + 1) - 1 = Len(s)
    BY <1>1
  <2> QED  BY <2>1, <2>2
<1>6. Selected(t, T) = IF e \in T THEN Append(Selected(s, T), e) ELSE Selected(s, T)
  BY <1>1, <1>2, <1>3, <1>4, <1>5
<1> QED  BY <1>6 DEF t

\* What is left are elements of the sequence that are in the set.
LEMMA SelectedIn ==
  ASSUME NEW S, NEW s \in Seq(S), NEW T
  PROVE  Selected(s, T) \in Seq(S \cap T)
<1>1. PICK g : Picks(g, s, T, Len(s)) /\ Selected(s, T) = g[Len(s)]
  BY SelectedPicks
<1>2. \A i \in 0 .. Len(s) : g[i] = IF i = 0 THEN << >> ELSE IF s[i] \in T THEN Append(g[i - 1], s[i]) ELSE g[i - 1]
  BY <1>1, Zenon DEF Picks
<1>3. Len(s) \in Nat /\ \A i \in 1 .. Len(s) : s[i] \in S
  BY LenProperties, ElementOfSeq
<1> DEFINE I == {i \in 0 .. Len(s) : g[i] \in Seq(S \cap T)}
<1>4. 0 \in I
  <2>1. 0 \in 0 .. Len(s)
    BY <1>3
  <2>2. g[0] = << >>
    BY <1>2, <2>1
  <2>3. << >> \in Seq(S \cap T)
    OBVIOUS
  <2> QED  BY <2>1, <2>2, <2>3
<1>5. ASSUME NEW i \in 0 .. Len(s) - 1, i \in I PROVE i + 1 \in I
  <2>1. i + 1 \in 0 .. Len(s) /\ i + 1 # 0 /\ (i + 1) - 1 = i /\ i + 1 \in 1 .. Len(s)
    BY <1>3
  <2>2. g[i + 1] = IF s[i + 1] \in T THEN Append(g[i], s[i + 1]) ELSE g[i]
    BY <1>2, <2>1
  <2>3. g[i] \in Seq(S \cap T) /\ s[i + 1] \in S
    BY <1>3, <1>5, <2>1
  <2>4. s[i + 1] \in T => Append(g[i], s[i + 1]) \in Seq(S \cap T)
    BY <2>3, AppendProperties
  <2> QED  BY <2>1, <2>2, <2>3, <2>4
<1> HIDE DEF I
<1>6. \A i \in 0 .. Len(s) : i \in I
  BY <1>3, <1>4, <1>5, UpTo
<1> QED  BY <1>1, <1>3, <1>6 DEF I

\* a is a first part of b.
Begins(a, b) == Len(a) <= Len(b) /\ \A i \in 1 .. Len(a) : a[i] = b[i]

\* What a longer sequence leaves begins with what the shorter one did.
LEMMA SelectedGrows ==
  ASSUME NEW S, NEW s \in Seq(S), NEW t \in Seq(S), Begins(s, t), NEW T
  PROVE  Begins(Selected(s, T), Selected(t, T))
<1>1. PICK h : Picks(h, t, T, Len(t)) /\ Selected(t, T) = h[Len(t)]
  BY SelectedPicks
<1>2. PICK g : Picks(g, s, T, Len(s)) /\ Selected(s, T) = g[Len(s)]
  BY SelectedPicks
<1>3. Len(s) \in Nat /\ Len(t) \in Nat /\ Len(s) <= Len(t) /\ \A i \in 1 .. Len(s) : s[i] = t[i]
  BY LenProperties DEF Begins
<1>4. g[Len(s)] = h[Len(s)]
  <2>1. PICK n \in Nat : n = Len(s)
    BY <1>3
  <2>2. PICK m \in Nat : m = Len(t)
    BY <1>3
  <2>3. n <= m /\ SameUpTo(s, t, n)
    BY <1>3, <2>1, <2>2 DEF SameUpTo
  <2>4. Picks(g, s, T, n) /\ Picks(h, t, T, m)
    BY <1>1, <1>2, <2>1, <2>2
  <2>5. g[n] = h[n]
    BY <2>3, <2>4, PicksAgree
  <2> QED  BY <2>1, <2>5
<1>5. /\ \A i \in 0 .. Len(t) : h[i] = IF i = 0 THEN << >> ELSE IF t[i] \in T THEN Append(h[i - 1], t[i]) ELSE h[i - 1]
      /\ \A i \in 1 .. Len(t) : t[i] \in S
  BY <1>1, <1>3, Zenon, ElementOfSeq, LenProperties DEF Picks
<1> DEFINE a == Selected(s, T)
<1>6. a \in Seq(S) /\ a = h[Len(s)] /\ Len(a) \in Nat
  <2>1. a \in Seq(S \cap T)
    BY SelectedIn
  <2> QED  BY <1>2, <1>4, <2>1, LenProperties
<1> HIDE DEF a
<1> DEFINE k == Len(t) - Len(s)
           I == {i \in 0 .. k : h[Len(s) + i] \in Seq(S) /\ Begins(a, h[Len(s) + i])}
<1>7. k \in Nat
  BY <1>3
<1>8. 0 \in I
  <2>1. Len(s) + 0 = Len(s)
    BY <1>3
  <2> QED  BY <1>6, <1>7, <2>1 DEF Begins
<1>9. ASSUME NEW i \in 0 .. k - 1, i \in I PROVE i + 1 \in I
  <2> DEFINE n == Len(s) + i
  <2>1. n \in Nat /\ n + 1 \in 0 .. Len(t) /\ n + 1 # 0 /\ (n + 1) - 1 = n /\ n + 1 \in 1 .. Len(t)
        /\ Len(s) + (i + 1) = n + 1 /\ i + 1 \in 0 .. k
    BY <1>3, <1>7
  <2>2. h[n] \in Seq(S) /\ Begins(a, h[n])
    BY <1>9
  <2> HIDE DEF n
  <2>3. h[n + 1] = (IF t[n + 1] \in T THEN Append(h[n], t[n + 1]) ELSE h[n]) /\ t[n + 1] \in S
    BY <1>5, <2>1
  <2>4. h[n + 1] \in Seq(S) /\ Begins(a, h[n + 1])
    <3>1. PICK u \in Seq(S) : u = h[n]
      BY <2>2
    <3>2. Len(u) \in Nat
      BY LenProperties
    <3>3. /\ Append(u, t[n + 1]) \in Seq(S) /\ Len(Append(u, t[n + 1])) = Len(u) + 1
          /\ \A j \in 1 .. Len(u) : Append(u, t[n + 1])[j] = u[j]
      BY <2>3, AppendProperties
    <3>4. Begins(a, u) => Begins(a, Append(u, t[n + 1]))
      <4> SUFFICES ASSUME Begins(a, u) PROVE Begins(a, Append(u, t[n + 1]))
        OBVIOUS
      <4>1. Len(a) <= Len(u) + 1 /\ \A j \in 1 .. Len(a) : j \in 1 .. Len(u)
        BY <1>6, <3>2 DEF Begins
      <4> QED  BY <3>3, <4>1 DEF Begins
    <3> QED  BY <2>2, <2>3, <3>1, <3>3, <3>4
  <2> QED  BY <2>1, <2>4
<1> HIDE DEF I, k
<1>10. \A i \in 0 .. k : i \in I
  BY <1>7, <1>8, <1>9, UpTo
<1>11. k \in 0 .. k /\ Len(s) + k = Len(t)
  BY <1>3, <1>7 DEF k
<1>12. Begins(a, h[Len(t)])
  BY <1>10, <1>11 DEF I
<1> QED  BY <1>1, <1>12 DEF a
=============================================================================
