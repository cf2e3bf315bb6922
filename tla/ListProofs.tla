----------------------------- MODULE ListProofs -----------------------------
(***************************************************************************)
(* Induction over the naturals in a form the provers can apply, and what   *)
(* filtering a list keeps.                                                 *)
(*                                                                         *)
(* The induction principle speaks of a set of naturals and not of a        *)
(* predicate, so it is a first-order fact: a set of naturals with an       *)
(* element has a least one, because < is well founded.                     *)
(***************************************************************************)
EXTENDS Lists, WellFoundedInduction, TLAPS

\* A set of naturals with an element has a least element.
LEMMA LeastElement ==
  ASSUME NEW T \in SUBSET Nat, T # {}
  PROVE  \E n \in T : \A m \in T : n <= m
  <1>. DEFINE below == {ss \in Nat \X Nat : ss[1] < ss[2]}
  <1>1. IsWellFoundedOn(below, Nat)
    BY NatLessThanWellFounded, Zenon DEF OpToRel
  <1>2. PICK n \in T : \A m \in T : <<m, n>> \notin below
    <2>. HIDE DEF below
    <2>. QED BY <1>1, WFMin
  <1>3. ASSUME NEW m \in T
        PROVE  n <= m
    <2>1. <<m, n>> \notin below
      BY <1>2
    <2>. QED BY <2>1
  <1>. QED BY <1>2, <1>3

\* A set that has 0, and n + 1 with every n, has every natural number.
LEMMA Induction ==
  ASSUME NEW S, 0 \in S, \A n \in Nat : n \in S => n + 1 \in S
  PROVE  Nat \subseteq S
  <1>. SUFFICES ASSUME Nat \ S # {}
                PROVE  FALSE
    OBVIOUS
  <1>1. PICK n \in Nat \ S : \A m \in Nat \ S : n <= m
    BY LeastElement
  <1>2. n # 0 /\ n - 1 \in Nat /\ n - 1 \in S
    BY <1>1
  <1>. QED BY <1>1, <1>2

-----------------------------------------------------------------------------
\* Appending keeps the elements where they are and adds one at the end.
LEMMA AppendFacts ==
  ASSUME NEW T, NEW s \in Seq(T), NEW x \in T
  PROVE  /\ Append(s, x) \in Seq(T)
         /\ Len(Append(s, x)) = Len(s) + 1
         /\ Len(s) \in Nat /\ Len(s) + 1 \in 1 .. Len(s) + 1
         /\ Len(s) + 1 > 0
         /\ Append(s, x)[Len(s) + 1] = x
         /\ \A i \in 1 .. Len(s) : Append(s, x)[i] = s[i]
  OBVIOUS

-----------------------------------------------------------------------------
\* The equation of the function that Only computes, for the first n elements.
Filters(only, s, wanted, n) ==
  only = [i \in 0 .. n |->
            IF i = 0 THEN <<>>
            ELSE IF s[i] \in wanted THEN Append(only[i - 1], s[i]) ELSE only[i - 1]]

\* The recursion is well founded: there is a function that satisfies it.
LEMMA FilterExists ==
  ASSUME NEW s, NEW wanted
  PROVE  \A n \in Nat : \E only : Filters(only, s, wanted, n)
  <1>. DEFINE S == {n \in Nat : \E only : Filters(only, s, wanted, n)}
  <1>1. 0 \in S
    <2>. DEFINE only == [i \in 0 .. 0 |-> <<>>]
    <2>1. Filters(only, s, wanted, 0)
      BY DEF Filters
    <2>. QED BY <2>1
  <1>2. ASSUME NEW n \in Nat, n \in S
        PROVE  n + 1 \in S
    <2>1. PICK f : Filters(f, s, wanted, n)
      BY <1>2
    <2>. DEFINE more == IF s[n + 1] \in wanted THEN Append(f[n], s[n + 1]) ELSE f[n]
                only == [i \in 0 .. n + 1 |-> IF i = n + 1 THEN more ELSE f[i]]
    <2>2. ASSUME NEW i \in 0 .. n + 1
          PROVE  only[i] = IF i = 0 THEN <<>>
                           ELSE IF s[i] \in wanted THEN Append(only[i - 1], s[i]) ELSE only[i - 1]
      <3>1. CASE i = n + 1
        <4>1. only[i] = more /\ only[i - 1] = f[n] /\ i # 0
          BY <3>1
        <4>2. more = IF s[i] \in wanted THEN Append(f[n], s[i]) ELSE f[n]
          BY <3>1, Zenon
        <4>. HIDE DEF more, only
        <4>. QED BY <4>1, <4>2, Zenon
      <3>2. CASE i # n + 1
        <4>1. i \in 0 .. n /\ only[i] = f[i] /\ (i # 0 => only[i - 1] = f[i - 1])
          BY <3>2
        <4>2. f[i] = IF i = 0 THEN <<>>
                     ELSE IF s[i] \in wanted THEN Append(f[i - 1], s[i]) ELSE f[i - 1]
          BY <2>1, <4>1, Zenon DEF Filters
        <4>. HIDE DEF only
        <4>. QED BY <4>1, <4>2, Zenon
      <3>. QED BY <3>1, <3>2
    <2>3. Filters(only, s, wanted, n + 1)
      BY <2>2 DEF Filters
    <2>. QED BY <2>3
  <1>3. Nat \subseteq S
    <2>. HIDE DEF S
    <2>. QED BY <1>1, <1>2, Induction
  <1>. QED BY <1>3

\* What Only returns is the last value of such a function.
LEMMA OnlyFilters ==
  ASSUME NEW s, NEW wanted, Len(s) \in Nat
  PROVE  \E only : Filters(only, s, wanted, Len(s)) /\ Only(s, wanted) = only[Len(s)]
  <1>. DEFINE f == CHOOSE only : Filters(only, s, wanted, Len(s))
  <1>1. Filters(f, s, wanted, Len(s))
    BY FilterExists
  <1>2. Only(s, wanted) = f[Len(s)]
    BY Zenon DEF Only, Filters
  <1>. QED BY <1>1, <1>2

\* Filtering keeps the elements that are wanted and no others, in a list that
\* is not longer; a last element that is wanted stays the last.
LEMMA OnlyFacts ==
  ASSUME NEW T, NEW s \in Seq(T), NEW wanted
  PROVE  LET kept == Only(s, wanted) IN
         /\ kept \in Seq(T \cap wanted)
         /\ Len(kept) <= Len(s)
         /\ ListOf(s) \cap wanted \subseteq ListOf(kept)
         /\ Len(s) > 0 /\ s[Len(s)] \in wanted => Len(kept) > 0 /\ kept[Len(kept)] = s[Len(s)]
  <1>0. Len(s) \in Nat /\ \A i \in 1 .. Len(s) : s[i] \in T
    OBVIOUS
  <1>1. PICK f : Filters(f, s, wanted, Len(s)) /\ Only(s, wanted) = f[Len(s)]
    BY <1>0, OnlyFilters
  <1>2. /\ f[0] = <<>>
        /\ \A n \in Nat : n + 1 <= Len(s) =>
             f[n + 1] = IF s[n + 1] \in wanted THEN Append(f[n], s[n + 1]) ELSE f[n]
    <2>1. \A i \in 0 .. Len(s) :
            f[i] = IF i = 0 THEN <<>>
                   ELSE IF s[i] \in wanted THEN Append(f[i - 1], s[i]) ELSE f[i - 1]
      BY <1>1, Zenon DEF Filters
    <2>2. ASSUME NEW n \in Nat, n + 1 <= Len(s)
          PROVE  f[n + 1] = IF s[n + 1] \in wanted THEN Append(f[n], s[n + 1]) ELSE f[n]
      <3>1. n + 1 \in 0 .. Len(s) /\ n + 1 # 0 /\ (n + 1) - 1 = n
        BY <1>0, <2>2
      <3>. QED BY <2>1, <3>1, Zenon
    <2>3. f[0] = <<>>
      BY <1>0, <2>1
    <2>. QED BY <2>2, <2>3
  <1>. DEFINE Kept(n) == /\ f[n] \in Seq(T \cap wanted)
                         /\ Len(f[n]) <= n
                         /\ \A i \in 1 .. n : s[i] \in wanted => \E j \in 1 .. Len(f[n]) : f[n][j] = s[i]
              S == {n \in Nat : n <= Len(s) => Kept(n)}
  <1>3. 0 \in S
    <2>1. <<>> \in Seq(T \cap wanted) /\ Len(<<>>) <= 0
      OBVIOUS
    <2>2. Kept(0)
      BY <1>2, <2>1
    <2>. QED BY <2>2
  <1>4. ASSUME NEW n \in Nat, n \in S
        PROVE  n + 1 \in S
    <2>. SUFFICES ASSUME n + 1 <= Len(s)
                  PROVE  Kept(n + 1)
      OBVIOUS
    <2>1. Kept(n)
      BY <1>0, <1>4
    <2>2. CASE s[n + 1] \in wanted
      <3>1. s[n + 1] \in T \cap wanted
        BY <1>0, <2>2
      <3>2. f[n + 1] = Append(f[n], s[n + 1])
        BY <1>2, <2>2
      <3>3. /\ f[n + 1] \in Seq(T \cap wanted) /\ Len(f[n + 1]) = Len(f[n]) + 1
            /\ f[n + 1][Len(f[n]) + 1] = s[n + 1]
            /\ \A j \in 1 .. Len(f[n]) : f[n + 1][j] = f[n][j]
        <4>1. f[n] \in Seq(T \cap wanted)
          BY <2>1, Zenon
        <4>2. /\ Append(f[n], s[n + 1]) \in Seq(T \cap wanted)
              /\ Len(Append(f[n], s[n + 1])) = Len(f[n]) + 1
              /\ Append(f[n], s[n + 1])[Len(f[n]) + 1] = s[n + 1]
              /\ \A j \in 1 .. Len(f[n]) : Append(f[n], s[n + 1])[j] = f[n][j]
          BY <3>1, <4>1, AppendFacts, Z3T(30)
        <4>. QED BY <3>2, <4>2, Zenon
      <3>4. ASSUME NEW i \in 1 .. n + 1, s[i] \in wanted
            PROVE  \E j \in 1 .. Len(f[n + 1]) : f[n + 1][j] = s[i]
        <4>0. Len(f[n]) \in Nat
          BY <2>1
        <4>1. CASE i = n + 1
          <5>1. Len(f[n]) + 1 \in 1 .. Len(f[n + 1])
            BY <3>3, <4>0
          <5>. QED BY <3>3, <4>1, <5>1, Zenon
        <4>2. CASE i # n + 1
          <5>1. i \in 1 .. n
            BY <4>2
          <5>2. PICK j \in 1 .. Len(f[n]) : f[n][j] = s[i]
            BY <2>1, <3>4, <5>1, Zenon
          <5>3. j \in 1 .. Len(f[n + 1])
            BY <3>3, <4>0
          <5>. QED BY <3>3, <5>2, <5>3, Zenon
        <4>. QED BY <4>1, <4>2, Zenon
      <3>5. Len(f[n + 1]) <= n + 1
        <4>1. Len(f[n]) \in Nat /\ Len(f[n]) <= n /\ Len(f[n + 1]) = Len(f[n]) + 1
          BY <2>1, <3>3
        <4>. QED BY <4>1
      <3>. QED BY <3>3, <3>4, <3>5, Zenon
    <2>3. CASE s[n + 1] \notin wanted
      <3>1. f[n + 1] = f[n]
        BY <1>2, <2>3, Zenon
      <3>2. Len(f[n + 1]) <= n + 1
        <4>1. Len(f[n]) \in Nat /\ Len(f[n]) <= n
          BY <2>1
        <4>. QED BY <3>1, <4>1
      <3>3. ASSUME NEW i \in 1 .. n + 1, s[i] \in wanted
            PROVE  \E j \in 1 .. Len(f[n + 1]) : f[n + 1][j] = s[i]
        <4>1. i # n + 1
          BY <2>3, <3>3, Zenon
        <4>2. i \in 1 .. n
          BY <4>1
        <4>. QED BY <2>1, <3>1, <3>3, <4>2, Zenon
      <3>. QED BY <2>1, <3>1, <3>2, <3>3, Zenon
    <2>. QED BY <2>2, <2>3, Zenon
  <1>5. Nat \subseteq S
    <2>. HIDE DEF S
    <2>. QED BY <1>3, <1>4, Induction
  <1>6. Kept(Len(s))
    BY <1>0, <1>5
  <1>7. ASSUME Len(s) > 0, s[Len(s)] \in wanted
        PROVE  Len(f[Len(s)]) > 0 /\ f[Len(s)][Len(f[Len(s)])] = s[Len(s)]
    <2>. DEFINE n == Len(s) - 1
    <2>1. n \in Nat /\ n + 1 = Len(s)
      BY <1>0, <1>7
    <2>2. Kept(n)
      BY <1>5, <2>1
    <2>3. f[Len(s)] = Append(f[n], s[Len(s)])
      <3>1. f[n + 1] = IF s[n + 1] \in wanted THEN Append(f[n], s[n + 1]) ELSE f[n]
        BY <1>0, <1>2, <2>1
      <3>. QED BY <1>7, <2>1, <3>1, Zenon
    <2>4. f[n] \in Seq(T \cap wanted) /\ s[Len(s)] \in T \cap wanted
      BY <1>0, <1>7, <2>2
    <2>. HIDE DEF n
    <2>. QED BY <2>3, <2>4
  <1>8. ListOf(s) \cap wanted \subseteq ListOf(f[Len(s)])
    BY <1>0, <1>6 DEF ListOf
  <1>. QED BY <1>1, <1>6, <1>7, <1>8
=============================================================================
