--------------------------- MODULE SequenceLemmas ---------------------------
(***************************************************************************)
(* Lemmas that the proofs of several components need: least elements of    *)
(* sets of numbers, what a sequence is without one of its elements, and    *)
(* what FlattenSeq of the community modules makes of a sequence of         *)
(* sequences.                                                              *)
(***************************************************************************)
EXTENDS Integers, SequencesExt, SequenceTheorems, FiniteSetTheorems, WellFoundedInduction, TLAPS

-----------------------------------------------------------------------------
(* Least elements, and the removal of one                                  *)

\* Every set of numbers has a least one.
LEMMA LeastElement ==
    ASSUME NEW T \in SUBSET Nat, T # {}
    PROVE  \E x \in T : \A y \in T : x <= y
<1> DEFINE R == OpToRel(<, Nat)
<1>1. \A x, y \in Nat : <<y, x>> \in R <=> y < x
  BY DEF OpToRel
<1>2. IsWellFoundedOn(R, Nat)
  BY NatLessThanWellFounded
<1> HIDE DEF R
<1>3. PICK x \in T : \A y \in T : ~ (<<y, x>> \in R)
  BY <1>2, WFMin
<1>4. ASSUME NEW y \in T PROVE x <= y
  <2>1. ~ (y < x)
    BY <1>1, <1>3
  <2> QED
    BY <2>1
<1> QED
  BY <1>4

LEMMA MinOfNats ==
    ASSUME NEW T \in SUBSET Nat, T # {}
    PROVE  Min(T) \in T /\ \A y \in T : Min(T) <= y
  BY LeastElement DEF Min

\* Removing position i keeps the order of the other elements.
LEMMA RemoveAtProperties ==
    ASSUME NEW S, NEW s \in Seq(S), NEW i \in 1..Len(s)
    PROVE  /\ RemoveAt(s, i) \in Seq(S)
           /\ Len(RemoveAt(s, i)) = Len(s) - 1
           /\ \A j \in 1..(Len(s) - 1) :
                 RemoveAt(s, i)[j] = IF j < i THEN s[j] ELSE s[j + 1]
<1> DEFINE front == SubSeq(s, 1, i - 1)
           back  == SubSeq(s, i + 1, Len(s))
<1>1. Len(s) \in Nat /\ i \in Nat /\ 1 <= i /\ i <= Len(s)
  BY LenProperties
<1>2. \A j \in 1..Len(s) : s[j] \in S
  BY LenProperties
<1>3. /\ front \in Seq(S) /\ Len(front) = i - 1
      /\ \A j \in 1..(i - 1) : front[j] = s[j]
  <2>1. \A j \in 1..(i - 1) : s[j] \in S
    BY <1>1, <1>2
  <2>2. /\ front \in Seq(S)
        /\ Len(front) = IF 1 <= i - 1 THEN (i - 1) - 1 + 1 ELSE 0
        /\ \A j \in 1..((i - 1) - 1 + 1) : front[j] = s[1 + j - 1]
    BY <1>1, <2>1, SubSeqProperties
  <2>. QED  BY <1>1, <2>2
<1>4. /\ back \in Seq(S) /\ Len(back) = Len(s) - i
      /\ \A j \in 1..(Len(s) - i) : back[j] = s[i + j]
  <2>1. \A j \in (i + 1)..Len(s) : s[j] \in S
    BY <1>1, <1>2
  <2>2. /\ back \in Seq(S)
        /\ Len(back) = IF i + 1 <= Len(s) THEN Len(s) - (i + 1) + 1 ELSE 0
        /\ \A j \in 1..(Len(s) - (i + 1) + 1) : back[j] = s[(i + 1) + j - 1]
    BY <1>1, <2>1, SubSeqProperties
  <2>. QED  BY <1>1, <2>2
<1>5. /\ front \o back \in Seq(S)
      /\ Len(front \o back) = Len(front) + Len(back)
      /\ \A j \in 1..(Len(front) + Len(back)) :
            (front \o back)[j] = IF j <= Len(front) THEN front[j] ELSE back[j - Len(front)]
  BY <1>3, <1>4, ConcatProperties
<1>6. RemoveAt(s, i) = front \o back
  BY DEF RemoveAt
<1>. HIDE DEF front, back
<1>7. Len(front) + Len(back) = Len(s) - 1
  BY <1>1, <1>3, <1>4
<1>8. ASSUME NEW j \in 1..(Len(s) - 1)
      PROVE  (front \o back)[j] = IF j < i THEN s[j] ELSE s[j + 1]
  <2>1. (front \o back)[j] = IF j <= Len(front) THEN front[j] ELSE back[j - Len(front)]
    BY <1>5, <1>7
  <2>2. CASE j < i
    BY <1>1, <1>3, <2>1, <2>2
  <2>3. CASE ~(j < i)
    <3>1. j - (i - 1) \in 1..(Len(s) - i) /\ ~(j <= i - 1)
      BY <1>1, <2>3
    <3>2. back[j - (i - 1)] = s[i + (j - (i - 1))]
      BY <1>4, <3>1
    <3>3. i + (j - (i - 1)) = j + 1
      BY <1>1
    <3>. QED  BY <1>3, <2>1, <2>3, <3>1, <3>2, <3>3
  <2>. QED  BY <2>2, <2>3
<1>. QED  BY <1>5, <1>6, <1>7, <1>8

-----------------------------------------------------------------------------
(* Sequences of sequences                                                  *)

\* The first n of a sequence of sequences are concatenated in f.
Concatenates(f, ss, n) ==
    f = [i \in 1..n |-> IF i = 1 THEN ss[i] ELSE f[i - 1] \o ss[i]]

LEMMA ConcatenationGrows ==
    ASSUME NEW ss, NEW n \in Nat, NEW f, Concatenates(f, ss, n)
    PROVE  \E g : Concatenates(g, ss, n + 1)
<1>1. PICK x : x = IF n = 0 THEN ss[1] ELSE f[n] \o ss[n + 1]
  OBVIOUS
<1>2. PICK g : g = [i \in 1..(n + 1) |-> IF i = n + 1 THEN x ELSE f[i]]
  OBVIOUS
<1>3. \A i \in 1..n : f[i] = IF i = 1 THEN ss[i] ELSE f[i - 1] \o ss[i]
  BY DEF Concatenates
<1>4. ASSUME NEW i \in 1..(n + 1)
      PROVE  g[i] = IF i = 1 THEN ss[i] ELSE g[i - 1] \o ss[i]
  <2>1. CASE i = n + 1 /\ n = 0
    BY <1>1, <1>2, <2>1
  <2>2. CASE i = n + 1 /\ n # 0
    <3>1. n \in 1..(n + 1) /\ n # n + 1 /\ i # 1 /\ i - 1 = n
      BY <2>2
    <3>2. g[n] = f[n]
      BY <1>2, <3>1
    <3>3. g[i] = x
      BY <1>2, <2>2
    <3>. QED  BY <1>1, <2>2, <3>1, <3>2, <3>3
  <2>3. CASE i # n + 1
    <3>1. i \in 1..n /\ g[i] = f[i]
      BY <1>2, <2>3
    <3>2. CASE i = 1
      BY <1>3, <3>1, <3>2
    <3>3. CASE i # 1
      <4>1. i - 1 \in 1..(n + 1) /\ i - 1 # n + 1
        BY <2>3, <3>3
      <4>2. g[i - 1] = f[i - 1]
        BY <1>2, <4>1
      <4>. QED  BY <1>3, <3>1, <3>3, <4>2
    <3>. QED  BY <3>2, <3>3
  <2>. QED  BY <2>1, <2>2, <2>3
<1>5. g = [i \in 1..(n + 1) |-> g[i]]
  BY <1>2
<1>6. Concatenates(g, ss, n + 1)
  BY <1>4, <1>5 DEF Concatenates
<1>. QED  BY <1>6

LEMMA ConcatenationExists ==
    ASSUME NEW ss, NEW n \in Nat
    PROVE  \E f : Concatenates(f, ss, n)
<1> DEFINE Without == {m \in Nat : ~ \E f : Concatenates(f, ss, m)}
<1> SUFFICES ASSUME Without # {} PROVE FALSE
  OBVIOUS
<1>1. PICK m \in Without : \A k \in Without : m <= k
  BY LeastElement
<1>2. CASE m = 0
  <2>1. PICK f : f = [i \in 1..0 |-> ss[i]]
    OBVIOUS
  <2>2. Concatenates(f, ss, 0)
    BY <2>1 DEF Concatenates
  <2>. QED  BY <1>2, <2>2
<1>3. CASE m # 0
  <2>1. m - 1 \in Nat /\ m - 1 \notin Without /\ (m - 1) + 1 = m
    BY <1>1, <1>3
  <2>2. PICK f : Concatenates(f, ss, m - 1)
    BY <2>1
  <2>3. \E g : Concatenates(g, ss, (m - 1) + 1)
    BY <2>1, <2>2, ConcatenationGrows
  <2>. QED  BY <2>1, <2>3
<1>. QED  BY <1>2, <1>3

\* What FlattenSeq concatenates.
LEMMA FlattenSeqIs ==
    ASSUME NEW T, NEW ss \in Seq(Seq(T)), Len(ss) # 0
    PROVE  \E f : Concatenates(f, ss, Len(ss)) /\ FlattenSeq(ss) = f[Len(ss)]
<1> DEFINE f == CHOOSE g : Concatenates(g, ss, Len(ss))
<1>1. Len(ss) \in Nat
  BY LenProperties
<1>2. Concatenates(f, ss, Len(ss))
  BY <1>1, ConcatenationExists
<1>3. FlattenSeq(ss) = f[Len(ss)]
  BY DEF FlattenSeq, Concatenates
<1>. QED  BY <1>2, <1>3

LEMMA ConcatHas ==
    ASSUME NEW T, NEW s \in Seq(T), NEW t \in Seq(T)
    PROVE  s \o t \in Seq(T) /\ ToSet(s \o t) = ToSet(s) \cup ToSet(t)
<1>1. PICK u : u = s \o t
  OBVIOUS
<1>2. /\ u \in Seq(T) /\ Len(u) = Len(s) + Len(t) /\ Len(s) \in Nat /\ Len(t) \in Nat
      /\ \A i \in 1..Len(s) + Len(t) : u[i] = IF i <= Len(s) THEN s[i] ELSE t[i - Len(s)]
  BY <1>1, ConcatProperties, LenProperties
<1>3. DOMAIN s = 1..Len(s) /\ DOMAIN t = 1..Len(t) /\ DOMAIN u = 1..Len(u)
  BY <1>2, LenProperties
<1>4. ASSUME NEW x \in ToSet(u) PROVE x \in ToSet(s) \cup ToSet(t)
  <2>1. PICK i \in 1..Len(u) : u[i] = x
    BY <1>3 DEF ToSet
  <2>2. CASE i <= Len(s)
    <3>1. i \in 1..Len(s) /\ s[i] = x
      BY <1>2, <2>1, <2>2
    <3>. QED  BY <1>3, <3>1 DEF ToSet
  <2>3. CASE ~(i <= Len(s))
    <3>1. i - Len(s) \in 1..Len(t) /\ t[i - Len(s)] = x
      BY <1>2, <2>1, <2>3
    <3>. QED  BY <1>3, <3>1 DEF ToSet
  <2>. QED  BY <2>2, <2>3
<1>5. ASSUME NEW x \in ToSet(s) PROVE x \in ToSet(u)
  <2>1. PICK i \in 1..Len(s) : s[i] = x
    BY <1>3 DEF ToSet
  <2>2. i \in 1..Len(u) /\ u[i] = x
    BY <1>2, <2>1
  <2>. QED  BY <1>3, <2>2 DEF ToSet
<1>6. ASSUME NEW x \in ToSet(t) PROVE x \in ToSet(u)
  <2>1. PICK i \in 1..Len(t) : t[i] = x
    BY <1>3 DEF ToSet
  <2>2. PICK j : j = i + Len(s)
    OBVIOUS
  <2>3. j \in 1..Len(u) /\ ~(j <= Len(s)) /\ j - Len(s) = i
    BY <1>2, <2>2
  <2>4. u[j] = t[j - Len(s)]
    BY <1>2, <2>3
  <2>. QED  BY <1>3, <2>1, <2>3, <2>4 DEF ToSet
<1>. QED  BY <1>1, <1>2, <1>4, <1>5, <1>6

LEMMA UnionOfOneMore ==
    ASSUME NEW ss, NEW some, NEW m
    PROVE  UNION {ToSet(ss[j]) : j \in some \cup {m}} = (UNION {ToSet(ss[j]) : j \in some}) \cup ToSet(ss[m])
  OBVIOUS

\* FlattenSeq has the elements of all of its sequences and no others.
LEMMA FlattenedHas ==
    ASSUME NEW T, NEW ss \in Seq(Seq(T))
    PROVE  /\ FlattenSeq(ss) \in Seq(T)
           /\ ToSet(FlattenSeq(ss)) = UNION {ToSet(ss[i]) : i \in DOMAIN ss}
<1>1. Len(ss) \in Nat /\ DOMAIN ss = 1..Len(ss) /\ \A i \in 1..Len(ss) : ss[i] \in Seq(T)
  BY LenProperties, ElementOfSeq
<1>2. CASE Len(ss) = 0
  <2>1. ss = <<>>
    BY <1>2, EmptySeq
  <2>2. FlattenSeq(ss) = <<>>
    BY <1>2, <2>1 DEF FlattenSeq
  <2>3. DOMAIN ss = {}
    BY <1>1, <1>2
  <2>4. ToSet(ss) = {} /\ UNION {ToSet(ss[i]) : i \in DOMAIN ss} = {} /\ ss \in Seq(T)
    BY <2>1, <2>3 DEF ToSet
  <2>. QED  BY <2>1, <2>2, <2>4
<1>3. CASE Len(ss) # 0
  <2>1. PICK f : Concatenates(f, ss, Len(ss)) /\ FlattenSeq(ss) = f[Len(ss)]
    BY <1>3, FlattenSeqIs
  <2>2. \A i \in 1..Len(ss) : f[i] = IF i = 1 THEN ss[i] ELSE f[i - 1] \o ss[i]
    BY <2>1 DEF Concatenates
  <2> DEFINE Has(i) == f[i] \in Seq(T) /\ ToSet(f[i]) = UNION {ToSet(ss[j]) : j \in 1..i}
             Lacks == {i \in 1..Len(ss) : ~Has(i)}
  <2>3. Lacks = {}
    <3> SUFFICES ASSUME Lacks # {} PROVE FALSE
      OBVIOUS
    <3>1. PICK m \in Lacks : \A k \in Lacks : m <= k
      <4>1. Lacks \in SUBSET Nat
        BY <1>1
      <4> HIDE DEF Lacks
      <4>. QED  BY <4>1, LeastElement
    <3>2. m \in 1..Len(ss) /\ ~Has(m)
      BY <3>1
    <3> HIDE DEF Has, Lacks
    <3>3. CASE m = 1
      <4>1. f[1] = ss[1] /\ 1 \in 1..Len(ss)
        BY <1>1, <2>2, <3>2, <3>3
      <4>2. UNION {ToSet(ss[j]) : j \in 1..1} = ToSet(ss[1])
        OBVIOUS
      <4>. QED  BY <1>1, <3>2, <3>3, <4>1, <4>2 DEF Has
    <3>4. CASE m # 1
      <4>1. m - 1 \in 1..Len(ss) /\ 1..m = (1..(m - 1)) \cup {m} /\ ~(m <= m - 1)
        BY <1>1, <3>2, <3>4
      <4>6. m - 1 \notin Lacks
        BY <3>1, <4>1
      <4>2. Has(m - 1)
        BY <4>1, <4>6 DEF Lacks
      <4>3. f[m] = f[m - 1] \o ss[m]
        BY <2>2, <3>2, <3>4
      <4>4. f[m] \in Seq(T) /\ ToSet(f[m]) = ToSet(f[m - 1]) \cup ToSet(ss[m])
        BY <1>1, <3>2, <4>2, <4>3, ConcatHas DEF Has
      <4>5. UNION {ToSet(ss[j]) : j \in 1..m} = (UNION {ToSet(ss[j]) : j \in 1..(m - 1)}) \cup ToSet(ss[m])
        BY <4>1, UnionOfOneMore
      <4>. QED  BY <3>2, <4>2, <4>4, <4>5 DEF Has
    <3>. QED  BY <3>3, <3>4
  <2>4. Has(Len(ss))
    <3>1. Len(ss) \in 1..Len(ss)
      BY <1>1, <1>3
    <3>. QED  BY <2>3, <3>1
  <2>. QED  BY <1>1, <2>1, <2>4
<1>. QED  BY <1>2, <1>3
=============================================================================
