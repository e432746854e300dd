--------------------------- MODULE SequenceLemmas ---------------------------
(***************************************************************************)
(* What the proofs use of the histories the modules keep: sequences of     *)
(* which nothing is known but that they are sequences.                     *)
(***************************************************************************)
EXTENDS Naturals, Sequences, FiniteSets, FiniteSetTheorems, WellFoundedInduction, TLAPS

\* A non-empty set of naturals has a least element.
LEMMA LeastNatural ==
  ASSUME NEW T, T \subseteq Nat, T # {}
  PROVE  \E x \in T : \A y \in T : x <= y
<1>1. PICK x \in T : \A y \in T : ~ (<<y, x>> \in OpToRel(<, Nat))
  BY NatLessThanWellFounded, WFMin
<1>2. \A y \in T : ~ (y < x)
  BY <1>1 DEF OpToRel
<1>3. QED
  BY <1>2

\* The first n numbers are n.
LEMMA UpTo ==
  ASSUME NEW n \in Nat
  PROVE  IsFiniteSet(1..n) /\ Cardinality(1..n) = n
<1>1. Cardinality(1..n) = IF 1 > n THEN 0 ELSE n - 1 + 1
  BY FS_Interval
<1>2. QED
  BY <1>1, FS_Interval

\* A sequence, of whatever it holds
IsSeq(s) == s \in Seq({s[n] : n \in DOMAIN s})

\* A function on the first m numbers is one.
LEMMA ListIsSeq ==
  ASSUME NEW m \in Nat, NEW f, f = [n \in 1..m |-> f[n]]
  PROVE  IsSeq(f) /\ Len(f) = m
<1> DEFINE S == {f[n] : n \in 1..m}
<1>1. DOMAIN f = 1..m
  OBVIOUS
<1>2. \A n \in 1..m : f[n] \in S
  OBVIOUS
<1> HIDE DEF S
<1>3. f \in [1..m -> S]
  BY <1>1, <1>2
<1>4. f \in Seq(S) /\ Len(f) = m
  BY <1>3
<1>5. QED
  BY <1>1, <1>4 DEF IsSeq, S

\* Every sequence over a set is one.
LEMMA SeqIsSeq ==
  ASSUME NEW S, NEW t \in Seq(S)
  PROVE  IsSeq(t)
<1> DEFINE R == {t[n] : n \in DOMAIN t}
<1>1. Len(t) \in Nat /\ t \in [1..Len(t) -> S] /\ DOMAIN t = 1..Len(t)
  OBVIOUS
<1>2. t \in [1..Len(t) -> R]
  BY <1>1
<1> HIDE DEF R
<1>3. t \in Seq(R)
  BY <1>1, <1>2
<1>4. QED
  BY <1>3 DEF IsSeq, R

(* What Append keeps and adds, and how long the result is.                *)
LEMMA AppendSeq ==
  ASSUME NEW s, IsSeq(s), NEW e
  PROVE  /\ IsSeq(Append(s, e))
         /\ DOMAIN Append(s, e) = 1..(Len(s) + 1) /\ DOMAIN s = 1..Len(s) /\ Len(s) \in Nat
         /\ \A n \in DOMAIN s : n \in DOMAIN Append(s, e) /\ Append(s, e)[n] = s[n]
         /\ Append(s, e)[Len(s) + 1] = e /\ Len(Append(s, e)) = Len(s) + 1
<1> DEFINE S == {s[n] : n \in DOMAIN s} \cup {e}
<1>1. Len(s) \in Nat /\ DOMAIN s = 1..Len(s)
  BY DEF IsSeq
<1>2. s \in Seq(S) /\ e \in S
  BY <1>1 DEF IsSeq
<1> HIDE DEF S
<1>3. Append(s, e) \in Seq(S) /\ Len(Append(s, e)) = Len(s) + 1
  BY <1>2
<1>4. \A n \in 1..(Len(s) + 1) : Append(s, e)[n] = IF n <= Len(s) THEN s[n] ELSE e
  BY <1>2
<1>5. DOMAIN Append(s, e) = 1..(Len(s) + 1)
  BY <1>1, <1>3
<1>6. IsSeq(Append(s, e))
  BY <1>3, SeqIsSeq
<1>7. QED
  BY <1>1, <1>3, <1>4, <1>5, <1>6

(* What is left of a sequence without its first m elements, and the first  *)
(* m of them.                                                              *)
LEMMA DropFirst ==
  ASSUME NEW S, NEW s \in Seq(S), NEW m \in 0..Len(s)
  PROVE  /\ SubSeq(s, m + 1, Len(s)) \in Seq(S) /\ Len(s) \in Nat
         /\ Len(SubSeq(s, m + 1, Len(s))) = Len(s) - m
         /\ \A i \in 1..(Len(s) - m) : SubSeq(s, m + 1, Len(s))[i] = s[i + m]
         /\ SubSeq(s, m + 1, Len(s)) = [i \in 1..(Len(s) - m) |-> s[i + m]]
<1>1. Len(s) \in Nat
  OBVIOUS
<1>2. SubSeq(s, m + 1, Len(s)) = [i \in 1..(Len(s) - m) |-> s[i + m]]
  BY <1>1
<1>3. \A i \in (m + 1)..Len(s) : s[i] \in S
  BY <1>1
<1>4. SubSeq(s, m + 1, Len(s)) \in Seq(S)
  BY <1>1, <1>3
<1>5. QED
  BY <1>1, <1>2, <1>4

LEMMA TakeFirst ==
  ASSUME NEW S, NEW s \in Seq(S), NEW m \in 0..Len(s)
  PROVE  SubSeq(s, 1, m) = [i \in 1..m |-> s[i]]
<1>1. Len(s) \in Nat
  OBVIOUS
<1>2. QED
  BY <1>1

\* How often e is in s
CountOf(s, e) == Cardinality({n \in DOMAIN s : s[n] = e})

\* Append adds one to the count of what it appends.
LEMMA CountAppend ==
  ASSUME NEW s, IsSeq(s), NEW e, NEW x
  PROVE  /\ CountOf(s, x) \in Nat
         /\ CountOf(Append(s, e), x) = IF x = e THEN CountOf(s, x) + 1 ELSE CountOf(s, x)
<1> DEFINE C == {n \in DOMAIN s : s[n] = x}
           D == {n \in DOMAIN Append(s, e) : Append(s, e)[n] = x}
<1>1. /\ DOMAIN Append(s, e) = 1..(Len(s) + 1) /\ DOMAIN s = 1..Len(s) /\ Len(s) \in Nat
      /\ \A n \in DOMAIN s : Append(s, e)[n] = s[n]
      /\ Append(s, e)[Len(s) + 1] = e
  BY AppendSeq
<1>2. IsFiniteSet(C)
  <2>1. C \subseteq 1..Len(s) /\ IsFiniteSet(1..Len(s))
    BY <1>1, FS_Interval
  <2>2. QED
    BY <2>1, FS_Subset
<1>3. D = IF x = e THEN C \cup {Len(s) + 1} ELSE C
  BY <1>1
<1>4. Len(s) + 1 \notin C
  BY <1>1
<1>5. Cardinality(C) \in Nat /\ Cardinality(C \cup {Len(s) + 1}) = Cardinality(C) + 1
  BY <1>2, <1>4, FS_CardinalityType, FS_AddElement
<1>6. QED
  BY <1>3, <1>5 DEF CountOf
-----------------------------------------------------------------------------
(* The places of a sequence some elements of which are kept, and how many  *)
(* of them there are up to a place.                                        *)
UpIn(P, k) == {j \in P : j <= k}
RankIn(P, k) == Cardinality(UpIn(P, k))

\* A place has a greater rank than every one before it.
LEMMA RankGrows ==
  ASSUME NEW m \in Nat, NEW P, P \subseteq 1..m
  PROVE  /\ IsFiniteSet(P) /\ Cardinality(P) \in Nat
         /\ \A k \in Nat : IsFiniteSet(UpIn(P, k)) /\ RankIn(P, k) \in Nat /\ RankIn(P, k) <= Cardinality(P)
         /\ \A k, l \in P : k < l => RankIn(P, k) < RankIn(P, l)
         /\ \A k \in P : RankIn(P, k) >= 1
<1>1. IsFiniteSet(P) /\ Cardinality(P) \in Nat
  BY UpTo, FS_Subset, FS_CardinalityType
<1>2. \A k \in Nat : IsFiniteSet(UpIn(P, k)) /\ RankIn(P, k) \in Nat /\ RankIn(P, k) <= Cardinality(P)
  <2> SUFFICES ASSUME NEW k \in Nat
               PROVE  IsFiniteSet(UpIn(P, k)) /\ RankIn(P, k) \in Nat /\ RankIn(P, k) <= Cardinality(P)
    OBVIOUS
  <2>1. UpIn(P, k) \subseteq P
    BY DEF UpIn
  <2>2. QED
    BY <1>1, <2>1, FS_Subset, FS_CardinalityType DEF RankIn
<1>3. ASSUME NEW k \in P, NEW l \in P, k < l PROVE RankIn(P, k) < RankIn(P, l)
  <2>1. k \in Nat /\ l \in Nat
    OBVIOUS
  <2>2. l \in UpIn(P, l) /\ IsFiniteSet(UpIn(P, l)) /\ RankIn(P, l) \in Nat /\ RankIn(P, k) \in Nat
    <3>1. l \in UpIn(P, l)
      BY <2>1 DEF UpIn
    <3>2. QED
      BY <1>2, <2>1, <3>1
  <2>3. /\ IsFiniteSet(UpIn(P, l) \ {l})
        /\ Cardinality(UpIn(P, l) \ {l}) = RankIn(P, l) - 1
    BY <2>2, FS_RemoveElement DEF RankIn
  <2>4. UpIn(P, k) \subseteq UpIn(P, l) \ {l}
    <3>1. \A j \in P : j <= k => j <= l /\ j # l
      BY <1>3, <2>1
    <3>2. QED
      BY <3>1 DEF UpIn
  <2>5. RankIn(P, k) <= Cardinality(UpIn(P, l) \ {l})
    BY <2>3, <2>4, FS_Subset DEF RankIn
  <2>6. QED
    BY <2>2, <2>3, <2>5
<1>4. ASSUME NEW k \in P PROVE RankIn(P, k) >= 1
  <2>1. k \in Nat /\ k \in UpIn(P, k)
    BY DEF UpIn
  <2>2. RankIn(P, k) # 0
    BY <1>2, <2>1, FS_EmptySet DEF RankIn
  <2>3. QED
    BY <1>2, <2>1, <2>2
<1>5. QED
  BY <1>1, <1>2, <1>3, <1>4

\* There is a place of every rank.
LEMMA RankReached ==
  ASSUME NEW m \in Nat, NEW P, P \subseteq 1..m, NEW n \in 1..Cardinality(P)
  PROVE  \E k \in P : RankIn(P, k) = n
<1>1. /\ Cardinality(P) \in Nat /\ n \in Nat
      /\ \A k \in Nat : IsFiniteSet(UpIn(P, k)) /\ RankIn(P, k) \in Nat
  <2>1. /\ Cardinality(P) \in Nat
        /\ \A k \in Nat : IsFiniteSet(UpIn(P, k)) /\ RankIn(P, k) \in Nat
    BY RankGrows, Zenon
  <2>2. QED
    BY <2>1
<1> DEFINE T == {x \in Nat : RankIn(P, x) >= n}
<1>2. m \in T
  <2>1. UpIn(P, m) = P
    <3>1. \A j \in P : j <= m
      OBVIOUS
    <3>2. QED
      BY <3>1, Zenon DEF UpIn
  <2>2. RankIn(P, m) = Cardinality(P)
    BY <2>1 DEF RankIn
  <2>3. QED
    BY <1>1, <2>2
<1>3. PICK x \in T : \A y \in T : x <= y
  BY <1>2, LeastNatural
<1>4. x # 0
  <2>1. UpIn(P, 0) = {}
    <3>1. \A j \in P : ~ (j <= 0)
      OBVIOUS
    <3>2. QED
      BY <3>1, Zenon DEF UpIn
  <2>2. RankIn(P, 0) = 0
    BY <2>1, FS_EmptySet DEF RankIn
  <2>3. QED
    BY <1>1, <2>2
<1>5. x \in Nat /\ x - 1 \in Nat /\ RankIn(P, x) >= n
  BY <1>3, <1>4
<1>6. RankIn(P, x - 1) < n
  <2>1. x - 1 \notin T
    BY <1>3, <1>5
  <2>2. RankIn(P, x - 1) \in Nat
    BY <1>1, <1>5
  <2>3. QED
    BY <1>1, <1>5, <2>1, <2>2
<1> HIDE DEF T
<1>7. x \in P
  <2>1. SUFFICES ASSUME x \notin P PROVE FALSE
    OBVIOUS
  <2>2. UpIn(P, x) = UpIn(P, x - 1)
    <3>1. \A j \in P : j <= x <=> j <= x - 1
      BY <1>5, <2>1
    <3>2. QED
      BY <3>1, Zenon DEF UpIn
  <2>3. RankIn(P, x) = RankIn(P, x - 1)
    BY <2>2 DEF RankIn
  <2>4. QED
    BY <1>1, <1>5, <1>6, <2>3
<1>8. RankIn(P, x) = RankIn(P, x - 1) + 1
  <2>1. UpIn(P, x) = UpIn(P, x - 1) \cup {x} /\ x \notin UpIn(P, x - 1)
    <3>1. \A j \in P : j <= x <=> j <= x - 1 \/ j = x
      BY <1>5
    <3>2. ~ (x <= x - 1)
      BY <1>5
    <3>3. QED
      BY <1>7, <3>1, <3>2, Zenon DEF UpIn
  <2>2. IsFiniteSet(UpIn(P, x - 1))
    BY <1>1, <1>5
  <2>3. QED
    BY <2>1, <2>2, FS_AddElement DEF RankIn
<1>9. RankIn(P, x) = n
  <2>1. RankIn(P, x - 1) \in Nat
    BY <1>1, <1>5
  <2>2. QED
    BY <1>1, <1>5, <1>6, <1>8, <2>1
<1>10. QED
  BY <1>7, <1>9
=============================================================================
