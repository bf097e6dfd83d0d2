----------------------------- MODULE IndexLemmas -----------------------------
(***************************************************************************)
(* Lemmas about the searches and slices that the reorg buffer, and the     *)
(* caches with layers per block, are built from.                           *)
(***************************************************************************)
EXTENDS ReorgBuffer, SequenceTheorems, WellFoundedInduction, TLAPS

\* A search from the front returns an index of the sequence, the least one.
LEMMA FirstIndexFound ==
    ASSUME NEW S, NEW s \in Seq(S), NEW I
    PROVE  /\ FirstIndex(s, I) \in 0 .. Len(s)
           /\ FirstIndex(s, I) # 0 =>
                 /\ FirstIndex(s, I) \in I
                 /\ \A j \in 1 .. FirstIndex(s, I) - 1 : j \notin I
<1> DEFINE IsFirst(i) == i \in I /\ \A j \in 1 .. i - 1 : j \notin I
<1>1. CASE \E i \in DOMAIN s : IsFirst(i)
  <2>1. FirstIndex(s, I) = CHOOSE i \in DOMAIN s : IsFirst(i)
    BY <1>1 DEF FirstIndex
  <2>2. FirstIndex(s, I) \in DOMAIN s /\ IsFirst(FirstIndex(s, I))
    BY <1>1, <2>1
  <2> QED  BY <2>2
<1>2. CASE ~ \E i \in DOMAIN s : IsFirst(i)
  BY <1>2 DEF FirstIndex
<1> QED  BY <1>1, <1>2

\* A set of indices that is not empty has a greatest element.
LEMMA GreatestIndex ==
    ASSUME NEW n \in Nat, NEW I, I \subseteq 1 .. n, I # {}
    PROVE  \E i \in I : \A j \in i + 1 .. n : j \notin I
<1> DEFINE T == {n - i : i \in I}
<1>0. PICK m : m \in I  OBVIOUS
<1>1. T \subseteq Nat /\ T # {}
  <2>1. T \subseteq Nat  OBVIOUS
  <2>2. n - m \in T  BY <1>0
  <2> QED  BY <2>1, <2>2
<1>2. PICK x \in T : \A y \in T : ~(<<y, x>> \in OpToRel(<, Nat))
  <2> HIDE DEF T
  <2> QED  BY <1>1, NatLessThanWellFounded, WFMin, Zenon
<1>3. \A y \in T : ~(y < x)
  <2> HIDE DEF T
  <2> QED  BY <1>1, <1>2, Zenon DEF OpToRel
<1>4. PICK i \in I : x = n - i  OBVIOUS
<1>5. ASSUME NEW j \in i + 1 .. n, j \in I PROVE FALSE
  <2>1. n - j \in T  BY <1>5
  <2>2. ~(n - j < n - i)  BY <1>3, <1>4, <2>1, Zenon
  <2> QED  BY <2>2
<1> QED  BY <1>5

\* A search from the back returns the greatest index, and 0 when there is none.
LEMMA LastIndexFound ==
    ASSUME NEW S, NEW s \in Seq(S), NEW I
    PROVE  /\ LastIndex(s, I) \in 0 .. Len(s)
           /\ LastIndex(s, I) # 0 => LastIndex(s, I) \in I
           /\ \A j \in LastIndex(s, I) + 1 .. Len(s) : j \notin I
<1> DEFINE IsLast(i) == i \in I /\ \A j \in i + 1 .. Len(s) : j \notin I
<1>1. CASE \E i \in DOMAIN s : IsLast(i)
  <2>1. LastIndex(s, I) = CHOOSE i \in DOMAIN s : IsLast(i)
    BY <1>1, SMTT(30) DEF LastIndex
  <2>2. LastIndex(s, I) \in DOMAIN s /\ IsLast(LastIndex(s, I))
    BY <1>1, <2>1
  <2> QED  BY <2>2
<1>2. CASE ~ \E i \in DOMAIN s : IsLast(i)
  <2> DEFINE J == I \cap 1 .. Len(s)
  <2>1. Len(s) \in Nat /\ J \subseteq 1 .. Len(s)  OBVIOUS
  <2>2. ASSUME J # {} PROVE FALSE
    <3>1. \E i \in J : \A j \in i + 1 .. Len(s) : j \notin J
      <4> HIDE DEF J
      <4> QED  BY <2>1, <2>2, GreatestIndex, Zenon
    <3> QED  BY <1>2, <3>1
  <2>3. LastIndex(s, I) = 0  BY <1>2 DEF LastIndex
  <2> QED  BY <2>2, <2>3
<1> QED  BY <1>1, <1>2

\* The greatest index of a set is what the search from the back returns.
LEMMA LastIndexIs ==
    ASSUME NEW S, NEW s \in Seq(S), NEW I, NEW i \in 1 .. Len(s), i \in I,
           \A j \in i + 1 .. Len(s) : j \notin I
    PROVE  LastIndex(s, I) = i
<1>1. /\ LastIndex(s, I) \in 0 .. Len(s)
      /\ LastIndex(s, I) # 0 => LastIndex(s, I) \in I
      /\ \A j \in LastIndex(s, I) + 1 .. Len(s) : j \notin I
  BY LastIndexFound
<1>2. ~(i < LastIndex(s, I))  BY <1>1
<1>3. ~(LastIndex(s, I) < i)  BY <1>1
<1> QED  BY <1>1, <1>2, <1>3

\* A part of a sequence, element by element.
LEMMA SubSeqFacts ==
    ASSUME NEW S, NEW s \in Seq(S), NEW m \in Nat, NEW n \in Nat,
           m >= 1, m <= n + 1, n <= Len(s)
    PROVE  /\ SubSeq(s, m, n) \in Seq(S)
           /\ Len(SubSeq(s, m, n)) = n - m + 1
           /\ \A i \in 1 .. n - m + 1 : SubSeq(s, m, n)[i] = s[m + i - 1]
BY SubSeqProperties

\* The first m elements of a sequence, and what is left without them.
LEMMA PrefixFacts ==
    ASSUME NEW S, NEW s \in Seq(S), NEW m \in 0 .. Len(s)
    PROVE  /\ SubSeq(s, 1, m) \in Seq(S)
           /\ Len(SubSeq(s, 1, m)) = m
           /\ \A i \in 1 .. m : SubSeq(s, 1, m)[i] = s[i]
<1>1. m \in Nat /\ Len(s) \in Nat /\ m - 1 + 1 = m  OBVIOUS
<1>2. /\ SubSeq(s, 1, m) \in Seq(S)
      /\ Len(SubSeq(s, 1, m)) = m
      /\ \A i \in 1 .. m : SubSeq(s, 1, m)[i] = s[1 + i - 1]
  BY <1>1, SubSeqFacts
<1>3. \A i \in 1 .. m : 1 + i - 1 = i  OBVIOUS
<1> QED  BY <1>2, <1>3

\* What follows the first m elements of a sequence, element by element.
LEMMA SuffixFacts ==
    ASSUME NEW S, NEW s \in Seq(S), NEW m \in 0 .. Len(s)
    PROVE  /\ SubSeq(s, m + 1, Len(s)) \in Seq(S)
           /\ Len(SubSeq(s, m + 1, Len(s))) = Len(s) - m
           /\ \A i \in 1 .. Len(s) - m : SubSeq(s, m + 1, Len(s))[i] = s[m + i]
<1> DEFINE n == Len(s)
<1>1. n \in Nat /\ m \in Nat /\ m + 1 \in Nat /\ m + 1 >= 1 /\ m + 1 <= n + 1 /\ n <= Len(s)
      /\ n - (m + 1) + 1 = n - m
  OBVIOUS
<1>2. /\ SubSeq(s, m + 1, n) \in Seq(S)
      /\ Len(SubSeq(s, m + 1, n)) = n - m
      /\ \A i \in 1 .. n - m : SubSeq(s, m + 1, n)[i] = s[(m + 1) + i - 1]
  <2> HIDE DEF n
  <2> QED  BY <1>1, SubSeqFacts
<1>3. \A i \in 1 .. n - m : (m + 1) + i - 1 = m + i  BY <1>1
<1> QED  BY <1>2, <1>3

=============================================================================
