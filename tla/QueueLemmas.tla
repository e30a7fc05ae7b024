---------------------------- MODULE QueueLemmas -----------------------------
(***************************************************************************)
(* Sequences as sorted queues: what insertion and removal at a position    *)
(* do, and where the sorted insertion of the ordering buffer (pof.c) and   *)
(* of the delay queue (delay.c) puts an element.                           *)
(***************************************************************************)
EXTENDS Integers, FiniteSets, Sequences, SequenceTheorems, FiniteSetTheorems,
        WellFoundedInduction, TLAPS

InsertAt(s, i, e) == SubSeq(s, 1, i - 1) \o <<e>> \o SubSeq(s, i, Len(s))
RemoveAt(s, i) == SubSeq(s, 1, i - 1) \o SubSeq(s, i + 1, Len(s))

\* InsertAt makes room for one element and keeps the others in their order.
LEMMA InsertAtFacts ==
    ASSUME NEW S, NEW s \in Seq(S), NEW i \in 1 .. Len(s) + 1, NEW e \in S
    PROVE  /\ InsertAt(s, i, e) \in Seq(S)
           /\ Len(InsertAt(s, i, e)) = Len(s) + 1
           /\ \A j \in 1 .. Len(s) + 1 :
                InsertAt(s, i, e)[j] = IF j < i THEN s[j] ELSE IF j = i THEN e ELSE s[j - 1]
<1> DEFINE a == SubSeq(s, 1, i - 1)
           b == SubSeq(s, i, Len(s))
           n == Len(s)
<1>1. n \in Nat /\ i \in Int /\ \A j \in 1 .. n : s[j] \in S
  BY LenProperties, ElementOfSeq
<1>2. /\ a \in Seq(S) /\ Len(a) = i - 1
      /\ \A j \in 1 .. i - 1 : a[j] = s[j]
  <2>1. \A j \in 1 .. i - 1 : s[j] \in S
    BY <1>1
  <2> QED  BY <1>1, <2>1, SubSeqProperties
<1>3. /\ b \in Seq(S) /\ Len(b) = n - i + 1
      /\ \A j \in 1 .. n - i + 1 : b[j] = s[i + j - 1]
  <2>1. \A j \in i .. n : s[j] \in S
    BY <1>1
  <2> QED  BY <1>1, <2>1, SubSeqProperties
<1>4. <<e>> \in Seq(S) /\ Len(<<e>>) = 1 /\ <<e>>[1] = e
  OBVIOUS
<1> DEFINE c == a \o <<e>>
<1>5. /\ c \in Seq(S) /\ Len(c) = i
      /\ \A j \in 1 .. i : c[j] = IF j < i THEN s[j] ELSE e
  <2>1. c \in Seq(S) /\ Len(c) = Len(a) + Len(<<e>>)
        /\ \A j \in 1 .. Len(a) + Len(<<e>>) : c[j] = IF j <= Len(a) THEN a[j] ELSE <<e>>[j - Len(a)]
    BY <1>2, <1>4, ConcatProperties
  <2>2. i \in 1 .. n + 1 /\ Len(a) + Len(<<e>>) = i
    BY <1>1, <1>2, <1>4
  <2> HIDE DEF a, c, n
  <2>3. ASSUME NEW j \in 1 .. i PROVE c[j] = IF j < i THEN s[j] ELSE e
    <3>1. CASE j < i
      BY <1>1, <1>2, <2>1, <2>2, <3>1
    <3>2. CASE j = i
      <4>1. j - Len(a) = 1 /\ ~ (j <= Len(a)) /\ ~ (j < i)
        BY <1>1, <1>2, <3>2
      <4> QED  BY <1>4, <2>1, <2>2, <4>1
    <3> QED  BY <1>1, <3>1, <3>2
  <2> QED  BY <2>1, <2>2, <2>3
<1>6. InsertAt(s, i, e) = c \o b
  BY DEF InsertAt
<1> HIDE DEF a, b, c
<1>7. /\ c \o b \in Seq(S) /\ Len(c \o b) = Len(c) + Len(b)
      /\ \A j \in 1 .. Len(c) + Len(b) : (c \o b)[j] = IF j <= Len(c) THEN c[j] ELSE b[j - Len(c)]
  BY <1>3, <1>5, ConcatProperties
<1> QED  BY <1>1, <1>3, <1>5, <1>6, <1>7

\* RemoveAt closes the gap of one element and keeps the others in their order.
LEMMA RemoveAtFacts ==
    ASSUME NEW S, NEW s \in Seq(S), NEW i \in 1 .. Len(s)
    PROVE  /\ RemoveAt(s, i) \in Seq(S)
           /\ Len(RemoveAt(s, i)) = Len(s) - 1
           /\ \A j \in 1 .. Len(s) - 1 :
                RemoveAt(s, i)[j] = IF j < i THEN s[j] ELSE s[j + 1]
<1> DEFINE a == SubSeq(s, 1, i - 1)
           b == SubSeq(s, i + 1, Len(s))
           n == Len(s)
<1>1. n \in Nat /\ i \in Int /\ \A j \in 1 .. n : s[j] \in S
  BY LenProperties, ElementOfSeq
<1>2. /\ a \in Seq(S) /\ Len(a) = i - 1
      /\ \A j \in 1 .. i - 1 : a[j] = s[j]
  <2>1. \A j \in 1 .. i - 1 : s[j] \in S
    BY <1>1
  <2> QED  BY <1>1, <2>1, SubSeqProperties
<1>3. /\ b \in Seq(S) /\ Len(b) = n - i
      /\ \A j \in 1 .. n - i : b[j] = s[i + j]
  <2>1. \A j \in i + 1 .. n : s[j] \in S
    BY <1>1
  <2> QED  BY <1>1, <2>1, SubSeqProperties
<1>4. /\ a \o b \in Seq(S) /\ Len(a \o b) = Len(a) + Len(b)
      /\ \A j \in 1 .. Len(a) + Len(b) : (a \o b)[j] = IF j <= Len(a) THEN a[j] ELSE b[j - Len(a)]
  BY <1>2, <1>3, ConcatProperties
<1>5. RemoveAt(s, i) = a \o b
  BY DEF RemoveAt
<1> DEFINE r == RemoveAt(s, i)
<1>6. i \in 1 .. n
  OBVIOUS
<1> HIDE DEF a, b, n, r
<1>7. Len(a) + Len(b) = n - 1
  BY <1>1, <1>2, <1>3
<1>8. r \in Seq(S) /\ Len(r) = n - 1
  BY <1>4, <1>5, <1>7 DEF r
<1>9. ASSUME NEW j \in 1 .. n - 1
      PROVE  r[j] = IF j < i THEN s[j] ELSE s[j + 1]
  <2>1. r[j] = IF j <= i - 1 THEN a[j] ELSE b[j - (i - 1)]
    BY <1>2, <1>4, <1>5, <1>7 DEF r
  <2>2. CASE j < i
    BY <1>1, <1>2, <2>1, <2>2
  <2>3. CASE j >= i
    <3>1. j - (i - 1) \in 1 .. n - i /\ i + (j - (i - 1)) = j + 1 /\ ~ (j < i) /\ ~ (j <= i - 1)
      BY <1>1, <1>6, <2>3
    <3> QED  BY <1>3, <2>1, <3>1
  <2> QED  BY <1>1, <2>2, <2>3
<1> QED  BY <1>8, <1>9 DEF n, r

\* A set of naturals that is not empty has a least element.
LEMMA LeastNatural ==
    ASSUME NEW T, T \subseteq Nat, T # {}
    PROVE  \E x \in T : \A y \in T : x <= y
<1>1. PICK x \in T : \A y \in T : ~ (<<y, x>> \in OpToRel(<, Nat))
  BY NatLessThanWellFounded, WFMin
<1>2. \A y \in T : <<y, x>> \in Nat \X Nat
  OBVIOUS
<1>3. \A y \in T : ~ (y < x)
  BY <1>1, <1>2 DEF OpToRel
<1> QED  BY <1>3

\* Where the search of a sorted insertion ends: behind the keys that are less,
\* before all the others.
LEMMA SortedPlace ==
    ASSUME NEW n \in Nat, NEW key \in [1 .. n -> Int], NEW x \in Int,
           \A i, j \in 1 .. n : i < j => key[i] <= key[j]
    PROVE  \E k \in 1 .. n + 1 :
              /\ Cardinality({i \in 1 .. n : \A j \in 1 .. i : key[j] < x}) + 1 = k
              /\ \A j \in 1 .. k - 1 : key[j] < x
              /\ \A j \in k .. n : x <= key[j]
<1> DEFINE less == {i \in 1 .. n : \A j \in 1 .. i : key[j] < x}
           T == {j \in 1 .. n : x <= key[j]}
<1>1. SUFFICES \E k \in 1 .. n + 1 :
                  /\ less = 1 .. k - 1
                  /\ \A j \in 1 .. k - 1 : key[j] < x
                  /\ \A j \in k .. n : x <= key[j]
  <2>1. PICK k \in 1 .. n + 1 :
                  /\ less = 1 .. k - 1
                  /\ \A j \in 1 .. k - 1 : key[j] < x
                  /\ \A j \in k .. n : x <= key[j]
    BY <1>1
  <2>2. k - 1 \in Int /\ 1 \in Int /\ k \in Nat /\ k >= 1
    OBVIOUS
  <2>3. Cardinality(1 .. k - 1) = k - 1
    BY <2>2, FS_Interval
  <2>4. Cardinality(less) + 1 = k
    <3> HIDE DEF less
    <3> QED  BY <2>1, <2>2, <2>3
  <2> QED  BY <2>1, <2>4
<1>2. CASE T = {}
  <2>1. \A j \in 1 .. n : key[j] < x
    BY <1>2
  <2>2. less = 1 .. n
    BY <2>1
  <2>3. n + 1 \in 1 .. n + 1 /\ (n + 1) - 1 = n /\ (n + 1) .. n = {}
    OBVIOUS
  <2> HIDE DEF less
  <2> QED  BY <2>1, <2>2, <2>3
<1>3. CASE T # {}
  <2>0. T \subseteq Nat
    OBVIOUS
  <2>1. PICK k \in T : \A y \in T : k <= y
    BY <1>3, <2>0, LeastNatural
  <2>2. k \in 1 .. n /\ x <= key[k]
    BY <2>1
  <2>3. \A j \in 1 .. k - 1 : key[j] < x
    BY <2>1, <2>2
  <2>4. \A j \in k .. n : x <= key[j]
    BY <2>2
  <2>5. less = 1 .. k - 1
    <3>1. ASSUME NEW i \in less PROVE i \in 1 .. k - 1
      BY <2>2
    <3>2. ASSUME NEW i \in 1 .. k - 1 PROVE i \in less
      BY <2>2, <2>3
    <3> QED  BY <3>1, <3>2
  <2>6. k \in 1 .. n + 1
    BY <2>2
  <2> HIDE DEF less
  <2> QED  BY <2>3, <2>4, <2>5, <2>6
<1> QED  BY <1>2, <1>3

=============================================================================
