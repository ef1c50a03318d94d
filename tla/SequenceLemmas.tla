--------------------------- MODULE SequenceLemmas ---------------------------
(***************************************************************************)
(* Facts about numbers, sets and sequences that the proofs about several   *)
(* components rest on.                                                     *)
(***************************************************************************)
EXTENDS Integers, SequencesExt, FiniteSetsExt, SequenceTheorems, FiniteSetTheorems,
        FunctionTheorems, WellFoundedInduction, TLAPS

\* A set of natural numbers that is not empty has a least one.
LEMMA NatMin ==
  ASSUME NEW S \in SUBSET Nat, S # {}
  PROVE  \E m \in S : \A x \in S : m <= x
<1> DEFINE R == {ss \in Nat \X Nat : ss[1] < ss[2]}
<1>1. IsWellFoundedOn(R, Nat)
    BY NatLessThanWellFounded DEF OpToRel
<1> HIDE DEF R
<1>2. PICK m \in S : \A y \in S : ~ (<<y, m>> \in R)
    BY <1>1, WFMin
<1>3. ASSUME NEW x \in S, x < m PROVE FALSE
  <2>1. <<x, m>> \in R
      BY <1>3 DEF R
  <2> QED
      BY <1>2, <2>1
<1> QED
    BY <1>2, <1>3

LEMMA MinIsLeast ==
  ASSUME NEW S \in SUBSET Nat, S # {}
  PROVE  Min(S) \in S /\ \A x \in S : Min(S) <= x
<1>1. \E m \in S : \A x \in S : m <= x
    BY NatMin
<1> QED
    BY <1>1 DEF Min

\* One that ends somewhere has a greatest one.
LEMMA MaxIsGreatest ==
  ASSUME NEW n \in Nat, NEW S \in SUBSET (0 .. n), S # {}
  PROVE  Max(S) \in S /\ \A x \in S : x <= Max(S)
<1> DEFINE D == {d \in Nat : n - d \in S}
<1>1. \E x \in S : x \in 0 .. n
    OBVIOUS
<1>2. D \in SUBSET Nat /\ D # {}
  <2>1. PICK x \in S : x \in 0 .. n
      BY <1>1
  <2>2. n - x \in Nat /\ n - (n - x) = x
      BY <2>1
  <2> QED
      BY <2>1, <2>2
<1>3. PICK d \in D : \A e \in D : d <= e
    BY <1>2, NatMin
<1>4. n - d \in S /\ d \in Nat
    BY <1>3
<1>5. \A x \in S : x <= n - d
  <2> SUFFICES ASSUME NEW x \in S PROVE x <= n - d
      OBVIOUS
  <2>1. x \in 0 .. n /\ n - x \in Nat /\ n - (n - x) = x
      OBVIOUS
  <2>2. n - x \in D
      BY <2>1
  <2> QED
      BY <1>3, <1>4, <2>1, <2>2
<1> HIDE DEF D
<1>6. \E m \in S : \A x \in S : m >= x
  <2>1. \A x \in S : x \in Nat
      OBVIOUS
  <2> QED
      BY <1>4, <1>5, <2>1
<1>7. Max(S) \in S /\ \A x \in S : Max(S) >= x
    BY <1>6 DEF Max
<1>8. \A x \in S : x \in Nat
    OBVIOUS
<1> QED
    BY <1>7, <1>8

\* A finite set of numbers can be counted off in their order.
LEMMA RankExists ==
  ASSUME NEW S \in SUBSET Nat, IsFiniteSet(S), NEW k \in Nat, k < Cardinality(S)
  PROVE  \E i \in S : Cardinality({j \in S : j < i}) = k
<1> DEFINE Below(i) == {j \in S : j < i}
           Bad == {n \in Nat : n < Cardinality(S) /\ ~ \E i \in S : Cardinality(Below(i)) = n}
<1>1. SUFFICES ASSUME Bad # {} PROVE FALSE
    OBVIOUS
<1>2. PICK n \in Bad : \A m \in Bad : n <= m
    BY <1>1, NatMin
<1>3. Cardinality(S) \in Nat /\ n \in Nat /\ n < Cardinality(S)
    BY FS_CardinalityType, <1>2
<1>4. CASE n = 0
  <2>1. S # {}
      BY <1>3, <1>4, FS_EmptySet
  <2>2. PICK m \in S : \A x \in S : m <= x
      BY <2>1, NatMin
  <2>3. Below(m) = {}
    <3>1. m \in Nat /\ \A x \in S : x \in Nat /\ m <= x
        BY <2>2
    <3>2. \A x \in S : ~ (x < m)
        BY <3>1
    <3> QED
        BY <3>2
  <2>4. Cardinality(Below(m)) = 0
      BY <2>3, FS_EmptySet
  <2> QED
      BY <1>2, <1>4, <2>4
<1>5. CASE n # 0
  <2>1. n - 1 \in Nat /\ n - 1 < n /\ n - 1 \notin Bad
      BY <1>2, <1>3, <1>5
  <2>2. PICK p \in S : Cardinality(Below(p)) = n - 1
      BY <2>1, <1>3
  <2>3. Below(p) \cup {p} \in SUBSET S /\ p \notin Below(p) /\ IsFiniteSet(Below(p))
    <3>1. Below(p) \in SUBSET S
        OBVIOUS
    <3> QED
        BY <3>1, FS_Subset
  <2>4. Cardinality(Below(p) \cup {p}) = n
    <3> HIDE DEF Below
    <3>1. Cardinality(Below(p) \cup {p}) = Cardinality(Below(p)) + 1
        BY <2>3, FS_AddElement
    <3> QED
        BY <3>1, <2>2, <1>3
  <2>5. S # Below(p) \cup {p}
      BY <2>4, <1>3
  <2>6. {x \in S : p < x} # {}
    <3>1. PICK x \in S : x \notin Below(p) /\ x # p
        BY <2>3, <2>5
    <3>2. x \in Nat /\ p \in Nat /\ ~ (x < p)
        BY <3>1
    <3> QED
        BY <3>1, <3>2
  <2>7. PICK m \in {x \in S : p < x} : \A y \in {x \in S : p < x} : m <= y
      BY <2>6, NatMin
  <2>8. Below(m) = Below(p) \cup {p}
    <3>1. m \in Nat /\ p \in Nat /\ p < m
        BY <2>7
    <3>2. \A x \in S : x < m <=> x < p \/ x = p
        BY <2>7, <3>1
    <3> QED
        BY <3>2
  <2> QED
      BY <1>2, <2>4, <2>7, <2>8
<1> QED
    BY <1>4, <1>5

\* A sequence without its last element.
LEMMA FrontProperties ==
  ASSUME NEW T, NEW s \in Seq(T), s # <<>>
  PROVE  /\ Front(s) \in Seq(T) /\ Len(Front(s)) = Len(s) - 1
         /\ \A i \in 1 .. Len(s) - 1 : Front(s)[i] = s[i]
         /\ Last(s) = s[Len(s)] /\ Last(s) \in T
<1> DEFINE n == Len(s) - 1
<1>1. Front(s) = SubSeq(s, 1, n) /\ Last(s) = s[Len(s)] /\ s[Len(s)] \in T
    BY DEF Front, Last
<1>2. n \in Nat /\ \A i \in 1 .. n : s[i] \in T
    OBVIOUS
<1> HIDE DEF n
<1>3. /\ SubSeq(s, 1, n) \in Seq(T) /\ Len(SubSeq(s, 1, n)) = IF 1 <= n THEN n - 1 + 1 ELSE 0
      /\ \A i \in 1 .. n - 1 + 1 : SubSeq(s, 1, n)[i] = s[1 + i - 1]
    BY <1>2, SubSeqProperties
<1>4. Len(SubSeq(s, 1, n)) = n /\ \A i \in 1 .. n : SubSeq(s, 1, n)[i] = s[i]
    BY <1>2, <1>3
<1> QED
    BY <1>1, <1>3, <1>4 DEF n

\* A sequence without one of its elements.
LEMMA RemoveAtProperties ==
  ASSUME NEW T, NEW s \in Seq(T), NEW i \in 1 .. Len(s)
  PROVE  /\ RemoveAt(s, i) \in Seq(T)
         /\ Len(RemoveAt(s, i)) = Len(s) - 1
         /\ \A k \in 1 .. Len(s) - 1 : RemoveAt(s, i)[k] = IF k < i THEN s[k] ELSE s[k + 1]
<1> DEFINE a == SubSeq(s, 1, i - 1)
           b == SubSeq(s, i + 1, Len(s))
<1>1. Len(s) \in Nat /\ i \in Nat /\ i >= 1 /\ i <= Len(s)
    OBVIOUS
<1>2. /\ a \in Seq(T) /\ Len(a) = i - 1
      /\ \A k \in 1 .. i - 1 : a[k] = s[k]
    OBVIOUS
<1>3. /\ b \in Seq(T) /\ Len(b) = Len(s) - i
      /\ \A k \in 1 .. Len(s) - i : b[k] = s[i + k]
    OBVIOUS
<1>4. RemoveAt(s, i) = a \o b
    BY DEF RemoveAt
<1> HIDE DEF a, b
<1>5. /\ a \o b \in Seq(T)
      /\ Len(a \o b) = Len(a) + Len(b)
      /\ \A k \in 1 .. Len(a) + Len(b) : (a \o b)[k] = IF k <= Len(a) THEN a[k] ELSE b[k - Len(a)]
    BY <1>2, <1>3, ConcatProperties
<1>6. ASSUME NEW k \in 1 .. Len(s) - 1
      PROVE  (a \o b)[k] = IF k < i THEN s[k] ELSE s[k + 1]
  <2>1. k \in 1 .. Len(a) + Len(b) /\ k \in Nat
      BY <1>1, <1>2, <1>3
  <2>2. CASE k < i
      BY <2>1, <2>2, <1>1, <1>2, <1>5
  <2>3. CASE ~ (k < i)
    <3>1. k - (i - 1) \in 1 .. Len(s) - i /\ i + (k - (i - 1)) = k + 1 /\ ~(k <= i - 1)
        BY <1>1, <2>1, <2>3
    <3> QED
        BY <3>1, <2>1, <2>3, <1>2, <1>3, <1>5
  <2> QED
      BY <2>2, <2>3
<1> QED
    BY <1>1, <1>2, <1>3, <1>4, <1>5, <1>6
-----------------------------------------------------------------------------
\* The places at which a sequence has an element.
Occurrences(s, x) == {i \in DOMAIN s : s[i] = x}

LEMMA OccurrencesFinite ==
  ASSUME NEW T, NEW s \in Seq(T), NEW x
  PROVE  IsFiniteSet(Occurrences(s, x)) /\ Cardinality(Occurrences(s, x)) \in Nat
<1>1. Occurrences(s, x) \in SUBSET (1 .. Len(s)) /\ Len(s) \in Nat
    BY DEF Occurrences
<1>2. IsFiniteSet(1 .. Len(s))
    BY <1>1, FS_Interval
<1>3. IsFiniteSet(Occurrences(s, x))
    BY <1>1, <1>2, FS_Subset
<1> QED
    BY <1>3, FS_CardinalityType

\* Appending an element adds one of its places and none of another's.
LEMMA OccurrencesAppend ==
  ASSUME NEW T, NEW s \in Seq(T), NEW y \in T, NEW x
  PROVE  Cardinality(Occurrences(Append(s, y), x)) =
           Cardinality(Occurrences(s, x)) + (IF x = y THEN 1 ELSE 0)
<1>1. IsFiniteSet(Occurrences(s, x)) /\ Cardinality(Occurrences(s, x)) \in Nat
    BY OccurrencesFinite
<1>2. CASE x = y
  <2>1. Occurrences(Append(s, y), x) = Occurrences(s, x) \cup {Len(s) + 1}
      BY <1>2 DEF Occurrences
  <2>2. Len(s) + 1 \notin Occurrences(s, x)
      BY DEF Occurrences
  <2> QED
      BY <1>1, <1>2, <2>1, <2>2, FS_AddElement
<1>3. CASE x # y
  <2>1. Occurrences(Append(s, y), x) = Occurrences(s, x)
      BY <1>3 DEF Occurrences
  <2> QED
      BY <1>1, <1>3, <2>1
<1> QED
    BY <1>2, <1>3

\* Taking out one element takes one of its places and moves the others.
LEMMA OccurrencesRemoveAt ==
  ASSUME NEW T, NEW s \in Seq(T), NEW k \in 1 .. Len(s), NEW x
  PROVE  Cardinality(Occurrences(RemoveAt(s, k), x)) =
           Cardinality(Occurrences(s, x)) - (IF x = s[k] THEN 1 ELSE 0)
<1> DEFINE r == RemoveAt(s, k)
           S == Occurrences(s, x) \ {k}
           R == Occurrences(r, x)
           f == [i \in S |-> IF i < k THEN i ELSE i - 1]
<1>1. /\ r \in Seq(T) /\ Len(r) = Len(s) - 1 /\ Len(s) \in Nat /\ DOMAIN r = 1 .. Len(s) - 1
      /\ \A j \in 1 .. Len(s) - 1 : r[j] = IF j < k THEN s[j] ELSE s[j + 1]
    BY RemoveAtProperties
<1>2. IsFiniteSet(Occurrences(s, x)) /\ Cardinality(Occurrences(s, x)) \in Nat
    BY OccurrencesFinite
<1>3. /\ IsFiniteSet(S)
      /\ Cardinality(S) = Cardinality(Occurrences(s, x)) - (IF x = s[k] THEN 1 ELSE 0)
  <2>1. k \in Occurrences(s, x) <=> x = s[k]
      BY DEF Occurrences
  <2> QED
      BY <1>2, <2>1, FS_RemoveElement
<1> HIDE DEF r
<1>4. \A i \in S : i \in 1 .. Len(s) /\ i # k /\ s[i] = x
    BY DEF Occurrences
<1>5. f \in [S -> R]
  <2> SUFFICES ASSUME NEW i \in S PROVE f[i] \in R
      OBVIOUS
  <2>1. f[i] = IF i < k THEN i ELSE i - 1
      OBVIOUS
  <2>2. f[i] \in 1 .. Len(s) - 1
      BY <1>1, <1>4, <2>1
  <2>3. r[f[i]] = x
      BY <1>1, <1>4, <2>1, <2>2
  <2> QED
      BY <1>1, <2>2, <2>3 DEF Occurrences
<1>6. \A a, b \in S : f[a] = f[b] => a = b
    BY <1>1, <1>4
<1>7. ASSUME NEW j \in R PROVE \E i \in S : f[i] = j
  <2>1. j \in 1 .. Len(s) - 1 /\ r[j] = x
      BY <1>1 DEF Occurrences
  <2>2. CASE j < k
    <3>1. j \in S
        BY <1>1, <2>1, <2>2 DEF Occurrences
    <3> QED
        BY <3>1, <2>2
  <2>3. CASE ~ (j < k)
    <3>1. j + 1 \in S /\ ~ (j + 1 < k)
        BY <1>1, <2>1, <2>3 DEF Occurrences
    <3> QED
        BY <3>1, <2>1
  <2> QED
      BY <2>2, <2>3
<1> HIDE DEF f, S, R
<1>8. ExistsBijection(S, R)
    BY <1>5, <1>6, <1>7, Fun_IsBij DEF ExistsBijection
<1>9. Cardinality(R) = Cardinality(S)
    BY <1>3, <1>8, FS_Bijection
<1> QED
    BY <1>3, <1>9 DEF R, r

\* Sequence t is s with one element more, e at place i.
IsInsert(t, s, i, e) ==
  /\ Len(t) = Len(s) + 1
  /\ \A k \in 1 .. Len(s) + 1 : /\ k < i => t[k] = s[k]
                                /\ k = i => t[k] = e
                                /\ k > i => t[k] = s[k - 1]

LEMMA InsertAtIs ==
  ASSUME NEW T, NEW s \in Seq(T), NEW i \in 1 .. Len(s) + 1, NEW e \in T, NEW t, t = InsertAt(s, i, e)
  PROVE  t \in Seq(T) /\ IsInsert(t, s, i, e)
<1> DEFINE a == SubSeq(s, 1, i - 1)
           b == SubSeq(s, i, Len(s))
           c == a \o <<e>>
<1>1. Len(s) \in Nat /\ i \in Nat /\ i >= 1 /\ i <= Len(s) + 1
    OBVIOUS
<1>2. /\ a \in Seq(T) /\ Len(a) = i - 1
      /\ \A k \in 1 .. i - 1 : a[k] = s[k]
  <2>1. 1 \in Int /\ i - 1 \in Int /\ \A k \in 1 .. i - 1 : s[k] \in T
      BY <1>1
  <2>2. /\ a \in Seq(T)
        /\ Len(a) = IF 1 <= i - 1 THEN (i - 1) - 1 + 1 ELSE 0
        /\ \A k \in 1 .. (i - 1) - 1 + 1 : a[k] = s[1 + k - 1]
      BY <2>1, SubSeqProperties
  <2> HIDE DEF a
  <2> QED
      BY <1>1, <2>2
<1>3. /\ b \in Seq(T) /\ Len(b) = Len(s) - i + 1
      /\ \A k \in 1 .. Len(s) - i + 1 : b[k] = s[i + k - 1]
  <2>1. Len(s) \in Int /\ i \in Int /\ \A k \in i .. Len(s) : s[k] \in T
      BY <1>1
  <2>2. /\ b \in Seq(T)
        /\ Len(b) = IF i <= Len(s) THEN Len(s) - i + 1 ELSE 0
        /\ \A k \in 1 .. Len(s) - i + 1 : b[k] = s[i + k - 1]
      BY <2>1, SubSeqProperties
  <2> HIDE DEF b
  <2> QED
      BY <1>1, <2>2
<1>4. InsertAt(s, i, e) = c \o b
    BY DEF InsertAt
<1> HIDE DEF a, b
<1>5. <<e>> \in Seq(T) /\ Len(<<e>>) = 1 /\ <<e>>[1] = e
    OBVIOUS
<1>6. /\ c \in Seq(T)
      /\ Len(c) = Len(a) + 1
      /\ \A k \in 1 .. Len(a) + 1 : c[k] = IF k <= Len(a) THEN a[k] ELSE <<e>>[k - Len(a)]
    BY <1>2, <1>5, ConcatProperties
<1> HIDE DEF c
<1>7. Len(c) = i /\ \A k \in 1 .. i : c[k] = IF k < i THEN s[k] ELSE e
  <2>1. Len(c) = i
      BY <1>1, <1>2, <1>6
  <2>2. ASSUME NEW k \in 1 .. i PROVE c[k] = IF k < i THEN s[k] ELSE e
    <3>1. CASE k < i
        BY <1>1, <1>2, <1>6, <3>1
    <3>2. CASE k = i
      <4>1. k - Len(a) = 1 /\ ~(k <= Len(a)) /\ k \in 1 .. Len(a) + 1
          BY <1>1, <1>2, <3>2
      <4> QED
          BY <1>5, <1>6, <3>2, <4>1
    <3> QED
        BY <1>1, <3>1, <3>2
  <2> QED
      BY <2>1, <2>2
<1>8. /\ c \o b \in Seq(T)
      /\ Len(c \o b) = Len(c) + Len(b)
      /\ \A k \in 1 .. Len(c) + Len(b) : (c \o b)[k] = IF k <= Len(c) THEN c[k] ELSE b[k - Len(c)]
    BY <1>3, <1>6, ConcatProperties
<1>9. ASSUME NEW k \in 1 .. Len(s) + 1
      PROVE  (c \o b)[k] = IF k < i THEN s[k] ELSE IF k = i THEN e ELSE s[k - 1]
  <2>1. k \in 1 .. Len(c) + Len(b) /\ k \in Nat
      BY <1>1, <1>3, <1>7
  <2>2. CASE k <= i
      BY <1>1, <1>7, <1>8, <2>1, <2>2
  <2>3. CASE ~ (k <= i)
    <3>1. k - i \in 1 .. Len(s) - i + 1 /\ i + (k - i) - 1 = k - 1 /\ ~(k < i) /\ k # i
        BY <1>1, <2>1, <2>3
    <3>2. (c \o b)[k] = b[k - i]
        BY <1>7, <1>8, <2>1, <2>3
    <3> QED
        BY <1>3, <3>1, <3>2
  <2> QED
      BY <2>2, <2>3
<1>10. t = c \o b
    BY <1>4
<1>11. t \in Seq(T) /\ Len(t) = Len(s) + 1
    BY <1>1, <1>3, <1>7, <1>8, <1>10
<1>12. ASSUME NEW k \in 1 .. Len(s) + 1
       PROVE  (k < i => t[k] = s[k]) /\ (k = i => t[k] = e) /\ (k > i => t[k] = s[k - 1])
  <2>1. t[k] = IF k < i THEN s[k] ELSE IF k = i THEN e ELSE s[k - 1]
      BY <1>9, <1>10
  <2>2. k \in Int /\ i \in Int
      BY <1>1
  <2> QED
      BY <2>1, <2>2
<1> QED
    BY <1>11, <1>12 DEF IsInsert

\* A new element in front.
LEMMA InFrontProperties ==
  ASSUME NEW T, NEW s \in Seq(T), NEW e \in T
  PROVE  /\ <<e>> \o s \in Seq(T)
         /\ Len(<<e>> \o s) = Len(s) + 1
         /\ \A k \in 1 .. Len(s) + 1 : (<<e>> \o s)[k] = IF k = 1 THEN e ELSE s[k - 1]
<1> DEFINE c == <<e>> \o s
<1>1. <<e>> \in Seq(T) /\ Len(<<e>>) = 1 /\ <<e>>[1] = e /\ Len(s) \in Nat
    OBVIOUS
<1>2. /\ c \in Seq(T) /\ Len(c) = 1 + Len(s)
      /\ \A k \in 1 .. 1 + Len(s) : c[k] = IF k <= 1 THEN <<e>>[k] ELSE s[k - 1]
    BY <1>1, ConcatProperties
<1> HIDE DEF c
<1>3. \A k \in 1 .. Len(s) + 1 : c[k] = IF k = 1 THEN e ELSE s[k - 1]
    BY <1>1, <1>2
<1> QED
    BY <1>1, <1>2, <1>3 DEF c
=============================================================================
