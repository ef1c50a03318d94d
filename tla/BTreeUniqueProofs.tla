--------------------------- MODULE BTreeUniqueProofs ---------------------------
(***************************************************************************)
(* The B-tree of clients that add no key twice (AllowDups = FALSE), for    *)
(* every page size and every sequence of calls: the keys are in order at   *)
(* every level, a lookup between two calls finds each key the tree holds,  *)
(* no page is lost, and the tree is the index that btree.h describes.      *)
(*                                                                         *)
(* Ordered compares a separator with all keys below a child, which an      *)
(* induction over steps cannot use: a step writes one page.  The invariant *)
(* OInv gives every page of the tree an interval, lo to before hi, in a    *)
(* record b no variable has.  A page's keys go up within its interval; the *)
(* live children of a branch have the gaps between its keys as theirs;     *)
(* pages of one level have intervals apart.  While btree_add waits for a   *)
(* deeper call, the key it adds lies in the interval of the page it        *)
(* descended to; on the way up the pages handed back share the interval of *)
(* the page they replace, cut at the separator.  Each step's lemma gives   *)
(* the b of the next state; that the intervals nest is used only at the    *)
(* end, on a tree no call is in.                                           *)
(*                                                                         *)
(* The invariant PInv is the tally of pages and pairs: each page in use is *)
(* one of the tree's, each page of the tree has a branch above it but for  *)
(* the root and what is being handed up, and the leaves' pairs are         *)
(* clients'.  It keeps every page within reach, and with the order of the  *)
(* keys it gives the pairs that the tree stands for at every step.         *)
(*                                                                         *)
(* With duplicates a key carries the overflow bit, the code does not keep  *)
(* raw keys in order (the run btree_dups), and btree_destroy gives no      *)
(* overflow page back.                                                     *)
(***************************************************************************)
EXTENDS BTreeProofs

(* Keys in order. *)

\* The keys of a page go up, and lie in the interval from lo to before hi.
Increasing(keys, lo, hi) ==
  /\ \A i \in 1 .. Len(keys) : lo <= keys[i] /\ keys[i] < hi
  /\ \A i, j \in 1 .. Len(keys) : i < j => keys[i] < keys[j]

\* So do the n numbers w.
Rising(w, n, lo, hi) ==
  /\ \A i \in 1 .. n : w[i] \in Nat /\ lo <= w[i] /\ w[i] < hi
  /\ \A i, j \in 1 .. n : i < j => w[i] < w[j]

\* A key put where it belongs among others.
LEMMA WidenedRises ==
  ASSUME NEW keys \in Seq(Nat), NEW lo \in Nat, NEW hi \in Nat, Increasing(keys, lo, hi),
         NEW i \in 1 .. Len(keys) + 1, NEW key \in Nat, lo <= key, key < hi,
         \A j \in 1 .. Len(keys) : j < i => keys[j] < key,
         \A j \in 1 .. Len(keys) : i <= j => key < keys[j],
         NEW n, n = Len(keys) + 1, NEW w, w = [j \in 1 .. n |-> WideItem(keys, i, key, j)]
  PROVE  Rising(w, n, lo, hi)
<1>1. PICK m : m = Len(keys)
    OBVIOUS
<1>2. m \in Nat /\ n = m + 1 /\ n \in Nat /\ i \in 1 .. n /\ DOMAIN keys = 1 .. m
    BY <1>1
<1>3. \A j \in 1 .. m : keys[j] \in Nat /\ lo <= keys[j] /\ keys[j] < hi
    BY <1>1 DEF Increasing
<1>4. \A j, k \in 1 .. m : j < k => keys[j] < keys[k]
    BY <1>1 DEF Increasing
<1>5. ASSUME NEW j \in 1 .. n, j < i PROVE w[j] = keys[j] /\ j \in 1 .. m
    BY <1>2, <1>5 DEF WideItem
<1>6. w[i] = key
  <2>1. ~(i < i)
      BY <1>2
  <2> QED
      BY <1>2, <2>1 DEF WideItem
<1>7. ASSUME NEW j \in 1 .. n, i < j PROVE w[j] = keys[j - 1] /\ j - 1 \in 1 .. m /\ i <= j - 1
  <2>1. ~(j < i) /\ j # i
      BY <1>2, <1>7
  <2>2. w[j] = keys[j - 1]
      BY <2>1, Zenon DEF WideItem
  <2> QED
      BY <1>2, <1>7, <2>2
<1>8. \A j \in 1 .. n : j < i \/ j = i \/ i < j
    BY <1>2
<1>9. ASSUME NEW j \in 1 .. n PROVE w[j] \in Nat /\ lo <= w[j] /\ w[j] < hi
    BY <1>3, <1>5, <1>6, <1>7, <1>8
<1>10. ASSUME NEW j \in 1 .. n, NEW k \in 1 .. n, j < k PROVE w[j] < w[k]
  <2>1. CASE k < i
    <3>1. j < i
        BY <1>2, <1>10, <2>1
    <3> QED
        BY <1>4, <1>5, <1>10, <2>1, <3>1
  <2>2. CASE k = i
    <3>1. w[j] = keys[j] /\ j \in 1 .. m /\ j < i
        BY <1>5, <1>10, <2>2
    <3> QED
        BY <1>1, <1>6, <2>2, <3>1
  <2>3. CASE i < k
    <3>1. PICK b : b = k - 1
        OBVIOUS
    <3>2. w[k] = keys[b] /\ b \in 1 .. m /\ i <= b
        BY <1>7, <2>3, <3>1
    <3>3. CASE j < i
      <4>1. w[j] = keys[j] /\ j \in 1 .. m
          BY <1>5, <3>3
      <4>2. j < b
          BY <1>2, <3>2, <3>3
      <4> QED
          BY <1>4, <3>2, <4>1, <4>2
    <3>4. CASE j = i
        BY <1>1, <1>6, <3>2, <3>4
    <3>5. CASE i < j
      <4>1. PICK a : a = j - 1
          OBVIOUS
      <4>2. w[j] = keys[a] /\ a \in 1 .. m
          BY <1>7, <3>5, <4>1
      <4>3. a < b
          BY <1>10, <3>1, <4>1
      <4> QED
          BY <1>4, <3>2, <4>2, <4>3
    <3> QED
        BY <1>8, <3>3, <3>4, <3>5
  <2> QED
      BY <1>8, <2>1, <2>2, <2>3
<1> QED
    BY <1>9, <1>10 DEF Rising

\* A bound of those of the numbers that stand behind the first c, and one of the first d.
Starts(w, m, lo, c, a) == a = lo \/ \E e \in 1 .. m : a = w[e] /\ e <= c + 1
Stops(w, m, hi, d, b) == b = hi \/ \E f \in 1 .. m : b = w[f] /\ d < f

\* The keys of a page that has n of these numbers, those behind the first c, go up too,
\* between such bounds.
LEMMA PartRises ==
  ASSUME NEW w, NEW m \in Nat, NEW lo \in Nat, NEW hi \in Nat, Rising(w, m, lo, hi),
         NEW c \in Nat, NEW n \in Nat, NEW d, d = c + n, d <= m,
         NEW s \in Seq(Nat), IsPart(s, w, c, n),
         NEW a, Starts(w, m, lo, c, a), NEW b, Stops(w, m, hi, d, b)
  PROVE  Increasing(s, a, b)
<1>7. Len(s) = n /\ \A j \in 1 .. n : s[j] = w[c + j]
    BY DEF IsPart
<1>8. c + n <= m /\ (a = lo \/ \E e \in 1 .. m : a = w[e] /\ e <= c + 1)
    BY DEF Starts
<1>9. b = hi \/ \E f \in 1 .. m : b = w[f] /\ c + n < f
    BY DEF Stops
<1>1. \A j \in 1 .. n : c + j \in 1 .. m
    BY <1>8
<1>2. \A i \in 1 .. m : w[i] \in Nat /\ lo <= w[i] /\ w[i] < hi
    BY DEF Rising
<1>3. \A i, j \in 1 .. m : i < j => w[i] < w[j]
    BY DEF Rising
<1>4. ASSUME NEW j \in 1 .. n PROVE a <= s[j]
  <2>1. CASE a = lo
      BY <1>1, <1>2, <1>7, <2>1
  <2>2. ASSUME NEW e \in 1 .. m, a = w[e], e <= c + 1 PROVE a <= s[j]
    <3>1. e = c + j \/ e < c + j
        BY <2>2
    <3>2. PICK k : k = c + j
        OBVIOUS
    <3>3. k \in 1 .. m /\ s[j] = w[k] /\ (e = k \/ e < k)
        BY <1>1, <1>7, <3>1, <3>2
    <3> QED
      <4>1. w[e] \in Nat /\ w[k] \in Nat /\ (w[e] = w[k] \/ w[e] < w[k])
          BY <1>2, <1>3, <3>3
      <4>2. w[e] <= w[k]
          BY <4>1
      <4> QED
          BY <2>2, <3>3, <4>2
  <2> QED
      BY <1>8, <2>1, <2>2
<1>5. ASSUME NEW j \in 1 .. n PROVE s[j] < b
  <2>1. CASE b = hi
      BY <1>1, <1>2, <1>7, <2>1
  <2>2. ASSUME NEW f \in 1 .. m, b = w[f], c + n < f PROVE s[j] < b
    <3>1. c + j < f
        BY <2>2
    <3> QED
        BY <1>1, <1>3, <1>7, <2>2, <3>1
  <2> QED
      BY <1>9, <2>1, <2>2
<1>6. ASSUME NEW i \in 1 .. n, NEW j \in 1 .. n, i < j PROVE s[i] < s[j]
  <2>1. c + i < c + j
      BY <1>6
  <2> QED
      BY <1>1, <1>3, <1>7, <2>1
<1> QED
    BY <1>4, <1>5, <1>6, <1>7 DEF Increasing

\* What lies below child i of a branch: between the keys next to it, or the ends of
\* the branch's own interval.
GapLow(keys, i, lo) == IF i = 1 THEN lo ELSE keys[i - 1]
GapHigh(keys, i, hi) == IF i = Len(keys) + 1 THEN hi ELSE keys[i]

\* What a call gives its caller covers the interval from lo to before hi; b has the
\* interval of each page.
Handed(b, u, lo, hi) ==
  IF u.split = 0 THEN b.lo[u.orig] = lo /\ b.hi[u.orig] = hi
  ELSE /\ b.lo[u.orig] = lo /\ b.hi[u.orig] = u.mid
       /\ b.lo[u.split] = u.mid /\ b.hi[u.split] = hi
       /\ lo < u.mid /\ u.mid < hi

\* The keys of a branch with a separator put between the two pages handed up.
LEMMA WideKeysRise ==
  ASSUME NEW keys \in Seq(Nat), NEW lo \in Nat, NEW hi \in Nat, Increasing(keys, lo, hi),
         NEW i \in 1 .. Len(keys) + 1, NEW u, u.mid \in Nat,
         u.split # 0 => GapLow(keys, i, lo) < u.mid /\ u.mid < GapHigh(keys, i, hi),
         NEW n, n = Len(keys) + Extra(u), NEW w, w = [j \in 1 .. n |-> WideKey(keys, i, u, j)]
  PROVE  Rising(w, n, lo, hi)
<1>1. PICK m : m = Len(keys)
    OBVIOUS
<1>2. m \in Nat /\ i \in 1 .. m + 1 /\ i \in Nat
    BY <1>1
<1>3. \A j \in 1 .. m : keys[j] \in Nat /\ lo <= keys[j] /\ keys[j] < hi
    BY <1>1 DEF Increasing
<1>6. \A j, k \in 1 .. m : j < k => keys[j] < keys[k]
    BY <1>1 DEF Increasing
<1>4. CASE u.split = 0
  <2>1. n = m
      BY <1>1, <1>2, <1>4 DEF Extra
  <2>2. \A j \in 1 .. n : w[j] = keys[j]
      BY <1>4 DEF WideKey
  <2> QED
      BY <1>3, <1>6, <2>1, <2>2 DEF Rising
<1>5. CASE u.split # 0
  <2>1. PICK mid : mid = u.mid
      OBVIOUS
  <2>2. n = m + 1 /\ mid \in Nat
      BY <1>1, <1>2, <1>5, <2>1 DEF Extra
  <2>3. w = [j \in 1 .. n |-> WideItem(keys, i, mid, j)]
      BY <1>5, <2>1, Zenon DEF WideKey, WideItem
  <2>4. i # 1 => keys[i - 1] < mid
      BY <1>5, <2>1 DEF GapLow
  <2>5. i = 1 => lo < mid
      BY <1>5, <2>1 DEF GapLow
  <2>6. i # m + 1 => mid < keys[i]
      BY <1>1, <1>5, <2>1 DEF GapHigh
  <2>7. i = m + 1 => mid < hi
      BY <1>1, <1>5, <2>1 DEF GapHigh
  <2>8. ASSUME NEW j \in 1 .. m, j < i PROVE keys[j] < mid
    <3>1. PICK k : k = i - 1
        OBVIOUS
    <3>2. k \in 1 .. m /\ keys[k] < mid /\ (j = k \/ j < k)
        BY <1>2, <2>4, <2>8, <3>1
    <3>3. CASE j = k
        BY <3>2, <3>3
    <3>4. CASE j < k
      <4>1. keys[j] < keys[k] /\ keys[j] \in Nat /\ keys[k] \in Nat
          BY <1>3, <1>6, <3>2, <3>4
      <4>2. keys[k] < mid /\ mid \in Nat
          BY <2>2, <3>2
      <4> QED
          BY ONLY <4>1, <4>2
    <3> QED
        BY <3>2, <3>3, <3>4
  <2>9. ASSUME NEW j \in 1 .. m, i <= j PROVE mid < keys[j]
    <3>1. i \in 1 .. m /\ mid < keys[i] /\ (j = i \/ i < j)
        BY <1>2, <2>6, <2>9
    <3> QED
        BY <1>3, <1>6, <2>2, <3>1
  <2>10. lo <= mid
    <3>1. CASE i = 1
        BY <2>2, <2>5, <3>1
    <3>2. CASE i # 1
      <4>1. PICK k : k = i - 1
          OBVIOUS
      <4>2. k \in 1 .. m /\ keys[k] < mid
          BY <1>2, <2>4, <3>2, <4>1
      <4> QED
          BY <1>3, <2>2, <4>2
    <3> QED
        BY <3>1, <3>2
  <2>11. mid < hi
    <3>1. CASE i = m + 1
        BY <2>7, <3>1
    <3>2. CASE i # m + 1
      <4>1. i \in 1 .. m /\ mid < keys[i]
          BY <1>2, <2>6, <3>2
      <4> QED
          BY <1>3, <2>2, <4>1
    <3> QED
        BY <3>1, <3>2
  <2>12. n = Len(keys) + 1
      BY <1>1, <2>2
  <2>13. /\ \A j \in 1 .. Len(keys) : j < i => keys[j] < mid
         /\ \A j \in 1 .. Len(keys) : i <= j => mid < keys[j]
      BY <1>1, <2>8, <2>9
  <2>14. /\ keys \in Seq(Nat) /\ lo \in Nat /\ hi \in Nat /\ Increasing(keys, lo, hi)
         /\ i \in 1 .. Len(keys) + 1 /\ mid \in Nat
      BY <2>2
  <2> QED
      BY ONLY <2>14, <2>3, <2>10, <2>11, <2>12, <2>13, WidenedRises, Zenon
<1> QED
    BY <1>4, <1>5

\* In place i of the branch stands what u hands up; the other children and keys of
\* the branch, which has the interval from lo to before hi, lie as they should.
Opened(b, kids, keys, i, u, lo, hi) ==
  /\ keys \in Seq(Nat) /\ Len(kids) = Len(keys) + 1 /\ i \in 1 .. Len(kids)
  /\ u.mid \in Nat /\ lo \in Nat /\ hi \in Nat
  /\ Increasing(keys, lo, hi)
  /\ \A j \in 1 .. Len(kids) : j # i => /\ b.lo[kids[j]] = GapLow(keys, j, lo)
                                        /\ b.hi[kids[j]] = GapHigh(keys, j, hi)
  /\ Handed(b, u, GapLow(keys, i, lo), GapHigh(keys, i, hi))

\* Page q stands between the numbers w at place j of m.
Between(b, q, w, j, m, lo, hi) ==
  /\ b.lo[q] = IF j = 1 THEN lo ELSE w[j - 1]
  /\ b.hi[q] = IF j = m THEN hi ELSE w[j]

\* Each child of the branch, and what was handed up among them, has the gap between
\* the keys for its interval.
LEMMA WideKidsLie ==
  ASSUME NEW b, NEW T, NEW kids \in Seq(T), NEW keys, NEW lo, NEW hi, NEW i, NEW u,
         Opened(b, kids, keys, i, u, lo, hi), NEW m, m = Len(kids) + Extra(u),
         NEW w, w = [j \in 1 .. m - 1 |-> WideKey(keys, i, u, j)],
         NEW j \in 1 .. m, NEW q, q = WideKid(kids, i, u, j)
  PROVE  Between(b, q, w, j, m, lo, hi)
<1> SUFFICES /\ b.lo[q] = IF j = 1 THEN lo ELSE w[j - 1]
             /\ b.hi[q] = IF j = m THEN hi ELSE w[j]
    BY DEF Between
<1>0. /\ keys \in Seq(Nat) /\ Len(kids) = Len(keys) + 1 /\ i \in 1 .. Len(kids)
      /\ lo \in Nat /\ hi \in Nat
    BY DEF Opened
<1>1. PICK k : k = Len(keys)
    OBVIOUS
<1>2. k \in Nat /\ Len(kids) = k + 1 /\ i \in 1 .. k + 1 /\ DOMAIN kids = 1 .. k + 1
    BY <1>0, <1>1
<1>3. \A x \in 1 .. k + 1 : x # i => b.lo[kids[x]] = GapLow(keys, x, lo) /\ b.hi[kids[x]] = GapHigh(keys, x, hi)
    BY <1>2 DEF Opened
<1>6. Handed(b, u, GapLow(keys, i, lo), GapHigh(keys, i, hi))
    BY DEF Opened
<1>4. CASE u.split = 0
  <2>1. m = k + 1
      BY <1>2, <1>4 DEF Extra
  <2>2. \A x \in 1 .. k : w[x] = keys[x]
    <3>1. m - 1 = k
        BY <1>2, <2>1
    <3>2. w = [x \in 1 .. k |-> WideKey(keys, i, u, x)]
        BY <3>1, Zenon
    <3> QED
        BY <1>4, <3>2 DEF WideKey
  <2>3. q = IF j = i THEN u.orig ELSE kids[j]
    <3>1. j < i => j # i
        BY <1>2, <2>1
    <3>2. CASE j = i
        BY <1>4, <3>1, <3>2, Zenon DEF WideKid
    <3>3. CASE j # i
        BY <1>4, <3>3, Zenon DEF WideKid
    <3> QED
        BY <3>2, <3>3
  <2>4. b.lo[q] = GapLow(keys, j, lo) /\ b.hi[q] = GapHigh(keys, j, hi)
    <3>1. CASE j = i
        BY <1>4, <1>6, <2>3, <3>1 DEF Handed
    <3>2. CASE j # i
        BY <1>3, <2>1, <2>3, <3>2
    <3> QED
        BY <3>1, <3>2
  <2>5. j # 1 => j - 1 \in 1 .. k
      BY <1>2, <2>1
  <2>6. j # m => j \in 1 .. k
      BY <1>2, <2>1
  <2> QED
      BY <1>1, <2>1, <2>2, <2>4, <2>5, <2>6 DEF GapLow, GapHigh
<1>5. CASE u.split # 0
  <2>1. m = k + 2 /\ m - 1 = k + 1
      BY <1>2, <1>5 DEF Extra
  <2>2. \A x \in 1 .. k + 1 : w[x] = WideKey(keys, i, u, x)
      BY <2>1
  <2>3. /\ b.lo[u.orig] = GapLow(keys, i, lo) /\ b.hi[u.orig] = u.mid
        /\ b.lo[u.split] = u.mid /\ b.hi[u.split] = GapHigh(keys, i, hi)
      BY <1>5, <1>6 DEF Handed
  <2>4. \A x \in 1 .. k + 1 : x < i => w[x] = keys[x]
      BY <2>2 DEF WideKey
  <2>5. w[i] = u.mid
    <3>1. ~(i < i)
        BY <1>2
    <3> QED
        BY <1>2, <1>5, <2>2, <3>1 DEF WideKey
  <2>6. ASSUME NEW x \in 1 .. k + 1, i < x PROVE w[x] = keys[x - 1]
    <3>1. ~(x < i) /\ x # i
        BY <1>2, <2>6
    <3> QED
        BY <1>5, <2>2, <3>1 DEF WideKey
  <2>7. j \in Int /\ i \in Int /\ k \in Int /\ 1 <= i /\ i <= k + 1 /\ 1 <= j /\ j <= k + 2
      BY <1>2, <2>1
  <2>8. CASE j < i
    <3>1. q = kids[j]
        BY <2>8 DEF WideKid
    <3>2. j \in 1 .. k + 1 /\ j # i /\ j # m /\ j # k + 1
        BY <2>1, <2>7, <2>8
    <3>3. b.lo[q] = GapLow(keys, j, lo) /\ b.hi[q] = GapHigh(keys, j, hi)
        BY <1>3, <3>1, <3>2
    <3>4. b.hi[q] = w[j]
        BY <1>1, <2>4, <2>8, <3>2, <3>3 DEF GapHigh
    <3>5. j # 1 => b.lo[q] = w[j - 1]
      <4>1. ASSUME j # 1 PROVE j - 1 \in 1 .. k + 1 /\ j - 1 < i
          BY <2>7, <2>8, <4>1
      <4> QED
          BY <2>4, <3>3, <4>1 DEF GapLow
    <3>6. j = 1 => b.lo[q] = lo
        BY <3>3 DEF GapLow
    <3> QED
        BY <3>2, <3>4, <3>5, <3>6
  <2>9. CASE j = i
    <3>1. q = u.orig
      <4>1. ~(j < i)
          BY <2>7, <2>9
      <4> QED
          BY <2>9, <4>1 DEF WideKid
    <3>2. j # m
        BY <2>1, <2>7, <2>9
    <3>3. b.hi[q] = w[j]
        BY <2>3, <2>5, <2>9, <3>1
    <3>4. j # 1 => b.lo[q] = w[j - 1]
      <4>1. ASSUME j # 1 PROVE j - 1 \in 1 .. k + 1 /\ j - 1 < i
          BY <2>7, <2>9, <4>1
      <4> QED
          BY <2>3, <2>4, <2>9, <3>1, <4>1 DEF GapLow
    <3>5. j = 1 => b.lo[q] = lo
        BY <2>3, <2>9, <3>1 DEF GapLow
    <3> QED
        BY <3>2, <3>3, <3>4, <3>5
  <2>10. CASE j = i + 1
    <3>1. q = u.split
      <4>1. ~(j < i) /\ j # i
          BY <2>7, <2>10
      <4> QED
          BY <1>5, <2>10, <4>1 DEF WideKid
    <3>2. j # 1 /\ j - 1 = i
        BY <2>7, <2>10
    <3>3. b.lo[q] = w[j - 1]
        BY <2>3, <2>5, <3>1, <3>2
    <3>4. j = m => b.hi[q] = hi
      <4>1. j = m => i = k + 1
          BY <2>1, <2>7, <2>10
      <4> QED
          BY <1>1, <2>3, <3>1, <4>1 DEF GapHigh
    <3>5. j # m => b.hi[q] = w[j]
      <4>1. ASSUME j # m PROVE j \in 1 .. k + 1 /\ i < j /\ j - 1 = i /\ i # k + 1
        <5>1. j # k + 2
            BY <2>1, <4>1
        <5> QED
            BY <2>7, <2>10, <5>1
      <4> QED
          BY <1>1, <2>3, <2>6, <3>1, <4>1 DEF GapHigh
    <3> QED
        BY <3>2, <3>3, <3>4, <3>5
  <2>11. CASE i + 1 < j
    <3>1. PICK x : x = j - 1
        OBVIOUS
    <3>2. x \in 1 .. k + 1 /\ x # i /\ i < x /\ j # 1 /\ x # 1 /\ (j = m <=> x = k + 1)
        BY <2>1, <2>7, <2>11, <3>1
    <3>3. q = kids[x]
      <4>1. ~(j < i) /\ j # i /\ j # i + 1
          BY <2>7, <2>11
      <4> QED
          BY <1>5, <3>1, <4>1 DEF WideKid
    <3>4. b.lo[q] = keys[x - 1] /\ b.hi[q] = GapHigh(keys, x, hi)
        BY <1>3, <3>2, <3>3 DEF GapLow
    <3>5. b.lo[q] = w[j - 1]
        BY <2>6, <3>1, <3>2, <3>4
    <3>6. j = m => b.hi[q] = hi
        BY <1>1, <3>2, <3>4 DEF GapHigh
    <3>7. j # m => b.hi[q] = w[j]
      <4>1. ASSUME j # m PROVE j \in 1 .. k + 1 /\ i < j
        <5>1. j # k + 2
            BY <2>1, <4>1
        <5>2. i < j
            BY <2>7, <2>11
        <5>3. j \in 1 .. k + 1
            BY <2>7, <5>1
        <5> QED
            BY <5>2, <5>3
      <4>2. j # m => x # k + 1
          BY <3>2
      <4> QED
          BY <1>1, <2>6, <3>1, <3>4, <4>1, <4>2 DEF GapHigh
    <3> QED
        BY <3>2, <3>5, <3>6, <3>7
  <2> QED
      BY <2>7, <2>8, <2>9, <2>10, <2>11
<1> QED
    BY <1>4, <1>5

\* A branch and its children lie in the interval from lo to before hi.
Lies(b, pg, lo, hi) ==
  /\ Increasing(pg.keys, lo, hi)
  /\ \A j \in 1 .. Len(pg.kids) : /\ b.lo[pg.kids[j]] = GapLow(pg.keys, j, lo)
                                  /\ b.hi[pg.kids[j]] = GapHigh(pg.keys, j, hi)

\* The new branch a that has children c + 1 to c + n of m lies in this interval.
WideLow(keys, i, u, c, lo) == IF c = 0 THEN lo ELSE WideKey(keys, i, u, c)
WideHigh(keys, i, u, m, e, hi) == IF e = m THEN hi ELSE WideKey(keys, i, u, e)

\* Copy a of that branch has the children from c + 1 to e of m.
Copies(a, flag, T, kids, keys, i, u, c, e, m) ==
  /\ kids \in Seq(T) /\ m = Len(kids) + Extra(u)
  /\ c \in Nat /\ e \in Nat /\ c < e /\ e <= m
  /\ HasWide(a, flag, T, kids, keys, i, u, c, e - c)

\* The copies of a branch lie between the keys that are not in them.
LEMMA PartLies ==
  ASSUME NEW b, NEW T, NEW kids, NEW keys, NEW lo, NEW hi, NEW i, NEW u, Opened(b, kids, keys, i, u, lo, hi),
         NEW a, NEW flag, NEW c, NEW e, NEW m, Copies(a, flag, T, kids, keys, i, u, c, e, m),
         NEW x, x = WideLow(keys, i, u, c, lo), NEW y, y = WideHigh(keys, i, u, m, e, hi)
  PROVE  Lies(b, a, x, y) /\ x \in Nat /\ y \in Nat /\ lo <= x /\ y <= hi /\ (c # 0 => x < hi)
<1> DEFINE n == e - c
<1>0. /\ kids \in Seq(T) /\ m = Len(kids) + Extra(u) /\ c \in Nat /\ n \in Nat /\ n >= 1
      /\ e = c + n /\ e <= m /\ HasWide(a, flag, T, kids, keys, i, u, c, n)
  <2>1. /\ kids \in Seq(T) /\ m = Len(kids) + Extra(u) /\ c \in Nat /\ e \in Nat /\ c < e /\ e <= m
        /\ HasWide(a, flag, T, kids, keys, i, u, c, n)
      BY Zenon DEF Copies
  <2> QED
      BY <2>1
<1> HIDE DEF n
<1> USE <1>0
<1>1. PICK k : k = m - 1
    OBVIOUS
<1>2. Len(keys) \in Nat /\ Extra(u) \in {0, 1} /\ m \in Nat /\ k \in Nat /\ m = k + 1 /\ k = Len(keys) + Extra(u)
  <2>1. Len(keys) \in Nat /\ Len(kids) = Len(keys) + 1
      BY DEF Opened
  <2>2. Extra(u) \in {0, 1}
      BY DEF Extra
  <2> QED
      BY <1>1, <2>1, <2>2
<1>3. /\ keys \in Seq(Nat) /\ lo \in Nat /\ hi \in Nat /\ Increasing(keys, lo, hi) /\ u.mid \in Nat
      /\ i \in 1 .. Len(kids) /\ i \in 1 .. Len(keys) + 1 /\ Len(kids) = Len(keys) + 1
      /\ Handed(b, u, GapLow(keys, i, lo), GapHigh(keys, i, hi))
    BY DEF Opened
<1>4. \A j \in 1 .. Len(kids) : j # i => b.lo[kids[j]] = GapLow(keys, j, lo) /\ b.hi[kids[j]] = GapHigh(keys, j, hi)
    BY DEF Opened
<1>5. u.split # 0 => GapLow(keys, i, lo) < u.mid /\ u.mid < GapHigh(keys, i, hi)
    BY <1>3 DEF Handed
<1>6. PICK w : w = [j \in 1 .. k |-> WideKey(keys, i, u, j)]
    OBVIOUS
<1>7. Rising(w, k, lo, hi)
    BY <1>2, <1>3, <1>5, <1>6, WideKeysRise, Zenon
<1>8. \A j \in 1 .. k : w[j] \in Nat /\ lo <= w[j] /\ w[j] < hi
    BY <1>7 DEF Rising
<1>9. x = IF c = 0 THEN lo ELSE w[c]
  <2>1. c # 0 => c \in 1 .. k
      BY <1>2
  <2> QED
      BY <1>6, <2>1 DEF WideLow
<1>10. y = IF e = m THEN hi ELSE w[e]
  <2>1. e # m => e \in 1 .. k
      BY <1>2
  <2> QED
      BY <1>6, <2>1 DEF WideHigh
<1>11. x \in Nat /\ lo <= x
  <2>1. CASE c = 0
      BY <1>3, <1>9, <2>1
  <2>2. CASE c # 0
    <3>1. c \in 1 .. k
        BY <1>2, <2>2
    <3> QED
        BY <1>8, <1>9, <2>2, <3>1
  <2> QED
      BY <2>1, <2>2
<1>12. y \in Nat /\ y <= hi
  <2>1. CASE e = m
    <3>1. y = hi
        BY <1>10, <2>1, Zenon
    <3> QED
        BY <1>3, <3>1
  <2>2. CASE e # m
    <3>1. e \in 1 .. k
        BY <1>2, <2>2
    <3>2. y = w[e]
        BY <1>10, <2>2, Zenon
    <3>3. PICK v : v = w[e]
        OBVIOUS
    <3>4. v \in Nat /\ v < hi
        BY <1>8, <3>1, <3>3
    <3>5. hi \in Nat
        BY <1>3
    <3>6. v <= hi
        BY ONLY <3>4, <3>5
    <3> QED
        BY <3>2, <3>3, <3>4, <3>6, Zenon
  <2> QED
      BY <2>1, <2>2
<1>13. PICK d : d = n - 1
    OBVIOUS
<1>14. d \in Nat /\ c + d <= k /\ n = d + 1
    BY <1>2, <1>13
<1>15. a.keys \in Seq(Nat) /\ Len(a.keys) = d /\ Len(a.kids) = n
    BY <1>13 DEF HasWide
<1>16. \A j \in 1 .. d : a.keys[j] = w[c + j]
  <2>1. \A j \in 1 .. d : a.keys[j] = WideKey(keys, i, u, c + j)
      BY <1>13 DEF HasWide
  <2>2. \A j \in 1 .. d : c + j \in 1 .. k
    <3>1. c + d <= k /\ d \in Nat /\ k \in Nat
        BY <1>2, <1>14
    <3> QED
        BY <3>1
  <2> QED
      BY <1>6, <2>1, <2>2
<1>17. x = lo \/ \E f \in 1 .. k : x = w[f] /\ f <= c + 1
  <2>1. c # 0 => c \in 1 .. k /\ c <= c + 1
      BY <1>2
  <2> QED
      BY <1>9, <2>1
<1>18. y = hi \/ \E f \in 1 .. k : y = w[f] /\ c + d < f
  <2>1. e # m => e \in 1 .. k /\ c + d < e
      BY <1>2, <1>14
  <2> QED
      BY <1>10, <2>1
<1>19. Increasing(a.keys, x, y)
  <2>1. k \in Nat /\ lo \in Nat /\ hi \in Nat /\ c \in Nat /\ d \in Nat /\ c + d <= k /\ a.keys \in Seq(Nat)
      BY <1>2, <1>3, <1>14, <1>15
  <2>2. Len(a.keys) = d
      BY <1>15
  <2>3. PICK z : z = c + d
      OBVIOUS
  <2>4. z <= k /\ Stops(w, k, hi, z, y)
      BY <1>14, <1>18, <2>3 DEF Stops
  <2>5. Starts(w, k, lo, c, x)
      BY <1>17 DEF Starts
  <2>6. IsPart(a.keys, w, c, d)
      BY <2>2, <1>16 DEF IsPart
  <2> QED
      BY <2>1, <2>3, <2>4, <2>5, <2>6, <1>7, PartRises, Zenon
<1>20. ASSUME NEW j \in 1 .. n
       PROVE  b.lo[a.kids[j]] = GapLow(a.keys, j, x) /\ b.hi[a.kids[j]] = GapHigh(a.keys, j, y)
  <2>1. PICK q, f : q = a.kids[j] /\ f = c + j
      OBVIOUS
  <2>2. f \in 1 .. m
      BY <1>2, <2>1
  <2>3. q = WideKid(kids, i, u, f)
      BY <2>1 DEF HasWide
  <2>4. w = [z \in 1 .. m - 1 |-> WideKey(keys, i, u, z)]
      BY <1>1, <1>6
  <2>5. /\ b.lo[q] = IF f = 1 THEN lo ELSE w[f - 1]
        /\ b.hi[q] = IF f = m THEN hi ELSE w[f]
    <3>1. Between(b, q, w, f, m, lo, hi)
        BY <2>2, <2>3, <2>4, WideKidsLie, Zenon
    <3> QED
        BY <3>1 DEF Between
  <2>6. GapLow(a.keys, j, x) = IF f = 1 THEN lo ELSE w[f - 1]
    <3>1. CASE j = 1
      <4>1. GapLow(a.keys, j, x) = x
          BY <3>1 DEF GapLow
      <4>2. f - 1 = c /\ (f = 1 <=> c = 0)
          BY <2>1, <3>1
      <4> QED
          BY <1>9, <4>1, <4>2
    <3>2. CASE j # 1
      <4>1. GapLow(a.keys, j, x) = a.keys[j - 1]
          BY <3>2 DEF GapLow
      <4>2. j - 1 \in 1 .. d
          BY <1>14, <3>2
      <4>3. c + (j - 1) = f - 1 /\ f # 1
          BY <2>1, <3>2
      <4> QED
          BY <1>16, <4>1, <4>2, <4>3
    <3> QED
        BY <3>1, <3>2
  <2>7. GapHigh(a.keys, j, y) = IF f = m THEN hi ELSE w[f]
    <3>1. Len(a.keys) + 1 = n
        BY <1>14, <1>15
    <3>2. CASE j = n
      <4>1. GapHigh(a.keys, j, y) = y
          BY <3>1, <3>2 DEF GapHigh
      <4>2. f = e
          BY <2>1, <3>2
      <4> QED
          BY <1>10, <4>1, <4>2
    <3>3. CASE j # n
      <4>1. GapHigh(a.keys, j, y) = a.keys[j]
          BY <3>1, <3>3 DEF GapHigh
      <4>2. j \in 1 .. d /\ f # m
          BY <1>2, <1>14, <2>1, <3>3
      <4> QED
          BY <1>16, <2>1, <4>1, <4>2
    <3> QED
        BY <3>2, <3>3
  <2> QED
      BY <2>1, <2>5, <2>6, <2>7
<1>22. ASSUME c # 0 PROVE x < hi
  <2>1. c \in 1 .. k
      BY <1>2, <1>22
  <2> QED
      BY <1>8, <1>9, <1>22, <2>1
<1>21. Lies(b, a, x, y)
    BY <1>15, <1>19, <1>20 DEF Lies
<1> QED
    BY <1>11, <1>12, <1>21, <1>22

\* A leaf in the interval from lo to before hi, and a key from there that is to come
\* to place i.
Fitting(pg, i, key, lo, hi) ==
  /\ pg.keys \in Seq(Nat) /\ lo \in Nat /\ hi \in Nat /\ Increasing(pg.keys, lo, hi)
  /\ i \in 1 .. Len(pg.keys) + 1 /\ key \in Nat /\ lo <= key /\ key < hi
  /\ \A j \in 1 .. Len(pg.keys) : j < i => pg.keys[j] < key
  /\ \A j \in 1 .. Len(pg.keys) : i <= j => key < pg.keys[j]

\* The interval of the part of such a leaf behind item c, and up to item e.
ItemLow(pg, i, key, c, lo) == IF c = 0 THEN lo ELSE WideItem(pg.keys, i, key, c + 1)
ItemHigh(pg, i, key, e, hi) == IF e = Len(pg.keys) + 1 THEN hi ELSE WideItem(pg.keys, i, key, e + 1)

\* The copies of a leaf lie between the first of their items and the first behind them.
LEMMA LeafLies ==
  ASSUME NEW pg, NEW i, NEW key, NEW lo, NEW hi, Fitting(pg, i, key, lo, hi),
         NEW c \in Nat, NEW n \in Nat, n >= 1, NEW e, e = c + n, e <= Len(pg.keys) + 1, NEW a, NEW flag, NEW val,
         HasItems(a, flag, pg, i, key, val, c, n),
         NEW x, x = ItemLow(pg, i, key, c, lo), NEW y, y = ItemHigh(pg, i, key, e, hi)
  PROVE  Increasing(a.keys, x, y) /\ x \in Nat /\ y \in Nat /\ lo <= x /\ y <= hi
<1>1. PICK m : m = Len(pg.keys) + 1
    OBVIOUS
<1>2. /\ pg.keys \in Seq(Nat) /\ lo \in Nat /\ hi \in Nat /\ Increasing(pg.keys, lo, hi)
      /\ i \in 1 .. Len(pg.keys) + 1 /\ key \in Nat /\ lo <= key /\ key < hi
    BY DEF Fitting
<1>3. /\ \A j \in 1 .. Len(pg.keys) : j < i => pg.keys[j] < key
      /\ \A j \in 1 .. Len(pg.keys) : i <= j => key < pg.keys[j]
    BY DEF Fitting
<1>4. m \in Nat /\ e \in Nat /\ e <= m
    BY <1>1, <1>2
<1>5. PICK w : w = [j \in 1 .. m |-> WideItem(pg.keys, i, key, j)]
    OBVIOUS
<1>6. Rising(w, m, lo, hi)
    BY <1>1, <1>2, <1>3, <1>5, WidenedRises, Zenon
<1>7. \A j \in 1 .. m : w[j] \in Nat /\ lo <= w[j] /\ w[j] < hi
    BY <1>6 DEF Rising
<1>8. c + 1 \in 1 .. m
    BY <1>4
<1>9. x = lo \/ x = w[c + 1]
    BY <1>5, <1>8 DEF ItemLow
<1>10. e # m => e + 1 \in 1 .. m
    BY <1>4
<1>11. y = hi \/ (e # m /\ y = w[e + 1])
    BY <1>1, <1>5, <1>10 DEF ItemHigh
<1>12. x \in Nat /\ lo <= x
    BY <1>2, <1>7, <1>8, <1>9
<1>13. y \in Nat /\ y <= hi
    BY <1>2, <1>7, <1>10, <1>11
<1>14. a.keys \in Seq(Nat) /\ Len(a.keys) = n
    BY DEF HasItems
<1>15. \A j \in 1 .. n : a.keys[j] = w[c + j]
  <2>1. \A j \in 1 .. n : c + j \in 1 .. m
      BY <1>4
  <2>2. \A j \in 1 .. n : a.keys[j] = WideItem(pg.keys, i, key, c + j)
      BY DEF HasItems
  <2> QED
      BY <1>5, <2>1, <2>2
<1>16. x = lo \/ \E f \in 1 .. m : x = w[f] /\ f <= c + 1
  <2>1. c + 1 <= c + 1
      OBVIOUS
  <2> QED
      BY <1>8, <1>9, <2>1
<1>17. y = hi \/ \E f \in 1 .. m : y = w[f] /\ c + n < f
  <2>1. e # m => e + 1 \in 1 .. m /\ c + n < e + 1
      BY <1>4, <1>10
  <2> QED
      BY <1>11, <2>1
<1>18. c + n <= m
    BY <1>4
<1>19. Increasing(a.keys, x, y)
  <2>1. m \in Nat /\ lo \in Nat /\ hi \in Nat /\ c \in Nat /\ n \in Nat /\ c + n <= m /\ a.keys \in Seq(Nat)
      BY <1>2, <1>4, <1>14, <1>18
  <2>2. Len(a.keys) = n
      BY <1>14
  <2>3. e = c + n /\ e <= m
      BY <1>4
  <2>4. Stops(w, m, hi, e, y)
      BY <1>17, <2>3 DEF Stops
  <2>5. Starts(w, m, lo, c, x)
      BY <1>16 DEF Starts
  <2>6. IsPart(a.keys, w, c, n)
      BY <2>2, <1>15 DEF IsPart
  <2> QED
      BY <2>1, <2>3, <2>4, <2>5, <2>6, <1>6, PartRises, Zenon
<1> QED
    BY <1>12, <1>13, <1>19

-----------------------------------------------------------------------------
(* The interval of every page.  b gives each page of the tree the keys that may lie  *)
(* below it: those from b.lo[p] to before b.hi[p].                                    *)

\* The keys of a page lie in its interval.
RangedPages(s, g, b) ==
  \A p \in g.pages : /\ b.lo[p] \in Nat /\ b.hi[p] \in Nat /\ b.hi[p] <= OverflowBit
                     /\ Increasing(s.mem[p].keys, b.lo[p], b.hi[p])

\* The interval of a child is the gap between the keys next to it.
RangedKids(s, g, b) ==
  \A p \in Inner(s, g) : \A i \in Live(s, g, p) :
    /\ b.lo[s.mem[p].kids[i]] = GapLow(s.mem[p].keys, i, b.lo[p])
    /\ b.hi[s.mem[p].kids[i]] = GapHigh(s.mem[p].keys, i, b.hi[p])

\* Two intervals share no key.
AwayFrom(b, p, c, q) == b.hi[p] <= c.lo[q] \/ c.hi[q] <= b.lo[p]

\* Pages of one level share no key.
RangedApart(g, b) ==
  \A p, q \in g.pages : p # q /\ g.level[p] = g.level[q] => AwayFrom(b, p, b, q)

Ranged(s, g, b) == RangedPages(s, g, b) /\ RangedKids(s, g, b) /\ RangedApart(g, b)

\* Both give the pages of H the same intervals.
Agrees(c, b, H) == \A p \in H : c.lo[p] = b.lo[p] /\ c.hi[p] = b.hi[p]

\* In store t the new pages N lie as x says, apart from the other pages of their level.
Fits(g, t, b, x, D, N, l) ==
  /\ \A n \in N : /\ x.lo[n] \in Nat /\ x.hi[n] \in Nat /\ x.hi[n] <= OverflowBit
                  /\ Increasing(t.mem[n].keys, x.lo[n], x.hi[n])
  /\ \A n \in N : t.mem[n].kind = "branch" => \A j \in DOMAIN t.mem[n].kids :
       /\ t.mem[n].kids[j] \in g.pages \ D
       /\ b.lo[t.mem[n].kids[j]] = GapLow(t.mem[n].keys, j, x.lo[n])
       /\ b.hi[t.mem[n].kids[j]] = GapHigh(t.mem[n].keys, j, x.hi[n])
  /\ \A m, n \in N : m # n => AwayFrom(x, m, x, n)
  /\ \A n \in N, p \in g.pages \ D : g.level[p] = l => AwayFrom(x, n, b, p)

\* When pages have been replaced all pages have their intervals: the old ones, or
\* those of the new pages.
LEMMA Reranging ==
  ASSUME NEW s, NEW g, NEW t, NEW h, NEW D, NEW N, NEW R, NEW l, NEW b, NEW x,
         Levelled(s, g), Ranged(s, g, b), Rewritten(s, g, t, h, D, N, R, l), Fits(g, t, b, x, D, N, l)
  PROVE  \E c : Ranged(t, h, c) /\ Agrees(c, b, g.pages \ D) /\ Agrees(c, x, N)
<1> DEFINE old == g.pages \ D
           c == [lo |-> [p \in h.pages |-> IF p \in N THEN x.lo[p] ELSE b.lo[p]],
                 hi |-> [p \in h.pages |-> IF p \in N THEN x.hi[p] ELSE b.hi[p]]]
<1>1. /\ h.pages = old \cup N /\ N \cap g.pages = {}
      /\ \A p \in old : t.mem[p] = s.mem[p] /\ h.hole[p] = g.hole[p] /\ h.level[p] = g.level[p]
      /\ \A n \in N : h.level[n] = l
    BY DEF Rewritten
<1>2. \A p \in Inner(s, g) : \A i \in Live(s, g, p) : s.mem[p].kids[i] \in old
    BY DEF Rewritten, Levelled
<1>3. \A p \in old : p \in h.pages /\ p \in g.pages /\ p \notin N /\ c.lo[p] = b.lo[p] /\ c.hi[p] = b.hi[p]
    BY <1>1
<1>4. \A n \in N : c.lo[n] = x.lo[n] /\ c.hi[n] = x.hi[n]
    BY <1>1
<1> HIDE DEF old, c
<1>5. RangedPages(t, h, c)
  <2>1. ASSUME NEW p \in old
        PROVE  /\ c.lo[p] \in Nat /\ c.hi[p] \in Nat /\ c.hi[p] <= OverflowBit
               /\ Increasing(t.mem[p].keys, c.lo[p], c.hi[p])
      BY <1>1, <1>3, Zenon DEF Ranged, RangedPages
  <2>2. ASSUME NEW p \in N
        PROVE  /\ c.lo[p] \in Nat /\ c.hi[p] \in Nat /\ c.hi[p] <= OverflowBit
               /\ Increasing(t.mem[p].keys, c.lo[p], c.hi[p])
      BY <1>4, Zenon DEF Fits
  <2> QED
      BY <1>1, <2>1, <2>2 DEF RangedPages
<1>6. RangedKids(t, h, c)
  <2> SUFFICES ASSUME NEW p \in Inner(t, h), NEW i \in Live(t, h, p), NEW k, k = t.mem[p].kids[i]
               PROVE  /\ c.lo[k] = GapLow(t.mem[p].keys, i, c.lo[p])
                      /\ c.hi[k] = GapHigh(t.mem[p].keys, i, c.hi[p])
      BY DEF RangedKids
  <2>1. p \in h.pages /\ t.mem[p].kind = "branch" /\ i \in DOMAIN t.mem[p].kids /\ i # h.hole[p]
      BY DEF Inner, Live
  <2>2. CASE p \in old
    <3>1. p \in Inner(s, g) /\ i \in Live(s, g, p) /\ k = s.mem[p].kids[i]
        BY <1>1, <1>3, <2>1, <2>2 DEF Inner, Live
    <3>2. k \in old
        BY <1>2, <3>1
    <3>3. /\ b.lo[k] = GapLow(s.mem[p].keys, i, b.lo[p])
          /\ b.hi[k] = GapHigh(s.mem[p].keys, i, b.hi[p])
        BY <3>1, Zenon DEF Ranged, RangedKids
    <3> QED
        BY <1>1, <1>3, <2>2, <3>2, <3>3
  <2>3. CASE p \in N
    <3>1. /\ k \in old
          /\ b.lo[k] = GapLow(t.mem[p].keys, i, x.lo[p])
          /\ b.hi[k] = GapHigh(t.mem[p].keys, i, x.hi[p])
        BY <2>1, <2>3, Zenon DEF Fits, old
    <3> QED
        BY <1>3, <1>4, <2>3, <3>1
  <2> QED
      BY <1>1, <2>1, <2>2, <2>3
<1>7. RangedApart(h, c)
  <2> SUFFICES ASSUME NEW p \in h.pages, NEW q \in h.pages, p # q, h.level[p] = h.level[q]
               PROVE  AwayFrom(c, p, c, q)
      BY DEF RangedApart
  <2>1. CASE p \in old /\ q \in old
    <3>1. AwayFrom(b, p, b, q)
        BY <1>1, <1>3, <2>1 DEF Ranged, RangedApart
    <3> QED
        BY <1>3, <2>1, <3>1 DEF AwayFrom
  <2>2. CASE p \in N /\ q \in N
    <3>1. AwayFrom(x, p, x, q)
        BY <2>2 DEF Fits
    <3> QED
        BY <1>4, <2>2, <3>1 DEF AwayFrom
  <2>3. CASE p \in N /\ q \in old
    <3>1. AwayFrom(x, p, b, q)
        BY <1>1, <2>3 DEF Fits, old
    <3> QED
        BY <1>3, <1>4, <2>3, <3>1 DEF AwayFrom
  <2>4. CASE p \in old /\ q \in N
    <3>1. AwayFrom(x, q, b, p)
        BY <1>1, <2>4 DEF Fits, old
    <3> QED
        BY <1>3, <1>4, <2>4, <3>1 DEF AwayFrom
  <2> QED
      BY <1>1, <2>1, <2>2, <2>3, <2>4
<1>8. Agrees(c, b, g.pages \ D) /\ Agrees(c, x, N)
    BY <1>3, <1>4 DEF Agrees, old
<1> QED
    BY <1>5, <1>6, <1>7, <1>8 DEF Ranged

\* The interval of the place at which call k of w waits for a child; behind the last
\* call, that of the whole tree.
SlotLow(s, b, w, k) ==
  IF k > Len(w) THEN 0 ELSE GapLow(s.mem[w[k].page].keys, w[k].child, b.lo[w[k].page])
SlotHigh(s, b, w, k) ==
  IF k > Len(w) THEN OverflowBit ELSE GapHigh(s.mem[w[k].page].keys, w[k].child, b.hi[w[k].page])

\* Page p has the interval of the place where call k waits.
Slotted(s, b, p, w, k) == b.lo[p] = SlotLow(s, b, w, k) /\ b.hi[p] = SlotHigh(s, b, w, k)

\* The branch of each call that waits has that of the place in the call before it.
Slots(s, b, w) == \A k \in 1 .. Len(w) : Slotted(s, b, w[k].page, w, k + 1)

\* What is handed up has that of the innermost place.
Rises(s, b, w, u) == Slots(s, b, w) /\ Handed(b, u, SlotLow(s, b, w, 1), SlotHigh(s, b, w, 1))

\* The branches that wait have not changed.
SameCalls(s, b, t, c, w) ==
  \A k \in 1 .. Len(w) : /\ t.mem[w[k].page] = s.mem[w[k].page]
                         /\ c.lo[w[k].page] = b.lo[w[k].page] /\ c.hi[w[k].page] = b.hi[w[k].page]

\* The places stay what they are while the branches that wait do.
LEMMA SlotsStay ==
  ASSUME NEW s, NEW b, NEW t, NEW c, NEW w, Len(w) \in Nat, Slots(s, b, w), SameCalls(s, b, t, c, w)
  PROVE  /\ Slots(t, c, w)
         /\ SlotLow(t, c, w, 1) = SlotLow(s, b, w, 1) /\ SlotHigh(t, c, w, 1) = SlotHigh(s, b, w, 1)
<1>1. ASSUME NEW k \in Nat, k >= 1
      PROVE  SlotLow(t, c, w, k) = SlotLow(s, b, w, k) /\ SlotHigh(t, c, w, k) = SlotHigh(s, b, w, k)
  <2>1. k > Len(w) \/ k \in 1 .. Len(w)
      BY <1>1
  <2>2. CASE k > Len(w)
      BY <2>2 DEF SlotLow, SlotHigh
  <2>3. CASE k \in 1 .. Len(w)
    <3>1. ~(k > Len(w))
        BY <2>3
    <3> QED
        BY <2>3, <3>1, Zenon DEF SlotLow, SlotHigh, SameCalls
  <2> QED
      BY <2>1, <2>2, <2>3
<1>2. \A k \in 1 .. Len(w) : k + 1 \in Nat /\ k + 1 >= 1
    OBVIOUS
<1>3. ASSUME NEW k \in 1 .. Len(w) PROVE Slotted(t, c, w[k].page, w, k + 1)
    BY <1>1, <1>2, Zenon DEF Slots, Slotted, SameCalls
<1> QED
    BY <1>1, <1>3 DEF Slots

\* Sequence w has one element in front of v.
InFront(w, v) == Len(v) \in Nat /\ Len(w) = Len(v) + 1 /\ \A k \in 1 .. Len(v) : v[k] = w[k + 1]

\* A call is added in front of those that wait, or leaves them.
LEMMA SlotsShift ==
  ASSUME NEW s, NEW b, NEW w, NEW v, InFront(w, v)
  PROVE  Slots(s, b, w) <=> Slots(s, b, v) /\ Slotted(s, b, w[1].page, v, 1)
<1>1. Len(v) \in Nat /\ Len(w) = Len(v) + 1 /\ \A k \in 1 .. Len(v) : v[k] = w[k + 1]
    BY DEF InFront
<1>2. ASSUME NEW p, NEW k \in Nat, k >= 1 PROVE Slotted(s, b, p, w, k + 1) <=> Slotted(s, b, p, v, k)
  <2>1. PICK j : j = k + 1
      OBVIOUS
  <2>2. k > Len(v) <=> j > Len(w)
      BY <1>1, <2>1
  <2>3. k > Len(v) \/ v[k] = w[j]
      BY <1>1, <1>2, <2>1
  <2>4. SlotLow(s, b, w, j) = SlotLow(s, b, v, k) /\ SlotHigh(s, b, w, j) = SlotHigh(s, b, v, k)
    <3>1. CASE k > Len(v)
        BY <2>2, <3>1 DEF SlotLow, SlotHigh
    <3>2. CASE ~(k > Len(v))
        BY <2>2, <2>3, <3>2, Zenon DEF SlotLow, SlotHigh
    <3> QED
        BY <3>1, <3>2
  <2> QED
      BY <2>1, <2>4, Zenon DEF Slotted
<1>3. ASSUME Slots(s, b, w) PROVE Slots(s, b, v) /\ Slotted(s, b, w[1].page, v, 1)
  <2>1. 1 \in 1 .. Len(w) /\ 1 \in Nat /\ 1 >= 1
      BY <1>1
  <2>2. Slotted(s, b, w[1].page, v, 1)
    <3>1. Slotted(s, b, w[1].page, w, 1 + 1)
        BY <1>3, <2>1, Zenon DEF Slots
    <3> QED
        BY <1>2, <2>1, <3>1, Zenon
  <2>3. ASSUME NEW k \in 1 .. Len(v) PROVE Slotted(s, b, v[k].page, v, k + 1)
    <3>1. PICK j : j = k + 1
        OBVIOUS
    <3>2. j \in 1 .. Len(w) /\ j \in Nat /\ j >= 1 /\ v[k] = w[j]
        BY <1>1, <3>1
    <3>3. Slotted(s, b, w[j].page, w, j + 1)
        BY <1>3, <3>2, Zenon DEF Slots
    <3>4. Slotted(s, b, w[j].page, v, j)
        BY <1>2, <3>2, <3>3, Zenon
    <3> QED
        BY <3>1, <3>2, <3>4, Zenon
  <2> QED
      BY <2>2, <2>3, Zenon DEF Slots
<1>4. ASSUME Slots(s, b, v), Slotted(s, b, w[1].page, v, 1) PROVE Slots(s, b, w)
  <2> SUFFICES ASSUME NEW j \in 1 .. Len(w) PROVE Slotted(s, b, w[j].page, w, j + 1)
      BY Zenon DEF Slots
  <2>0. j \in Nat /\ j >= 1
      BY <1>1
  <2>1. CASE j = 1
    <3>1. Slotted(s, b, w[1].page, w, 1 + 1)
        BY <1>2, <1>4, <2>0, <2>1, Zenon
    <3> QED
        BY <2>1, <3>1
  <2>2. CASE j # 1
    <3>1. PICK k : k = j - 1
        OBVIOUS
    <3>2. k \in 1 .. Len(v) /\ j = k + 1 /\ v[k] = w[k + 1]
        BY <1>1, <2>2, <3>1
    <3>3. Slotted(s, b, v[k].page, v, k + 1)
        BY <1>4, <3>2, Zenon DEF Slots
    <3>4. Slotted(s, b, w[j].page, v, j)
        BY <3>2, <3>3
    <3> QED
        BY <1>2, <2>0, <3>4, Zenon
  <2> QED
      BY <2>1, <2>2
<1> QED
    BY <1>3, <1>4

\* What replaces page d lies inside its interval, as x says.
Inside(g, t, b, x, d, N) ==
  \A n \in N :
    /\ x.lo[n] \in Nat /\ x.hi[n] \in Nat /\ b.lo[d] <= x.lo[n] /\ x.hi[n] <= b.hi[d]
    /\ Increasing(t.mem[n].keys, x.lo[n], x.hi[n])
    /\ t.mem[n].kind = "branch" =>
         /\ Lies(b, t.mem[n], x.lo[n], x.hi[n])
         /\ DOMAIN t.mem[n].kids = 1 .. Len(t.mem[n].kids)
         /\ \A j \in DOMAIN t.mem[n].kids : t.mem[n].kids[j] \in g.pages \ {d}

\* One page or two that replace page d, with its interval, are apart from the others.
LEMMA InsideFits ==
  ASSUME NEW s, NEW g, NEW t, NEW b, NEW x, NEW d \in g.pages, NEW u, NEW N, N = {u.orig, u.split} \ {0},
         NEW l, l = g.level[d], Ranged(s, g, b), Handed(x, u, b.lo[d], b.hi[d]), Inside(g, t, b, x, d, N)
  PROVE  Fits(g, t, b, x, {d}, N, l)
<1>1. \A p \in g.pages : b.lo[p] \in Nat /\ b.hi[p] \in Nat /\ b.hi[p] <= OverflowBit
    BY DEF Ranged, RangedPages
<1>2. \A n \in N : x.lo[n] \in Nat /\ x.hi[n] \in Nat /\ b.lo[d] <= x.lo[n] /\ x.hi[n] <= b.hi[d]
    BY DEF Inside
<1>3. OverflowBit \in Nat
    BY Sizes
<1>4. ASSUME NEW n \in N
      PROVE  /\ x.lo[n] \in Nat /\ x.hi[n] \in Nat /\ x.hi[n] <= OverflowBit
             /\ Increasing(t.mem[n].keys, x.lo[n], x.hi[n])
  <2>1. x.lo[n] \in Nat /\ x.hi[n] \in Nat /\ x.hi[n] <= b.hi[d] /\ b.hi[d] \in Nat /\ b.hi[d] <= OverflowBit
      BY <1>1, <1>2
  <2>2. x.hi[n] <= OverflowBit
      BY <1>3, <2>1
  <2>3. Increasing(t.mem[n].keys, x.lo[n], x.hi[n])
      BY DEF Inside
  <2> QED
      BY <2>1, <2>2, <2>3
<1>5. ASSUME NEW n \in N, t.mem[n].kind = "branch", NEW j \in DOMAIN t.mem[n].kids
      PROVE  /\ t.mem[n].kids[j] \in g.pages \ {d}
             /\ b.lo[t.mem[n].kids[j]] = GapLow(t.mem[n].keys, j, x.lo[n])
             /\ b.hi[t.mem[n].kids[j]] = GapHigh(t.mem[n].keys, j, x.hi[n])
  <2>1. /\ Lies(b, t.mem[n], x.lo[n], x.hi[n]) /\ j \in 1 .. Len(t.mem[n].kids)
        /\ t.mem[n].kids[j] \in g.pages \ {d}
      BY <1>5, Zenon DEF Inside
  <2> QED
      BY <2>1, Zenon DEF Lies
<1>6. ASSUME NEW m \in N, NEW n \in N, m # n PROVE AwayFrom(x, m, x, n)
  <2>1. u.split # 0 /\ ((m = u.orig /\ n = u.split) \/ (m = u.split /\ n = u.orig))
      BY <1>6
  <2>2. x.hi[u.orig] = u.mid /\ x.lo[u.split] = u.mid
      BY <2>1 DEF Handed
  <2>3. x.hi[u.orig] <= x.lo[u.split]
      BY <1>2, <2>1, <2>2
  <2> QED
      BY <2>1, <2>3, Zenon DEF AwayFrom
<1>7. ASSUME NEW n \in N, NEW p \in g.pages \ {d}, g.level[p] = l PROVE AwayFrom(x, n, b, p)
  <2>1. AwayFrom(b, d, b, p)
      BY <1>7 DEF Ranged, RangedApart
  <2>2. PICK v, y, lo, hi : v = b.lo[d] /\ y = b.hi[d] /\ lo = b.lo[p] /\ hi = b.hi[p]
      OBVIOUS
  <2>3. v \in Nat /\ y \in Nat /\ lo \in Nat /\ hi \in Nat
      BY <1>1, <2>2
  <2>4. y <= lo \/ hi <= v
      BY <2>1, <2>2 DEF AwayFrom
  <2>5. PICK a, e : a = x.lo[n] /\ e = x.hi[n]
      OBVIOUS
  <2>6. a \in Nat /\ e \in Nat /\ v <= a /\ e <= y
      BY <1>2, <2>2, <2>5
  <2>7. e <= lo \/ hi <= a
      BY <2>3, <2>4, <2>6
  <2> QED
      BY <2>2, <2>5, <2>7 DEF AwayFrom
<1> QED
    BY <1>4, <1>5, <1>6, <1>7 DEF Fits

\* What replaces page d in its place among the calls that wait.
LEMMA Handing ==
  ASSUME NEW s, NEW g, NEW b, NEW d, NEW w, NEW R, NEW l, Half(s, g, d, w, R, l),
         Ranged(s, g, b), Slots(s, b, w), Slotted(s, b, d, w, 1),
         NEW t, NEW h, NEW N, Rewritten(s, g, t, h, {d}, N, R, l),
         NEW u, N = {u.orig, u.split} \ {0}, u.orig # 0,
         NEW x, Handed(x, u, b.lo[d], b.hi[d]), Inside(g, t, b, x, d, N)
  PROVE  \E c : Ranged(t, h, c) /\ Rises(t, c, w, u)
<1>1. /\ d \in g.pages /\ g.level[d] = l /\ Levelled(s, g)
      /\ w \in Seq([page : g.pages, child : Nat])
      /\ \A k \in DOMAIN w : g.level[w[k].page] = l + k
    BY DEF Half, Tree
<1>2. l \in Nat
    BY DEF Rewritten
<1>3. Fits(g, t, b, x, {d}, N, l)
    BY <1>1, InsideFits, Zenon
<1>4. PICK c : Ranged(t, h, c) /\ Agrees(c, b, g.pages \ {d}) /\ Agrees(c, x, N)
    BY <1>1, <1>3, Reranging, Zenon
<1>5. Len(w) \in Nat
    BY <1>1
<1>6. ASSUME NEW k \in 1 .. Len(w) PROVE w[k].page \in g.pages \ {d}
  <2>0. DOMAIN w = 1 .. Len(w) /\ k \in Nat /\ k >= 1
      BY <1>1, <1>5
  <2>5. PICK P : P = [page : g.pages, child : Nat]
      OBVIOUS
  <2>6. w \in Seq(P)
      BY <1>1, <2>5
  <2>7. w[k] \in P
      BY <2>6
  <2>1. w[k].page \in g.pages /\ k \in DOMAIN w
      BY <2>0, <2>5, <2>7
  <2>2. g.level[w[k].page] = l + k
      BY <1>1, <2>1
  <2>3. l + k # l
      BY <1>2, <2>0
  <2>4. w[k].page # d
      BY <1>1, <2>2, <2>3
  <2> QED
      BY <2>1, <2>4
<1>7. \A p \in g.pages \ {d} : t.mem[p] = s.mem[p] /\ c.lo[p] = b.lo[p] /\ c.hi[p] = b.hi[p]
    BY <1>4 DEF Rewritten, Agrees
<1>8. SameCalls(s, b, t, c, w)
    BY <1>6, <1>7 DEF SameCalls
<1>9. /\ Slots(t, c, w)
      /\ SlotLow(t, c, w, 1) = SlotLow(s, b, w, 1) /\ SlotHigh(t, c, w, 1) = SlotHigh(s, b, w, 1)
  <2>1. Slots(s, b, w)
      OBVIOUS
  <2> QED
      BY ONLY <1>5, <1>8, <2>1, SlotsStay
<1>10. SlotLow(t, c, w, 1) = b.lo[d] /\ SlotHigh(t, c, w, 1) = b.hi[d]
    BY <1>9 DEF Slotted
<1>11. u.orig \in N /\ (u.split # 0 => u.split \in N)
    OBVIOUS
<1>12. Handed(c, u, b.lo[d], b.hi[d])
    BY <1>4, <1>11 DEF Handed, Agrees
<1>13. Rises(t, c, w, u)
    BY <1>9, <1>10, <1>12, Zenon DEF Rises
<1> QED
    BY <1>4, <1>13

\* A raw key without the overflow bit is the key itself.
LEMMA KeyIs ==
  ASSUME NEW k \in Nat, k < OverflowBit
  PROVE  KeyGet(k) = k /\ ~HasOverflow(k)
<1>1. OverflowBit \in Nat
    BY Sizes
<1>2. ~(k >= OverflowBit) /\ k % OverflowBit = k
    BY <1>1
<1> QED
    BY <1>2 DEF HasOverflow, KeyGet

\* Seen from the way back up, with places that wait, all intervals are the same.
LEMMA OpeningRanged ==
  ASSUME NEW g, NEW o, NEW b, Tree(st, g), \A p \in g.pages : g.hole[p] = 0, Ranged(st, g, b),
         o.pages = g.pages, o.level = g.level
  PROVE  Ranged(st, o, b)
<1>1. RangedPages(st, o, b) /\ RangedApart(o, b)
    BY DEF Ranged, RangedPages, RangedApart
<1>2. ASSUME NEW p \in Inner(st, o), NEW i \in Live(st, o, p)
      PROVE  /\ b.lo[st.mem[p].kids[i]] = GapLow(st.mem[p].keys, i, b.lo[p])
             /\ b.hi[st.mem[p].kids[i]] = GapHigh(st.mem[p].keys, i, b.hi[p])
  <2>1. p \in Settled(g) /\ st.mem[p].kind = "branch" /\ i \in DOMAIN st.mem[p].kids
      BY DEF Inner, Live, Settled
  <2>2. p \in Inner(st, g) /\ i \in Live(st, g, p)
      BY <2>1, SettledKids
  <2> QED
      BY <2>2, Zenon DEF Ranged, RangedKids
<1> QED
    BY <1>1, <1>2 DEF Ranged, RangedKids

\* The key that btree_add is called with fits the leaf it has been sent to.
LEMMA LeafFitting ==
  ASSUME NEW g, Descending(g), NEW b, Ranged(st, g, b), At.kind = "leaf", ~LeafHas(At, call[1]),
         b.lo[cur] <= call[1], call[1] < b.hi[cur]
  PROVE  Fitting(At, Place, call[1], b.lo[cur], b.hi[cur])
<1>1. PICK key, i, lo, hi : key = call[1] /\ i = Place /\ lo = b.lo[cur] /\ hi = b.hi[cur]
    OBVIOUS
<1>2. cur \in g.pages /\ key \in Nat
    BY <1>1, InputIs DEF Descending
<1>3. At.keys \in Seq(Nat)
    BY AtLeaf
<1>4. PICK keys, m : keys = At.keys /\ m = Len(keys)
    OBVIOUS
<1>5. m \in Nat /\ \A j \in 1 .. m : keys[j] \in Nat
    BY <1>3, <1>4
<1>6. lo \in Nat /\ hi \in Nat /\ hi <= OverflowBit /\ Increasing(keys, lo, hi)
    BY <1>1, <1>2, <1>4 DEF Ranged, RangedPages, At
<1>7. i = LeafFind(At, key)
    BY <1>1 DEF Place
<1>8. /\ i \in 1 .. m + 1
      /\ \A j \in 1 .. m : j < i => keys[j] < key
      /\ i <= m => key <= keys[i]
    BY <1>2, <1>3, <1>4, <1>7, LeafFindIs, Zenon
<1>9. ~(i <= m /\ KeyGet(keys[i]) = key)
    BY <1>1, <1>4, <1>7, Zenon DEF LeafHas
<1>10. ASSUME i <= m PROVE key < keys[i]
  <2>1. PICK k : k = keys[i]
      OBVIOUS
  <2>2. i \in 1 .. m
      BY <1>5, <1>8, <1>10
  <2>3. k \in Nat /\ k < hi
      BY <1>4, <1>5, <1>6, <2>1, <2>2 DEF Increasing
  <2>4. k < OverflowBit
      BY <1>6, <2>3, Sizes
  <2>5. KeyGet(k) = k
      BY <2>3, <2>4, KeyIs
  <2>6. k # key
      BY <1>9, <1>10, <2>1, <2>5
  <2>7. key <= k
      BY <1>8, <1>10, <2>1
  <2> QED
      BY <1>2, <2>1, <2>3, <2>6, <2>7
<1>11. ASSUME NEW j \in 1 .. m, i <= j PROVE key < keys[j]
  <2>1. i \in 1 .. m /\ (i = j \/ i < j)
      BY <1>5, <1>8, <1>11
  <2>2. i = j \/ keys[i] < keys[j]
      BY <1>4, <1>6, <2>1 DEF Increasing
  <2>3. key < keys[i] /\ keys[i] \in Nat /\ keys[j] \in Nat
      BY <1>5, <1>10, <2>1
  <2> QED
      BY <1>2, <2>2, <2>3
<1>12. lo <= key /\ key < hi
    BY <1>1
<1>13. Fitting(At, i, key, lo, hi)
    BY <1>2, <1>3, <1>4, <1>6, <1>8, <1>11, <1>12 DEF Fitting
<1> QED
    BY <1>1, <1>13

\* On the way down: the page reached has the interval of the last place chosen, and the
\* key of the call lies in it.
Sinks(b) ==
  /\ Slots(st, b, path) /\ Slotted(st, b, cur, path, 1)
  /\ b.lo[cur] <= call[1] /\ call[1] < b.hi[cur]

\* btree_leaf_add hands up a leaf with the interval of the one it replaces.
LEMMA LeafAddRanged ==
  ASSUME NEW g, Descending(g), NEW b, Ranged(st, g, b), Sinks(b), LeafAdd,
         NEW h, LeafWritten(g, h), Ascending(h)'
  PROVE  \E c : Ranged(st', h, c) /\ Rises(st', c, path', up')
<1>1. /\ At.kind = "leaf" /\ ~LeafHas(At, call[1])
    BY Zenon DEF LeafAdd
<1>2. Fitting(At, Place, call[1], b.lo[cur], b.hi[cur])
    BY <1>1, LeafFitting DEF Sinks
<1>3. PICK o, p :
        /\ o.pages = g.pages /\ o.level = g.level /\ Half(st, o, cur, path, {}, 0)
        /\ Rewritten(st, o, st', h, {cur}, {p}, {}, 0)
        /\ HasItems(st'.mem[p], At.root, At, Place, call[1], call[2], 0, Len(At.keys) + 1)
        /\ Hands(st', path, p, 0, call[1])
    BY Zenon DEF LeafWritten
<1>4. path' = path /\ up' = [orig |-> p, split |-> 0, mid |-> call[1]]
    BY <1>3, Zenon DEF Hands
<1>5. Ranged(st, o, b)
    BY <1>3, OpeningRanged DEF Descending, Whole
<1>6. PICK t, lo, hi, n : t = st' /\ lo = b.lo[cur] /\ hi = b.hi[cur] /\ n = Len(At.keys) + 1
    OBVIOUS
<1>7. At.keys \in Seq(Nat) /\ n \in Nat /\ n >= 1 /\ n = 0 + n /\ n <= Len(At.keys) + 1
    BY <1>2, <1>6 DEF Fitting
<1>8. t.mem[p].kind = "leaf"
    BY <1>3, <1>6 DEF HasItems
<1>9. lo = ItemLow(At, Place, call[1], 0, lo) /\ hi = ItemHigh(At, Place, call[1], n, hi)
    BY <1>6 DEF ItemLow, ItemHigh
<1>10. Increasing(t.mem[p].keys, lo, hi) /\ lo \in Nat /\ hi \in Nat /\ lo <= lo /\ hi <= hi
  <2>1. Fitting(At, Place, call[1], lo, hi) /\ HasItems(t.mem[p], At.root, At, Place, call[1], call[2], 0, n)
      BY <1>2, <1>3, <1>6
  <2>2. 0 \in Nat
      OBVIOUS
  <2> QED
      BY <1>7, <1>9, <2>1, <2>2, LeafLies, Zenon
<1> DEFINE u == [orig |-> p, split |-> 0, mid |-> call[1]]
           x == [lo |-> [q \in {p} |-> lo], hi |-> [q \in {p} |-> hi]]
<1>11. x.lo[p] = lo /\ x.hi[p] = hi /\ u.orig = p /\ u.split = 0
    OBVIOUS
<1>12. p # 0
    BY <1>4 DEF Ascending
<1> HIDE DEF u, x
<1>13. Handed(x, u, lo, hi)
    BY <1>11 DEF Handed
<1>14. Inside(o, t, b, x, cur, {p})
    BY <1>6, <1>8, <1>10, <1>11 DEF Inside
<1>15. {p} = {u.orig, u.split} \ {0} /\ u.orig # 0
    BY <1>11, <1>12
<1>16. Slots(st, b, path) /\ Slotted(st, b, cur, path, 1)
    BY DEF Sinks
<1>17. Half(st, o, cur, path, {}, 0) /\ Rewritten(st, o, t, h, {cur}, {p}, {}, 0)
    BY <1>3, <1>6
<1>18. Handed(x, u, b.lo[cur], b.hi[cur])
    BY <1>6, <1>13
<1>19. \E c : Ranged(t, h, c) /\ Rises(t, c, path, u)
    BY ONLY <1>5, <1>14, <1>15, <1>16, <1>17, <1>18, Handing
<1> QED
    BY <1>4, <1>6, <1>19 DEF u

\* The two pages that a split hands up, with the intervals left and right of mid.
Parted(x, p, q, lo, mid, hi) ==
  x.lo[p] = lo /\ x.hi[p] = mid /\ x.lo[q] = mid /\ x.hi[q] = hi

\* There are such intervals.
LEMMA PartedIs ==
  ASSUME NEW p, NEW q, p # q, NEW lo, NEW mid, NEW hi
  PROVE  \E x : Parted(x, p, q, lo, mid, hi)
<1> DEFINE x == [lo |-> [z \in {p, q} |-> IF z = p THEN lo ELSE mid],
                 hi |-> [z \in {p, q} |-> IF z = p THEN mid ELSE hi]]
<1>1. x.lo[p] = lo /\ x.hi[p] = mid /\ x.lo[q] = mid /\ x.hi[q] = hi
    OBVIOUS
<1> QED
    BY <1>1 DEF Parted

\* A page with keys between two numbers.
LEMMA Separates ==
  ASSUME NEW keys \in Seq(Nat), Len(keys) >= 1, NEW lo \in Nat, NEW hi \in Nat, Increasing(keys, lo, hi)
  PROVE  lo < hi
<1>1. 1 \in 1 .. Len(keys) /\ keys[1] \in Nat
    OBVIOUS
<1>2. lo <= keys[1] /\ keys[1] < hi
    BY <1>1 DEF Increasing
<1> QED
    BY <1>1, <1>2

\* btree_leaf_split hands up two leaves that divide the interval of the one they
\* replace at the key it hands up with them.
LEMMA LeafHalvedRanged ==
  ASSUME NEW g, Descending(g), NEW b, Ranged(st, g, b), Sinks(b), LeafSplitUp,
         NEW h, LeafHalved(g, h), Ascending(h)'
  PROVE  \E c : Ranged(st', h, c) /\ Rises(st', c, path', up')
<1>1. At.kind = "leaf" /\ ~LeafHas(At, call[1])
    BY Zenon DEF LeafSplitUp
<1>2. Fitting(At, Place, call[1], b.lo[cur], b.hi[cur])
    BY <1>1, LeafFitting DEF Sinks
<1>3. PICK o, p, q, c, mid :
        /\ o.pages = g.pages /\ o.level = g.level /\ Half(st, o, cur, path, {}, 0)
        /\ p # q /\ q # 0 /\ Rewritten(st, o, st', h, {cur}, {p, q}, {}, 0)
        /\ c \in 1 .. Len(At.keys)
        /\ HasItems(st'.mem[p], FALSE, At, Place, call[1], call[2], 0, c)
        /\ HasItems(st'.mem[q], FALSE, At, Place, call[1], call[2], c, Len(At.keys) + 1 - c)
        /\ mid = WideItem(At.keys, Place, call[1], c + 1)
        /\ Hands(st', path, p, q, mid)
    BY Zenon DEF LeafHalved
<1>4. path' = path /\ up' = [orig |-> p, split |-> q, mid |-> mid]
    BY <1>3, Zenon DEF Hands
<1>5. Ranged(st, o, b)
    BY <1>3, OpeningRanged DEF Descending, Whole
<1>6. PICK t, lo, hi, m, n, pg : t = st' /\ lo = b.lo[cur] /\ hi = b.hi[cur] /\ m = Len(At.keys) + 1
                                 /\ n = Len(At.keys) + 1 - c /\ pg = At
    OBVIOUS
<1>7. /\ pg.keys \in Seq(Nat) /\ lo \in Nat /\ hi \in Nat /\ Len(pg.keys) \in Nat
      /\ m \in Nat /\ c \in Nat /\ c >= 1 /\ n \in Nat /\ n >= 1
      /\ m = Len(pg.keys) + 1 /\ c <= m /\ c # m /\ c = 0 + c /\ m = c + n /\ m <= Len(pg.keys) + 1
  <2>1. pg.keys \in Seq(Nat) /\ lo \in Nat /\ hi \in Nat
      BY <1>2, <1>6 DEF Fitting
  <2>2. Len(pg.keys) \in Nat /\ m = Len(pg.keys) + 1 /\ c \in 1 .. Len(pg.keys) /\ n = Len(pg.keys) + 1 - c
      BY <1>3, <1>6, <2>1
  <2> QED
      BY <2>1, <2>2
<1>8. PICK i, key, val : i = Place /\ key = call[1] /\ val = call[2]
    OBVIOUS
<1>9. /\ Fitting(pg, i, key, lo, hi)
      /\ HasItems(t.mem[p], FALSE, pg, i, key, val, 0, c)
      /\ HasItems(t.mem[q], FALSE, pg, i, key, val, c, n)
      /\ mid = WideItem(pg.keys, i, key, c + 1)
    BY <1>2, <1>3, <1>6, <1>8, Zenon
<1>10. lo = ItemLow(pg, i, key, 0, lo) /\ mid = ItemHigh(pg, i, key, c, hi)
    BY <1>7, <1>9 DEF ItemLow, ItemHigh
<1>11. mid = ItemLow(pg, i, key, c, lo) /\ hi = ItemHigh(pg, i, key, m, hi)
    BY <1>7, <1>9 DEF ItemLow, ItemHigh
<1>12. Increasing(t.mem[p].keys, lo, mid) /\ mid \in Nat /\ mid <= hi
  <2>1. 0 \in Nat
      OBVIOUS
  <2>2. c <= Len(pg.keys) + 1
      BY <1>7
  <2> QED
      BY ONLY <1>7, <1>9, <1>10, <2>1, <2>2, LeafLies
<1>13. Increasing(t.mem[q].keys, mid, hi) /\ lo <= mid
    BY ONLY <1>7, <1>9, <1>11, LeafLies
<1>14. /\ t.mem[p].kind = "leaf" /\ t.mem[p].keys \in Seq(Nat) /\ Len(t.mem[p].keys) = c
       /\ t.mem[q].kind = "leaf" /\ t.mem[q].keys \in Seq(Nat) /\ Len(t.mem[q].keys) = n
    BY <1>9 DEF HasItems
<1>15. lo < mid
    BY <1>7, <1>12, <1>14, Separates
<1>16. mid < hi
    BY <1>7, <1>12, <1>13, <1>14, Separates
<1>17. PICK x : Parted(x, p, q, lo, mid, hi)
    BY <1>3, PartedIs
<1>18. x.lo[p] = lo /\ x.hi[p] = mid /\ x.lo[q] = mid /\ x.hi[q] = hi
    BY <1>17 DEF Parted
<1> DEFINE u == [orig |-> p, split |-> q, mid |-> mid]
<1>19. u.orig = p /\ u.split = q /\ u.mid = mid
    OBVIOUS
<1>20. p # 0
    BY <1>4 DEF Ascending
<1> HIDE DEF u
<1>21. Handed(x, u, lo, hi)
    BY <1>3, <1>15, <1>16, <1>18, <1>19 DEF Handed
<1>22. Inside(o, t, b, x, cur, {p, q})
  <2>1. lo <= lo /\ hi <= hi
      BY <1>7
  <2> QED
      BY <1>6, <1>7, <1>12, <1>13, <1>14, <1>18, <2>1 DEF Inside
<1>23. {p, q} = {u.orig, u.split} \ {0} /\ u.orig # 0
    BY <1>3, <1>19, <1>20
<1>24. Slots(st, b, path) /\ Slotted(st, b, cur, path, 1)
    BY DEF Sinks
<1>25. Half(st, o, cur, path, {}, 0) /\ Rewritten(st, o, t, h, {cur}, {p, q}, {}, 0)
    BY <1>3, <1>6
<1>26. Handed(x, u, b.lo[cur], b.hi[cur])
    BY <1>6, <1>21
<1>27. \E e : Ranged(t, h, e) /\ Rises(t, e, path, u)
    BY ONLY <1>5, <1>22, <1>23, <1>24, <1>25, <1>26, Handing
<1> QED
    BY <1>4, <1>6, <1>27 DEF u

\* The calls without the innermost one.
LEMMA TailInFront ==
  ASSUME NEW T, NEW w \in Seq(T), w # <<>>
  PROVE  InFront(w, Tail(w)) /\ Head(w) = w[1] /\ 1 <= Len(w)
<1>1. Len(w) \in Nat /\ Len(w) # 0
    BY EmptySeq
<1>2. Len(Tail(w)) = Len(w) - 1 /\ \A k \in 1 .. Len(w) - 1 : Tail(w)[k] = w[k + 1]
    BY <1>1
<1> QED
    BY <1>1, <1>2 DEF InFront

\* On the way up, the branch that waits for a child has the interval of its own place,
\* and what is handed up has that of the place in it.
LEMMA WaitingOpened ==
  ASSUME NEW g, Ascending(g), path # <<>>, NEW b, Ranged(st, g, b), Rises(st, b, path, up),
         NEW d, d = Waiting.page, NEW w, w = Tail(path)
  PROVE  /\ Slots(st, b, w) /\ Slotted(st, b, d, w, 1)
         /\ Opened(b, Parent.kids, Parent.keys, Waiting.child, up, b.lo[d], b.hi[d])
<1>1. PICK l \in Nat \ {0} :
           /\ Half(st, g, d, w, Ends, l)
           /\ d \in Inner(st, g) /\ g.hole[d] = Waiting.child /\ Waiting.child \in 1 .. Len(Parent.kids)
           /\ Parent = st.mem[d]
           /\ Parent.keys \in Seq(Nat) /\ Parent.kids \in Seq(1 .. st.end - 1)
           /\ Len(Parent.kids) = Len(Parent.keys) + 1
           /\ up.mid \in Nat
    BY AtBranch, Zenon
<1>2. path \in Seq([page : g.pages, child : Nat])
    BY WaitsIs, Zenon DEF Ascending
<1>3. PICK P : P = [page : g.pages, child : Nat]
    OBVIOUS
<1>4. path \in Seq(P)
    BY <1>2, <1>3
<1>5. InFront(path, w) /\ Waiting = path[1] /\ 1 <= Len(path)
    BY <1>4, TailInFront DEF Waiting
<1>6. Slots(st, b, path)
    BY DEF Rises
<1>7. Slots(st, b, w) /\ Slotted(st, b, d, w, 1)
  <2>1. Slots(st, b, w) /\ Slotted(st, b, path[1].page, w, 1)
      BY <1>5, <1>6, SlotsShift, Zenon
  <2> QED
      BY <1>5, <2>1
<1>8. PICK keys, kids, i, lo, hi : keys = Parent.keys /\ kids = Parent.kids /\ i = Waiting.child
                                   /\ lo = b.lo[d] /\ hi = b.hi[d]
    OBVIOUS
<1>9. d \in g.pages /\ g.hole[d] = i /\ i \in 1 .. Len(kids)
    BY <1>1, <1>8 DEF Inner
<1>10. lo \in Nat /\ hi \in Nat /\ Increasing(keys, lo, hi)
    BY <1>1, <1>8, <1>9, Zenon DEF Ranged, RangedPages
<1>11. ASSUME NEW j \in 1 .. Len(kids), j # i
       PROVE  b.lo[kids[j]] = GapLow(keys, j, lo) /\ b.hi[kids[j]] = GapHigh(keys, j, hi)
  <2>1. DOMAIN kids = 1 .. Len(kids)
      BY <1>1, <1>8
  <2>2. j \in Live(st, g, d)
      BY <1>1, <1>8, <1>9, <1>11, <2>1 DEF Live
  <2> QED
      BY <1>1, <1>8, <2>2, Zenon DEF Ranged, RangedKids
<1>12. Handed(b, up, GapLow(keys, i, lo), GapHigh(keys, i, hi))
  <2>1. Handed(b, up, SlotLow(st, b, path, 1), SlotHigh(st, b, path, 1))
      BY DEF Rises
  <2>2. ~(1 > Len(path))
      BY <1>4, <1>5
  <2>3. path[1].page = d /\ path[1].child = i
      BY <1>5, <1>8
  <2>4. SlotLow(st, b, path, 1) = GapLow(keys, i, lo) /\ SlotHigh(st, b, path, 1) = GapHigh(keys, i, hi)
      BY <1>1, <1>8, <2>2, <2>3, Zenon DEF SlotLow, SlotHigh
  <2> QED
      BY <2>1, <2>4
<1>13. keys \in Seq(Nat) /\ Len(kids) = Len(keys) + 1 /\ up.mid \in Nat
    BY <1>1, <1>8
<1>14. Opened(b, kids, keys, i, up, lo, hi)
    BY <1>9, <1>10, <1>11, <1>12, <1>13 DEF Opened
<1> QED
    BY <1>7, <1>8, <1>14

\* The children of what replaces a branch stay in the tree.
LEMMA KidsStay ==
  ASSUME NEW s, NEW g, NEW d \in Inner(s, g), NEW w, NEW R, NEW l, Half(s, g, d, w, R, l),
         NEW u, R = {u.orig, u.split} \ {0}, u.orig # 0,
         NEW i, g.hole[d] = i, NEW T, NEW kids \in Seq(T), kids = s.mem[d].kids, i \in 1 .. Len(kids),
         NEW j \in 1 .. Len(kids) + Extra(u)
  PROVE  WideKid(kids, i, u, j) \in g.pages \ {d}
<1>1. ASSUME NEW k \in 1 .. Len(kids), k # i PROVE kids[k] \in g.pages \ {d}
  <2>1. k \in Live(s, g, d)
      BY <1>1 DEF Live
  <2>2. kids[k] \in g.pages
      BY <2>1, Zenon DEF Half, Tree, Levelled
  <2>3. kids[k] # d
      BY <2>1, Zenon DEF Half
  <2> QED
      BY <2>2, <2>3
<1>2. ASSUME NEW r \in R PROVE r \in g.pages \ {d}
    BY DEF Half, Loose
<1>3. u.orig \in R /\ (u.split # 0 => u.split \in R)
    OBVIOUS
<1>4. Len(kids) \in Nat
    OBVIOUS
<1>5. CASE j < i
  <2>1. j \in 1 .. Len(kids) /\ j # i
      BY <1>4, <1>5
  <2> QED
      BY <1>1, <1>5, <2>1 DEF WideKid
<1>6. CASE j = i
  <2>1. ~(j < i)
      BY <1>6
  <2> QED
      BY <1>2, <1>3, <1>6, <2>1 DEF WideKid
<1>7. CASE j > i /\ u.split = 0
  <2>1. ~(j < i) /\ j # i
      BY <1>7
  <2>2. j \in 1 .. Len(kids)
      BY <1>4, <1>7 DEF Extra
  <2> QED
      BY <1>1, <1>7, <2>1, <2>2 DEF WideKid
<1>8. CASE j = i + 1 /\ u.split # 0
  <2>1. ~(j < i) /\ j # i
      BY <1>8
  <2> QED
      BY <1>2, <1>3, <1>8, <2>1 DEF WideKid
<1>9. CASE j > i + 1 /\ u.split # 0
  <2>1. ~(j < i) /\ j # i /\ j # i + 1
      BY <1>9
  <2>2. j - 1 \in 1 .. Len(kids) /\ j - 1 # i
      BY <1>4, <1>9 DEF Extra
  <2> QED
      BY <1>1, <1>9, <2>1, <2>2 DEF WideKid
<1>10. j < i \/ j = i \/ j = i + 1 \/ j > i + 1
    BY <1>4
<1>11. j = i + 1 => j > i
    BY <1>4
<1>12. j > i + 1 => j > i
    BY <1>4
<1> QED
    BY <1>5, <1>6, <1>7, <1>8, <1>9, <1>10, <1>11, <1>12

\* All the children of the new branch are in H.
KidsIn(a, H) ==
  DOMAIN a.kids = 1 .. Len(a.kids) /\ \A j \in DOMAIN a.kids : a.kids[j] \in H

\* So it is for the copies of a branch.
LEMMA PartKids ==
  ASSUME NEW s, NEW g, NEW d \in Inner(s, g), NEW w, NEW R, NEW l, Half(s, g, d, w, R, l),
         NEW u, R = {u.orig, u.split} \ {0}, u.orig # 0,
         NEW i, g.hole[d] = i, NEW T, NEW kids \in Seq(T), kids = s.mem[d].kids, i \in 1 .. Len(kids),
         NEW keys, NEW a, NEW flag, NEW c \in Nat, NEW n \in Nat, c + n <= Len(kids) + Extra(u),
         HasWide(a, flag, T, kids, keys, i, u, c, n)
  PROVE  KidsIn(a, g.pages \ {d})
<1>1. a.kids \in Seq(T) /\ Len(a.kids) = n /\ \A j \in 1 .. n : a.kids[j] = WideKid(kids, i, u, c + j)
    BY DEF HasWide
<1>2. DOMAIN a.kids = 1 .. n
    BY <1>1
<1>3. ASSUME NEW j \in 1 .. n PROVE a.kids[j] \in g.pages \ {d}
  <2>1. PICK e : e = c + j
      OBVIOUS
  <2>2. PICK m : m = Len(kids) + Extra(u)
      OBVIOUS
  <2>7. PICK k, f : k = Len(kids) /\ f = Extra(u)
      OBVIOUS
  <2>8. k \in Nat
      BY ONLY <2>7, kids \in Seq(T)
  <2>9. f \in {0, 1} /\ m = k + f /\ c + n <= m
      BY <2>2, <2>7 DEF Extra
  <2>5. m \in Nat /\ c + n <= m
      BY ONLY <2>8, <2>9
  <2>6. e \in 1 .. m
      BY ONLY <2>1, <2>5, c \in Nat, n \in Nat, j \in 1 .. n
  <2>3. e \in 1 .. Len(kids) + Extra(u)
      BY <2>2, <2>6, Zenon
  <2>4. WideKid(kids, i, u, e) \in g.pages \ {d}
      BY <2>3, KidsStay, Zenon
  <2> QED
      BY <1>1, <2>1, <2>4
<1> QED
    BY <1>1, <1>2, <1>3 DEF KidsIn

\* btree_branch_add hands up a branch with the interval of the one it replaces.
LEMMA BranchAddRanged ==
  ASSUME NEW g, Ascending(g), path # <<>>, NEW b, Ranged(st, g, b), Rises(st, b, path, up),
         NEW h, BranchWritten(g, h), Ascending(h)'
  PROVE  \E c : Ranged(st', h, c) /\ Rises(st', c, path', up')
<1>1. PICK p, l :
        /\ l \in Nat \ {0} /\ Half(st, g, Waiting.page, Tail(path), Ends, l)
        /\ Rewritten(st, g, st', h, {Waiting.page}, {p}, Ends, l)
        /\ HasWide(st'.mem[p], Parent.root, 1 .. st.end - 1, Parent.kids, Parent.keys, Waiting.child, up,
                   0, Len(Parent.kids) + Extra(up))
        /\ Hands(st', Tail(path), p, 0, up.mid)
    BY Zenon DEF BranchWritten
<1>2. path' = Tail(path) /\ up' = [orig |-> p, split |-> 0, mid |-> up.mid]
    BY <1>1, Zenon DEF Hands
<1>3. PICK d, w, t, lo, hi, T : d = Waiting.page /\ w = Tail(path) /\ t = st' /\ lo = b.lo[d] /\ hi = b.hi[d]
                                /\ T = 1 .. st.end - 1
    OBVIOUS
<1>4. /\ d \in Inner(st, g) /\ g.hole[d] = Waiting.child /\ Waiting.child \in 1 .. Len(Parent.kids)
      /\ Parent = st.mem[d] /\ Parent.kids \in Seq(1 .. st.end - 1) /\ up.orig # 0
    BY <1>3, AtBranch, Zenon
<1>5. PICK kids, keys, i, m : kids = Parent.kids /\ keys = Parent.keys /\ i = Waiting.child
                              /\ m = Len(kids) + Extra(up)
    OBVIOUS
<1>6. /\ Slots(st, b, w) /\ Slotted(st, b, d, w, 1)
      /\ Opened(b, kids, keys, i, up, lo, hi)
    BY <1>3, <1>5, WaitingOpened, Zenon
<1>21. HasWide(t.mem[p], Parent.root, T, kids, keys, i, up, 0, m) /\ kids \in Seq(T)
    BY <1>1, <1>3, <1>4, <1>5
<1>7. /\ kids = st.mem[d].kids /\ g.hole[d] = i /\ i \in 1 .. Len(kids)
      /\ Half(st, g, d, w, Ends, l) /\ Rewritten(st, g, t, h, {d}, {p}, Ends, l)
    BY <1>1, <1>3, <1>4, <1>5
<1>8. m \in Nat /\ m >= 1 /\ m = 0 + m /\ m <= m /\ 0 \in Nat /\ 0 + m <= m
  <2>1. PICK k, e : k = Len(kids) /\ e = Extra(up)
      OBVIOUS
  <2>2. k \in Nat /\ i \in 1 .. k /\ m = k + e
      BY ONLY <1>5, <1>7, <1>21, <2>1
  <2>3. e \in {0, 1}
      BY <2>1 DEF Extra
  <2> QED
      BY ONLY <2>2, <2>3
<1>9. lo = WideLow(keys, i, up, 0, lo) /\ hi = WideHigh(keys, i, up, m, m, hi)
    BY DEF WideLow, WideHigh
<1>10. Lies(b, t.mem[p], lo, hi) /\ lo \in Nat /\ hi \in Nat /\ lo <= lo /\ hi <= hi
  <2>1. 0 < m /\ m - 0 = m
      BY <1>8
  <2>2. Copies(t.mem[p], Parent.root, T, kids, keys, i, up, 0, m, m)
      BY <1>5, <1>8, <1>21, <2>1 DEF Copies
  <2> QED
      BY ONLY <1>6, <1>9, <2>2, PartLies
<1>11. Ends = {up.orig, up.split} \ {0}
    BY DEF Ends
<1>12. KidsIn(t.mem[p], g.pages \ {d})
    BY ONLY <1>4, <1>5, <1>7, <1>8, <1>11, <1>21, PartKids
<1> DEFINE u == [orig |-> p, split |-> 0, mid |-> up.mid]
           x == [lo |-> [q \in {p} |-> lo], hi |-> [q \in {p} |-> hi]]
<1>13. x.lo[p] = lo /\ x.hi[p] = hi /\ u.orig = p /\ u.split = 0
    OBVIOUS
<1>14. p # 0
    BY <1>2 DEF Ascending
<1> HIDE DEF u, x
<1>15. Handed(x, u, lo, hi)
    BY <1>13 DEF Handed
<1>16. Inside(g, t, b, x, d, {p})
  <2>1. Increasing(t.mem[p].keys, lo, hi)
      BY <1>10 DEF Lies
  <2>2. DOMAIN t.mem[p].kids = 1 .. Len(t.mem[p].kids) /\ \A j \in DOMAIN t.mem[p].kids : t.mem[p].kids[j] \in g.pages \ {d}
      BY <1>12, Zenon DEF KidsIn
  <2>3. ASSUME NEW n \in {p}
        PROVE  /\ x.lo[n] \in Nat /\ x.hi[n] \in Nat /\ b.lo[d] <= x.lo[n] /\ x.hi[n] <= b.hi[d]
               /\ Increasing(t.mem[n].keys, x.lo[n], x.hi[n]) /\ Lies(b, t.mem[n], x.lo[n], x.hi[n])
               /\ n = p
      BY <1>3, <1>10, <1>13, <2>1
  <2> QED
      BY <2>2, <2>3 DEF Inside
<1>17. {p} = {u.orig, u.split} \ {0} /\ u.orig # 0
    BY <1>13, <1>14
<1>18. Handed(x, u, b.lo[d], b.hi[d])
    BY <1>3, <1>15
<1>19. Ranged(st, g, b)
    OBVIOUS
<1>20. \E c : Ranged(t, h, c) /\ Rises(t, c, w, u)
    BY ONLY <1>6, <1>7, <1>16, <1>17, <1>18, <1>19, Handing
<1> QED
    BY <1>2, <1>3, <1>20 DEF u

\* btree_branch_split hands up two branches that divide the interval of the one they
\* replace at the key it hands up with them.
LEMMA BranchHalvedRanged ==
  ASSUME NEW g, Ascending(g), path # <<>>, NEW b, Ranged(st, g, b), Rises(st, b, path, up),
         NEW h, BranchHalved(g, h), Ascending(h)'
  PROVE  \E c : Ranged(st', h, c) /\ Rises(st', c, path', up')
<1>1. PICK p, q, c, mid, l :
        /\ l \in Nat \ {0} /\ Half(st, g, Waiting.page, Tail(path), Ends, l)
        /\ p # q /\ q # 0 /\ up.split # 0 /\ Rewritten(st, g, st', h, {Waiting.page}, {p, q}, Ends, l)
        /\ c \in 2 .. Len(Parent.keys) + 1
        /\ HasWide(st'.mem[p], FALSE, 1 .. st.end - 1, Parent.kids, Parent.keys, Waiting.child, up, 0, c)
        /\ HasWide(st'.mem[q], FALSE, 1 .. st.end - 1, Parent.kids, Parent.keys, Waiting.child, up,
                   c, Len(Parent.keys) + 2 - c)
        /\ mid = WideKey(Parent.keys, Waiting.child, up, c)
        /\ Hands(st', Tail(path), p, q, mid)
    BY Zenon DEF BranchHalved
<1>2. path' = Tail(path) /\ up' = [orig |-> p, split |-> q, mid |-> mid]
    BY <1>1, Zenon DEF Hands
<1>3. PICK d, w, t, lo, hi, T : d = Waiting.page /\ w = Tail(path) /\ t = st' /\ lo = b.lo[d] /\ hi = b.hi[d]
                                /\ T = 1 .. st.end - 1
    OBVIOUS
<1>4. /\ d \in Inner(st, g) /\ g.hole[d] = Waiting.child /\ Waiting.child \in 1 .. Len(Parent.kids)
      /\ Parent = st.mem[d] /\ Parent.kids \in Seq(1 .. st.end - 1) /\ up.orig # 0
      /\ Len(Parent.kids) = Len(Parent.keys) + 1 /\ Len(Parent.keys) \in Nat
    BY <1>3, AtBranch, Zenon
<1>5. PICK kids, keys, i, m, n : kids = Parent.kids /\ keys = Parent.keys /\ i = Waiting.child
                              /\ m = Len(kids) + Extra(up) /\ n = Len(Parent.keys) + 2 - c
    OBVIOUS
<1>6. /\ Slots(st, b, w) /\ Slotted(st, b, d, w, 1)
      /\ Opened(b, kids, keys, i, up, lo, hi)
    BY <1>3, <1>5, WaitingOpened, Zenon
<1>7. /\ HasWide(t.mem[p], FALSE, T, kids, keys, i, up, 0, c)
      /\ HasWide(t.mem[q], FALSE, T, kids, keys, i, up, c, n) /\ mid = WideKey(keys, i, up, c)
    BY <1>1, <1>3, <1>5
<1>27. kids \in Seq(T)
    BY <1>3, <1>4, <1>5
<1>8. /\ kids = st.mem[d].kids /\ g.hole[d] = i /\ i \in 1 .. Len(kids)
      /\ Half(st, g, d, w, Ends, l) /\ Rewritten(st, g, t, h, {d}, {p, q}, Ends, l)
    BY <1>1, <1>3, <1>4, <1>5
<1>9. /\ c \in Nat /\ c >= 1 /\ n \in Nat /\ n >= 1 /\ m \in Nat /\ c = 0 + c /\ m = c + n
      /\ c <= m /\ m <= m /\ c # m /\ c # 0 /\ 0 \in Nat /\ 0 + c <= m /\ c + n <= m
  <2>1. Len(kids) = Len(Parent.keys) + 1 /\ Len(Parent.keys) \in Nat /\ Extra(up) = 1 /\ c \in 2 .. Len(Parent.keys) + 1
      BY <1>1, <1>4, <1>5 DEF Extra
  <2> QED
      BY <1>5, <2>1
<1>10. lo = WideLow(keys, i, up, 0, lo) /\ mid = WideHigh(keys, i, up, m, c, hi)
    BY <1>7, <1>9 DEF WideLow, WideHigh
<1>11. mid = WideLow(keys, i, up, c, lo) /\ hi = WideHigh(keys, i, up, m, m, hi)
    BY <1>7, <1>9 DEF WideLow, WideHigh
<1>12. Lies(b, t.mem[p], lo, mid) /\ lo \in Nat /\ mid \in Nat /\ mid <= hi
  <2>1. 0 < c /\ c - 0 = c
      BY <1>9
  <2>4. PICK flag : flag = FALSE
      OBVIOUS
  <2>2. Copies(t.mem[p], flag, T, kids, keys, i, up, 0, c, m)
      BY <1>5, <1>7, <1>9, <1>27, <2>1, <2>4 DEF Copies
  <2>3. Lies(b, t.mem[p], lo, mid) /\ lo \in Nat /\ mid \in Nat /\ lo <= lo /\ mid <= hi
      BY ONLY <1>6, <1>10, <2>2, PartLies
  <2> QED
      BY <2>3
<1>13. Lies(b, t.mem[q], mid, hi) /\ hi \in Nat /\ lo <= mid /\ mid < hi
  <2>1. c < m /\ m - c = n
      BY <1>9
  <2>4. PICK flag : flag = FALSE
      OBVIOUS
  <2>2. Copies(t.mem[q], flag, T, kids, keys, i, up, c, m, m)
      BY <1>5, <1>7, <1>9, <1>27, <2>1, <2>4 DEF Copies
  <2>3. /\ Lies(b, t.mem[q], mid, hi) /\ mid \in Nat /\ hi \in Nat /\ lo <= mid /\ hi <= hi
        /\ c # 0 => mid < hi
      BY ONLY <1>6, <1>11, <2>2, PartLies
  <2> QED
      BY <1>9, <2>3
<1>14. lo < mid
  <2>1. t.mem[p].keys \in Seq(Nat) /\ Len(t.mem[p].keys) = c - 1
      BY <1>7 DEF HasWide
  <2>2. c - 1 >= 1
      BY <1>1, <1>4
  <2>3. Increasing(t.mem[p].keys, lo, mid)
      BY <1>12 DEF Lies
  <2> QED
      BY <1>12, <2>1, <2>2, <2>3, Separates
<1>15. Ends = {up.orig, up.split} \ {0}
    BY DEF Ends
<1>16. KidsIn(t.mem[p], g.pages \ {d}) /\ KidsIn(t.mem[q], g.pages \ {d})
  <2>1. c + n <= Len(kids) + Extra(up) /\ 0 + c <= Len(kids) + Extra(up)
      BY <1>5, <1>9
  <2>2. KidsIn(t.mem[p], g.pages \ {d})
      BY ONLY <1>4, <1>7, <1>8, <1>9, <1>15, <1>27, <2>1, PartKids
  <2>3. KidsIn(t.mem[q], g.pages \ {d})
      BY ONLY <1>4, <1>7, <1>8, <1>9, <1>15, <1>27, <2>1, PartKids
  <2> QED
      BY <2>2, <2>3
<1>17. PICK x : Parted(x, p, q, lo, mid, hi)
    BY <1>1, PartedIs
<1>18. x.lo[p] = lo /\ x.hi[p] = mid /\ x.lo[q] = mid /\ x.hi[q] = hi
    BY <1>17 DEF Parted
<1> DEFINE u == [orig |-> p, split |-> q, mid |-> mid]
<1>19. u.orig = p /\ u.split = q /\ u.mid = mid
    OBVIOUS
<1>20. p # 0
    BY <1>2 DEF Ascending
<1> HIDE DEF u
<1>21. Handed(x, u, lo, hi)
    BY <1>1, <1>13, <1>14, <1>18, <1>19 DEF Handed
<1>22. Inside(g, t, b, x, d, {p, q})
  <2>1. lo <= lo /\ hi <= hi
      BY <1>12, <1>13
  <2>2. Increasing(t.mem[p].keys, lo, mid) /\ Increasing(t.mem[q].keys, mid, hi)
      BY <1>12, <1>13 DEF Lies
  <2>3. ASSUME NEW z \in {p, q}
        PROVE  /\ x.lo[z] \in Nat /\ x.hi[z] \in Nat /\ b.lo[d] <= x.lo[z] /\ x.hi[z] <= b.hi[d]
               /\ Increasing(t.mem[z].keys, x.lo[z], x.hi[z]) /\ Lies(b, t.mem[z], x.lo[z], x.hi[z])
               /\ KidsIn(t.mem[z], g.pages \ {d})
      BY <1>3, <1>12, <1>13, <1>16, <1>18, <2>1, <2>2
  <2> QED
      BY <2>3 DEF Inside, KidsIn
<1>23. {p, q} = {u.orig, u.split} \ {0} /\ u.orig # 0
    BY <1>1, <1>19, <1>20
<1>24. Handed(x, u, b.lo[d], b.hi[d])
    BY <1>3, <1>21
<1>25. Ranged(st, g, b)
    OBVIOUS
<1>26. \E e : Ranged(t, h, e) /\ Rises(t, e, w, u)
    BY ONLY <1>6, <1>8, <1>22, <1>23, <1>24, <1>25, Handing
<1> QED
    BY <1>2, <1>3, <1>26 DEF u

\* The whole tree has the interval of all keys without the overflow bit.
Spans(b, r) == b.lo[r] = 0 /\ b.hi[r] = OverflowBit

\* The root that btree_add ends with has this interval.
LEMMA RootRanged ==
  ASSUME NEW g, Ascending(g), path = <<>>, NEW b, Ranged(st, g, b), Rises(st, b, path, up),
         NEW h, RootWritten(g, h)
  PROVE  \E c : Ranged(st', h, c) /\ Spans(c, root')
<1>1. Handed(b, up, 0, OverflowBit)
  <2>1. 1 > Len(path)
      OBVIOUS
  <2> QED
      BY <2>1, Zenon DEF Rises, SlotLow, SlotHigh
<1>2. OverflowBit \in Nat /\ OverflowBit >= 1
    BY Sizes
<1>3. CASE up.split = 0
  <2>1. h = g /\ st' = st /\ root' = up.orig
      BY <1>3 DEF RootWritten
  <2>2. Ranged(st', h, b)
      BY <2>1
  <2>3. Spans(b, up.orig)
      BY <1>1, <1>3 DEF Handed, Spans
  <2> QED
      BY <2>1, <2>2, <2>3
<1>4. CASE up.split # 0
  <2>1. PICK t, r, l : t = st' /\ r = root' /\ l = g.level[up.orig] + 1
      OBVIOUS
  <2>2. /\ Rewritten(st, g, t, h, {}, {r}, Ends, l)
        /\ t.mem[r].kind = "branch" /\ t.mem[r].keys = <<up.mid>>
        /\ t.mem[r].kids = <<up.orig, up.split>>
      BY <1>4, <2>1, Zenon DEF RootWritten
  <2>3. /\ b.lo[up.orig] = 0 /\ b.hi[up.orig] = up.mid
        /\ b.lo[up.split] = up.mid /\ b.hi[up.split] = OverflowBit
        /\ 0 < up.mid /\ up.mid < OverflowBit
      BY <1>1, <1>4 DEF Handed
  <2>4. up.mid \in Nat /\ up.orig # 0
      BY DEF Ascending
  <2>5. PICK x : x = [lo |-> [n \in {r} |-> 0], hi |-> [n \in {r} |-> OverflowBit]]
      OBVIOUS
  <2>6. x.lo[r] = 0 /\ x.hi[r] = OverflowBit
      BY <2>5
  <2>7. PICK keys, kids : keys = t.mem[r].keys /\ kids = t.mem[r].kids
      OBVIOUS
  <2>8. /\ Len(keys) = 1 /\ keys[1] = up.mid
        /\ DOMAIN kids = {1, 2} /\ kids[1] = up.orig /\ kids[2] = up.split
      BY <2>2, <2>7
  <2>9. Increasing(keys, 0, OverflowBit)
      BY <2>3, <2>4, <2>8 DEF Increasing
  <2>10. up.orig \in g.pages /\ up.split \in g.pages
      BY <1>4, <2>4 DEF Ascending, Loose, Ends
  <2>11. /\ b.lo[kids[1]] = GapLow(keys, 1, 0) /\ b.hi[kids[1]] = GapHigh(keys, 1, OverflowBit)
         /\ b.lo[kids[2]] = GapLow(keys, 2, 0) /\ b.hi[kids[2]] = GapHigh(keys, 2, OverflowBit)
      BY <2>3, <2>8 DEF GapLow, GapHigh
  <2>12. ASSUME NEW p \in g.pages PROVE g.level[p] # l
    <3>1. UpTo(g, g.level[up.orig] + Len(path)) /\ Tree(st, g)
        BY DEF Ascending
    <3>2. g.level[p] <= g.level[up.orig] + Len(path)
        BY <3>1 DEF UpTo
    <3>3. g.level[up.orig] \in Nat /\ g.level[p] \in Nat
        BY <2>10, <3>1 DEF Tree, Levelled
    <3>4. Len(path) = 0
        OBVIOUS
    <3> QED
        BY <2>1, <3>2, <3>3, <3>4
  <2>13. Fits(g, t, b, x, {}, {r}, l)
    <3>1. \A n \in {r} : /\ x.lo[n] \in Nat /\ x.hi[n] \in Nat /\ x.hi[n] <= OverflowBit
                         /\ Increasing(t.mem[n].keys, x.lo[n], x.hi[n])
        BY <1>2, <2>6, <2>7, <2>9
    <3>2. \A n \in {r} : t.mem[n].kind = "branch" => \A j \in DOMAIN t.mem[n].kids :
            /\ t.mem[n].kids[j] \in g.pages \ {}
            /\ b.lo[t.mem[n].kids[j]] = GapLow(t.mem[n].keys, j, x.lo[n])
            /\ b.hi[t.mem[n].kids[j]] = GapHigh(t.mem[n].keys, j, x.hi[n])
      <4>1. ASSUME NEW j \in DOMAIN kids
            PROVE  /\ kids[j] \in g.pages /\ b.lo[kids[j]] = GapLow(keys, j, 0)
                   /\ b.hi[kids[j]] = GapHigh(keys, j, OverflowBit)
        <5>1. j = 1 \/ j = 2
            BY <2>8
        <5> QED
            BY <2>8, <2>10, <2>11, <5>1
      <4> QED
          BY <2>6, <2>7, <4>1
    <3>3. \A m, n \in {r} : m # n => AwayFrom(x, m, x, n)
        OBVIOUS
    <3>4. \A n \in {r}, p \in g.pages \ {} : g.level[p] = l => AwayFrom(x, n, b, p)
        BY <2>12
    <3> QED
        BY <3>1, <3>2, <3>3, <3>4, Zenon DEF Fits
  <2>14. Levelled(st, g)
      BY DEF Ascending, Tree
  <2>15. PICK c : Ranged(t, h, c) /\ Agrees(c, x, {r})
      BY <2>2, <2>13, <2>14, Reranging, Zenon
  <2>16. Spans(c, r)
      BY <2>6, <2>15 DEF Agrees, Spans
  <2> QED
      BY <2>1, <2>15, <2>16
<1> QED
    BY <1>3, <1>4

\* The empty leaf that btree_create makes has all keys for its interval.
LEMMA EmptyRanged ==
  ASSUME NEW s, NEW h, NEW r, h.pages = {r}, s.mem[r] = EmptyRoot
  PROVE  \E c : Ranged(s, h, c) /\ Spans(c, r)
<1>1. PICK c : c = [lo |-> [n \in {r} |-> 0], hi |-> [n \in {r} |-> OverflowBit]]
    OBVIOUS
<1>2. c.lo[r] = 0 /\ c.hi[r] = OverflowBit
    BY <1>1
<1>3. OverflowBit \in Nat
    BY Sizes
<1>4. s.mem[r].kind = "leaf" /\ s.mem[r].keys = <<>>
    BY DEF EmptyRoot, Leaf
<1>5. Increasing(s.mem[r].keys, 0, OverflowBit)
    BY <1>4 DEF Increasing
<1>6. RangedPages(s, h, c)
    BY <1>2, <1>3, <1>5 DEF RangedPages
<1>7. RangedKids(s, h, c)
    BY <1>4 DEF RangedKids, Inner
<1>8. RangedApart(h, c)
    BY DEF RangedApart
<1> QED
    BY <1>2, <1>6, <1>7, <1>8 DEF Ranged, Spans

\* btree_add begins at the root, which has the interval of the whole tree.
LEMMA BeginSinks ==
  ASSUME NEW g, Idle(g), NEW b, Spans(b, root), NEW in \in Inputs, BeginAdd(in)
  PROVE  Sinks(b)'
<1>1. st' = st /\ path' = <<>> /\ cur' = root /\ call' = in
    BY DEF BeginAdd, Idle
<1>2. 1 > Len(<<>>) /\ Len(<<>>) = 0
    OBVIOUS
<1>3. Slotted(st, b, root, <<>>, 1)
    BY <1>2 DEF Slotted, SlotLow, SlotHigh, Spans
<1>4. Slots(st, b, <<>>)
    BY <1>2 DEF Slots
<1>5. in[1] \in 0 .. OverflowBit - 1 /\ OverflowBit \in Nat
    BY BTreeAssumption, Sizes
<1>6. b.lo[root] <= in[1] /\ in[1] < b.hi[root]
    BY <1>5 DEF Spans
<1> QED
    BY <1>1, <1>3, <1>4, <1>6 DEF Sinks

\* The child that a search goes to has the key in its interval.
LEMMA ChildHolds ==
  ASSUME NEW keys \in Seq(Nat), NEW key \in Nat, NEW lo \in Nat, NEW hi \in Nat, lo <= key, key < hi,
         NEW pg, pg.keys = keys, NEW i, i = BranchFind(pg, key)
  PROVE  i \in 1 .. Len(keys) + 1 /\ GapLow(keys, i, lo) <= key /\ key < GapHigh(keys, i, hi)
<1>1. /\ i \in 1 .. Len(keys) + 1
      /\ \A j \in 1 .. Len(keys) : j < i => keys[j] <= key
      /\ i <= Len(keys) => key < keys[i]
    BY BranchFindIs, Zenon
<1>2. GapLow(keys, i, lo) <= key
  <2>1. CASE i = 1
      BY <2>1 DEF GapLow
  <2>2. CASE i # 1
    <3>1. i - 1 \in 1 .. Len(keys) /\ i - 1 < i
        BY <1>1, <2>2
    <3> QED
        BY <1>1, <2>2, <3>1 DEF GapLow
  <2> QED
      BY <2>1, <2>2
<1>3. key < GapHigh(keys, i, hi)
  <2>1. i = Len(keys) + 1 \/ i <= Len(keys)
      BY <1>1
  <2> QED
      BY <1>1, <2>1 DEF GapHigh
<1> QED
    BY <1>1, <1>2, <1>3

\* The child of a branch that is all in place, and its interval.
LEMMA ChildRanged ==
  ASSUME NEW g, Tree(st, g), NEW b, Ranged(st, g, b), NEW p \in Settled(g), NEW pg, pg = st.mem[p],
         pg.kind = "branch", NEW key \in Nat, b.lo[p] <= key, key < b.hi[p],
         NEW i, i = BranchFind(pg, key), NEW q, q = pg.kids[i]
  PROVE  /\ b.lo[q] = GapLow(pg.keys, i, b.lo[p]) /\ b.hi[q] = GapHigh(pg.keys, i, b.hi[p])
         /\ b.lo[q] <= key /\ key < b.hi[q]
         /\ i \in DOMAIN pg.kids
<1>1. PageFits(pg, st.end) /\ p \in g.pages
    BY DEF Settled, Tree, Owned, StoreFits
<1>2. pg.keys \in Seq(Nat) /\ DOMAIN pg.kids = 1 .. Len(pg.keys) + 1
    BY <1>1 DEF PageFits
<1>3. PICK lo, hi : lo = b.lo[p] /\ hi = b.hi[p]
    OBVIOUS
<1>4. lo \in Nat /\ hi \in Nat /\ lo <= key /\ key < hi
    BY <1>1, <1>3 DEF Ranged, RangedPages
<1>5. i \in 1 .. Len(pg.keys) + 1 /\ GapLow(pg.keys, i, lo) <= key /\ key < GapHigh(pg.keys, i, hi)
    BY <1>2, <1>4, ChildHolds
<1>6. p \in Inner(st, g) /\ i \in Live(st, g, p)
    BY <1>2, <1>5, SettledKids
<1>7. b.lo[q] = GapLow(pg.keys, i, lo) /\ b.hi[q] = GapHigh(pg.keys, i, hi)
    BY <1>3, <1>6, Zenon DEF Ranged, RangedKids
<1> QED
    BY <1>2, <1>3, <1>5, <1>7

\* btree_recur_add calls itself for the child whose interval has the key.
LEMMA DescendSinks ==
  ASSUME NEW g, Descending(g), NEW b, Ranged(st, g, b), Sinks(b), Descend
  PROVE  Sinks(b)'
<1>1. PICK i, p, key : i = BranchFind(At, call[1]) /\ p = At.kids[i] /\ key = call[1]
    OBVIOUS
<1>2. PICK e : e = [page |-> cur, child |-> i]
    OBVIOUS
<1>3. PICK w : w = <<e>> \o path
    OBVIOUS
<1>4. st' = st /\ path' = w /\ cur' = p /\ call' = call
    BY <1>1, <1>2, <1>3 DEF Descend
<1>5. Tree(st, g) /\ cur \in Settled(g) /\ call[1] \in Nat
    BY InputIs DEF Descending, Whole, Settled
<1>6. At.kind = "branch" /\ At = st.mem[cur]
    BY DEF Descend, At
<1>7. /\ b.lo[p] = GapLow(At.keys, i, b.lo[cur]) /\ b.hi[p] = GapHigh(At.keys, i, b.hi[cur])
      /\ b.lo[p] <= call[1] /\ call[1] < b.hi[p]
    BY <1>1, <1>5, <1>6, ChildRanged DEF Sinks
<1>8. path \in Seq([page : g.pages, child : Nat])
    BY WaitsIs DEF Descending
<1>9. InFront(w, path) /\ Len(w) >= 1 /\ w[1] = e
  <2>1. PICK H : H = [page : g.pages, child : Nat]
      OBVIOUS
  <2>3. path \in Seq(H)
      BY <1>8, <2>1
  <2>4. PICK P : P = H \cup {e}
      OBVIOUS
  <2>2. path \in Seq(P) /\ e \in P
      BY ONLY <2>3, <2>4
  <2> QED
      BY <1>3, <2>2 DEF InFront
<1>10. Slots(st, b, w)
  <2>1. Slots(st, b, path) /\ Slotted(st, b, w[1].page, path, 1)
      BY <1>2, <1>9 DEF Sinks
  <2> QED
      BY <1>9, <2>1, SlotsShift
<1>11. Slotted(st, b, p, w, 1)
  <2>1. ~(1 > Len(w)) /\ w[1].page = cur /\ w[1].child = i
    <3>1. Len(w) \in Nat
        BY <1>9 DEF InFront
    <3> QED
        BY <1>2, <1>9, <3>1
  <2>2. SlotLow(st, b, w, 1) = GapLow(At.keys, i, b.lo[cur]) /\ SlotHigh(st, b, w, 1) = GapHigh(At.keys, i, b.hi[cur])
      BY <1>6, <2>1, Zenon DEF SlotLow, SlotHigh
  <2> QED
      BY <1>7, <2>2 DEF Slotted
<1> QED
    BY <1>4, <1>7, <1>10, <1>11 DEF Sinks

-----------------------------------------------------------------------------
(* Which pages stand below a page.  The rows are those of Below, told of a store s,   *)
(* so that a step that leaves the store alone leaves them alone.                      *)

\* Page p is in one of the rows below the pages of S.
Within(s, S, p) == \E F : Rows(F, s, S, MaxDepth) /\ \E d \in 0 .. MaxDepth : p \in F[d]

\* There is one sequence of rows.
LEMMA RowsUnique ==
  ASSUME NEW s, NEW S, NEW n \in Nat, NEW F, Rows(F, s, S, n), NEW G, Rows(G, s, S, n), NEW d \in 0 .. n
  PROVE  F[d] = G[d]
<1>1. /\ F[0] = S /\ \A e \in 1 .. n : F[e] = Lower(s, F[e - 1])
      /\ G[0] = S /\ \A e \in 1 .. n : G[e] = Lower(s, G[e - 1])
    BY DEF Rows
<1> DEFINE Bad == {e \in 0 .. n : F[e] # G[e]}
<1>2. Bad = {}
  <2>1. SUFFICES ASSUME Bad # {} PROVE FALSE
      OBVIOUS
  <2>2. Bad \in SUBSET Nat
      OBVIOUS
  <2>3. PICK e \in Bad : \A j \in Bad : e <= j
      BY <2>1, <2>2, NatMin, Zenon
  <2>4. e \in 0 .. n /\ F[e] # G[e]
      BY <2>3
  <2>5. e # 0
      BY <1>1, <2>4
  <2>6. PICK j : j = e - 1
      OBVIOUS
  <2>7. j \in 0 .. n /\ ~(e <= j) /\ e \in 1 .. n
      BY <2>4, <2>5, <2>6
  <2>8. F[j] = G[j]
    <3>1. j \notin Bad
      <4> HIDE DEF Bad
      <4> QED
          BY <2>3, <2>7
    <3> QED
        BY <2>7, <3>1
  <2>9. F[e] = Lower(s, F[j]) /\ G[e] = Lower(s, G[j])
      BY <1>1, <2>6, <2>7
  <2> QED
      BY <2>4, <2>8, <2>9
<1> QED
    BY <1>2

\* These are the pages of Below.
LEMMA WithinBelow ==
  ASSUME StoreFits(st), NEW S \in SUBSET DOMAIN st.mem
  PROVE  \A p : Within(st, S, p) <=> p \in Below(S)
<1>1. PICK n : n = MaxDepth
    OBVIOUS
<1>2. n \in Nat
    BY <1>1, DepthIs
<1>3. PICK F : Rows(F, st, S, n) /\ Row(S, n) = F
    BY <1>2, RowSteps
<1>4. DOMAIN F = 0 .. n
    BY <1>3 DEF Rows
<1>5. Below(S) = UNION Range(F)
    BY <1>1, <1>3 DEF Below
<1>6. \A p : p \in UNION Range(F) <=> \E d \in 0 .. n : p \in F[d]
    BY <1>4 DEF Range
<1>7. ASSUME NEW p, p \in Below(S) PROVE Within(st, S, p)
    BY <1>1, <1>3, <1>5, <1>6, <1>7 DEF Within
<1>8. ASSUME NEW p, Within(st, S, p) PROVE p \in Below(S)
  <2>1. PICK G : Rows(G, st, S, n) /\ \E d \in 0 .. n : p \in G[d]
      BY <1>1, <1>8 DEF Within
  <2>2. PICK d \in 0 .. n : p \in G[d]
      BY <2>1
  <2>3. F[d] = G[d]
      BY <1>2, <1>3, <2>1, RowsUnique
  <2> QED
      BY <1>5, <1>6, <2>2, <2>3
<1> QED
    BY <1>7, <1>8

\* The pages themselves are among them.
LEMMA WithinSelf ==
  ASSUME StoreFits(st), NEW S \in SUBSET DOMAIN st.mem, NEW p \in S
  PROVE  Within(st, S, p)
<1>1. PICK n : n = MaxDepth
    OBVIOUS
<1>2. n \in Nat /\ 0 \in 0 .. n
    BY <1>1, DepthIs
<1>3. PICK F : Rows(F, st, S, n)
    BY <1>2, RowSteps
<1>4. p \in F[0]
    BY <1>3 DEF Rows
<1> QED
    BY <1>1, <1>2, <1>3, <1>4 DEF Within

\* The rows reach the leaves of the tree below root r.
Shallow(g, r) == r \in Settled(g) /\ g.level[r] <= MaxDepth

\* Below the root there are pages of the tree, the children of each of them too.
LEMMA WithinTree ==
  ASSUME NEW g, Tree(st, g), NEW r, Shallow(g, r), NEW p, Within(st, {r}, p)
  PROVE  /\ p \in Settled(g)
         /\ \A q \in Kids(st.mem[p]) : Within(st, {r}, q)
<1>1. StoreFits(st) /\ Settled(g) \subseteq DOMAIN st.mem /\ Levelled(st, g)
    BY DEF Tree, Owned, StoreFits, Settled
<1>2. PICK n, S : n = MaxDepth /\ S = {r}
    OBVIOUS
<1>3. n \in Nat
    BY <1>2, DepthIs
<1>4. r \in Settled(g) /\ g.level[r] <= n
    BY <1>2 DEF Shallow
<1>5. S \in SUBSET DOMAIN st.mem
    BY <1>1, <1>2, <1>4
<1>6. PICK F, d : Rows(F, st, S, n) /\ d \in 0 .. n /\ p \in F[d]
    BY <1>2 DEF Within
<1>7. PICK G : Rows(G, st, S, n) /\ Row(S, n) = G
    BY <1>3, <1>5, <1>1, RowSteps
<1>8. p \in Row({r}, n)[d]
  <2>1. F[d] = G[d]
      BY <1>3, <1>6, <1>7, RowsUnique
  <2> QED
      BY <1>2, <1>6, <1>7, <2>1
<1>9. p \in Settled(g) /\ g.level[p] + d = g.level[r]
    BY <1>3, <1>4, <1>6, <1>8, RowLevel
<1>10. ASSUME NEW q \in Kids(st.mem[p]) PROVE Within(st, {r}, q)
  <2>1. st.mem[p].kind = "branch"
      BY DEF Kids
  <2>2. g.level[p] \in Nat /\ g.level[p] # 0 /\ g.level[r] \in Nat
      BY <1>1, <1>4, <1>9, <2>1 DEF Levelled, Settled
  <2>3. PICK e : e = d + 1
      OBVIOUS
  <2>4. e \in 1 .. n /\ e \in 0 .. n /\ e - 1 = d
      BY <1>3, <1>4, <1>6, <1>9, <2>2, <2>3
  <2>5. F[e] = Lower(st, F[d])
      BY <1>6, <2>4 DEF Rows
  <2>6. q \in F[e]
      BY <1>6, <2>5 DEF Lower
  <2> QED
      BY <1>2, <1>6, <2>4, <2>6 DEF Within
<1> QED
    BY <1>9, <1>10

\* What holds of the pages of S and of the children of any page that has it, holds of
\* all that is below.
LEMMA WithinClosed ==
  ASSUME StoreFits(st), NEW S \in SUBSET DOMAIN st.mem, NEW V, S \subseteq V,
         \A q \in V : Kids(st.mem[q]) \subseteq V, NEW p, Within(st, S, p)
  PROVE  p \in V
<1>1. PICK n : n = MaxDepth
    OBVIOUS
<1>2. n \in Nat
    BY <1>1, DepthIs
<1>3. PICK F, d : Rows(F, st, S, n) /\ d \in 0 .. n /\ p \in F[d]
    BY <1>1 DEF Within
<1>4. F[0] = S /\ \A e \in 1 .. n : F[e] = Lower(st, F[e - 1])
    BY <1>3 DEF Rows
<1> DEFINE Bad == {e \in 0 .. n : ~(F[e] \subseteq V)}
<1>5. Bad = {}
  <2>1. SUFFICES ASSUME Bad # {} PROVE FALSE
      OBVIOUS
  <2>2. Bad \in SUBSET Nat
      OBVIOUS
  <2>3. PICK e \in Bad : \A j \in Bad : e <= j
      BY <2>1, <2>2, NatMin, Zenon
  <2>4. e \in 0 .. n /\ ~(F[e] \subseteq V)
      BY <2>3
  <2>5. e # 0
      BY <1>4, <2>4
  <2>6. PICK j : j = e - 1
      OBVIOUS
  <2>11. e \in 0 .. n
      BY <2>4
  <2>7. j \in 0 .. n /\ ~(e <= j) /\ e \in 1 .. n
      BY ONLY <1>2, <2>5, <2>6, <2>11
  <2>8. F[j] \subseteq V
    <3>1. j \notin Bad
      <4> HIDE DEF Bad
      <4> QED
          BY <2>3, <2>7
    <3> QED
        BY <2>7, <3>1
  <2>9. F[e] = Lower(st, F[j])
      BY <1>4, <2>6, <2>7
  <2>10. F[e] \subseteq V
      BY <2>8, <2>9 DEF Lower
  <2> QED
      BY <2>4, <2>10
<1> QED
    BY <1>3, <1>5

\* The tree that the client has is not deeper than the rows.
LEMMA RootShallow ==
  ASSUME Counted, NEW g, Whole(st, g, root), Grown(g.level[root], Len(st.mem[root].keys)) <= adds
  PROVE  Shallow(g, root)
<1>1. root \in g.pages /\ g.hole[root] = 0 /\ Levelled(st, g) /\ Owned(st, g.pages \cup g.stacks)
    BY DEF Whole, Loose, Tree
<1>2. g.level[root] \in Nat /\ st.mem[root].kind \in {"leaf", "branch"}
    BY <1>1 DEF Levelled
<1>3. adds \in Int /\ adds <= MaxAdds
    BY Sizes DEF Counted
<1>4. PageFits(st.mem[root], st.end)
    BY <1>1 DEF Owned, StoreFits
<1>5. PICK keys, n : keys = st.mem[root].keys /\ n = Len(keys)
    OBVIOUS
<1>6. keys \in Seq(Nat)
    BY <1>2, <1>4, <1>5 DEF PageFits
<1>7. n \in Nat
    BY ONLY <1>5, <1>6
<1>8. g.level[root] <= MaxDepth
    BY <1>2, <1>3, <1>5, <1>7, NoDeeper, Zenon
<1> QED
    BY <1>1, <1>8 DEF Shallow, Settled

-----------------------------------------------------------------------------
(* The order of the keys, wherever a call is. *)

\* No leaf below root r has the key.
Absent(s, r, key) == \A p : Within(s, {r}, p) => key \notin KeysOf(s.mem[p])

\* Some leaf has it.
Present(s, r, key) == \E p : Within(s, {r}, p) /\ key \in KeysOf(s.mem[p])

\* Lookup f has reached a page of the tree with root r; if its key is in the tree it is
\* in the interval of that page.
Seeks(s, r, b, f) ==
  /\ Within(s, {r}, f.page)
  /\ f.had => Present(s, r, f.key) /\ b.lo[f.page] <= f.key /\ f.key < b.hi[f.page]

\* Where lookups wait for btree_add, none is running.
NoLookup == ConcurrentFind \/ find.page = 0

\* The intervals of the pages in a tree at rest, and of those a lookup has reached.
Resting(g, b) ==
  /\ root # 0 => Ranged(st, g, b) /\ Spans(b, root)
  /\ ConcurrentFind \/ find.page = 0 \/ (root # 0 /\ Seeks(st, root, b, find))

\* On the way down, with a key the tree has not.
Sinking(g, b) ==
  /\ Ranged(st, g, b) /\ Sinks(b)
  /\ Within(st, {root}, cur) /\ Absent(st, root, call[1])
  /\ NoLookup

\* On the way up.
Climbing(g, b) == Ranged(st, g, b) /\ Rises(st, b, path, up) /\ NoLookup

\* The pages have intervals as the place in btree_add calls for.
InOrder(g, b) ==
  \/ pc = "idle" /\ Idle(g) /\ Resting(g, b)
  \/ pc = "descend" /\ Descending(g) /\ Sinking(g, b)
  \/ pc = "ascend" /\ Ascending(g) /\ Climbing(g, b)

\* The inductive invariant where clients add no key twice: the pages are what the place
\* in the call calls for, and have intervals.
OInv == Counted /\ \E g, b : InOrder(g, b)

\* It has all of the other invariant.
LEMMA OInvHas ==
  ASSUME OInv
  PROVE  IInv
<1>1. PICK g, b : InOrder(g, b)
    BY DEF OInv
<1>2. Formed(g)
    BY <1>1 DEF InOrder, Formed
<1> QED
    BY <1>2 DEF OInv, IInv

\* The keys of a leaf lie in its interval as they are, without the overflow bit.
LEMMA KeysLie ==
  ASSUME NEW g, Tree(st, g), NEW b, Ranged(st, g, b), NEW p \in g.pages, NEW key \in KeysOf(st.mem[p])
  PROVE  /\ st.mem[p].kind = "leaf" /\ key \in Nat
         /\ b.lo[p] <= key /\ key < b.hi[p] /\ key < OverflowBit
         /\ \E i \in 1 .. Len(st.mem[p].keys) : st.mem[p].keys[i] = key
<1>1. PICK i \in 1 .. Len(st.mem[p].keys) : key = KeyGet(st.mem[p].keys[i])
    BY DEF KeysOf
<1>2. st.mem[p].kind = "leaf"
    BY DEF KeysOf
<1>3. PageFits(st.mem[p], st.end)
    BY DEF Tree, Owned, StoreFits
<1>4. PICK keys, lo, hi : keys = st.mem[p].keys /\ lo = b.lo[p] /\ hi = b.hi[p]
    OBVIOUS
<1>5. keys \in Seq(Nat)
    BY <1>2, <1>3, <1>4 DEF PageFits
<1>6. lo \in Nat /\ hi \in Nat /\ hi <= OverflowBit /\ Increasing(keys, lo, hi)
    BY <1>4 DEF Ranged, RangedPages
<1>7. PICK k : k = keys[i]
    OBVIOUS
<1>8. i \in 1 .. Len(keys) /\ k \in Nat
    BY <1>1, <1>4, <1>5, <1>7
<1>9. lo <= k /\ k < hi
    BY <1>6, <1>7, <1>8 DEF Increasing
<1>10. k < OverflowBit
    BY <1>6, <1>8, <1>9, Sizes
<1>11. KeyGet(k) = k
    BY <1>8, <1>10, KeyIs
<1>12. key = k
    BY <1>1, <1>4, <1>7, <1>11
<1> QED
    BY <1>2, <1>4, <1>7, <1>8, <1>9, <1>10, <1>12

\* A leaf that has a key, as it is, has it where btree_leaf_find looks.
LEMMA FoundThere ==
  ASSUME NEW pg, pg.keys \in Seq(Nat), NEW lo, NEW hi, Increasing(pg.keys, lo, hi),
         NEW i \in 1 .. Len(pg.keys), NEW key \in Nat, pg.keys[i] = key, key < OverflowBit
  PROVE  LeafHas(pg, key)
<1>1. PICK j : j = LeafFind(pg, key)
    OBVIOUS
<1>2. PICK keys, m : keys = pg.keys /\ m = Len(keys)
    OBVIOUS
<1>3. /\ j \in 1 .. m + 1
      /\ \A k \in 1 .. m : k < j => keys[k] < key
      /\ j <= m => key <= keys[j]
    BY <1>1, <1>2, LeafFindIs, Zenon
<1>4. keys \in Seq(Nat) /\ m \in Nat /\ i \in 1 .. m /\ keys[i] = key
    BY <1>2
<1>9. m = Len(keys)
    BY <1>2
<1>5. ~(i < j)
    BY <1>3, <1>4
<1>6. j \in 1 .. m /\ j <= m
    BY <1>3, <1>4, <1>5
<1>7. j = i
  <2>1. CASE j < i
    <3>1. keys[j] < keys[i]
        BY <1>2, <1>4, <1>6, <2>1 DEF Increasing
    <3>2. keys[j] \in Nat
        BY ONLY <1>4, <1>6, <1>9
    <3> QED
        BY <1>3, <1>4, <1>6, <3>1, <3>2
  <2> QED
      BY <1>4, <1>5, <1>6, <2>1
<1>8. KeyGet(keys[j]) = key
    BY <1>4, <1>7, KeyIs
<1> QED
    BY <1>1, <1>2, <1>6, <1>8, Zenon DEF LeafHas

\* What KeysBelow collects.
LEMMA PresentBelow ==
  ASSUME StoreFits(st), NEW r \in DOMAIN st.mem, NEW key
  PROVE  key \in KeysBelow({r}) <=> Present(st, r, key)
<1>1. \A p : Within(st, {r}, p) <=> p \in Below({r})
    BY WithinBelow
<1> QED
    BY <1>1, Zenon DEF KeysBelow, Present

\* A tree at rest, and the page of its root.
LEMMA RootStands ==
  ASSUME Counted, NEW g, Idle(g), root # 0
  PROVE  /\ Whole(st, g, root) /\ Tree(st, g) /\ Shallow(g, root) /\ StoreFits(st)
         /\ root \in DOMAIN st.mem /\ root \in g.pages /\ root \in Settled(g)
<1>1. Whole(st, g, root) /\ Grown(g.level[root], Len(st.mem[root].keys)) <= adds
    BY DEF Idle
<1>2. Tree(st, g) /\ root \in g.pages /\ StoreFits(st) /\ root \in 2 .. st.end - 1 /\ DOMAIN st.mem = 1 .. st.end - 1
      /\ st.end \in Nat
    BY <1>1 DEF Whole, Loose, Tree, Owned, StoreFits
<1>3. Shallow(g, root)
    BY <1>1, RootShallow
<1>4. root \in DOMAIN st.mem
    BY <1>2
<1> QED
    BY <1>1, <1>2, <1>3, <1>4 DEF Shallow

\* At the start there is no tree and no lookup.
LEMMA OInvInit ==
  ASSUME Init
  PROVE  OInv
<1>1. IInv
    BY IInvInit
<1>2. PICK g : Formed(g)
    BY <1>1 DEF IInv
<1>3. Idle(g)
    BY <1>2 DEF Formed, Init
<1>4. \A b : Resting(g, b)
    BY DEF Resting, Init, NoFind
<1> QED
    BY <1>1, <1>3, <1>4 DEF OInv, InOrder, IInv, Init

\* btree_create: the new root has all keys for its interval.
LEMMA OCreate ==
  ASSUME OInv, Create
  PROVE  OInv'
<1>1. PICK g, b : InOrder(g, b)
    BY DEF OInv
<1>2. Idle(g) /\ Resting(g, b) /\ adds \in Nat
    BY <1>1, Sizes DEF InOrder, Create, OInv, Counted
<1>3. PICK h : Idle(h)' /\ h.pages = {root'} /\ st'.mem[root'] = EmptyRoot
    BY <1>2, CreateFormed
<1>4. PICK c : Ranged(st', h, c) /\ Spans(c, root')
    BY <1>3, EmptyRanged
<1>5. Resting(h, c)'
  <2>1. ConcurrentFind \/ find'.page = 0
      BY <1>2 DEF Resting, Create
  <2> QED
      BY <1>4, <2>1 DEF Resting
<1>6. pc' = "idle"
    BY DEF Create
<1>7. InOrder(h, c)'
    BY <1>3, <1>5, <1>6 DEF InOrder
<1>8. Counted'
    BY OInvHas, CreateStep DEF IInv
<1> QED
    BY <1>7, <1>8 DEF OInv

\* btree_destroy: no tree, no intervals.
LEMMA ODestroy ==
  ASSUME OInv, Destroy
  PROVE  OInv'
<1>1. PICK g, b : InOrder(g, b)
    BY DEF OInv
<1>2. Idle(g)
    BY <1>1 DEF InOrder, Destroy
<1>3. PICK h : Idle(h)'
    BY <1>2, DestroyFormed
<1>4. Resting(h, b)'
    BY DEF Resting, Destroy
<1>5. pc' = "idle"
    BY DEF Destroy
<1>6. InOrder(h, b)'
    BY <1>3, <1>4, <1>5 DEF InOrder
<1>7. Counted'
    BY OInvHas, DestroyStep DEF IInv
<1> QED
    BY <1>6, <1>7 DEF OInv

\* btree_add begins, with a key the tree has not: clients add none twice.
LEMMA OBeginAdd ==
  ASSUME AllowDups = FALSE, OInv, NEW in \in Inputs, BeginAdd(in)
  PROVE  OInv'
<1>1. PICK g, b : InOrder(g, b)
    BY DEF OInv
<1>2. Idle(g) /\ Resting(g, b) /\ root # 0 /\ Counted /\ adds \in Nat
    BY <1>1, Sizes DEF InOrder, BeginAdd, OInv, Counted
<1>3. Descending(g)'
    BY <1>2, BeginAddFormed
<1>4. Ranged(st, g, b) /\ Spans(b, root)
    BY <1>2 DEF Resting
<1>5. /\ Tree(st, g) /\ StoreFits(st) /\ root \in DOMAIN st.mem
    BY <1>2, RootStands
<1>6. st' = st /\ root' = root /\ cur' = root /\ call' = in /\ find' = find /\ pc' = "descend"
    BY DEF BeginAdd
<1>7. Sinks(b)'
    BY <1>2, <1>4, BeginSinks
<1>8. Within(st, {root}, root)
    BY <1>5, WithinSelf
<1>9. Absent(st, root, in[1])
  <2>1. in[1] \notin KeysBelow({root})
      BY DEF BeginAdd
  <2>2. ~Present(st, root, in[1])
      BY <1>5, <2>1, PresentBelow
  <2> QED
      BY <2>2 DEF Present, Absent
<1>10. NoLookup'
    BY <1>6 DEF NoLookup, BeginAdd
<1>11. Sinking(g, b)'
    BY <1>4, <1>6, <1>7, <1>8, <1>9, <1>10 DEF Sinking
<1>12. InOrder(g, b)'
    BY <1>3, <1>6, <1>11 DEF InOrder
<1>13. Counted'
    BY OInvHas, BeginAddStep DEF IInv
<1> QED
    BY <1>12, <1>13 DEF OInv

\* The tree below the page btree_recur_add has reached.
LEMMA CurStands ==
  ASSUME Counted, NEW g, Descending(g)
  PROVE  Tree(st, g) /\ Shallow(g, root) /\ StoreFits(st) /\ cur \in Settled(g)
<1>1. Whole(st, g, root) /\ cur \in g.pages /\ Grown(g.level[root], Len(st.mem[root].keys)) + 1 <= adds
    BY DEF Descending
<1>2. root \in g.pages /\ g.hole[root] = 0 /\ Levelled(st, g) /\ Tree(st, g) /\ g.hole[cur] = 0
    BY <1>1 DEF Whole, Loose, Tree
<1>3. StoreFits(st) /\ PageFits(st.mem[root], st.end)
    BY <1>2 DEF Tree, Owned, StoreFits
<1>4. PICK keys, n : keys = st.mem[root].keys /\ n = Len(keys)
    OBVIOUS
<1>5. g.level[root] \in Nat /\ st.mem[root].kind \in {"leaf", "branch"}
    BY <1>2 DEF Levelled
<1>6. keys \in Seq(Nat)
    BY <1>3, <1>4, <1>5 DEF PageFits
<1>7. n \in Nat
    BY ONLY <1>4, <1>6
<1>8. Grown(g.level[root], n) \in Nat
    BY <1>5, <1>7, GrownIs
<1>9. Grown(g.level[root], n) <= adds
    BY <1>1, <1>4, <1>8 DEF Counted
<1> QED
    BY <1>1, <1>2, <1>3, <1>4, <1>9, RootShallow DEF Settled

\* btree_recur_add goes one page further down.
LEMMA ODescend ==
  ASSUME OInv, Descend
  PROVE  OInv'
<1>1. PICK g, b : InOrder(g, b)
    BY DEF OInv
<1>2. Descending(g) /\ Sinking(g, b) /\ Counted
    BY <1>1 DEF InOrder, Descend, OInv
<1>3. Descending(g)'
    BY <1>2, DescendFormed
<1>4. Ranged(st, g, b) /\ Sinks(b) /\ Within(st, {root}, cur) /\ Absent(st, root, call[1]) /\ NoLookup
    BY <1>2 DEF Sinking
<1>5. Sinks(b)'
    BY <1>2, <1>4, DescendSinks
<1>6. Tree(st, g) /\ Shallow(g, root) /\ cur \in Settled(g)
    BY <1>2, CurStands
<1>7. PICK i, p : i = BranchFind(At, call[1]) /\ p = At.kids[i]
    OBVIOUS
<1>8. /\ st' = st /\ root' = root /\ cur' = p /\ call' = call /\ find' = find /\ pc' = "descend"
      /\ At.kind = "branch" /\ At = st.mem[cur]
    BY <1>7 DEF Descend, At
<1>9. Within(st, {root}, p)
  <2>1. call[1] \in Nat
      BY <1>2, InputIs DEF Descending
  <2>2. i \in DOMAIN At.kids
      BY <1>4, <1>6, <1>7, <1>8, <2>1, ChildRanged DEF Sinks
  <2>3. p \in Kids(st.mem[cur])
      BY <1>7, <1>8, <2>2 DEF Kids, Range
  <2> QED
      BY <1>4, <1>6, <2>3, WithinTree
<1>10. NoLookup'
    BY <1>4, <1>8 DEF NoLookup
<1>11. Sinking(g, b)'
    BY <1>4, <1>5, <1>8, <1>9, <1>10 DEF Sinking
<1>12. InOrder(g, b)'
    BY <1>3, <1>8, <1>11 DEF InOrder
<1>13. Counted'
    BY OInvHas, DescendStep DEF IInv
<1> QED
    BY <1>12, <1>13 DEF OInv

\* The leaf reached has not got the key of the call.
LEMMA KeyIsNew ==
  ASSUME NEW g, Descending(g), NEW b, Sinking(g, b), At.kind = "leaf"
  PROVE  ~LeafHas(At, call[1])
<1>1. Within(st, {root}, cur) /\ Absent(st, root, call[1]) /\ At = st.mem[cur]
    BY DEF Sinking, At
<1>2. call[1] \notin KeysOf(At)
    BY <1>1 DEF Absent
<1>3. SUFFICES ASSUME LeafHas(At, call[1]) PROVE FALSE
    OBVIOUS
<1>4. PICK i, keys : i = LeafFind(At, call[1]) /\ keys = At.keys
    OBVIOUS
<1>5. i <= Len(keys) /\ KeyGet(keys[i]) = call[1]
    BY <1>3, <1>4, Zenon DEF LeafHas
<1>6. keys \in Seq(Nat) /\ call[1] \in Nat
    BY <1>4, AtLeaf, InputIs DEF Descending
<1>7. i \in 1 .. Len(keys) + 1
    BY <1>4, <1>6, LeafFindIs, Zenon
<1>8. i \in 1 .. Len(keys)
    BY <1>5, <1>6, <1>7
<1> QED
    BY <1>2, <1>4, <1>5, <1>8 DEF KeysOf

\* btree_leaf_add and btree_leaf_split put the key between its neighbours;
\* btree_leaf_add_dup is not called.
LEMMA OLeafWrites ==
  ASSUME OInv, LeafAdd \/ LeafAddDup \/ LeafSplitUp
  PROVE  OInv'
<1>1. PICK g, b : InOrder(g, b)
    BY DEF OInv
<1>2. pc = "descend" /\ At.kind = "leaf" /\ pc' = "ascend" /\ find' = find
    BY DEF LeafAdd, LeafAddDup, LeafSplitUp, GiveUp
<1>3. Descending(g) /\ Sinking(g, b)
    BY <1>1, <1>2 DEF InOrder
<1>4. ~LeafHas(At, call[1])
    BY <1>2, <1>3, KeyIsNew
<1>5. Ranged(st, g, b) /\ Sinks(b) /\ NoLookup
    BY <1>3 DEF Sinking
<1>6. \E h, c : Ascending(h)' /\ Ranged(st', h, c) /\ Rises(st', c, path', up')
  <2>1. CASE LeafAdd
    <3>1. PICK h : Ascending(h)' /\ LeafWritten(g, h)
        BY <1>3, <2>1, LeafAddFormed
    <3> QED
        BY <1>3, <1>5, <2>1, <3>1, LeafAddRanged
  <2>2. CASE LeafSplitUp
    <3>1. PICK h : Ascending(h)' /\ LeafHalved(g, h)
        BY <1>3, <2>2, LeafSplitFormed
    <3> QED
        BY <1>3, <1>5, <2>2, <3>1, LeafHalvedRanged
  <2>3. ~LeafAddDup
      BY <1>4 DEF LeafAddDup
  <2> QED
      BY <2>1, <2>2, <2>3
<1>7. PICK h, c : Ascending(h)' /\ Ranged(st', h, c) /\ Rises(st', c, path', up')
    BY <1>6
<1>8. Climbing(h, c)'
    BY <1>2, <1>5, <1>7 DEF Climbing, NoLookup
<1>9. InOrder(h, c)'
    BY <1>2, <1>7, <1>8 DEF InOrder
<1>10. Counted'
    BY OInvHas, WritesStep DEF IInv, Writes
<1> QED
    BY <1>9, <1>10 DEF OInv

\* btree_branch_add and btree_branch_split put the separator between its neighbours.
LEMMA OBranchWrites ==
  ASSUME OInv, BranchAdd \/ BranchSplitUp
  PROVE  OInv'
<1>1. PICK g, b : InOrder(g, b)
    BY DEF OInv
<1>2. pc = "ascend" /\ path # <<>> /\ pc' = "ascend" /\ find' = find /\ adds \in Nat
    BY Sizes DEF BranchAdd, BranchSplitUp, GiveUp, OInv, Counted
<1>3. Ascending(g) /\ Climbing(g, b)
    BY <1>1, <1>2 DEF InOrder
<1>4. Ranged(st, g, b) /\ Rises(st, b, path, up) /\ NoLookup
    BY <1>3 DEF Climbing
<1>5. \E h, c : Ascending(h)' /\ Ranged(st', h, c) /\ Rises(st', c, path', up')
  <2>1. CASE BranchAdd
    <3>1. PICK h : Ascending(h)' /\ BranchWritten(g, h)
        BY <1>2, <1>3, <2>1, BranchAddFormed
    <3> QED
        BY <1>2, <1>3, <1>4, <3>1, BranchAddRanged
  <2>2. CASE BranchSplitUp
    <3>1. PICK h : Ascending(h)' /\ BranchHalved(g, h)
        BY <1>2, <1>3, <2>2, BranchSplitFormed
    <3> QED
        BY <1>2, <1>3, <1>4, <3>1, BranchHalvedRanged
  <2> QED
      BY <2>1, <2>2
<1>6. PICK h, c : Ascending(h)' /\ Ranged(st', h, c) /\ Rises(st', c, path', up')
    BY <1>5
<1>7. Climbing(h, c)'
    BY <1>2, <1>4, <1>6 DEF Climbing, NoLookup
<1>8. InOrder(h, c)'
    BY <1>2, <1>6, <1>7 DEF InOrder
<1>9. Counted'
    BY OInvHas, WritesStep DEF IInv, Writes
<1> QED
    BY <1>8, <1>9 DEF OInv

\* btree_add returns the root of a tree with all keys for its interval.
LEMMA OEndAdd ==
  ASSUME OInv, EndAdd
  PROVE  OInv'
<1>1. PICK g, b : InOrder(g, b)
    BY DEF OInv
<1>2. pc = "ascend" /\ path = <<>> /\ pc' = "idle" /\ find' = find /\ adds \in Nat
    BY Sizes DEF EndAdd, OInv, Counted
<1>3. Ascending(g) /\ Climbing(g, b)
    BY <1>1, <1>2 DEF InOrder
<1>4. Ranged(st, g, b) /\ Rises(st, b, path, up) /\ NoLookup
    BY <1>3 DEF Climbing
<1>5. PICK h : Idle(h)' /\ RootWritten(g, h)
    BY <1>2, <1>3, EndAddFormed
<1>6. PICK c : Ranged(st', h, c) /\ Spans(c, root')
    BY <1>2, <1>3, <1>4, <1>5, RootRanged
<1>7. Resting(h, c)'
    BY <1>2, <1>4, <1>6 DEF Resting, NoLookup
<1>8. InOrder(h, c)'
    BY <1>2, <1>5, <1>7 DEF InOrder
<1>9. Counted'
    BY OInvHas, EndAddStep DEF IInv
<1> QED
    BY <1>8, <1>9 DEF OInv

\* The steps of a lookup.
FindSteps == (\E key \in FindKeys : FindBegin(key)) \/ FindDescend \/ FindEnd

\* btree_find goes to the child whose interval has the key, if the tree has it.
LEMMA FindSeeks ==
  ASSUME Counted, NEW g, Idle(g), NEW b, Resting(g, b), FindSteps
  PROVE  ConcurrentFind \/ find'.page = 0 \/ (root # 0 /\ Seeks(st, root, b, find'))
<1> SUFFICES ASSUME ~ConcurrentFind, find'.page # 0 PROVE root # 0 /\ Seeks(st, root, b, find')
    OBVIOUS
<1>1. CASE \E key \in FindKeys : FindBegin(key)
  <2>1. PICK key \in FindKeys : FindBegin(key)
      BY <1>1
  <2>2. root # 0 /\ find' = [key |-> key, page |-> root, had |-> key \in KeysBelow({root})]
      BY <2>1 DEF FindBegin
  <2>3. Ranged(st, g, b) /\ Spans(b, root)
      BY <2>2 DEF Resting
  <2>4. Tree(st, g) /\ StoreFits(st) /\ root \in DOMAIN st.mem /\ Shallow(g, root)
      BY <2>2, RootStands
  <2>5. Within(st, {root}, root)
      BY <2>4, WithinSelf
  <2>6. ASSUME key \in KeysBelow({root})
        PROVE  Present(st, root, key) /\ b.lo[root] <= key /\ key < b.hi[root]
    <3>1. Present(st, root, key)
        BY <2>4, <2>6, PresentBelow
    <3>2. PICK p : Within(st, {root}, p) /\ key \in KeysOf(st.mem[p])
        BY <3>1 DEF Present
    <3>3. p \in g.pages
        BY <2>4, <3>2, WithinTree DEF Settled
    <3>4. key \in Nat /\ key < OverflowBit
        BY <2>3, <2>4, <3>2, <3>3, KeysLie
    <3> QED
        BY <2>3, <3>1, <3>4 DEF Spans
  <2>7. find'.key = key /\ find'.page = root /\ (find'.had => key \in KeysBelow({root}))
      BY <2>2, Zenon
  <2> QED
      BY <2>2, <2>5, <2>6, <2>7 DEF Seeks
<1>2. CASE FindDescend
  <2>1. PICK f, z, pg : f = find /\ z = f.page /\ pg = st.mem[z]
      OBVIOUS
  <2>2. PICK i, q : i = BranchFind(pg, f.key) /\ q = pg.kids[i]
      OBVIOUS
  <2>3. z # 0 /\ pg.kind = "branch" /\ find' = [f EXCEPT !.page = q]
      BY <1>2, <2>1, <2>2 DEF FindDescend
  <2>4. root # 0 /\ Seeks(st, root, b, f)
      BY <2>1, <2>3 DEF Resting
  <2>5. Ranged(st, g, b)
      BY <2>4 DEF Resting
  <2>6. Tree(st, g) /\ StoreFits(st) /\ root \in DOMAIN st.mem /\ Shallow(g, root)
      BY <2>4, RootStands
  <2>7. f \in [key : FindKeys \cup {0}, page : 0 .. st.end - 1, had : BOOLEAN]
      BY <2>1 DEF Counted
  <2>8. f.key \in Nat /\ find'.key = f.key /\ find'.page = q /\ find'.had = f.had
      BY <2>3, <2>7, BTreeAssumption
  <2>9. Within(st, {root}, z) /\ z \in Settled(g)
      BY <2>1, <2>4, <2>6, WithinTree DEF Seeks
  <2>10. Within(st, {root}, q)
    <3>5. z \in 1 .. st.end - 1 /\ StoreFits(st)
        BY <2>6, <2>9 DEF Tree, Owned, Settled, StoreFits
    <3>1. PageFits(pg, st.end)
        BY <2>1, <3>5 DEF StoreFits
    <3>2. pg.keys \in Seq(Nat) /\ DOMAIN pg.kids = 1 .. Len(pg.keys) + 1
        BY <2>3, <3>1 DEF PageFits
    <3>3. i \in DOMAIN pg.kids
        BY <2>2, <2>8, <3>2, BranchFindIs
    <3>4. q \in Kids(pg)
        BY <2>2, <2>3, <3>3 DEF Kids, Range
    <3> QED
        BY <2>1, <2>6, <2>9, <3>4, WithinTree
  <2>11. ASSUME f.had PROVE Present(st, root, f.key) /\ b.lo[q] <= f.key /\ f.key < b.hi[q]
    <3>1. Present(st, root, f.key) /\ b.lo[z] <= f.key /\ f.key < b.hi[z]
        BY <2>1, <2>4, <2>11 DEF Seeks
    <3>3. PICK key : key = f.key
        OBVIOUS
    <3>4. /\ key \in Nat /\ b.lo[z] <= key /\ key < b.hi[z] /\ i = BranchFind(pg, key)
          /\ Tree(st, g) /\ Ranged(st, g, b) /\ z \in Settled(g) /\ pg = st.mem[z] /\ pg.kind = "branch"
          /\ q = pg.kids[i]
        BY <2>1, <2>2, <2>3, <2>5, <2>6, <2>8, <2>9, <3>1, <3>3
    <3>2. b.lo[q] <= f.key /\ f.key < b.hi[q]
        BY ONLY <3>3, <3>4, ChildRanged
    <3> QED
        BY <3>1, <3>2
  <2> QED
      BY <2>4, <2>8, <2>10, <2>11 DEF Seeks
<1>3. CASE FindEnd
    BY <1>3 DEF FindEnd, NoFind
<1> QED
    BY <1>1, <1>2, <1>3 DEF FindSteps

\* A lookup leaves the tree and the call of btree_add alone.
LEMMA OFind ==
  ASSUME OInv, FindSteps
  PROVE  OInv'
<1>1. PICK g, b : InOrder(g, b)
    BY DEF OInv
<1>2. /\ st' = st /\ root' = root /\ adds' = adds /\ pc' = pc /\ call' = call
      /\ cur' = cur /\ path' = path /\ up' = up
    BY DEF FindSteps, FindBegin, FindDescend, FindEnd
<1>3. ASSUME pc = "idle" PROVE InOrder(g, b)'
  <2>1. Idle(g) /\ Resting(g, b) /\ Counted
      BY <1>1, <1>3 DEF InOrder, OInv
  <2>2. ConcurrentFind \/ find'.page = 0 \/ (root # 0 /\ Seeks(st, root, b, find'))
      BY <2>1, FindSeeks
  <2>3. Resting(g, b)'
      BY <1>2, <2>1, <2>2 DEF Resting
  <2>4. Idle(g)'
      BY <1>2, <2>1 DEF Idle
  <2> QED
      BY <1>2, <1>3, <2>3, <2>4 DEF InOrder
<1>4. ASSUME pc # "idle" PROVE InOrder(g, b)'
  <2>1. NoLookup
      BY <1>1, <1>4 DEF InOrder, Sinking, Climbing
  <2>2. NoLookup'
      BY <1>4, <2>1 DEF NoLookup, FindSteps, FindBegin, FindDescend, FindEnd, NoFind
  <2>3. Formed(g)'
    <3>1. Formed(g)
        BY <1>1 DEF InOrder, Formed
    <3> QED
        BY <1>2, <3>1, FormedSame
  <2>4. CASE pc = "descend"
    <3>1. Sinking(g, b)
        BY <1>1, <2>4 DEF InOrder
    <3>2. Sinking(g, b)'
        BY <1>2, <2>2, <3>1 DEF Sinking, Sinks
    <3> QED
        BY <1>2, <2>3, <2>4, <3>2 DEF InOrder, Formed
  <2>5. CASE pc = "ascend"
    <3>1. Climbing(g, b)
        BY <1>1, <2>5 DEF InOrder
    <3>2. Climbing(g, b)'
        BY <1>2, <2>2, <3>1 DEF Climbing
    <3> QED
        BY <1>2, <2>3, <2>5, <3>2 DEF InOrder, Formed
  <2> QED
      BY <1>1, <1>4, <2>4, <2>5 DEF InOrder
<1>5. InOrder(g, b)'
    BY <1>3, <1>4
<1>6. Counted'
    BY OInvHas, FindStep DEF IInv, FindSteps
<1> QED
    BY <1>5, <1>6 DEF OInv

\* Every step keeps the invariant.
LEMMA OInvStep ==
  ASSUME AllowDups = FALSE, OInv, [Next]_vars
  PROVE  OInv'
<1>1. CASE Create \/ Destroy
    BY <1>1, OCreate, ODestroy
<1>2. CASE \E in \in Inputs : BeginAdd(in)
    BY <1>2, OBeginAdd
<1>3. CASE Descend
    BY <1>3, ODescend
<1>4. CASE LeafAdd \/ LeafAddDup \/ LeafSplitUp
    BY <1>4, OLeafWrites
<1>5. CASE BranchAdd \/ BranchSplitUp
    BY <1>5, OBranchWrites
<1>6. CASE EndAdd
    BY <1>6, OEndAdd
<1>7. CASE FindSteps
    BY <1>7, OFind
<1>8. CASE UNCHANGED vars
  <2>1. PICK g, b : InOrder(g, b)
      BY DEF OInv
  <2>2. /\ st' = st /\ root' = root /\ adds' = adds /\ pc' = pc /\ call' = call
        /\ cur' = cur /\ path' = path /\ up' = up /\ find' = find
      BY <1>8 DEF vars
  <2>3. Formed(g)'
    <3>1. Formed(g)
        BY <2>1 DEF InOrder, Formed
    <3> QED
        BY <2>2, <3>1, FormedSame
  <2>4. /\ pc = "idle" => Resting(g, b)'
        /\ pc = "descend" => Sinking(g, b)'
        /\ pc = "ascend" => Climbing(g, b)'
    <3>1. CASE pc = "idle"
      <4>1. Resting(g, b)
          BY <2>1, <3>1 DEF InOrder
      <4> QED
          BY <2>2, <3>1, <4>1 DEF Resting
    <3>2. CASE pc = "descend"
      <4>1. Sinking(g, b)
          BY <2>1, <3>2 DEF InOrder
      <4> QED
          BY <2>2, <3>2, <4>1 DEF Sinking, Sinks, NoLookup
    <3>3. CASE pc = "ascend"
      <4>1. Climbing(g, b)
          BY <2>1, <3>3 DEF InOrder
      <4> QED
          BY <2>2, <3>3, <4>1 DEF Climbing, NoLookup
    <3> QED
        BY <3>1, <3>2, <3>3
  <2>5. InOrder(g, b)'
      BY <2>2, <2>3, <2>4 DEF InOrder, Formed
  <2>6. Counted'
      BY OInvHas, IInvStep DEF IInv
  <2> QED
      BY <2>5, <2>6 DEF OInv
<1> QED
    BY <1>1, <1>2, <1>3, <1>4, <1>5, <1>6, <1>7, <1>8 DEF Next, FindSteps

\* Where clients add no key twice, every page has its interval at every step.
THEOREM OrderHolds ==
  ASSUME AllowDups = FALSE
  PROVE  Spec => []OInv
<1>1. Init => OInv
    BY OInvInit
<1>2. OInv /\ [Next]_vars => OInv'
    BY OInvStep
<1> QED
    BY <1>1, <1>2, PTL DEF Spec

\* A child's interval is part of that of the branch.
LEMMA ChildInside ==
  ASSUME NEW g, Tree(st, g), NEW b, Ranged(st, g, b), NEW p \in Settled(g), NEW pg, pg = st.mem[p],
         pg.kind = "branch", NEW i \in DOMAIN pg.kids, NEW q, q = pg.kids[i]
  PROVE  /\ q \in Settled(g) /\ i \in 1 .. Len(pg.keys) + 1 /\ pg.keys \in Seq(Nat)
         /\ b.lo[p] <= b.lo[q] /\ b.hi[q] <= b.hi[p]
<1>1. PageFits(pg, st.end) /\ p \in g.pages
    BY DEF Settled, Tree, Owned, StoreFits
<1>2. pg.keys \in Seq(Nat) /\ DOMAIN pg.kids = 1 .. Len(pg.keys) + 1
    BY <1>1 DEF PageFits
<1>3. p \in Inner(st, g) /\ i \in Live(st, g, p)
    BY SettledKids
<1>4. q \in Settled(g)
    BY <1>3, Zenon DEF Tree, Levelled, Settled
<1>5. PICK keys, lo, hi : keys = pg.keys /\ lo = b.lo[p] /\ hi = b.hi[p]
    OBVIOUS
<1>6. lo \in Nat /\ hi \in Nat /\ Increasing(keys, lo, hi)
    BY <1>1, <1>5, Zenon DEF Ranged, RangedPages
<1>7. b.lo[q] = GapLow(keys, i, lo) /\ b.hi[q] = GapHigh(keys, i, hi)
    BY <1>3, <1>5, Zenon DEF Ranged, RangedKids
<1>8. i \in 1 .. Len(keys) + 1 /\ keys \in Seq(Nat) /\ Len(keys) \in Nat
    BY <1>2, <1>5
<1>9. lo <= GapLow(keys, i, lo)
  <2>1. CASE i = 1
      BY <1>6, <2>1 DEF GapLow
  <2>2. CASE i # 1
    <3>1. i - 1 \in 1 .. Len(keys)
        BY <1>8, <2>2
    <3> QED
        BY <1>6, <2>2, <3>1 DEF GapLow, Increasing
  <2> QED
      BY <2>1, <2>2
<1>10. GapHigh(keys, i, hi) <= hi
  <2>1. CASE i = Len(keys) + 1
      BY <1>6, <2>1 DEF GapHigh
  <2>2. CASE i # Len(keys) + 1
    <3>1. i \in 1 .. Len(keys)
        BY <1>8, <2>2
    <3>2. keys[i] \in Nat
        BY <1>8, <3>1
    <3>3. keys[i] < hi
        BY <1>6, <3>1 DEF Increasing
    <3> QED
        BY <1>6, <2>2, <3>2, <3>3 DEF GapHigh
  <2> QED
      BY <2>1, <2>2
<1> QED
    BY <1>4, <1>5, <1>7, <1>8, <1>9, <1>10

\* All keys below a page lie in its interval.
LEMMA BelowLies ==
  ASSUME NEW g, Tree(st, g), NEW b, Ranged(st, g, b), NEW k \in Settled(g), NEW key \in KeysBelow({k})
  PROVE  b.lo[k] <= key /\ key < b.hi[k]
<1>1. StoreFits(st) /\ Settled(g) \subseteq DOMAIN st.mem
    BY DEF Tree, Owned, StoreFits, Settled
<1>2. Present(st, k, key)
    BY <1>1, PresentBelow
<1>3. PICK q : Within(st, {k}, q) /\ key \in KeysOf(st.mem[q])
    BY <1>2 DEF Present
<1>4. \A p \in Settled(g) : p \in g.pages /\ b.lo[p] \in Nat /\ b.hi[p] \in Nat
    BY DEF Ranged, RangedPages, Settled
<1>5. PICK lo, hi : lo = b.lo[k] /\ hi = b.hi[k]
    OBVIOUS
<1>6. PICK V : V = {p \in Settled(g) : lo <= b.lo[p] /\ b.hi[p] <= hi}
    OBVIOUS
<1>7. lo \in Nat /\ hi \in Nat /\ k \in V
    BY <1>4, <1>5, <1>6
<1>8. ASSUME NEW p \in V, NEW c \in Kids(st.mem[p]) PROVE c \in V
  <2>1. p \in Settled(g) /\ lo <= b.lo[p] /\ b.hi[p] <= hi
      BY <1>6
  <2>2. PICK pg : pg = st.mem[p]
      OBVIOUS
  <2>3. pg.kind = "branch" /\ \E i \in DOMAIN pg.kids : c = pg.kids[i]
      BY <2>2 DEF Kids, Range
  <2>4. PICK i \in DOMAIN pg.kids : c = pg.kids[i]
      BY <2>3
  <2>5. c \in Settled(g) /\ b.lo[p] <= b.lo[c] /\ b.hi[c] <= b.hi[p]
      BY <2>1, <2>2, <2>3, <2>4, ChildInside
  <2>6. PICK x, y, z, w : x = b.lo[p] /\ y = b.lo[c] /\ z = b.hi[p] /\ w = b.hi[c]
      OBVIOUS
  <2>7. x \in Nat /\ y \in Nat /\ z \in Nat /\ w \in Nat
      BY <1>4, <2>1, <2>5, <2>6
  <2>8. lo <= y /\ w <= hi
      BY <1>7, <2>1, <2>5, <2>6, <2>7
  <2> QED
      BY <1>6, <2>5, <2>6, <2>8
<1>9. q \in V
  <2>1. PICK S : S = {k}
      OBVIOUS
  <2>2. S \in SUBSET DOMAIN st.mem /\ S \subseteq V
      BY <1>1, <1>7, <2>1
  <2>3. \A p \in V : Kids(st.mem[p]) \subseteq V
      BY <1>8
  <2> QED
      BY <1>1, <1>3, <2>1, <2>2, <2>3, WithinClosed
<1>10. q \in g.pages /\ lo <= b.lo[q] /\ b.hi[q] <= hi /\ b.lo[q] \in Nat /\ b.hi[q] \in Nat
    BY <1>4, <1>6, <1>9
<1>11. key \in Nat /\ b.lo[q] <= key /\ key < b.hi[q]
    BY <1>3, <1>10, KeysLie
<1>12. PICK x, z : x = b.lo[q] /\ z = b.hi[q]
    OBVIOUS
<1>13. lo <= key /\ key < hi
    BY <1>7, <1>10, <1>11, <1>12
<1> QED
    BY <1>5, <1>13

\* The intervals say that the keys are in order.
LEMMA InvariantOrdered ==
  ASSUME OInv
  PROVE  Ordered
<1> SUFFICES ASSUME pc = "idle", root # 0, NEW p \in Below({root}), NEW pg, pg = st.mem[p]
             PROVE  /\ \A i \in 2 .. Len(pg.keys) : pg.keys[i - 1] < pg.keys[i]
                    /\ pg.kind = "branch" =>
                         \A i \in DOMAIN pg.kids : \A key \in KeysBelow({pg.kids[i]}) :
                           /\ i > 1 => pg.keys[i - 1] <= key
                           /\ i <= Len(pg.keys) => key < pg.keys[i]
    BY Zenon DEF Ordered
<1>1. PICK g, b : InOrder(g, b)
    BY DEF OInv
<1>2. Idle(g) /\ Resting(g, b) /\ Counted
    BY <1>1 DEF InOrder, OInv
<1>3. Ranged(st, g, b)
    BY <1>2 DEF Resting
<1>4. Tree(st, g) /\ Shallow(g, root) /\ StoreFits(st) /\ root \in DOMAIN st.mem
    BY <1>2, RootStands
<1>5. p \in Settled(g)
  <2>1. PICK S : S = {root}
      OBVIOUS
  <2>2. Within(st, S, p)
      BY <1>4, <2>1, WithinBelow
  <2> QED
      BY <1>4, <2>1, <2>2, WithinTree
<1>6. PICK keys, lo, hi : keys = pg.keys /\ lo = b.lo[p] /\ hi = b.hi[p]
    OBVIOUS
<1>7. Increasing(keys, lo, hi)
    BY <1>3, <1>5, <1>6 DEF Settled, Ranged, RangedPages
<1>8. ASSUME NEW i \in 2 .. Len(keys) PROVE keys[i - 1] < keys[i]
  <2>1. PageFits(pg, st.end) /\ pg.kind \in {"leaf", "branch"}
      BY <1>4, <1>5 DEF Settled, Tree, Owned, StoreFits, Levelled
  <2>2. keys \in Seq(Nat)
      BY <1>6, <2>1 DEF PageFits
  <2>3. PICK n : n = Len(keys)
      OBVIOUS
  <2>4. n \in Nat
      BY ONLY <2>2, <2>3
  <2>5. i - 1 \in 1 .. n /\ i \in 1 .. n /\ i - 1 < i
      BY <2>3, <2>4
  <2> QED
      BY <1>7, <2>3, <2>5 DEF Increasing
<1>9. ASSUME pg.kind = "branch", NEW i \in DOMAIN pg.kids, NEW key \in KeysBelow({pg.kids[i]})
      PROVE  /\ i > 1 => keys[i - 1] <= key
             /\ i <= Len(keys) => key < keys[i]
  <2>1. PICK q : q = pg.kids[i]
      OBVIOUS
  <2>2. /\ q \in Settled(g) /\ i \in 1 .. Len(keys) + 1 /\ keys \in Seq(Nat)
        /\ b.lo[q] = GapLow(keys, i, lo) /\ b.hi[q] = GapHigh(keys, i, hi)
    <3>1. Tree(st, g) /\ Ranged(st, g, b) /\ p \in Settled(g)
        BY <1>3, <1>4, <1>5
    <3>2. PICK qg : qg = st.mem[p]
        OBVIOUS
    <3>3. qg = pg /\ qg.kind = "branch" /\ i \in DOMAIN qg.kids /\ q = qg.kids[i]
        BY <1>9, <2>1, <3>2
    <3>4. q \in Settled(g) /\ i \in 1 .. Len(qg.keys) + 1 /\ qg.keys \in Seq(Nat)
        BY <3>1, <3>2, <3>3, ChildInside
    <3>5. p \in Inner(st, g) /\ i \in Live(st, g, p)
        BY <3>1, <3>2, <3>3, SettledKids
    <3>6. b.lo[q] = GapLow(keys, i, lo) /\ b.hi[q] = GapHigh(keys, i, hi)
        BY <1>6, <2>1, <3>1, <3>5, Zenon DEF Ranged, RangedKids
    <3> QED
        BY <1>6, <3>3, <3>4, <3>6
  <2>3. b.lo[q] <= key /\ key < b.hi[q]
      BY <1>3, <1>4, <1>9, <2>1, <2>2, BelowLies
  <2>4. PICK n : n = Len(keys)
      OBVIOUS
  <2>5. n \in Nat
      BY ONLY <2>2, <2>4
  <2>6. ASSUME i > 1 PROVE keys[i - 1] <= key
      BY <2>2, <2>3, <2>6 DEF GapLow
  <2>7. ASSUME i <= Len(keys) PROVE key < keys[i]
    <3>1. i # Len(keys) + 1
        BY <2>2, <2>4, <2>5, <2>7
    <3> QED
        BY <2>2, <2>3, <3>1 DEF GapHigh
  <2> QED
      BY <2>6, <2>7
<1> QED
    BY <1>6, <1>8, <1>9

\* The leaf whose interval has a key of the tree has the key.
LEMMA InvariantSees ==
  ASSUME OInv, ConcurrentFind = FALSE
  PROVE  FindSees
<1> SUFFICES ASSUME find.page # 0, st.mem[find.page].kind = "leaf", find.had
             PROVE  LeafHas(st.mem[find.page], find.key)
    BY Zenon DEF FindSees
<1>1. PICK g, b : InOrder(g, b)
    BY DEF OInv
<1>2. Idle(g) /\ Resting(g, b) /\ Counted
    BY <1>1 DEF InOrder, OInv, Sinking, Climbing, NoLookup
<1>3. root # 0 /\ Seeks(st, root, b, find)
    BY <1>2 DEF Resting
<1>4. Ranged(st, g, b)
    BY <1>2, <1>3 DEF Resting
<1>5. Tree(st, g) /\ Shallow(g, root) /\ StoreFits(st) /\ root \in DOMAIN st.mem
    BY <1>2, <1>3, RootStands
<1>6. PICK z, key : z = find.page /\ key = find.key
    OBVIOUS
<1>7. Within(st, {root}, z) /\ Present(st, root, key) /\ b.lo[z] <= key /\ key < b.hi[z]
    BY <1>3, <1>6 DEF Seeks
<1>8. PICK p : Within(st, {root}, p) /\ key \in KeysOf(st.mem[p])
    BY <1>7 DEF Present
<1>9. z \in g.pages /\ p \in g.pages
    BY <1>5, <1>7, <1>8, WithinTree DEF Settled
<1>10. /\ st.mem[p].kind = "leaf" /\ key \in Nat /\ b.lo[p] <= key /\ key < b.hi[p] /\ key < OverflowBit
       /\ \E i \in 1 .. Len(st.mem[p].keys) : st.mem[p].keys[i] = key
    BY <1>4, <1>5, <1>8, <1>9, KeysLie
<1>11. p = z
  <2>1. SUFFICES ASSUME p # z PROVE FALSE
      OBVIOUS
  <2>2. g.level[p] = 0 /\ g.level[z] = 0
      BY <1>5, <1>6, <1>9, <1>10 DEF Tree, Levelled
  <2>3. AwayFrom(b, p, b, z)
      BY <1>4, <1>9, <2>1, <2>2 DEF Ranged, RangedApart
  <2>4. PICK a, c, d, e : a = b.lo[p] /\ c = b.hi[p] /\ d = b.lo[z] /\ e = b.hi[z]
      OBVIOUS
  <2>5. a \in Nat /\ c \in Nat /\ d \in Nat /\ e \in Nat
      BY <1>4, <1>9, <2>4 DEF Ranged, RangedPages
  <2>6. c <= d \/ e <= a
      BY <2>3, <2>4 DEF AwayFrom
  <2>7. a <= key /\ key < c /\ d <= key /\ key < e /\ key \in Nat
      BY <1>7, <1>10, <2>4
  <2> QED
      BY ONLY <2>5, <2>6, <2>7
<1>12. PICK pg, lo, hi : pg = st.mem[z] /\ lo = b.lo[z] /\ hi = b.hi[z]
    OBVIOUS
<1>13. PICK i \in 1 .. Len(pg.keys) : pg.keys[i] = key
    BY <1>10, <1>11, <1>12
<1>14. PageFits(pg, st.end) /\ pg.kind = "leaf"
  <2>1. z \in 2 .. st.end - 1 /\ st.end \in Nat
      BY <1>5, <1>9 DEF Tree, Owned, StoreFits
  <2>2. z \in 1 .. st.end - 1
      BY <2>1
  <2>3. PageFits(pg, st.end)
      BY <1>5, <1>12, <2>2 DEF StoreFits
  <2> QED
      BY <1>6, <1>12, <2>3
<1>15. pg.keys \in Seq(Nat)
    BY <1>14 DEF PageFits
<1>16. Increasing(pg.keys, lo, hi)
    BY <1>4, <1>9, <1>12 DEF Ranged, RangedPages
<1>17. LeafHas(pg, key)
    BY <1>10, <1>13, <1>15, <1>16, FoundThere
<1> QED
    BY <1>6, <1>12, <1>17

\* Between calls every key lies between the separators around it, at every level and
\* after any order of adds, if clients add no key twice: the copy of a full leaf or branch
\* is split in order, and the separator goes where it belongs (btree_leaf_split,
\* btree_branch_split, btree_branch_add, btree_root_create).
THEOREM OrderedAlways ==
  ASSUME AllowDups = FALSE
  PROVE  Spec => []Ordered
<1>1. OInv => Ordered
    BY InvariantOrdered
<1> QED
    BY <1>1, OrderHolds, PTL

\* A lookup between two calls of btree_add finds each key the tree holds, although it
\* reads one leaf only (btree_find, btree_branch_find, btree_leaf_find).
THEOREM FindSeesAlways ==
  ASSUME AllowDups = FALSE, ConcurrentFind = FALSE
  PROVE  Spec => []FindSees
<1>1. OInv => FindSees
    BY InvariantSees
<1> QED
    BY <1>1, OrderHolds, PTL

-----------------------------------------------------------------------------
(* Every page of the tree has a way up. *)

\* A page in place is one of R or the child of a branch.
Reared(s, g, R) ==
  \A p \in Settled(g) :
    p \in R \/ \E q \in Inner(s, g) : \E i \in Live(s, g, q) : s.mem[q].kids[i] = p

\* Page x goes below what replaces the pages of D.
Moves(s, g, D, R, x) == x \in R \/ \E d \in D : d \in Inner(s, g) /\ \E i \in Live(s, g, d) : s.mem[d].kids[i] = x

\* Each such page is the child of a new branch.
Takes(s, g, t, D, N, R) ==
  \A x : Moves(s, g, D, R, x) =>
    \E n \in N : t.mem[n].kind = "branch" /\ \E j \in DOMAIN t.mem[n].kids : j # 0 /\ t.mem[n].kids[j] = x

\* If the new branches take all pages, only they have no branch above them.
LEMMA RewrittenReared ==
  ASSUME NEW s, NEW g, NEW t, NEW h, NEW D, NEW N, NEW R, NEW l, Rewritten(s, g, t, h, D, N, R, l),
         Reared(s, g, R \cup D), Takes(s, g, t, D, N, R)
  PROVE  Reared(t, h, N)
<1>1. /\ h.pages = (g.pages \ D) \cup N
      /\ \A p \in g.pages \ D : t.mem[p] = s.mem[p] /\ h.hole[p] = g.hole[p]
      /\ \A n \in N : h.hole[n] = 0
    BY DEF Rewritten
<1> SUFFICES ASSUME NEW p \in Settled(h), p \notin N
             PROVE  \E q \in Inner(t, h) : \E i \in Live(t, h, q) : t.mem[q].kids[i] = p
    BY DEF Reared
<1>2. p \in Settled(g) /\ p \notin D
    BY <1>1 DEF Settled
<1>3. ASSUME Moves(s, g, D, R, p)
      PROVE  \E q \in Inner(t, h) : \E i \in Live(t, h, q) : t.mem[q].kids[i] = p
  <2>1. PICK n \in N : t.mem[n].kind = "branch" /\ \E j \in DOMAIN t.mem[n].kids : j # 0 /\ t.mem[n].kids[j] = p
      BY <1>3 DEF Takes
  <2>2. PICK j \in DOMAIN t.mem[n].kids : j # 0 /\ t.mem[n].kids[j] = p
      BY <2>1
  <2>3. n \in Inner(t, h) /\ j \in Live(t, h, n)
      BY <1>1, <2>1, <2>2 DEF Inner, Live
  <2> QED
      BY <2>2, <2>3
<1>4. CASE p \in R
    BY <1>3, <1>4 DEF Moves
<1>5. CASE p \notin R
  <2>1. PICK q \in Inner(s, g) : \E i \in Live(s, g, q) : s.mem[q].kids[i] = p
      BY <1>2, <1>5 DEF Reared
  <2>2. PICK i \in Live(s, g, q) : s.mem[q].kids[i] = p
      BY <2>1
  <2>3. CASE q \in D
      BY <1>3, <2>2, <2>3 DEF Moves
  <2>4. CASE q \notin D
    <3>1. q \in Inner(t, h) /\ Live(t, h, q) = Live(s, g, q) /\ t.mem[q] = s.mem[q]
        BY <1>1, <2>4 DEF Inner, Live
    <3> QED
        BY <2>2, <3>1
  <2> QED
      BY <2>3, <2>4
<1> QED
    BY <1>4, <1>5

\* Where the branch on the path is opened, only the leaf reached has none above it.
LEMMA OpenReared ==
  ASSUME NEW g, Descending(g), Reared(st, g, {root}), NEW o, o.pages = g.pages, Half(st, o, cur, path, {}, 0)
  PROVE  Reared(st, o, {cur})
<1>1. /\ Whole(st, g, root) /\ cur \in g.pages /\ Waits(st, g, path, cur, root)
      /\ \A k \in DOMAIN path :
           st.mem[path[k].page].kids[path[k].child] = IF k = 1 THEN cur ELSE path[k - 1].page
    BY DEF Descending
<1>2. Tree(st, g) /\ (\A p \in g.pages : g.hole[p] = 0) /\ Settled(g) = g.pages
    BY <1>1 DEF Whole, Settled
<1>3. \A k \in DOMAIN path : path[k].page \in Inner(st, g) /\ path[k].child \in DOMAIN st.mem[path[k].page].kids
    BY <1>1, <1>2, WaitingPages
<1>4. /\ Len(path) \in Nat /\ DOMAIN path = 1 .. Len(path) /\ (path = <<>> <=> Len(path) = 0)
      /\ (path = <<>> => cur = root) /\ (path # <<>> => path[Len(path)].page = root)
  <2>1. PICK T : T = [page : g.pages, child : Nat]
      BY Zenon
  <2>2. path \in Seq(T)
      BY <1>1, <2>1 DEF Waits
  <2>3. Len(path) \in Nat /\ DOMAIN path = 1 .. Len(path) /\ (path = <<>> <=> Len(path) = 0)
      BY ONLY <2>2
  <2>4. (path = <<>> => cur = root) /\ (path # <<>> => path[Len(path)].page = root)
      BY <1>1 DEF Waits
  <2> QED
      BY <2>3, <2>4
<1>5. /\ \A k \in DOMAIN path : o.hole[path[k].page] = path[k].child
      /\ \A p \in o.pages : o.hole[p] # 0 => p = cur \/ \E k \in DOMAIN path : path[k].page = p
      /\ Tree(st, o) /\ o.level[cur] = 0
    BY DEF Half
<1>6. st.mem[cur].kind = "leaf"
    BY <1>1, <1>5 DEF Tree, Levelled
<1>7. ASSUME NEW q \in Inner(st, g), NEW i \in DOMAIN st.mem[q].kids PROVE i # 0
  <2>1. StoreFits(st) /\ q \in 1 .. st.end - 1 /\ st.mem[q].kind = "branch"
      BY <1>2 DEF Tree, Owned, StoreFits, Inner
  <2>2. st.mem[q].kids \in Seq(1 .. st.end - 1)
      BY <2>1, Zenon DEF StoreFits, PageFits
  <2> QED
      BY <2>2
<1>8. \A k \in DOMAIN path : o.hole[path[k].page] # 0
    BY <1>3, <1>5, <1>7
<1> SUFFICES ASSUME NEW p \in Settled(o), p # cur
             PROVE  \E q \in Inner(st, o) : \E i \in Live(st, o, q) : st.mem[q].kids[i] = p
    BY DEF Reared
<1>9. p \in g.pages /\ o.hole[p] = 0
    BY DEF Settled
<1>10. p # root
  <2>1. SUFFICES ASSUME p = root PROVE FALSE
      OBVIOUS
  <2>2. path # <<>>
      BY <1>4, <2>1
  <2>3. Len(path) \in DOMAIN path
      BY <1>4, <2>2
  <2> QED
      BY <1>4, <1>8, <1>9, <2>1, <2>2, <2>3
<1>11. PICK q \in Inner(st, g) : \E i \in Live(st, g, q) : st.mem[q].kids[i] = p
    BY <1>2, <1>9, <1>10 DEF Reared
<1>12. PICK i \in DOMAIN st.mem[q].kids : st.mem[q].kids[i] = p
    BY <1>11 DEF Live
<1>13. q \in Inner(st, o) /\ i # 0 /\ q # cur /\ q \in o.pages
    BY <1>6, <1>7 DEF Inner
<1>14. i # o.hole[q]
  <2>1. SUFFICES ASSUME i = o.hole[q] PROVE FALSE
      OBVIOUS
  <2>2. PICK k \in DOMAIN path : path[k].page = q
      BY <1>5, <1>13, <2>1
  <2>3. path[k].child = i
      BY <1>5, <2>1, <2>2
  <2>4. p = IF k = 1 THEN cur ELSE path[k - 1].page
      BY <1>1, <1>12, <2>2, <2>3
  <2>5. k # 1 /\ p = path[k - 1].page
      BY <2>4
  <2>6. k - 1 \in DOMAIN path
      BY <1>4, <2>5
  <2> QED
      BY <1>8, <1>9, <2>5, <2>6
<1> QED
    BY <1>12, <1>13, <1>14 DEF Live

\* A page may also be one of a larger set.
LEMMA RearedMore ==
  ASSUME NEW s, NEW g, NEW R, NEW S, R \subseteq S, Reared(s, g, R)
  PROVE  Reared(s, g, S)
BY DEF Reared

\* Page x is a child that stays when child i is replaced, or one of the new ones.
Stays(kids, i, u, x) ==
  x \in {u.orig, u.split} \ {0} \/ \E k \in 1 .. Len(kids) : k # i /\ kids[k] = x

\* A branch whose child i is replaced keeps its other children, and has the new ones.
LEMMA WidePlace ==
  ASSUME NEW T, NEW kids \in Seq(T), NEW i \in 1 .. Len(kids), NEW u,
         NEW m, m = Len(kids) + Extra(u), NEW x, Stays(kids, i, u, x)
  PROVE  \E j \in 1 .. m : WideKid(kids, i, u, j) = x
<1>1. PICK n : n = Len(kids)
    OBVIOUS
<1>2. n \in Nat /\ i \in 1 .. n
    BY <1>1
<1>3. (u.split = 0 /\ m = n) \/ (u.split # 0 /\ m = n + 1)
    BY <1>1, <1>2 DEF Extra
<1>4. CASE x = u.orig
  <2>1. i \in 1 .. m /\ ~(i < i)
      BY <1>2, <1>3
  <2>2. WideKid(kids, i, u, i) = u.orig
      BY <2>1 DEF WideKid
  <2> QED
      BY <1>4, <2>1, <2>2
<1>5. CASE x = u.split /\ u.split # 0
  <2>1. PICK j : j = i + 1
      OBVIOUS
  <2>2. j \in 1 .. m /\ ~(j < i) /\ j # i
      BY <1>2, <1>3, <1>5, <2>1
  <2>3. WideKid(kids, i, u, j) = u.split
      BY <1>5, <2>1, <2>2 DEF WideKid
  <2> QED
      BY <1>5, <2>2, <2>3
<1>6. CASE \E k \in 1 .. Len(kids) : k # i /\ kids[k] = x
  <2>1. PICK k : k \in 1 .. n /\ k # i /\ kids[k] = x
      BY <1>1, <1>6
  <2>2. CASE k < i
    <3>1. k \in 1 .. m
        BY <1>2, <1>3, <2>1
    <3>2. WideKid(kids, i, u, k) = kids[k]
        BY <2>2 DEF WideKid
    <3> QED
        BY <2>1, <3>1, <3>2
  <2>3. CASE ~(k < i) /\ u.split = 0
    <3>1. k \in 1 .. m
        BY <1>2, <1>3, <2>1
    <3>2. WideKid(kids, i, u, k) = kids[k]
        BY <2>1, <2>3 DEF WideKid
    <3> QED
        BY <2>1, <3>1, <3>2
  <2>4. CASE ~(k < i) /\ u.split # 0
    <3>1. PICK j : j = k + 1
        OBVIOUS
    <3>2. j \in 1 .. m /\ ~(j < i) /\ j # i /\ j # i + 1 /\ j - 1 = k
        BY <1>2, <1>3, <2>1, <2>4, <3>1
    <3>3. WideKid(kids, i, u, j) = kids[j - 1]
        BY <2>4, <3>2 DEF WideKid
    <3> QED
        BY <2>1, <3>2, <3>3
  <2> QED
      BY <2>2, <2>3, <2>4
<1>7. x = u.orig \/ (x = u.split /\ u.split # 0) \/ \E k \in 1 .. Len(kids) : k # i /\ kids[k] = x
    BY DEF Stays
<1> QED
    BY <1>4, <1>5, <1>6, <1>7

\* Each of the m children stands in one of the new branches.
Spread(t, kids, i, u, N, m) ==
  \A e \in 1 .. m : \E n \in N :
    t.mem[n].kind = "branch" /\ \E j \in DOMAIN t.mem[n].kids : j # 0 /\ t.mem[n].kids[j] = WideKid(kids, i, u, e)

\* Then the new branches take all pages.
LEMMA SpreadTakes ==
  ASSUME NEW s, NEW g, NEW t, NEW d \in Inner(s, g), NEW i, g.hole[d] = i, NEW T, NEW kids \in Seq(T),
         kids = s.mem[d].kids, i \in 1 .. Len(kids), NEW u, NEW R, R = {u.orig, u.split} \ {0},
         NEW m, m = Len(kids) + Extra(u), NEW N, Spread(t, kids, i, u, N, m)
  PROVE  Takes(s, g, t, {d}, N, R)
<1> SUFFICES ASSUME NEW x, Moves(s, g, {d}, R, x)
             PROVE  \E n \in N : t.mem[n].kind = "branch"
                                 /\ \E j \in DOMAIN t.mem[n].kids : j # 0 /\ t.mem[n].kids[j] = x
    BY DEF Takes
<1>1. x \in R \/ \E k \in Live(s, g, d) : s.mem[d].kids[k] = x
    BY DEF Moves
<1>2. Stays(kids, i, u, x)
    BY <1>1 DEF Live, Stays
<1>3. \E j \in 1 .. m : WideKid(kids, i, u, j) = x
  <2>1. kids \in Seq(T) /\ i \in 1 .. Len(kids) /\ m = Len(kids) + Extra(u)
      OBVIOUS
  <2> QED
      BY ONLY <1>2, <2>1, WidePlace
<1> QED
    BY <1>3, Zenon DEF Spread

\* One new branch has all children.
LEMMA OneSpreads ==
  ASSUME NEW t, NEW p, NEW flag, NEW T, NEW kids, NEW keys, NEW i, NEW u, NEW m \in Nat,
         HasWide(t.mem[p], flag, T, kids, keys, i, u, 0, m)
  PROVE  Spread(t, kids, i, u, {p}, m)
<1>1. /\ t.mem[p].kind = "branch" /\ t.mem[p].kids \in Seq(T) /\ Len(t.mem[p].kids) = m
      /\ \A j \in 1 .. m : t.mem[p].kids[j] = WideKid(kids, i, u, 0 + j)
    BY DEF HasWide
<1>2. DOMAIN t.mem[p].kids = 1 .. m
    BY <1>1
<1>3. \A j \in 1 .. m : j # 0 /\ 0 + j = j
    OBVIOUS
<1> QED
    BY <1>1, <1>2, <1>3 DEF Spread

\* Two have them together.
LEMMA TwoSpread ==
  ASSUME NEW t, NEW p, NEW q, NEW T, NEW kids, NEW keys, NEW i, NEW u, NEW c \in Nat, NEW n \in Nat,
         HasWide(t.mem[p], FALSE, T, kids, keys, i, u, 0, c), HasWide(t.mem[q], FALSE, T, kids, keys, i, u, c, n),
         NEW m, m = c + n
  PROVE  Spread(t, kids, i, u, {p, q}, m)
<1>1. /\ t.mem[p].kind = "branch" /\ t.mem[p].kids \in Seq(T) /\ Len(t.mem[p].kids) = c
      /\ \A j \in 1 .. c : t.mem[p].kids[j] = WideKid(kids, i, u, 0 + j)
    BY DEF HasWide
<1>2. /\ t.mem[q].kind = "branch" /\ t.mem[q].kids \in Seq(T) /\ Len(t.mem[q].kids) = n
      /\ \A j \in 1 .. n : t.mem[q].kids[j] = WideKid(kids, i, u, c + j)
    BY DEF HasWide
<1>3. DOMAIN t.mem[p].kids = 1 .. c /\ DOMAIN t.mem[q].kids = 1 .. n
    BY <1>1, <1>2
<1> SUFFICES ASSUME NEW e \in 1 .. m
             PROVE  \E z \in {p, q} : t.mem[z].kind = "branch"
                      /\ \E j \in DOMAIN t.mem[z].kids : j # 0 /\ t.mem[z].kids[j] = WideKid(kids, i, u, e)
    BY DEF Spread
<1>4. CASE e <= c
  <2>1. e \in 1 .. c /\ e # 0 /\ 0 + e = e
      BY <1>4
  <2> QED
      BY <1>1, <1>3, <2>1
<1>5. CASE ~(e <= c)
  <2>1. PICK j : j = e - c
      OBVIOUS
  <2>2. j \in 1 .. n /\ j # 0 /\ c + j = e
      BY <1>5, <2>1
  <2> QED
      BY <1>2, <1>3, <2>2
<1> QED
    BY <1>4, <1>5

\* btree_leaf_add and btree_leaf_split leave only what they hand up without a way up.
LEMMA LeafReared ==
  ASSUME NEW g, Descending(g), Reared(st, g, {root}), At.kind = "leaf",
         NEW o, o.pages = g.pages, Half(st, o, cur, path, {}, 0),
         NEW t, NEW h, NEW N, Rewritten(st, o, t, h, {cur}, N, {}, 0)
  PROVE  Reared(t, h, N)
<1>1. Reared(st, o, {cur})
    BY OpenReared
<1>2. Reared(st, o, {} \cup {cur})
    BY <1>1
<1>3. cur \notin Inner(st, o)
    BY DEF Inner, At
<1>4. Takes(st, o, t, {cur}, N, {})
    BY <1>3 DEF Takes, Moves
<1> QED
    BY <1>2, <1>4, RewrittenReared

\* So for a leaf that has room.
LEMMA LeafAddReared ==
  ASSUME NEW g, Descending(g), Reared(st, g, {root}), At.kind = "leaf",
         NEW h, LeafWritten(g, h), Ascending(h)'
  PROVE  Reared(st', h, Ends') /\ h.pages = (g.pages \ {cur}) \cup Ends'
<1>1. PICK o, p :
        /\ o.pages = g.pages /\ Half(st, o, cur, path, {}, 0)
        /\ Rewritten(st, o, st', h, {cur}, {p}, {}, 0)
        /\ Hands(st', path, p, 0, call[1])
    BY Zenon DEF LeafWritten
<1>2. up' = [orig |-> p, split |-> 0, mid |-> call[1]]
    BY <1>1, Zenon DEF Hands
<1>3. p # 0
    BY <1>2 DEF Ascending
<1>4. Ends' = {p}
    BY <1>2, <1>3 DEF Ends
<1>5. PICK t : t = st'
    OBVIOUS
<1>6. Reared(t, h, {p})
    BY <1>1, <1>5, LeafReared
<1>7. h.pages = (g.pages \ {cur}) \cup {p}
    BY <1>1 DEF Rewritten
<1> QED
    BY <1>4, <1>5, <1>6, <1>7

\* And for one that is full.
LEMMA LeafHalvedReared ==
  ASSUME NEW g, Descending(g), Reared(st, g, {root}), At.kind = "leaf",
         NEW h, LeafHalved(g, h), Ascending(h)'
  PROVE  Reared(st', h, Ends') /\ h.pages = (g.pages \ {cur}) \cup Ends'
<1>1. PICK o, p, q, c, mid :
        /\ o.pages = g.pages /\ o.level = g.level /\ Half(st, o, cur, path, {}, 0)
        /\ p # q /\ q # 0 /\ Rewritten(st, o, st', h, {cur}, {p, q}, {}, 0)
        /\ c \in 1 .. Len(At.keys)
        /\ HasItems(st'.mem[p], FALSE, At, Place, call[1], call[2], 0, c)
        /\ HasItems(st'.mem[q], FALSE, At, Place, call[1], call[2], c, Len(At.keys) + 1 - c)
        /\ mid = WideItem(At.keys, Place, call[1], c + 1)
        /\ Hands(st', path, p, q, mid)
    BY Zenon DEF LeafHalved
<1>2. up' = [orig |-> p, split |-> q, mid |-> mid]
    BY <1>1, Zenon DEF Hands
<1>3. p # 0
    BY <1>2 DEF Ascending
<1>4. Ends' = {p, q}
    BY <1>1, <1>2, <1>3 DEF Ends
<1>5. PICK t : t = st'
    OBVIOUS
<1>6. Reared(t, h, {p, q})
    BY <1>1, <1>5, LeafReared
<1>7. h.pages = (g.pages \ {cur}) \cup {p, q}
    BY <1>1 DEF Rewritten
<1> QED
    BY <1>4, <1>5, <1>6, <1>7

\* So it is for a branch: what was handed up goes below what is handed up now.
LEMMA BranchAddReared ==
  ASSUME NEW g, Ascending(g), path # <<>>, Reared(st, g, Ends),
         NEW h, BranchWritten(g, h), Ascending(h)'
  PROVE  Reared(st', h, Ends') /\ h.pages = (g.pages \ {Waiting.page}) \cup Ends'
<1>1. PICK p, l :
        /\ Rewritten(st, g, st', h, {Waiting.page}, {p}, Ends, l)
        /\ HasWide(st'.mem[p], Parent.root, 1 .. st.end - 1, Parent.kids, Parent.keys, Waiting.child, up,
                   0, Len(Parent.kids) + Extra(up))
        /\ Hands(st', Tail(path), p, 0, up.mid)
    BY Zenon DEF BranchWritten
<1>2. up' = [orig |-> p, split |-> 0, mid |-> up.mid]
    BY <1>1, Zenon DEF Hands
<1>3. p # 0
    BY <1>2 DEF Ascending
<1>4. Ends' = {p}
    BY <1>2, <1>3 DEF Ends
<1>5. PICK d, w, t, T : d = Waiting.page /\ w = Tail(path) /\ t = st' /\ T = 1 .. st.end - 1
    OBVIOUS
<1>6. /\ d \in Inner(st, g) /\ g.hole[d] = Waiting.child /\ Waiting.child \in 1 .. Len(Parent.kids)
      /\ Parent = st.mem[d] /\ Parent.kids \in Seq(1 .. st.end - 1)
    BY <1>5, AtBranch, Zenon
<1>7. PICK kids, keys, i, m : kids = Parent.kids /\ keys = Parent.keys /\ i = Waiting.child
                              /\ m = Len(kids) + Extra(up)
    OBVIOUS
<1>8. HasWide(t.mem[p], Parent.root, T, kids, keys, i, up, 0, m) /\ kids \in Seq(T)
    BY <1>1, <1>5, <1>6, <1>7
<1>9. /\ d \in Inner(st, g) /\ g.hole[d] = i /\ kids = st.mem[d].kids /\ i \in 1 .. Len(kids)
      /\ Rewritten(st, g, t, h, {d}, {p}, Ends, l)
    BY <1>1, <1>5, <1>6, <1>7
<1>10. m \in Nat
  <2>1. PICK k, e : k = Len(kids) /\ e = Extra(up)
      OBVIOUS
  <2>2. k \in Nat /\ m = k + e
      BY ONLY <1>7, <1>8, <2>1
  <2>3. e \in {0, 1}
      BY <2>1 DEF Extra
  <2> QED
      BY ONLY <2>2, <2>3
<1>11. Spread(t, kids, i, up, {p}, m)
    BY ONLY <1>8, <1>10, OneSpreads
<1>12. Ends = {up.orig, up.split} \ {0}
    BY DEF Ends
<1>13. Takes(st, g, t, {d}, {p}, Ends)
    BY ONLY <1>7, <1>8, <1>9, <1>11, <1>12, SpreadTakes
<1>14. Reared(st, g, Ends \cup {d})
    BY RearedMore
<1>15. Reared(t, h, {p})
    BY ONLY <1>9, <1>13, <1>14, RewrittenReared
<1>16. h.pages = (g.pages \ {d}) \cup {p}
    BY <1>9 DEF Rewritten
<1> QED
    BY <1>4, <1>5, <1>15, <1>16

\* And for a branch that is split.
LEMMA BranchHalvedReared ==
  ASSUME NEW g, Ascending(g), path # <<>>, Reared(st, g, Ends),
         NEW h, BranchHalved(g, h), Ascending(h)'
  PROVE  Reared(st', h, Ends') /\ h.pages = (g.pages \ {Waiting.page}) \cup Ends'
<1>1. PICK p, q, c, mid, l :
        /\ l \in Nat \ {0} /\ Half(st, g, Waiting.page, Tail(path), Ends, l)
        /\ p # q /\ q # 0 /\ up.split # 0 /\ Rewritten(st, g, st', h, {Waiting.page}, {p, q}, Ends, l)
        /\ c \in 2 .. Len(Parent.keys) + 1
        /\ HasWide(st'.mem[p], FALSE, 1 .. st.end - 1, Parent.kids, Parent.keys, Waiting.child, up, 0, c)
        /\ HasWide(st'.mem[q], FALSE, 1 .. st.end - 1, Parent.kids, Parent.keys, Waiting.child, up,
                   c, Len(Parent.keys) + 2 - c)
        /\ mid = WideKey(Parent.keys, Waiting.child, up, c)
        /\ Hands(st', Tail(path), p, q, mid)
    BY Zenon DEF BranchHalved
<1>2. up' = [orig |-> p, split |-> q, mid |-> mid]
    BY <1>1, Zenon DEF Hands
<1>3. p # 0
    BY <1>2 DEF Ascending
<1>4. Ends' = {p, q}
    BY <1>1, <1>2, <1>3 DEF Ends
<1>5. PICK d, w, t, T : d = Waiting.page /\ w = Tail(path) /\ t = st' /\ T = 1 .. st.end - 1
    OBVIOUS
<1>6. /\ d \in Inner(st, g) /\ g.hole[d] = Waiting.child /\ Waiting.child \in 1 .. Len(Parent.kids)
      /\ Parent = st.mem[d] /\ Parent.kids \in Seq(1 .. st.end - 1)
      /\ Len(Parent.kids) = Len(Parent.keys) + 1 /\ Len(Parent.keys) \in Nat
    BY <1>5, AtBranch, Zenon
<1>7. PICK kids, keys, i, m, n : kids = Parent.kids /\ keys = Parent.keys /\ i = Waiting.child
                                 /\ m = Len(kids) + Extra(up) /\ n = Len(Parent.keys) + 2 - c
    OBVIOUS
<1>8. /\ HasWide(t.mem[p], FALSE, T, kids, keys, i, up, 0, c)
      /\ HasWide(t.mem[q], FALSE, T, kids, keys, i, up, c, n) /\ kids \in Seq(T)
    BY <1>1, <1>5, <1>6, <1>7
<1>9. /\ d \in Inner(st, g) /\ g.hole[d] = i /\ kids = st.mem[d].kids /\ i \in 1 .. Len(kids)
      /\ Rewritten(st, g, t, h, {d}, {p, q}, Ends, l)
    BY <1>1, <1>5, <1>6, <1>7
<1>10. c \in Nat /\ n \in Nat /\ m = c + n
  <2>1. Len(kids) = Len(Parent.keys) + 1 /\ Len(Parent.keys) \in Nat /\ Extra(up) = 1 /\ c \in 2 .. Len(Parent.keys) + 1
      BY <1>1, <1>6, <1>7 DEF Extra
  <2> QED
      BY <1>7, <2>1
<1>11. Spread(t, kids, i, up, {p, q}, m)
    BY ONLY <1>8, <1>10, TwoSpread
<1>12. Ends = {up.orig, up.split} \ {0}
    BY DEF Ends
<1>13. Takes(st, g, t, {d}, {p, q}, Ends)
    BY ONLY <1>7, <1>8, <1>9, <1>11, <1>12, SpreadTakes
<1>14. Reared(st, g, Ends \cup {d})
    BY RearedMore
<1>15. Reared(t, h, {p, q})
    BY ONLY <1>9, <1>13, <1>14, RewrittenReared
<1>16. h.pages = (g.pages \ {d}) \cup {p, q}
    BY <1>9 DEF Rewritten
<1> QED
    BY <1>4, <1>5, <1>15, <1>16

\* btree_add ends with one page that has no way up, the root.
LEMMA RootReared ==
  ASSUME NEW g, Ascending(g), Reared(st, g, Ends), NEW h, RootWritten(g, h)
  PROVE  /\ Reared(st', h, {root'})
         /\ g.pages \subseteq h.pages /\ (up.split # 0 => root' \in h.pages)
<1>1. up.orig # 0
    BY DEF Ascending
<1>2. CASE up.split = 0
  <2>1. h = g /\ st' = st /\ root' = up.orig
      BY <1>2 DEF RootWritten
  <2>2. Ends = {root'}
      BY <1>1, <1>2, <2>1 DEF Ends
  <2>3. Reared(st', h, {root'})
      BY <2>1, <2>2
  <2> QED
      BY <1>2, <2>1, <2>3
<1>3. CASE up.split # 0
  <2>1. PICK t, r, l : t = st' /\ r = root' /\ l = g.level[up.orig] + 1
      OBVIOUS
  <2>2. /\ Rewritten(st, g, t, h, {}, {r}, Ends, l)
        /\ t.mem[r].kind = "branch" /\ t.mem[r].kids = <<up.orig, up.split>>
      BY <1>3, <2>1, Zenon DEF RootWritten
  <2>3. Ends = {up.orig, up.split}
      BY <1>1, <1>3 DEF Ends
  <2>4. PICK kids : kids = t.mem[r].kids
      OBVIOUS
  <2>5. DOMAIN kids = {1, 2} /\ kids[1] = up.orig /\ kids[2] = up.split
      BY <2>2, <2>4
  <2>6. Takes(st, g, t, {}, {r}, Ends)
    <3> SUFFICES ASSUME NEW x, Moves(st, g, {}, Ends, x)
                 PROVE  t.mem[r].kind = "branch" /\ \E j \in DOMAIN t.mem[r].kids : j # 0 /\ t.mem[r].kids[j] = x
        BY DEF Takes
    <3>1. x = up.orig \/ x = up.split
        BY <2>3 DEF Moves
    <3>2. 1 # 0 /\ 2 # 0 /\ 1 \in DOMAIN kids /\ 2 \in DOMAIN kids
        BY <2>5
    <3>3. \E j \in DOMAIN kids : j # 0 /\ kids[j] = x
        BY <2>5, <3>1, <3>2
    <3> QED
        BY <2>2, <2>4, <3>3
  <2>7. Reared(st, g, Ends \cup {})
      OBVIOUS
  <2>8. Reared(t, h, {r})
      BY ONLY <2>2, <2>6, <2>7, RewrittenReared
  <2>9. h.pages = (g.pages \ {}) \cup {r}
      BY <2>2 DEF Rewritten
  <2>10. g.pages \subseteq h.pages /\ root' \in h.pages
      BY <2>1, <2>9
  <2> QED
      BY <2>1, <2>8, <2>10
<1> QED
    BY <1>2, <1>3

-----------------------------------------------------------------------------
(* Every page ever cut from the file is in use or free. *)

\* The pages that are not on the free list.
InUse(s) == (2 .. s.end - 1) \ Range(s.free)

\* A store as a record of its parts.
InParts(s) ==
  /\ s = [mem |-> s.mem, end |-> s.end, free |-> s.free]
  /\ s.end \in Nat /\ s.free \in Seq(Nat)

\* store_alloc takes one page.
LEMMA PutNewUses ==
  ASSUME NEW s, InParts(s), NEW c, NEW t, t = PutNew(s, c)
  PROVE  InUse(t) \subseteq InUse(s) \cup {NextPage(s)} /\ InParts(t)
<1>1. PICK p, f, e : p = NextPage(s) /\ f = s.free /\ e = s.end
    OBVIOUS
<1>2. /\ t.end = (IF f = <<>> THEN e + 1 ELSE e)
      /\ t.free = (IF f = <<>> THEN <<>> ELSE Tail(f))
      /\ t = [mem |-> t.mem, end |-> t.end, free |-> t.free]
    BY <1>1 DEF PutNew
<1>3. e \in Nat /\ f \in Seq(Nat)
    BY <1>1 DEF InParts
<1>4. CASE f = <<>>
  <2>1. t.end = e + 1 /\ t.free = <<>> /\ p = e
      BY <1>1, <1>2, <1>4 DEF NextPage
  <2>2. Range(<<>>) = {}
      BY DEF Range
  <2>3. InUse(t) = 2 .. e /\ InUse(s) = 2 .. e - 1
      BY <1>1, <1>3, <1>4, <2>1, <2>2 DEF InUse
  <2>4. InUse(t) \subseteq InUse(s) \cup {p}
      BY <1>3, <2>1, <2>3
  <2>5. InParts(t)
      BY <1>2, <1>3, <2>1 DEF InParts
  <2> QED
      BY <1>1, <2>4, <2>5
<1>5. CASE f # <<>>
  <2>1. t.end = e /\ t.free = Tail(f) /\ p = Head(f)
      BY <1>1, <1>2, <1>5 DEF NextPage
  <2>2. Tail(f) \in Seq(Nat) /\ Range(f) \subseteq Range(Tail(f)) \cup {p}
    <3>1. Tail(f) \in Seq(Nat)
        BY <1>3, <1>5
    <3>2. ASSUME NEW y \in Range(f), y # p PROVE y \in Range(Tail(f))
      <4>1. PICK i \in DOMAIN f : f[i] = y
          BY <3>2 DEF Range
      <4>2. f[1] = p
          BY <1>3, <1>5, <2>1
      <4>3. i \in 1 .. Len(f) /\ i # 1
          BY <1>3, <3>2, <4>1, <4>2
      <4>4. PICK j : j = i - 1
          OBVIOUS
      <4>5. j \in DOMAIN Tail(f) /\ Tail(f)[j] = f[i]
          BY <1>3, <1>5, <4>3, <4>4
      <4> QED
          BY <4>1, <4>5 DEF Range
    <3> QED
        BY <3>1, <3>2
  <2>3. InUse(t) \subseteq InUse(s) \cup {p}
      BY <1>1, <2>1, <2>2 DEF InUse
  <2>4. InParts(t)
      BY <1>2, <1>3, <2>1, <2>2 DEF InParts
  <2> QED
      BY <1>1, <2>3, <2>4
<1> QED
    BY <1>4, <1>5

\* store_free gives one back.
LEMMA ReleaseUses ==
  ASSUME NEW s, InParts(s), NEW p, NEW t, t = Release(s, p)
  PROVE  InUse(t) \subseteq InUse(s) \ {p}
<1>1. PICK f, u : f = s.free /\ u = <<p>> \o f
    OBVIOUS
<1>2. s = [mem |-> s.mem, end |-> s.end, free |-> f] /\ f \in Seq(Nat)
    BY <1>1 DEF InParts
<1>3. t = [mem |-> s.mem, end |-> s.end, free |-> u]
    BY <1>1, <1>2, Zenon DEF Release
<1>4. t.end = s.end /\ t.free = u
    BY <1>3
<1>5. Len(u) = Len(f) + 1 /\ u[1] = p /\ \A j \in 1 .. Len(f) : u[j + 1] = f[j]
  <2>1. f \in Seq(Nat \cup {p}) /\ <<p>> \in Seq(Nat \cup {p})
      BY <1>2
  <2> QED
      BY ONLY <1>1, <2>1
<1>6. DOMAIN u = 1 .. Len(f) + 1 /\ Len(f) \in Nat /\ DOMAIN f = 1 .. Len(f)
  <2>1. f \in Seq(Nat \cup {p}) /\ <<p>> \in Seq(Nat \cup {p})
      BY <1>2
  <2> QED
      BY ONLY <1>1, <1>2, <2>1
<1>7. p \in Range(u)
    BY <1>5, <1>6 DEF Range
<1>8. ASSUME NEW y \in Range(f) PROVE y \in Range(u)
  <2>1. PICK j \in 1 .. Len(f) : f[j] = y
      BY <1>6 DEF Range
  <2>2. PICK k : k = j + 1
      OBVIOUS
  <2>3. k \in DOMAIN u /\ u[k] = y
      BY <1>5, <1>6, <2>1, <2>2
  <2> QED
      BY <2>3 DEF Range
<1> QED
    BY <1>1, <1>4, <1>7, <1>8 DEF InUse

\* A page replaced by one page.
LEMMA ReplaceUses ==
  ASSUME NEW s, InParts(s), NEW p, NEW c, NEW t, t = Replace(s, p, c)
  PROVE  InUse(t) \subseteq (InUse(s) \ {p}) \cup {NextPage(s)}
<1>1. PICK u : u = PutNew(s, c)
    OBVIOUS
<1>2. t = Release(u, p)
    BY <1>1 DEF Replace
<1>3. InUse(u) \subseteq InUse(s) \cup {NextPage(s)} /\ InParts(u)
    BY <1>1, PutNewUses
<1>4. InUse(t) \subseteq InUse(u) \ {p}
    BY <1>2, <1>3, ReleaseUses
<1> QED
    BY <1>3, <1>4

\* A page replaced by two.
LEMMA SplitUses ==
  ASSUME NEW s, InParts(s), NEW p, NEW a, NEW b, NEW u, u = PutNew(s, a), NEW t, t = Release(PutNew(u, b), p)
  PROVE  InUse(t) \subseteq (InUse(s) \ {p}) \cup {NextPage(s), NextPage(u)}
<1>1. PICK v : v = PutNew(u, b)
    OBVIOUS
<1>2. InUse(u) \subseteq InUse(s) \cup {NextPage(s)} /\ InParts(u)
    BY PutNewUses
<1>3. InUse(v) \subseteq InUse(u) \cup {NextPage(u)} /\ InParts(v)
    BY <1>1, <1>2, PutNewUses
<1>4. InUse(t) \subseteq InUse(v) \ {p}
    BY <1>1, <1>3, ReleaseUses
<1> QED
    BY <1>2, <1>3, <1>4

\* The file as a call leaves it.
LEMMA FitsParts ==
  ASSUME NEW s, StoreFits(s)
  PROVE  InParts(s)
<1>1. s.free \in Seq(2 .. s.end - 1) /\ s.end \in Nat
    BY DEF StoreFits
<1>2. s.free \in Seq(Nat)
    BY <1>1
<1> QED
    BY <1>1, <1>2 DEF StoreFits, InParts

\* What each step of btree_add that writes pages takes from the file: what it hands up.
LEMMA LeafWriteUses ==
  ASSUME StoreFits(st), LeafAdd \/ LeafSplitUp
  PROVE  InUse(st') \subseteq (InUse(st) \ {cur}) \cup {up'.orig, up'.split}
<1>1. PICK s, t : s = st /\ t = st'
    OBVIOUS
<1>2. InParts(s)
    BY <1>1, FitsParts
<1>3. CASE LeafAdd
  <2>1. PICK c : t = Replace(s, cur, c)
      BY <1>1, <1>3, Zenon DEF LeafAdd
  <2>2. up'.orig = NextPage(s)
      BY <1>1, <1>3 DEF LeafAdd, GiveUp
  <2>3. InUse(t) \subseteq (InUse(s) \ {cur}) \cup {NextPage(s)}
      BY <1>2, <2>1, ReplaceUses
  <2> QED
      BY <1>1, <2>2, <2>3
<1>4. CASE LeafSplitUp
  <2>1. PICK a, b, u : u = PutNew(s, a) /\ t = Release(PutNew(u, b), cur)
                       /\ up'.orig = NextPage(s) /\ up'.split = NextPage(u)
    <3>1. PICK halves : halves = LeafSplit(At, call[1], call[2])
        OBVIOUS
    <3>2. PICK u : u = PutNew(st, halves.left)
        OBVIOUS
    <3>3. st' = Release(PutNew(u, halves.right), cur) /\ GiveUp(NextPage(st), NextPage(u), halves.mid)
        BY <1>4, <3>1, <3>2 DEF LeafSplitUp
    <3>4. up' = [orig |-> NextPage(st), split |-> NextPage(u), mid |-> halves.mid]
        BY <3>3 DEF GiveUp
    <3>5. up'.orig = NextPage(st) /\ up'.split = NextPage(u)
        BY <3>4
    <3> QED
        BY <1>1, <3>2, <3>3, <3>5
  <2>2. InUse(t) \subseteq (InUse(s) \ {cur}) \cup {NextPage(s), NextPage(u)}
      BY <1>2, <2>1, SplitUses
  <2> QED
      BY <1>1, <2>1, <2>2
<1> QED
    BY <1>3, <1>4

\* And those that write branches.
LEMMA BranchWriteUses ==
  ASSUME StoreFits(st), BranchAdd \/ BranchSplitUp
  PROVE  InUse(st') \subseteq (InUse(st) \ {Waiting.page}) \cup {up'.orig, up'.split}
<1>1. PICK s, t, d : s = st /\ t = st' /\ d = Waiting.page
    OBVIOUS
<1>2. InParts(s)
    BY <1>1, FitsParts
<1>3. CASE BranchAdd
  <2>1. PICK c : t = Replace(s, d, c)
      BY <1>1, <1>3, Zenon DEF BranchAdd
  <2>2. up'.orig = NextPage(s)
      BY <1>1, <1>3 DEF BranchAdd, GiveUp
  <2>3. InUse(t) \subseteq (InUse(s) \ {d}) \cup {NextPage(s)}
      BY <1>2, <2>1, ReplaceUses
  <2> QED
      BY <1>1, <2>2, <2>3
<1>4. CASE BranchSplitUp
  <2>1. PICK a, b, u : u = PutNew(s, a) /\ t = Release(PutNew(u, b), d)
                       /\ up'.orig = NextPage(s) /\ up'.split = NextPage(u)
    <3>1. PICK halves : halves = BranchSplit(Parent, Waiting.child, up)
        OBVIOUS
    <3>2. PICK u : u = PutNew(st, halves.left)
        OBVIOUS
    <3>3. st' = Release(PutNew(u, halves.right), Waiting.page) /\ GiveUp(NextPage(st), NextPage(u), halves.mid)
        BY <1>4, <3>1, <3>2 DEF BranchSplitUp
    <3>4. up' = [orig |-> NextPage(st), split |-> NextPage(u), mid |-> halves.mid]
        BY <3>3 DEF GiveUp
    <3>5. up'.orig = NextPage(st) /\ up'.split = NextPage(u)
        BY <3>4
    <3> QED
        BY <1>1, <3>2, <3>3, <3>5
  <2>2. InUse(t) \subseteq (InUse(s) \ {d}) \cup {NextPage(s), NextPage(u)}
      BY <1>2, <2>1, SplitUses
  <2> QED
      BY <1>1, <2>1, <2>2
<1> QED
    BY <1>3, <1>4

\* FlattenSeq loses nothing.
LEMMA FlattenHas ==
  ASSUME NEW T, NEW ss \in Seq(Seq(T)), NEW u, u = FlattenSeq(ss), NEW e \in DOMAIN ss
  PROVE  Range(ss[e]) \subseteq Range(u)
<1>1. PICK n : n = Len(ss)
    OBVIOUS
<1>2. n \in Nat /\ DOMAIN ss = 1 .. n /\ \A i \in 1 .. n : ss[i] \in Seq(T)
    BY <1>1
<1>3. e \in 1 .. n /\ n # 0 /\ n \in 1 .. n
    BY <1>2
<1>4. PICK f : Flattens(f, ss, n, T)
    BY <1>1, <1>3, FlattenSteps, Zenon
<1>5. /\ f \in [1 .. n -> Seq(T)]
      /\ f[1] = ss[1] /\ \A i \in 2 .. n : f[i] = f[i - 1] \o ss[i]
      /\ FlattenSeq(ss) = f[n]
    BY <1>4, Zenon DEF Flattens
<1> DEFINE Good(m) == Range(ss[e]) \subseteq Range(f[m])
           Bad == {m \in e .. n : ~Good(m)}
<1>6. Bad = {}
  <2>1. SUFFICES ASSUME Bad # {} PROVE FALSE
      BY Zenon
  <2>2. Bad \in SUBSET Nat
      BY <1>3
  <2>3. PICK m \in Bad : \A j \in Bad : m <= j
      BY <2>1, <2>2, NatMin, Zenon
  <2>4. m \in e .. n /\ ~Good(m)
      BY <2>3, Zenon
  <2>5. m \in 1 .. n
      BY <1>2, <1>3, <2>4
  <2>6. m # 1
    <3>1. SUFFICES ASSUME m = 1 PROVE FALSE
        OBVIOUS
    <3>2. e = 1
        BY <1>3, <2>4, <3>1
    <3> QED
        BY <1>5, <2>4, <3>1, <3>2
  <2>7. PICK k : k = m - 1
      OBVIOUS
  <2>8. k \in 1 .. n /\ m \in 2 .. n /\ ~(m <= k)
      BY <1>2, <2>5, <2>6, <2>7
  <2>9. f[m] = f[k] \o ss[m] /\ f[k] \in Seq(T) /\ ss[m] \in Seq(T)
      BY <1>2, <1>5, <2>5, <2>7, <2>8, Zenon
  <2>10. Range(f[m]) = Range(f[k]) \cup Range(ss[m])
    <3>1. PICK a, b, c : a = f[k] /\ b = ss[m] /\ c = f[m]
        OBVIOUS
    <3>2. a \in Seq(T) /\ b \in Seq(T) /\ c = a \o b
        BY <2>9, <3>1
    <3>3. Joined(c, a, b)
        BY <3>2, ConcatIs, Zenon
    <3> QED
        BY <3>1, <3>3 DEF Joined
  <2>11. m # e
      BY <2>4, <2>10
  <2>12. k \in e .. n
      BY <1>3, <2>4, <2>7, <2>8, <2>11
  <2>13. k \notin Bad
    <3> HIDE DEF Bad
    <3> QED
        BY <2>3, <2>8
  <2>14. Good(k)
      BY <2>12, <2>13, Zenon
  <2> QED
      BY <2>4, <2>10, <2>14
<1>7. n \in e .. n
    BY <1>2, <1>3
<1>8. Good(n)
    BY <1>6, <1>7, Zenon
<1> QED
    BY <1>5, <1>8

\* What is freed for the pages up to level d: with each page its children.
FreesAll(s, g, x, d) ==
  \A p \in g.pages : g.level[p] <= d =>
    /\ p \in Range(x[p])
    /\ \A y \in Range(x[p]) : Kids(s.mem[y]) \subseteq Range(x[p])

\* So it is for the next level.
LEMMA FreeingAll ==
  ASSUME NEW s, NEW g, StoreFits(s), g.pages \subseteq DOMAIN s.mem, Levelled(s, g),
         \A p \in g.pages : g.hole[p] = 0, NEW x \in [DOMAIN s.mem -> Seq(DOMAIN s.mem)],
         NEW d \in Nat, FreesAll(s, g, x, d), NEW e, e = d + 1, NEW z, z = Freeing(s, x)
  PROVE  FreesAll(s, g, z, e)
<1> SUFFICES ASSUME NEW p \in g.pages, g.level[p] <= e
             PROVE  p \in Range(z[p]) /\ \A y \in Range(z[p]) : Kids(s.mem[y]) \subseteq Range(z[p])
    BY DEF FreesAll
<1>1. PICK P : P = DOMAIN s.mem
    OBVIOUS
<1>2. p \in P /\ PageFits(s.mem[p], s.end) /\ P = 1 .. s.end - 1
    BY <1>1 DEF StoreFits
<1>3. CASE s.mem[p].kind # "branch"
  <2>1. z[p] = <<p>>
      BY <1>1, <1>2, <1>3 DEF Freeing
  <2>2. Range(<<p>>) = {p}
      BY DEF Range
  <2>3. Kids(s.mem[p]) = {}
      BY <1>3 DEF Kids
  <2> QED
      BY <2>1, <2>2, <2>3
<1>4. CASE s.mem[p].kind = "branch"
  <2>1. PICK kids, ss : kids = s.mem[p].kids /\ ss = [i \in DOMAIN kids |-> x[kids[i]]]
      BY Zenon
  <2>2. kids \in Seq(P)
      BY <1>2, <1>4, <2>1 DEF PageFits
  <2>3. PICK n : n = Len(kids)
      OBVIOUS
  <2>4. n \in Nat /\ DOMAIN kids = 1 .. n /\ \A i \in 1 .. n : kids[i] \in P
      BY <2>2, <2>3
  <2>5. PICK Q : Q = Seq(P)
      OBVIOUS
  <2>6. ss \in Seq(Q) /\ DOMAIN ss = 1 .. n /\ \A i \in 1 .. n : ss[i] = x[kids[i]]
    <3>1. \A i \in 1 .. n : x[kids[i]] \in Q
        BY <1>1, <2>4, <2>5
    <3> QED
        BY <2>1, <2>4, <3>1
  <2>7. PICK u : u = FlattenSeq(ss)
      OBVIOUS
  <2>8. u \in Seq(P) /\ Flattened(u, ss)
      BY <2>5, <2>6, <2>7, FlattenIs
  <2>9. \A i \in 1 .. n : Range(ss[i]) \subseteq Range(u)
      BY <2>5, <2>6, <2>7, FlattenHas
  <2>10. z[p] = u \o <<p>>
      BY <1>1, <1>2, <1>4, <2>1, <2>7, Zenon DEF Freeing
  <2>11. Range(z[p]) = Range(u) \cup {p}
    <3>1. PICK a, b, c : a = u /\ b = <<p>> /\ c = z[p]
        OBVIOUS
    <3>2. a \in Seq(P) /\ b \in Seq(P) /\ c = a \o b
        BY <1>2, <2>8, <2>10, <3>1
    <3>3. Joined(c, a, b)
        BY <3>2, ConcatIs, Zenon
    <3>4. Range(b) = {p}
        BY <3>1 DEF Range
    <3> QED
        BY <3>1, <3>3, <3>4 DEF Joined
  <2>12. ASSUME NEW i \in 1 .. n
         PROVE  kids[i] \in Range(ss[i]) /\ \A y \in Range(ss[i]) : Kids(s.mem[y]) \subseteq Range(ss[i])
    <3>1. i # 0 /\ p \in Inner(s, g)
        BY <1>4 DEF Inner
    <3>2. i \in Live(s, g, p)
        BY <2>1, <2>4, <3>1 DEF Live
    <3>3. kids[i] \in g.pages /\ g.level[p] = g.level[kids[i]] + 1
        BY <2>1, <3>1, <3>2, Zenon DEF Levelled
    <3>4. g.level[kids[i]] \in Nat
        BY <3>3 DEF Levelled
    <3>5. g.level[kids[i]] <= d
        BY <3>3, <3>4
    <3> QED
        BY <2>6, <3>3, <3>5 DEF FreesAll
  <2>13. Kids(s.mem[p]) \subseteq Range(u)
    <3> SUFFICES ASSUME NEW y \in Kids(s.mem[p]) PROVE y \in Range(u)
        OBVIOUS
    <3>1. PICK i \in DOMAIN kids : kids[i] = y
        BY <1>4, <2>1 DEF Kids, Range
    <3> QED
        BY <2>4, <2>9, <2>12, <3>1
  <2>14. ASSUME NEW y \in Range(u) PROVE Kids(s.mem[y]) \subseteq Range(u)
    <3>1. PICK i \in 1 .. n : y \in Range(ss[i])
        BY <2>6, <2>8 DEF Flattened
    <3> QED
        BY <2>9, <2>12, <3>1
  <2> QED
      BY <2>11, <2>13, <2>14
<1> QED
    BY <1>3, <1>4

\* btree_destroy goes down to the leaves.
LEMMA FreedAll ==
  ASSUME NEW g, Tree(st, g), \A p \in g.pages : g.hole[p] = 0, NEW n \in Nat
  PROVE  FreesAll(st, g, Freed(n), n)
<1>1. /\ StoreFits(st) /\ g.pages \subseteq DOMAIN st.mem /\ Levelled(st, g)
  <2>1. StoreFits(st) /\ g.pages \subseteq 2 .. st.end - 1
      BY DEF Tree, Owned
  <2>2. st.end \in Nat /\ DOMAIN st.mem = 1 .. st.end - 1
      BY <2>1 DEF StoreFits
  <2> QED
      BY <2>1, <2>2 DEF Tree
<1>2. PICK F : Frees(F, st, n) /\ Freed(n) = F[n]
    BY <1>1, FreedSteps
<1>3. /\ F \in [0 .. n -> [DOMAIN st.mem -> Seq(DOMAIN st.mem)]]
      /\ F[0] = [p \in DOMAIN st.mem |-> <<p>>] /\ \A d \in 1 .. n : F[d] = Freeing(st, F[d - 1])
    BY <1>2 DEF Frees
<1> DEFINE Bad == {d \in 0 .. n : ~FreesAll(st, g, F[d], d)}
<1>4. Bad = {}
  <2>1. SUFFICES ASSUME Bad # {} PROVE FALSE
      OBVIOUS
  <2>2. Bad \in SUBSET Nat
      OBVIOUS
  <2>3. PICK d \in Bad : \A j \in Bad : d <= j
      BY <2>1, <2>2, NatMin, Zenon
  <2>4. d \in 0 .. n /\ ~FreesAll(st, g, F[d], d)
      BY <2>3
  <2>5. d # 0
    <3>1. PICK x : x = F[0]
        OBVIOUS
    <3>2. \A p \in g.pages : x[p] = <<p>>
        BY <1>1, <1>3, <3>1
    <3>3. \A p : Range(<<p>>) = {p}
        BY DEF Range
    <3>4. \A p \in g.pages : g.level[p] <= 0 => Kids(st.mem[p]) = {}
        BY <1>1 DEF Levelled, Kids
    <3>5. ASSUME NEW p \in g.pages, g.level[p] <= 0
          PROVE  p \in Range(x[p]) /\ \A y \in Range(x[p]) : Kids(st.mem[y]) \subseteq Range(x[p])
      <4>1. Range(x[p]) = {p}
          BY <3>2, <3>3, Zenon
      <4> QED
          BY <3>4, <3>5, <4>1
    <3>6. FreesAll(st, g, x, 0)
        BY <3>5, Zenon DEF FreesAll
    <3> QED
        BY <2>4, <3>1, <3>6
  <2>6. PICK j : j = d - 1
      OBVIOUS
  <2>7. j \in 0 .. n /\ ~(d <= j) /\ d \in 1 .. n /\ j \in Nat /\ d = j + 1
      BY <2>4, <2>5, <2>6
  <2>8. FreesAll(st, g, F[j], j)
    <3>1. j \notin Bad
      <4> HIDE DEF Bad
      <4> QED
          BY <2>3, <2>7
    <3> QED
        BY <2>7, <3>1
  <2>9. F[d] = Freeing(st, F[j]) /\ F[j] \in [DOMAIN st.mem -> Seq(DOMAIN st.mem)]
      BY <1>3, <2>6, <2>7
  <2>10. PICK x, z : x = F[j] /\ z = F[d]
      OBVIOUS
  <2>11. FreesAll(st, g, z, d)
      BY <1>1, <2>7, <2>8, <2>9, <2>10, FreeingAll
  <2> QED
      BY <2>4, <2>10, <2>11
<1>5. n \in 0 .. n
    OBVIOUS
<1> QED
    BY <1>2, <1>4, <1>5

\* Where all pages have a way up to pages of V, and V has with a page its children, all
\* pages that are in place are in V.
LEMMA AllReached ==
  ASSUME NEW s, NEW g, Levelled(s, g), NEW top \in Nat, UpTo(g, top), NEW R, Reared(s, g, R), NEW V, R \subseteq V,
         \A q \in Inner(s, g) : g.hole[q] # 0 \/ q \in V => \A i \in Live(s, g, q) : s.mem[q].kids[i] \in V
  PROVE  Settled(g) \subseteq V
<1> DEFINE Bad == {n \in 0 .. top : \E p \in Settled(g) : p \notin V /\ n = top - g.level[p]}
<1>1. \A p \in g.pages : g.level[p] \in Nat /\ g.level[p] <= top
    BY DEF Levelled, UpTo
<1>2. Bad = {}
  <2>1. SUFFICES ASSUME Bad # {} PROVE FALSE
      OBVIOUS
  <2>2. Bad \in SUBSET Nat
      OBVIOUS
  <2>3. PICK n \in Bad : \A j \in Bad : n <= j
      BY <2>1, <2>2, NatMin, Zenon
  <2>4. PICK p \in Settled(g) : p \notin V /\ n = top - g.level[p]
      OBVIOUS
  <2>5. PICK q \in Inner(s, g) : \E i \in Live(s, g, q) : s.mem[q].kids[i] = p
      BY <2>4 DEF Reared
  <2>6. PICK i \in Live(s, g, q) : s.mem[q].kids[i] = p
      BY <2>5
  <2>7. g.hole[q] = 0 /\ q \notin V
      BY <2>4, <2>6
  <2>8. q \in g.pages /\ q \in Settled(g) /\ p \in g.pages
      BY <2>7 DEF Inner, Settled
  <2>9. g.level[q] = g.level[p] + 1
      BY <2>6 DEF Levelled
  <2>10. PICK j : j = top - g.level[q]
      OBVIOUS
  <2>11. j \in 0 .. top /\ ~(n <= j)
      BY <1>1, <2>4, <2>8, <2>9, <2>10
  <2>12. j \in Bad
      BY <2>7, <2>8, <2>10, <2>11
  <2> HIDE DEF Bad
  <2> QED
      BY <2>3, <2>11, <2>12
<1>3. ASSUME NEW p \in Settled(g), p \notin V PROVE FALSE
  <2>1. p \in g.pages
      BY DEF Settled
  <2>2. PICK n : n = top - g.level[p]
      OBVIOUS
  <2>3. n \in 0 .. top
      BY <1>1, <2>1, <2>2
  <2>4. n \in Bad
      BY <1>3, <2>2, <2>3
  <2> QED
      BY <1>2, <2>4
<1> QED
    BY <1>3

\* btree_destroy gives all pages back.
LEMMA DestroyUses ==
  ASSUME Counted, NEW g, Idle(g), Reared(st, g, {root}), InUse(st) \subseteq g.pages, Destroy
  PROVE  InUse(st') = {}
<1>1. PICK n, r, u : n = MaxDepth /\ r = root /\ u = Freed(n)[r]
    OBVIOUS
<1>2. root # 0 /\ st' = [st EXCEPT !.free = Reverse(u) \o @]
    BY <1>1 DEF Destroy
<1>3. Whole(st, g, root) /\ Tree(st, g) /\ Shallow(g, root) /\ StoreFits(st) /\ root \in g.pages
    BY <1>2, RootStands
<1>4. (\A p \in g.pages : g.hole[p] = 0) /\ UpTo(g, g.level[root]) /\ Levelled(st, g)
    BY <1>3 DEF Whole, Tree
<1>5. n \in Nat /\ g.level[r] <= n
    BY <1>1, <1>3, DepthIs DEF Shallow
<1>6. FreesAll(st, g, Freed(n), n) /\ Freeable(st, g, Freed(n))
    BY <1>3, <1>4, <1>5, FreedAll, FreedIs
<1>7. r \in Range(u) /\ \A y \in Range(u) : Kids(st.mem[y]) \subseteq Range(u)
    BY <1>1, <1>3, <1>5, <1>6 DEF FreesAll
<1>8. u \in Seq(g.pages)
    BY <1>1, <1>3, <1>6 DEF Freeable
<1>9. g.pages \subseteq Range(u)
  <2>1. PICK top : top = g.level[root]
      OBVIOUS
  <2>2. top \in Nat /\ UpTo(g, top)
      BY <1>3, <1>4, <2>1 DEF Levelled
  <2>3. PICK V : V = Range(u)
      OBVIOUS
  <2>4. \A q \in Inner(st, g) : g.hole[q] # 0 \/ q \in V => \A i \in Live(st, g, q) : st.mem[q].kids[i] \in V
      BY <1>4, <1>7, <2>3 DEF Inner, Live, Kids, Range
  <2>5. {root} \subseteq V
      BY <1>1, <1>7, <2>3
  <2>6. Settled(g) \subseteq V
      BY <1>4, <2>2, <2>4, <2>5, AllReached
  <2> QED
      BY <1>4, <2>3, <2>6 DEF Settled
<1>10. PICK T, v, f, w : T = 1 .. st.end - 1 /\ v = Reverse(u) /\ f = st.free /\ w = v \o f
    OBVIOUS
<1>11. st' = [mem |-> st.mem, end |-> st.end, free |-> w]
  <2>1. st = [mem |-> st.mem, end |-> st.end, free |-> f]
      BY <1>3, <1>10 DEF StoreFits
  <2> QED
      BY <1>2, <1>10, <2>1, Zenon
<1>12. u \in Seq(T) /\ f \in Seq(T)
  <2>1. g.pages \subseteq T /\ st.end \in Nat
      BY <1>3, <1>10 DEF Tree, Owned, StoreFits
  <2>2. f \in Seq(2 .. st.end - 1)
      BY <1>3, <1>10 DEF StoreFits
  <2> QED
      BY <1>8, <1>10, <2>1, <2>2
<1>13. v \in Seq(T) /\ Range(u) \subseteq Range(v)
  <2>1. PICK k : k = Len(u)
      OBVIOUS
  <2>2. k \in Nat /\ DOMAIN u = 1 .. k /\ \A i \in 1 .. k : u[i] \in T
      BY <1>12, <2>1
  <2>3. v = [i \in 1 .. k |-> u[(k - i) + 1]]
      BY <1>10, <2>1 DEF Reverse
  <2>4. \A i \in 1 .. k : (k - i) + 1 \in 1 .. k
      BY <2>2
  <2>5. v \in Seq(T)
      BY <2>2, <2>3, <2>4
  <2>6. ASSUME NEW y \in Range(u) PROVE y \in Range(v)
    <3>1. PICK i \in 1 .. k : u[i] = y
        BY <2>2 DEF Range
    <3>2. PICK j : j = (k - i) + 1
        OBVIOUS
    <3>3. j \in 1 .. k /\ (k - j) + 1 = i
        BY <2>2, <3>2
    <3>4. v[j] = y /\ j \in DOMAIN v
        BY <2>3, <3>1, <3>3
    <3> QED
        BY <3>4 DEF Range
  <2> QED
      BY <2>5, <2>6
<1>14. Joined(w, v, f)
    BY <1>10, <1>12, <1>13, ConcatIs, Zenon
<1>15. PICK t : t = st'
    OBVIOUS
<1>16. t.end = st.end /\ Range(t.free) = Range(v) \cup Range(st.free)
    BY <1>10, <1>11, <1>14, <1>15 DEF Joined
<1>17. InUse(t) = {}
    BY <1>9, <1>13, <1>16 DEF InUse
<1> QED
    BY <1>15, <1>17

-----------------------------------------------------------------------------
(* The pairs that the leaves hold. *)

\* The pairs of a leaf none of whose keys has overflow pages.
ItemsOf(pg) == {<<pg.keys[i], pg.vals[i]>> : i \in 1 .. Len(pg.keys)}

\* The pairs of the leaves among some pages, and of all leaves of the tree.
LeafItems(s, N) == UNION {ItemsOf(s.mem[n]) : n \in {p \in N : s.mem[p].kind = "leaf"}}
Items(s, g) == LeafItems(s, g.pages)

\* The pairs c + 1 to c + n of a leaf that has got another one at place i.
WidePairs(pg, i, key, val, c, n) ==
  {<<WideItem(pg.keys, i, key, j), WideItem(pg.vals, i, val, j)>> : j \in c + 1 .. c + n}

\* These are the pairs of the copies of a leaf.
LEMMA CopyItems ==
  ASSUME NEW a, NEW flag, NEW pg, NEW i, NEW key, NEW val, NEW c \in Nat, NEW n \in Nat,
         HasItems(a, flag, pg, i, key, val, c, n)
  PROVE  ItemsOf(a) = WidePairs(pg, i, key, val, c, n)
<1>1. Len(a.keys) = n /\ \A j \in 1 .. n : /\ a.keys[j] = WideItem(pg.keys, i, key, c + j)
                                           /\ a.vals[j] = WideItem(pg.vals, i, val, c + j)
    BY DEF HasItems
<1>2. ItemsOf(a) = {<<a.keys[j], a.vals[j]>> : j \in 1 .. n}
    BY <1>1 DEF ItemsOf
<1>3. ASSUME NEW x \in ItemsOf(a) PROVE x \in WidePairs(pg, i, key, val, c, n)
  <2>1. PICK j \in 1 .. n : x = <<a.keys[j], a.vals[j]>>
      BY <1>2
  <2>2. PICK k : k = c + j
      OBVIOUS
  <2>3. k \in c + 1 .. c + n
      BY <2>2
  <2>4. x = <<WideItem(pg.keys, i, key, k), WideItem(pg.vals, i, val, k)>>
      BY <1>1, <2>1, <2>2
  <2> QED
      BY <2>3, <2>4 DEF WidePairs
<1>4. ASSUME NEW x \in WidePairs(pg, i, key, val, c, n) PROVE x \in ItemsOf(a)
  <2>1. PICK k \in c + 1 .. c + n : x = <<WideItem(pg.keys, i, key, k), WideItem(pg.vals, i, val, k)>>
      BY DEF WidePairs
  <2>2. PICK j : j = k - c
      OBVIOUS
  <2>3. j \in 1 .. n /\ k = c + j
      BY <2>2
  <2>4. x = <<a.keys[j], a.vals[j]>>
      BY <1>1, <2>1, <2>3
  <2> QED
      BY <1>2, <2>3, <2>4
<1> QED
    BY <1>3, <1>4

\* A leaf whose keys have a value each.
Paired(pg) == pg.keys \in Seq(Nat) /\ pg.vals \in Seq(Nat) /\ Len(pg.vals) = Len(pg.keys)

\* Place i is one where a new pair, the m-th, can go.
Spot(pg, i, m) == Paired(pg) /\ m = Len(pg.keys) + 1 /\ i \in 1 .. m

\* All of them are the old pairs and the new one.
LEMMA WidePairsAre ==
  ASSUME NEW pg, NEW i, NEW m, Spot(pg, i, m), NEW key, NEW val
  PROVE  WidePairs(pg, i, key, val, 0, m) = ItemsOf(pg) \cup {<<key, val>>}
<1>1. PICK n, keys, vals : n = Len(pg.keys) /\ keys = pg.keys /\ vals = pg.vals
    OBVIOUS
<1>2. n \in Nat /\ m = n + 1 /\ i \in 1 .. n + 1
    BY <1>1 DEF Paired, Spot
<1>3. ItemsOf(pg) = {<<keys[j], vals[j]>> : j \in 1 .. n}
    BY <1>1 DEF ItemsOf
<1>4. WidePairs(pg, i, key, val, 0, m) = {<<WideItem(keys, i, key, j), WideItem(vals, i, val, j)>> : j \in 1 .. n + 1}
    BY <1>1, <1>2 DEF WidePairs
<1>5. ASSUME NEW j \in 1 .. n + 1
      PROVE  <<WideItem(keys, i, key, j), WideItem(vals, i, val, j)>> \in ItemsOf(pg) \cup {<<key, val>>}
  <2>1. CASE j < i
    <3>1. j \in 1 .. n /\ WideItem(keys, i, key, j) = keys[j] /\ WideItem(vals, i, val, j) = vals[j]
        BY <1>2, <2>1 DEF WideItem
    <3> QED
        BY <1>3, <3>1
  <2>2. CASE j = i
      BY <2>2 DEF WideItem
  <2>3. CASE j > i
    <3>1. PICK k : k = j - 1
        OBVIOUS
    <3>2. k \in 1 .. n /\ WideItem(keys, i, key, j) = keys[k] /\ WideItem(vals, i, val, j) = vals[k]
        BY <1>2, <2>3, <3>1 DEF WideItem
    <3> QED
        BY <1>3, <3>2
  <2> QED
      BY <1>2, <2>1, <2>2, <2>3
<1>6. ASSUME NEW k \in 1 .. n PROVE <<keys[k], vals[k]>> \in WidePairs(pg, i, key, val, 0, m)
  <2>1. CASE k < i
    <3>1. k \in 1 .. n + 1 /\ WideItem(keys, i, key, k) = keys[k] /\ WideItem(vals, i, val, k) = vals[k]
        BY <1>2, <2>1 DEF WideItem
    <3> QED
        BY <1>4, <3>1
  <2>2. CASE ~(k < i)
    <3>1. PICK j : j = k + 1
        OBVIOUS
    <3>2. j \in 1 .. n + 1 /\ WideItem(keys, i, key, j) = keys[k] /\ WideItem(vals, i, val, j) = vals[k]
        BY <1>2, <2>2, <3>1 DEF WideItem
    <3> QED
        BY <1>4, <3>2
  <2> QED
      BY <2>1, <2>2
<1>7. <<key, val>> \in WidePairs(pg, i, key, val, 0, m)
  <2>1. i \in 1 .. n + 1 /\ WideItem(keys, i, key, i) = key /\ WideItem(vals, i, val, i) = val
      BY <1>2 DEF WideItem
  <2> QED
      BY <1>4, <2>1
<1> QED
    BY <1>3, <1>4, <1>5, <1>6, <1>7

\* The two halves have them all.
LEMMA HalvesPairs ==
  ASSUME NEW pg, NEW i, NEW key, NEW val, NEW m \in Nat, NEW c \in 0 .. m, NEW n, n = m - c
  PROVE  WidePairs(pg, i, key, val, 0, c) \cup WidePairs(pg, i, key, val, c, n) = WidePairs(pg, i, key, val, 0, m)
<1>1. PICK A, B, C : A = 0 + 1 .. 0 + c /\ B = c + 1 .. c + n /\ C = 0 + 1 .. 0 + m
    OBVIOUS
<1>2. A \cup B = C
    BY <1>1
<1> QED
    BY <1>1, <1>2 DEF WidePairs

\* When pages are replaced, what the leaves hold changes as it does in those pages.
LEMMA RewrittenItems ==
  ASSUME NEW s, NEW g, NEW t, NEW h, NEW D, NEW N, NEW R, NEW l, Rewritten(s, g, t, h, D, N, R, l),
         NEW X, LeafItems(t, N) = LeafItems(s, D) \cup X
  PROVE  Items(t, h) = Items(s, g) \cup X
<1>1. /\ D \subseteq g.pages /\ h.pages = (g.pages \ D) \cup N
      /\ \A p \in g.pages \ D : t.mem[p] = s.mem[p]
    BY DEF Rewritten
<1>2. PICK H : H = g.pages \ D
    OBVIOUS
<1>3. LeafItems(t, H) = LeafItems(s, H)
    BY <1>1, <1>2 DEF LeafItems
<1>4. Items(s, g) = LeafItems(s, H) \cup LeafItems(s, D)
  <2>1. g.pages = H \cup D
      BY <1>1, <1>2
  <2> QED
      BY <2>1 DEF Items, LeafItems
<1>5. Items(t, h) = LeafItems(t, H) \cup LeafItems(t, N)
    BY <1>1, <1>2 DEF Items, LeafItems
<1> QED
    BY <1>3, <1>4, <1>5

\* Branches have no pairs.
LEMMA BranchItems ==
  ASSUME NEW s, NEW g, Levelled(s, g), NEW t, NEW h, NEW D, NEW N, NEW R, NEW l \in Nat \ {0},
         Rewritten(s, g, t, h, D, N, R, l)
  PROVE  Items(t, h) = Items(s, g)
<1>1. /\ D \subseteq g.pages /\ \A n \in N : t.mem[n].kind = "branch"
      /\ \A d \in D : g.level[d] = l
    BY DEF Rewritten
<1>2. \A d \in D : s.mem[d].kind = "branch"
    BY <1>1 DEF Levelled
<1>3. LeafItems(t, N) = {} /\ LeafItems(s, D) = {}
    BY <1>1, <1>2 DEF LeafItems
<1>4. PICK X : X = {}
    OBVIOUS
<1>5. LeafItems(t, N) = LeafItems(s, D) \cup X
    BY <1>3, <1>4
<1>6. Items(t, h) = Items(s, g) \cup X
    BY <1>5, RewrittenItems
<1> QED
    BY <1>4, <1>6

\* The leaf that btree_recur_add has reached.
LEMMA LeafPaired ==
  ASSUME NEW g, Descending(g), At.kind = "leaf"
  PROVE  /\ Paired(At) /\ Place \in 1 .. Len(At.keys) + 1 /\ cur \in g.pages
         /\ call = <<call[1], call[2]>> /\ call \in Inputs
<1>1. call \in Inputs /\ Whole(st, g, root) /\ cur \in g.pages
    BY DEF Descending
<1>2. call \in (0 .. OverflowBit - 1) \X Nat
    BY <1>1, BTreeAssumption
<1>3. PICK key, val : call = <<key, val>> /\ key \in 0 .. OverflowBit - 1 /\ val \in Nat
    BY <1>2
<1>4. call[1] \in Nat /\ call = <<call[1], call[2]>>
    BY <1>3, Sizes
<1>5. PageFits(At, st.end)
    BY <1>1 DEF Whole, Tree, Owned, StoreFits, At
<1>6. Paired(At)
    BY <1>5 DEF PageFits, Paired
<1>7. Place \in 1 .. Len(At.keys) + 1
    BY <1>4, <1>6, LeafFindIs DEF Paired, Place
<1> QED
    BY <1>1, <1>4, <1>6, <1>7

\* btree_leaf_add adds its pair.
LEMMA LeafAddItems ==
  ASSUME NEW g, Descending(g), At.kind = "leaf", NEW h, LeafWritten(g, h)
  PROVE  Items(st', h) = Items(st, g) \cup {call}
<1>1. PICK o, p :
        /\ o.pages = g.pages
        /\ Rewritten(st, o, st', h, {cur}, {p}, {}, 0)
        /\ HasItems(st'.mem[p], At.root, At, Place, call[1], call[2], 0, Len(At.keys) + 1)
    BY Zenon DEF LeafWritten
<1>2. Paired(At) /\ Place \in 1 .. Len(At.keys) + 1 /\ call = <<call[1], call[2]>>
    BY LeafPaired
<1>3. PICK m, i, key, val, pg, t : m = Len(At.keys) + 1 /\ i = Place /\ key = call[1] /\ val = call[2] /\ pg = At /\ t = st'
    OBVIOUS
<1>4. Paired(pg) /\ i \in 1 .. Len(pg.keys) + 1 /\ m = Len(pg.keys) + 1 /\ m \in Nat /\ 0 \in Nat
  <2>1. Paired(pg) /\ i \in 1 .. Len(pg.keys) + 1 /\ m = Len(pg.keys) + 1
      BY <1>2, <1>3
  <2>2. m \in Nat
      BY <2>1 DEF Paired
  <2> QED
      BY <2>1, <2>2
<1>5. HasItems(t.mem[p], pg.root, pg, i, key, val, 0, m)
    BY <1>1, <1>3
<1>6. ItemsOf(t.mem[p]) = WidePairs(pg, i, key, val, 0, m)
    BY <1>4, <1>5, CopyItems
<1>7. ItemsOf(t.mem[p]) = ItemsOf(pg) \cup {call}
  <2>1. Spot(pg, i, m)
      BY <1>4 DEF Spot
  <2>2. WidePairs(pg, i, key, val, 0, m) = ItemsOf(pg) \cup {<<key, val>>}
      BY <2>1, WidePairsAre
  <2> QED
      BY <1>2, <1>3, <1>6, <2>2
<1>8. t.mem[p].kind = "leaf"
    BY <1>5 DEF HasItems
<1>9. PICK D, N, X : D = {cur} /\ N = {p} /\ X = {call}
    OBVIOUS
<1>10. LeafItems(t, N) = ItemsOf(t.mem[p])
    BY <1>8, <1>9 DEF LeafItems
<1>11. LeafItems(st, D) = ItemsOf(pg)
    BY <1>3, <1>9 DEF LeafItems, At
<1>12. LeafItems(t, N) = LeafItems(st, D) \cup X
    BY <1>7, <1>9, <1>10, <1>11
<1>13. Rewritten(st, o, t, h, D, N, {}, 0)
    BY <1>1, <1>3, <1>9
<1>14. Items(t, h) = Items(st, o) \cup X
    BY <1>12, <1>13, RewrittenItems
<1> QED
    BY <1>1, <1>3, <1>9, <1>14 DEF Items

\* So does btree_leaf_split.
LEMMA LeafHalvedItems ==
  ASSUME NEW g, Descending(g), At.kind = "leaf", NEW h, LeafHalved(g, h)
  PROVE  Items(st', h) = Items(st, g) \cup {call}
<1>1. PICK o, p, q, c, mid :
        /\ o.pages = g.pages /\ o.level = g.level /\ Half(st, o, cur, path, {}, 0)
        /\ p # q /\ q # 0 /\ Rewritten(st, o, st', h, {cur}, {p, q}, {}, 0)
        /\ c \in 1 .. Len(At.keys)
        /\ HasItems(st'.mem[p], FALSE, At, Place, call[1], call[2], 0, c)
        /\ HasItems(st'.mem[q], FALSE, At, Place, call[1], call[2], c, Len(At.keys) + 1 - c)
        /\ mid = WideItem(At.keys, Place, call[1], c + 1)
        /\ Hands(st', path, p, q, mid)
    BY Zenon DEF LeafHalved
<1>2. Paired(At) /\ Place \in 1 .. Len(At.keys) + 1 /\ call = <<call[1], call[2]>>
    BY LeafPaired
<1>3. PICK m, i, key, val, pg, t : m = Len(At.keys) + 1 /\ i = Place /\ key = call[1] /\ val = call[2] /\ pg = At /\ t = st'
    OBVIOUS
<1>4. Paired(pg) /\ i \in 1 .. Len(pg.keys) + 1 /\ m = Len(pg.keys) + 1 /\ c \in 1 .. Len(pg.keys)
    BY <1>1, <1>2, <1>3
<1>5. PICK n, flag : n = Len(pg.keys) + 1 - c /\ flag = FALSE
    OBVIOUS
<1>6. m \in Nat /\ c \in 0 .. m /\ n = m - c /\ n \in Nat /\ c \in Nat /\ 0 \in Nat
  <2>1. Len(pg.keys) \in Nat
      BY <1>4 DEF Paired
  <2> QED
      BY <1>4, <1>5, <2>1
<1>7. HasItems(t.mem[p], flag, pg, i, key, val, 0, c) /\ HasItems(t.mem[q], flag, pg, i, key, val, c, n)
    BY <1>1, <1>3, <1>5
<1>8. ItemsOf(t.mem[p]) = WidePairs(pg, i, key, val, 0, c)
    BY <1>6, <1>7, CopyItems
<1>9. ItemsOf(t.mem[q]) = WidePairs(pg, i, key, val, c, n)
    BY <1>6, <1>7, CopyItems
<1>10. ItemsOf(t.mem[p]) \cup ItemsOf(t.mem[q]) = ItemsOf(pg) \cup {call}
  <2>1. WidePairs(pg, i, key, val, 0, c) \cup WidePairs(pg, i, key, val, c, n) = WidePairs(pg, i, key, val, 0, m)
      BY <1>6, HalvesPairs
  <2>2. WidePairs(pg, i, key, val, 0, m) = ItemsOf(pg) \cup {<<key, val>>}
    <3>1. Spot(pg, i, m)
        BY <1>4 DEF Spot
    <3> QED
        BY ONLY <3>1, WidePairsAre
  <2> QED
      BY <1>2, <1>3, <1>8, <1>9, <2>1, <2>2
<1>11. t.mem[p].kind = "leaf" /\ t.mem[q].kind = "leaf"
    BY <1>7 DEF HasItems
<1>12. PICK D, N, X : D = {cur} /\ N = {p, q} /\ X = {call}
    OBVIOUS
<1>13. LeafItems(t, N) = ItemsOf(t.mem[p]) \cup ItemsOf(t.mem[q])
    BY <1>11, <1>12 DEF LeafItems
<1>14. LeafItems(st, D) = ItemsOf(pg)
    BY <1>3, <1>12 DEF LeafItems, At
<1>15. LeafItems(t, N) = LeafItems(st, D) \cup X
    BY <1>10, <1>12, <1>13, <1>14
<1>16. Rewritten(st, o, t, h, D, N, {}, 0)
    BY <1>1, <1>3, <1>12
<1>17. Items(t, h) = Items(st, o) \cup X
    BY <1>15, <1>16, RewrittenItems
<1> QED
    BY <1>1, <1>3, <1>12, <1>17 DEF Items

\* The pages that have no branch above them.
Bare == IF pc = "ascend" THEN Ends ELSE {root}

\* All pages in use are those of the tree, and have a way up; the pairs in the leaves are
\* clients'.
Tallied(g) ==
  /\ Formed(g) /\ Reared(st, g, Bare) /\ InUse(st) \subseteq g.pages
  /\ Items(st, g) \subseteq Inputs

\* So it is at every step, where clients add no key twice.
PInv == Counted /\ \E g : Tallied(g)

\* At the start no page is in use.
LEMMA PInvInit ==
  ASSUME Init
  PROVE  PInv
<1>1. PICK g : Counted /\ Formed(g)
    BY IInvInit DEF IInv
<1>2. root = 0 /\ pc = "idle" /\ st.end = 2
    BY DEF Init
<1>3. g.pages = {}
    BY <1>1, <1>2 DEF Formed, Idle
<1>4. InUse(st) = {}
    BY <1>2 DEF InUse
<1>5. Reared(st, g, Bare)
    BY <1>3 DEF Reared, Settled
<1>6. Items(st, g) = {}
    BY <1>3 DEF Items, LeafItems
<1> QED
    BY <1>1, <1>3, <1>4, <1>5, <1>6 DEF PInv, Tallied

\* btree_create takes one page, with no pairs.
LEMMA TalliedCreate ==
  ASSUME Counted, NEW g, Tallied(g), Create
  PROVE  \E h : Tallied(h)' /\ Items(st', h) = Items(st, g)
<1>1. /\ Formed(g) /\ InUse(st) \subseteq g.pages
      /\ pc = "idle" /\ pc' = "idle" /\ root = 0 /\ root' = NextPage(st) /\ st' = PutNew(st, EmptyRoot)
    BY DEF Tallied, Create
<1>2. Idle(g) /\ StoreFits(st) /\ g.pages = {} /\ adds \in Nat
    BY <1>1, Sizes DEF Formed, Idle, Counted
<1>3. PICK h : Idle(h)' /\ h.pages = {root'}
    BY <1>2, CreateFormed
<1>4. PICK s, t, r : s = st /\ t = st' /\ r = root'
    OBVIOUS
<1>5. InUse(t) \subseteq InUse(s) \cup {NextPage(s)}
    BY <1>1, <1>2, <1>4, FitsParts, PutNewUses
<1>6. InUse(st') \subseteq h.pages
    BY <1>1, <1>2, <1>3, <1>4, <1>5
<1>7. Bare' = {r}
    BY <1>1, <1>4 DEF Bare
<1>8. Reared(t, h, {r})
    BY <1>3, <1>4 DEF Reared, Settled
<1>9. Formed(h)'
    BY <1>1, <1>3 DEF Formed
<1>10. Reared(st', h, Bare')
    BY <1>4, <1>7, <1>8
<1>11. t.mem[r] = EmptyRoot
    BY <1>1, <1>4 DEF PutNew
<1>12. Items(t, h) = {}
  <2>1. Len(EmptyRoot.keys) = 0
      BY DEF EmptyRoot, Leaf
  <2>2. ItemsOf(EmptyRoot) = {}
      BY <2>1 DEF ItemsOf
  <2> QED
      BY <1>3, <1>4, <1>11, <2>2 DEF Items, LeafItems
<1>13. Items(st, g) = {}
    BY <1>2 DEF Items, LeafItems
<1> QED
    BY <1>4, <1>6, <1>9, <1>10, <1>12, <1>13 DEF Tallied

\* btree_destroy leaves none in use.
LEMMA TalliedDestroy ==
  ASSUME Counted, NEW g, Tallied(g), Destroy
  PROVE  \E h : Tallied(h)' /\ Items(st', h) = {}
<1>1. /\ Formed(g) /\ Reared(st, g, Bare) /\ InUse(st) \subseteq g.pages
      /\ pc = "idle" /\ pc' = "idle" /\ root' = 0
    BY DEF Tallied, Destroy
<1>2. Idle(g) /\ Reared(st, g, {root})
    BY <1>1 DEF Formed, Bare
<1>3. PICK h : Idle(h)'
    BY <1>2, DestroyFormed
<1>4. InUse(st') = {}
    BY <1>1, <1>2, DestroyUses
<1>5. h.pages = {}
    BY <1>1, <1>3 DEF Idle
<1>6. Reared(st', h, Bare')
    BY <1>5 DEF Reared, Settled
<1>7. Formed(h)'
    BY <1>1, <1>3 DEF Formed
<1>8. Items(st', h) = {}
    BY <1>5 DEF Items, LeafItems
<1> QED
    BY <1>4, <1>6, <1>7, <1>8 DEF Tallied

\* btree_add and btree_recur_add begin without taking a page.
LEMMA TalliedDown ==
  ASSUME Counted, NEW g, Tallied(g), (\E in \in Inputs : BeginAdd(in)) \/ Descend
  PROVE  \E h : Tallied(h)' /\ Items(st', h) = Items(st, g)
<1>1. /\ Formed(g) /\ Reared(st, g, Bare) /\ InUse(st) \subseteq g.pages
      /\ Items(st, g) \subseteq Inputs
    BY DEF Tallied
<1>2. pc # "ascend" /\ pc' = "descend" /\ st' = st /\ root' = root
    BY DEF BeginAdd, Descend
<1>3. Descending(g)'
  <2>1. ASSUME NEW in \in Inputs, BeginAdd(in) PROVE Descending(g)'
    <3>1. pc = "idle" /\ adds \in Nat
        BY <2>1, Sizes DEF BeginAdd, Counted
    <3>2. Idle(g)
        BY <1>1, <3>1 DEF Formed
    <3> QED
        BY <2>1, <3>1, <3>2, BeginAddFormed
  <2>2. CASE Descend
    <3>1. pc = "descend"
        BY <2>2 DEF Descend
    <3>2. Descending(g)
        BY <1>1, <3>1 DEF Formed
    <3> QED
        BY <2>2, <3>2, DescendFormed
  <2> QED
      BY <2>1, <2>2
<1>4. Formed(g)'
    BY <1>2, <1>3 DEF Formed
<1>5. Bare' = Bare
    BY <1>2 DEF Bare
<1>6. Reared(st', g, Bare') /\ InUse(st') \subseteq g.pages /\ Items(st', g) = Items(st, g)
    BY <1>1, <1>2, <1>5
<1> QED
    BY <1>1, <1>4, <1>6 DEF Tallied

\* What is handed up takes the place of the page it replaces.
LEMMA TalliedUp ==
  ASSUME NEW g, InUse(st) \subseteq g.pages, NEW d, NEW h, Ascending(h)', pc' = "ascend",
         Reared(st', h, Ends'), h.pages = (g.pages \ {d}) \cup Ends',
         InUse(st') \subseteq (InUse(st) \ {d}) \cup {up'.orig, up'.split}, Items(st', h) \subseteq Inputs
  PROVE  Tallied(h)'
<1>1. Bare' = Ends'
    BY DEF Bare
<1>2. 0 \notin InUse(st')
    BY DEF InUse
<1>3. {up'.orig, up'.split} \ {0} = Ends'
    BY DEF Ends
<1>4. InUse(st') \subseteq h.pages
    BY <1>2, <1>3
<1>5. Formed(h)'
    BY DEF Formed
<1> QED
    BY <1>1, <1>4, <1>5 DEF Tallied

\* A leaf is replaced.
LEMMA TalliedLeaf ==
  ASSUME Counted, NEW g, Tallied(g), LeafAdd \/ LeafSplitUp
  PROVE  \E h : Tallied(h)' /\ Items(st', h) = Items(st, g) \cup {call}
<1>1. /\ Formed(g) /\ Reared(st, g, Bare) /\ InUse(st) \subseteq g.pages
      /\ Items(st, g) \subseteq Inputs
    BY DEF Tallied
<1>2. pc = "descend" /\ pc' = "ascend" /\ At.kind = "leaf"
    BY DEF LeafAdd, LeafSplitUp, GiveUp
<1>3. Descending(g) /\ Reared(st, g, {root}) /\ StoreFits(st)
    BY <1>1, <1>2, FormedStore DEF Formed, Bare
<1>4. InUse(st') \subseteq (InUse(st) \ {cur}) \cup {up'.orig, up'.split}
    BY <1>3, LeafWriteUses
<1>5. CASE LeafAdd
  <2>1. PICK h : Ascending(h)' /\ LeafWritten(g, h)
      BY <1>3, <1>5, LeafAddFormed
  <2>2. Reared(st', h, Ends') /\ h.pages = (g.pages \ {cur}) \cup Ends'
      BY <1>2, <1>3, <2>1, LeafAddReared
  <2>3. Items(st', h) = Items(st, g) \cup {call}
      BY <1>2, <1>3, <2>1, LeafAddItems
  <2>4. Items(st', h) \subseteq Inputs
      BY <1>1, <1>3, <2>3 DEF Descending
  <2>5. Tallied(h)'
      BY <1>1, <1>2, <1>4, <2>1, <2>2, <2>4, TalliedUp
  <2> QED
      BY <2>3, <2>5
<1>6. CASE LeafSplitUp
  <2>1. PICK h : Ascending(h)' /\ LeafHalved(g, h)
      BY <1>3, <1>6, LeafSplitFormed
  <2>2. Reared(st', h, Ends') /\ h.pages = (g.pages \ {cur}) \cup Ends'
      BY <1>2, <1>3, <2>1, LeafHalvedReared
  <2>3. Items(st', h) = Items(st, g) \cup {call}
      BY <1>2, <1>3, <2>1, LeafHalvedItems
  <2>4. Items(st', h) \subseteq Inputs
      BY <1>1, <1>3, <2>3 DEF Descending
  <2>5. Tallied(h)'
      BY <1>1, <1>2, <1>4, <2>1, <2>2, <2>4, TalliedUp
  <2> QED
      BY <2>3, <2>5
<1> QED
    BY <1>5, <1>6

\* A branch is replaced.
LEMMA TalliedBranch ==
  ASSUME Counted, NEW g, Tallied(g), BranchAdd \/ BranchSplitUp
  PROVE  \E h : Tallied(h)' /\ Items(st', h) = Items(st, g)
<1>1. /\ Formed(g) /\ Reared(st, g, Bare) /\ InUse(st) \subseteq g.pages
      /\ Items(st, g) \subseteq Inputs
    BY DEF Tallied
<1>2. pc = "ascend" /\ pc' = "ascend" /\ path # <<>> /\ adds \in Nat
    BY Sizes DEF BranchAdd, BranchSplitUp, GiveUp, Counted
<1>3. Ascending(g) /\ Reared(st, g, Ends) /\ StoreFits(st)
    BY <1>1, <1>2, FormedStore DEF Formed, Bare
<1>4. InUse(st') \subseteq (InUse(st) \ {Waiting.page}) \cup {up'.orig, up'.split}
    BY <1>3, BranchWriteUses
<1>5. PICK d : d = Waiting.page
    OBVIOUS
<1>8. Levelled(st, g)
    BY <1>3 DEF Ascending, Tree
<1>6. CASE BranchAdd
  <2>1. PICK h : Ascending(h)' /\ BranchWritten(g, h)
      BY <1>2, <1>3, <1>6, BranchAddFormed
  <2>2. Reared(st', h, Ends') /\ h.pages = (g.pages \ {Waiting.page}) \cup Ends'
      BY <1>2, <1>3, <2>1, BranchAddReared
  <2>3. PICK p, l, t, D, N : /\ t = st' /\ D = {Waiting.page} /\ N = {p} /\ l \in Nat \ {0}
                             /\ Rewritten(st, g, t, h, D, N, Ends, l)
      BY <2>1, Zenon DEF BranchWritten
  <2>4. Items(st', h) = Items(st, g)
      BY <1>8, <2>3, BranchItems
  <2>5. Items(st', h) \subseteq Inputs
      BY <1>1, <2>4
  <2>6. Tallied(h)'
      BY <1>1, <1>2, <1>4, <1>5, <2>1, <2>2, <2>5, TalliedUp
  <2> QED
      BY <2>4, <2>6
<1>7. CASE BranchSplitUp
  <2>1. PICK h : Ascending(h)' /\ BranchHalved(g, h)
      BY <1>2, <1>3, <1>7, BranchSplitFormed
  <2>2. Reared(st', h, Ends') /\ h.pages = (g.pages \ {Waiting.page}) \cup Ends'
      BY <1>2, <1>3, <2>1, BranchHalvedReared
  <2>3. PICK p, q, l, t, D, N : /\ t = st' /\ D = {Waiting.page} /\ N = {p, q} /\ l \in Nat \ {0}
                                /\ Rewritten(st, g, t, h, D, N, Ends, l)
    <3>1. PICK p, q, c, mid, l :
            /\ l \in Nat \ {0} /\ Half(st, g, Waiting.page, Tail(path), Ends, l)
            /\ p # q /\ q # 0 /\ up.split # 0 /\ Rewritten(st, g, st', h, {Waiting.page}, {p, q}, Ends, l)
            /\ c \in 2 .. Len(Parent.keys) + 1
            /\ HasWide(st'.mem[p], FALSE, 1 .. st.end - 1, Parent.kids, Parent.keys, Waiting.child, up, 0, c)
            /\ HasWide(st'.mem[q], FALSE, 1 .. st.end - 1, Parent.kids, Parent.keys, Waiting.child, up,
                       c, Len(Parent.keys) + 2 - c)
            /\ mid = WideKey(Parent.keys, Waiting.child, up, c)
            /\ Hands(st', Tail(path), p, q, mid)
        BY <2>1, Zenon DEF BranchHalved
    <3> QED
        BY <3>1, Zenon
  <2>4. Items(st', h) = Items(st, g)
      BY <1>8, <2>3, BranchItems
  <2>5. Items(st', h) \subseteq Inputs
      BY <1>1, <2>4
  <2>6. Tallied(h)'
      BY <1>1, <1>2, <1>4, <1>5, <2>1, <2>2, <2>5, TalliedUp
  <2> QED
      BY <2>4, <2>6
<1> QED
    BY <1>6, <1>7

\* btree_add returns, with one page more when the root was split.
LEMMA TalliedEndAdd ==
  ASSUME Counted, NEW g, Tallied(g), EndAdd
  PROVE  \E h : Tallied(h)' /\ Items(st', h) = Items(st, g)
<1>1. /\ Formed(g) /\ Reared(st, g, Bare) /\ InUse(st) \subseteq g.pages
      /\ Items(st, g) \subseteq Inputs
    BY DEF Tallied
<1>2. pc = "ascend" /\ pc' = "idle" /\ adds \in Nat
    BY Sizes DEF EndAdd, Counted
<1>3. Ascending(g) /\ Reared(st, g, Ends) /\ StoreFits(st)
    BY <1>1, <1>2, FormedStore DEF Formed, Bare
<1>4. PICK h : Idle(h)' /\ RootWritten(g, h)
    BY <1>2, <1>3, EndAddFormed
<1>5. Reared(st', h, {root'}) /\ g.pages \subseteq h.pages /\ (up.split # 0 => root' \in h.pages)
    BY <1>3, <1>4, RootReared
<1>6. InUse(st') \subseteq h.pages
  <2>1. CASE up.split = 0
    <3>1. st' = st
        BY <2>1 DEF EndAdd
    <3> QED
        BY <1>1, <1>5, <3>1
  <2>2. CASE up.split # 0
    <3>1. PICK s, t, c : s = st /\ t = st' /\ t = PutNew(s, c) /\ root' = NextPage(s)
        BY <2>2, Zenon DEF EndAdd
    <3>2. InUse(t) \subseteq InUse(s) \cup {NextPage(s)}
        BY <1>3, <3>1, FitsParts, PutNewUses
    <3> QED
        BY <1>1, <1>5, <2>2, <3>1, <3>2
  <2> QED
      BY <2>1, <2>2
<1>7. Bare' = {root'}
    BY <1>2 DEF Bare
<1>8. Formed(h)'
    BY <1>2, <1>4 DEF Formed
<1>9. Reared(st', h, Bare')
    BY <1>5, <1>7
<1>10. Items(st', h) = Items(st, g)
  <2>1. CASE up.split = 0
      BY <1>4, <2>1 DEF RootWritten
  <2>2. CASE up.split # 0
    <3>1. PICK l, t, D, N : /\ l = g.level[up.orig] + 1 /\ t = st' /\ D = {} /\ N = {root'}
                            /\ Rewritten(st, g, t, h, D, N, Ends, l)
        BY <1>4, <2>2, Zenon DEF RootWritten
    <3>2. up.orig \in g.pages /\ Levelled(st, g)
        BY <1>3 DEF Ascending, Loose, Ends, Tree
    <3>3. l \in Nat \ {0}
        BY <3>1, <3>2 DEF Levelled
    <3> QED
        BY <3>1, <3>2, <3>3, BranchItems
  <2> QED
      BY <2>1, <2>2
<1> QED
    BY <1>1, <1>6, <1>8, <1>9, <1>10 DEF Tallied

\* A step that leaves the tree and the call alone.
LEMMA TalliedSame ==
  ASSUME NEW g, Tallied(g), st' = st, root' = root, adds' = adds, pc' = pc, call' = call,
         cur' = cur, path' = path, up' = up
  PROVE  Tallied(g)' /\ Items(st', g) = Items(st, g)
<1>1. Formed(g)'
    BY FormedSame DEF Tallied
<1>2. Bare' = Bare
    BY DEF Bare, Ends
<1>3. /\ Reared(st', g, Bare') /\ InUse(st') \subseteq g.pages
      /\ Items(st', g) = Items(st, g) /\ Items(st', g) \subseteq Inputs
    BY <1>2 DEF Tallied
<1> QED
    BY <1>1, <1>3 DEF Tallied

\* Every step keeps the tally.
LEMMA PInvStep ==
  ASSUME OInv, PInv, [Next]_vars
  PROVE  PInv'
<1>1. PICK g : Counted /\ Tallied(g)
    BY DEF PInv
<1>2. Counted'
    BY OInvHas, IInvStep DEF IInv
<1>3. CASE Create
    BY <1>1, <1>2, <1>3, TalliedCreate DEF PInv
<1>4. CASE Destroy
    BY <1>1, <1>2, <1>4, TalliedDestroy DEF PInv
<1>5. CASE (\E in \in Inputs : BeginAdd(in)) \/ Descend
    BY <1>1, <1>2, <1>5, TalliedDown DEF PInv
<1>6. ~LeafAddDup
  <2>1. SUFFICES ASSUME LeafAddDup PROVE FALSE
      OBVIOUS
  <2>2. pc = "descend" /\ At.kind = "leaf" /\ LeafHas(At, call[1])
      BY <2>1 DEF LeafAddDup
  <2>3. PICK o, b : InOrder(o, b)
      BY DEF OInv
  <2>4. Descending(o) /\ Sinking(o, b)
      BY <2>2, <2>3 DEF InOrder
  <2> QED
      BY <2>2, <2>4, KeyIsNew
<1>7. CASE LeafAdd \/ LeafSplitUp
    BY <1>1, <1>2, <1>7, TalliedLeaf DEF PInv
<1>8. CASE BranchAdd \/ BranchSplitUp
    BY <1>1, <1>2, <1>8, TalliedBranch DEF PInv
<1>9. CASE EndAdd
    BY <1>1, <1>2, <1>9, TalliedEndAdd DEF PInv
<1>10. CASE FindSteps \/ UNCHANGED vars
  <2>1. /\ st' = st /\ root' = root /\ adds' = adds /\ pc' = pc /\ call' = call
        /\ cur' = cur /\ path' = path /\ up' = up
      BY <1>10 DEF FindSteps, FindBegin, FindDescend, FindEnd, vars
  <2>2. Tallied(g)'
      BY <1>1, <2>1, TalliedSame
  <2> QED
      BY <1>2, <2>2 DEF PInv
<1> QED
    BY <1>3, <1>4, <1>5, <1>6, <1>7, <1>8, <1>9, <1>10 DEF Next, FindSteps

-----------------------------------------------------------------------------
(* Every page of the tree is below a root of the forest. *)

\* What is below some pages is below more of them.
LEMMA WithinMore ==
  ASSUME StoreFits(st), NEW T \in SUBSET DOMAIN st.mem, NEW S, S \subseteq T, NEW p, Within(st, S, p)
  PROVE  Within(st, T, p)
<1>1. PICK n : n = MaxDepth
    OBVIOUS
<1>2. n \in Nat
    BY <1>1, DepthIs
<1>3. PICK F, e : Rows(F, st, S, n) /\ e \in 0 .. n /\ p \in F[e]
    BY <1>1 DEF Within
<1>4. PICK G : Rows(G, st, T, n)
    BY <1>2, RowSteps
<1> DEFINE Bad == {d \in 0 .. n : ~(F[d] \subseteq G[d])}
<1>5. Bad = {}
  <2>1. SUFFICES ASSUME Bad # {} PROVE FALSE
      OBVIOUS
  <2>2. Bad \in SUBSET Nat
      OBVIOUS
  <2>3. PICK d \in Bad : \A j \in Bad : d <= j
      BY <2>1, <2>2, NatMin, Zenon
  <2>4. d \in 0 .. n /\ ~(F[d] \subseteq G[d])
      OBVIOUS
  <2>5. d # 0
      BY <1>3, <1>4, <2>4 DEF Rows
  <2>6. PICK c : c = d - 1
      OBVIOUS
  <2>7. c \in 0 .. n /\ d \in 1 .. n /\ ~(d <= c)
      BY <1>2, <2>4, <2>5, <2>6
  <2>8. F[d] = Lower(st, F[c]) /\ G[d] = Lower(st, G[c])
      BY <1>3, <1>4, <2>6, <2>7 DEF Rows
  <2>9. ~(F[c] \subseteq G[c])
      BY <2>4, <2>8 DEF Lower
  <2>10. c \in Bad
      BY <2>7, <2>9
  <2> HIDE DEF Bad
  <2> QED
      BY <2>3, <2>7, <2>10
<1>6. p \in G[e]
    BY <1>3, <1>5
<1> QED
    BY <1>1, <1>3, <1>4, <1>6 DEF Within

\* A page of the tree has a number of keys.
LEMMA KeyCount ==
  ASSUME NEW g, Tree(st, g), NEW p \in g.pages
  PROVE  Len(st.mem[p].keys) \in Nat
<1>1. PageFits(st.mem[p], st.end) /\ st.mem[p].kind \in {"leaf", "branch"}
    BY DEF Tree, Owned, StoreFits, Levelled
<1>2. PICK keys : keys = st.mem[p].keys
    OBVIOUS
<1>3. keys \in Seq(Nat)
    BY <1>1, <1>2 DEF PageFits
<1>4. Len(keys) \in Nat
    BY ONLY <1>3
<1> QED
    BY <1>2, <1>4

\* On the way up the pages are not above the last of the calls that wait.
LEMMA ClimbShallow ==
  ASSUME Counted, NEW g, Ascending(g)
  PROVE  \E top \in Nat : UpTo(g, top) /\ top <= MaxDepth
<1>1. /\ Tree(st, g) /\ Loose(st, g, Ends) /\ up \in [orig : Nat \ {0}, split : Nat, mid : Nat]
      /\ UpTo(g, g.level[up.orig] + Len(path))
      /\ path # <<>> => Waits(st, g, path, up.orig, Top)
      /\ IF path # <<>> THEN Grown(g.level[Top], Len(st.mem[Top].keys)) + 1 <= adds
         ELSE IF up.split = 0 THEN Grown(g.level[Top], Len(st.mem[Top].keys)) <= adds
         ELSE Grown(g.level[up.orig] + 1, 1) <= adds
    BY DEF Ascending
<1>2. up.orig \in g.pages
    BY <1>1 DEF Loose, Ends
<1>3. Levelled(st, g)
    BY <1>1 DEF Tree
<1>4. adds \in Int /\ adds <= MaxAdds
    BY Sizes DEF Counted
<1>5. PICK o, l : o = up.orig /\ l = g.level[o]
    OBVIOUS
<1>6. l \in Nat
    BY <1>2, <1>3, <1>5 DEF Levelled
<1>7. CASE path = <<>>
  <2>1. Len(path) = 0
      BY <1>7
  <2>2. UpTo(g, l)
      BY <1>1, <1>5, <1>6, <2>1
  <2>3. CASE up.split = 0
    <3>1. Top = o
        BY <1>5, <1>7, <2>3 DEF Top
    <3>2. PICK n : n = Len(st.mem[o].keys)
        OBVIOUS
    <3>3. n \in Nat
        BY <1>1, <1>2, <1>5, <3>2, KeyCount
    <3>4. Grown(l, n) <= adds
        BY <1>1, <1>5, <1>7, <2>3, <3>1, <3>2
    <3>5. l <= MaxDepth
        BY <1>4, <1>6, <3>3, <3>4, NoDeeper
    <3> QED
        BY <1>6, <2>2, <3>5
  <2>4. CASE up.split # 0
    <3>1. PICK k : k = l + 1
        OBVIOUS
    <3>2. Grown(k, 1) <= adds /\ k \in Nat
        BY <1>1, <1>5, <1>6, <1>7, <2>4, <3>1
    <3>3. k <= MaxDepth
        BY <1>4, <3>2, NoDeeper
    <3>4. l <= MaxDepth
        BY <1>6, <3>1, <3>3, DepthIs
    <3> QED
        BY <1>6, <2>2, <3>4
  <2> QED
      BY <2>3, <2>4
<1>8. CASE path # <<>>
  <2>1. PICK w, r : w = path /\ r = Top
      OBVIOUS
  <2>2. Waits(st, g, w, o, r) /\ w # <<>>
      BY <1>1, <1>5, <1>8, <2>1
  <2>3. PICK T : T = [page : g.pages, child : Nat]
      OBVIOUS
  <2>4. /\ w \in Seq(T) /\ w[Len(w)].page = r
        /\ \A k \in DOMAIN w : g.level[w[k].page] = g.level[o] + k
      BY <2>2, <2>3 DEF Waits
  <2>5. PICK n : n = Len(w)
      OBVIOUS
  <2>6. n \in Nat /\ n \in DOMAIN w /\ w[n] \in T
      BY <2>2, <2>4, <2>5
  <2>7. r \in g.pages /\ g.level[r] = l + n
      BY <1>5, <2>3, <2>4, <2>5, <2>6
  <2>8. PICK top, m : top = l + n /\ m = Len(st.mem[r].keys)
      OBVIOUS
  <2>9. top \in Nat /\ m \in Nat
      BY <1>1, <1>6, <2>6, <2>7, <2>8, KeyCount
  <2>10. UpTo(g, top)
      BY <1>1, <1>5, <2>1, <2>5, <2>8
  <2>11. Grown(top, m) <= adds
    <3>1. Grown(top, m) + 1 <= adds
        BY <1>1, <1>8, <2>1, <2>7, <2>8
    <3>2. Grown(top, m) \in Nat
        BY <2>9, GrownIs
    <3> QED
        BY <1>4, <3>1, <3>2
  <2>12. top <= MaxDepth
      BY <1>4, <2>9, <2>11, NoDeeper
  <2> QED
      BY <2>9, <2>10, <2>12
<1> QED
    BY <1>7, <1>8

\* No page of the tree is above the rows that Below looks at.
LEMMA AllShallow ==
  ASSUME Counted, NEW g, Formed(g)
  PROVE  \E top \in Nat : UpTo(g, top) /\ top <= MaxDepth
<1>1. CASE pc = "idle" /\ Idle(g) /\ root = 0
  <2>1. g.pages = {}
      BY <1>1 DEF Idle
  <2> QED
      BY <2>1, DepthIs DEF UpTo
<1>2. CASE pc = "idle" /\ Idle(g) /\ root # 0
  <2>1. Whole(st, g, root) /\ Tree(st, g) /\ Shallow(g, root) /\ root \in g.pages
      BY <1>2, RootStands
  <2>2. UpTo(g, g.level[root]) /\ g.level[root] \in Nat
      BY <2>1 DEF Whole, Tree, Levelled
  <2> QED
      BY <2>1, <2>2 DEF Shallow
<1>3. CASE pc = "descend" /\ Descending(g)
  <2>1. Whole(st, g, root) /\ Tree(st, g) /\ Shallow(g, root)
      BY <1>3, CurStands DEF Descending
  <2>2. UpTo(g, g.level[root]) /\ g.level[root] \in Nat
      BY <2>1 DEF Whole, Tree, Levelled, Loose
  <2> QED
      BY <2>1, <2>2 DEF Shallow
<1>4. CASE pc = "ascend" /\ Ascending(g)
    BY <1>4, ClimbShallow
<1> QED
    BY <1>1, <1>2, <1>3, <1>4 DEF Formed

\* The pages without a branch above them are roots of the forest.
LEMMA BareForest ==
  ASSUME NEW g, Formed(g), g.pages # {}
  PROVE  root # 0 /\ Bare \subseteq Forest
<1>1. root # 0
    BY DEF Formed, Idle, Descending, Ascending
<1>2. CASE pc = "ascend"
    BY <1>1, <1>2 DEF Bare, Forest, Ends
<1>3. CASE pc # "ascend"
    BY <1>1, <1>3 DEF Bare, Forest
<1> QED
    BY <1>1, <1>2, <1>3

\* The children in place of a branch that waits are roots of the forest.
LEMMA OpenForest ==
  ASSUME NEW g, Formed(g), NEW q \in Inner(st, g), g.hole[q] # 0
  PROVE  /\ \E k \in DOMAIN path : path[k].page = q
         /\ \A i \in Live(st, g, q) : st.mem[q].kids[i] \in Forest
<1>1. q \in g.pages
    BY DEF Inner
<1>2. pc = "ascend" /\ Ascending(g)
    BY <1>1 DEF Formed, Idle, Descending, Whole
<1>3. root # 0 /\ (\A k \in DOMAIN path : g.hole[path[k].page] = path[k].child)
      /\ \E k \in DOMAIN path : path[k].page = q
    BY <1>1, <1>2 DEF Ascending
<1>4. PICK k \in DOMAIN path : path[k].page = q
    BY <1>3
<1>5. PICK f : f = path[k]
    OBVIOUS
<1>6. f \in Range(path) /\ f.page = q /\ f.child = g.hole[q]
    BY <1>3, <1>4, <1>5 DEF Range
<1>7. ASSUME NEW i \in Live(st, g, q) PROVE st.mem[q].kids[i] \in Forest
  <2>1. i \in DOMAIN st.mem[f.page].kids \ {f.child}
      BY <1>6 DEF Live
  <2>2. st.mem[q].kids[i] \in {st.mem[f.page].kids[j] : j \in DOMAIN st.mem[f.page].kids \ {f.child}}
      BY <1>6, <2>1
  <2>3. PICK y, K : /\ y = st.mem[q].kids[i]
                    /\ K = UNION {{st.mem[e.page].kids[j] : j \in DOMAIN st.mem[e.page].kids \ {e.child}} : e \in Range(path)}
      OBVIOUS
  <2>4. y \in K
      BY <1>6, <2>2, <2>3
  <2>5. Forest = ({up.orig, up.split} \ {0}) \cup K
      BY <1>2, <1>3, <2>3, Zenon DEF Forest
  <2> QED
      BY <2>3, <2>4, <2>5
<1> QED
    BY <1>4, <1>7

\* All pages in place are below the forest.
LEMMA SettledBelow ==
  ASSUME Counted, NEW g, Formed(g), Reared(st, g, Bare), g.pages # {}
  PROVE  Settled(g) \subseteq Below(Forest)
<1>1. Tree(st, g) /\ Forest \subseteq Settled(g)
    BY FormedParts DEF Parts
<1>2. StoreFits(st) /\ Levelled(st, g) /\ Settled(g) \subseteq DOMAIN st.mem
    BY <1>1 DEF Tree, Owned, StoreFits, Settled
<1>3. PICK top \in Nat : UpTo(g, top) /\ top <= MaxDepth
    BY AllShallow
<1>4. \A r \in Forest : Shallow(g, r)
  <2> SUFFICES ASSUME NEW r \in Forest PROVE Shallow(g, r)
      OBVIOUS
  <2>1. r \in Settled(g) /\ r \in g.pages
      BY <1>1 DEF Settled
  <2>2. g.level[r] \in Nat /\ g.level[r] <= top
      BY <1>2, <1>3, <2>1 DEF Levelled, UpTo
  <2>3. g.level[r] <= MaxDepth
      BY <1>3, <2>2, DepthIs
  <2> QED
      BY <2>1, <2>3 DEF Shallow
<1>5. PICK A, V : A = Forest /\ V = {p \in DOMAIN st.mem : \E r \in A : Within(st, {r}, p)}
    OBVIOUS
<1>6. A \subseteq V
    BY <1>1, <1>2, <1>5, WithinSelf
<1>7. ASSUME NEW q \in V PROVE q \in Settled(g) /\ Kids(st.mem[q]) \subseteq V
  <2>1. PICK r \in A : Within(st, {r}, q)
      BY <1>5
  <2>2. q \in Settled(g) /\ \A x \in Kids(st.mem[q]) : Within(st, {r}, x)
      BY <1>1, <1>4, <1>5, <2>1, WithinTree
  <2>3. \A x \in Kids(st.mem[q]) : x \in Settled(g)
      BY <1>1, <1>4, <1>5, <2>2, WithinTree
  <2> QED
      BY <1>2, <1>5, <2>2, <2>3
<1>8. ASSUME NEW q \in Inner(st, g), g.hole[q] # 0 \/ q \in V, NEW i \in Live(st, g, q)
      PROVE  st.mem[q].kids[i] \in V
  <2>1. CASE g.hole[q] # 0
      BY <1>5, <1>6, <1>8, <2>1, OpenForest
  <2>2. CASE q \in V
    <3>1. Kids(st.mem[q]) \subseteq V
        BY <1>7, <2>2
    <3>2. st.mem[q].kids[i] \in Kids(st.mem[q])
        BY DEF Inner, Live, Kids, Range
    <3> QED
        BY <3>1, <3>2
  <2> QED
      BY <1>8, <2>1, <2>2
<1>9. PICK R : R = Bare
    OBVIOUS
<1>10. R \subseteq V /\ Reared(st, g, R)
    BY <1>5, <1>6, <1>9, BareForest
<1>11. Settled(g) \subseteq V
    BY <1>2, <1>3, <1>8, <1>10, AllReached
<1>12. ASSUME NEW p \in Settled(g) PROVE p \in Below(Forest)
  <2>1. PICK r \in A : Within(st, {r}, p)
      BY <1>5, <1>11
  <2>2. A \in SUBSET DOMAIN st.mem /\ {r} \subseteq A
      BY <1>1, <1>2, <1>5
  <2>3. Within(st, A, p)
      BY <1>2, <2>1, <2>2, WithinMore
  <2>4. p \in Below(A)
      BY <1>2, <2>2, <2>3, WithinBelow
  <2> QED
      BY <1>5, <2>4
<1> QED
    BY <1>12

\* The tally says that no page is lost.
LEMMA InvariantLost ==
  ASSUME PInv
  PROVE  NoPageLost
<1>1. PICK g : Counted /\ Formed(g) /\ Reared(st, g, Bare) /\ InUse(st) \subseteq g.pages
    BY DEF PInv, Tallied
<1>2. SUFFICES ASSUME NEW x \in 2 .. st.end - 1, x \notin Range(st.free)
               PROVE  x \in Held
    BY DEF NoPageLost
<1>3. x \in g.pages
    BY <1>1, <1>2 DEF InUse
<1>4. CASE g.hole[x] = 0
  <2>1. x \in Settled(g) /\ g.pages # {}
      BY <1>3, <1>4 DEF Settled
  <2>2. x \in Below(Forest)
      BY <1>1, <2>1, SettledBelow
  <2> QED
      BY <2>2, Zenon DEF Held
<1>5. CASE g.hole[x] # 0
  <2>1. pc = "ascend" /\ Ascending(g)
      BY <1>1, <1>3, <1>5 DEF Formed, Idle, Descending, Whole
  <2>2. PICK k \in DOMAIN path : path[k].page = x
      BY <1>3, <1>5, <2>1 DEF Ascending
  <2>3. path[k] \in Range(path)
      BY DEF Range
  <2>4. x \in {f.page : f \in Range(path)}
      BY <2>2, <2>3
  <2> QED
      BY <2>4, Zenon DEF Held
<1> QED
    BY <1>4, <1>5

\* The tally holds in every state a client can bring the tree to that adds no key twice:
\* each page that was ever cut from the file is one of the tree or free, and each page of
\* the tree but the roots is the child of another (btree_recur_add, btree_destroy,
\* store_alloc, store_free).
THEOREM PagesTallied ==
  ASSUME AllowDups = FALSE
  PROVE  Spec => []PInv
<1>1. Init => PInv
    BY PInvInit
<1>2. OInv /\ PInv /\ [Next]_vars => PInv'
    BY PInvStep
<1> QED
    BY <1>1, <1>2, OrderHolds, PTL DEF Spec

\* No page is lost: through every copy of the path, every split and btree_destroy each
\* page ever cut from the file is one the tree or a call needs, or free
\* (btree_leaf_add, btree_leaf_split, btree_branch_add, btree_branch_split, btree_destroy).
THEOREM NoPageLostAlways ==
  ASSUME AllowDups = FALSE
  PROVE  Spec => []NoPageLost
<1>1. PInv => NoPageLost
    BY InvariantLost
<1> QED
    BY <1>1, PagesTallied, PTL

-----------------------------------------------------------------------------
(* The pairs that the tree implements an index of. *)

\* Where no key is added twice, the pages below the forest have intervals.
LEMMA OrderStands ==
  ASSUME OInv
  PROVE  \E g, b : Tree(st, g) /\ Below(Forest) \subseteq Settled(g) /\ Ranged(st, g, b)
<1>1. PICK g, b : InOrder(g, b)
    BY DEF OInv
<1>2. Formed(g)
    BY <1>1 DEF InOrder, Formed
<1>3. Tree(st, g) /\ Below(Forest) \subseteq Settled(g)
    BY <1>2, FormedParts, BelowSettled DEF Parts
<1>4. Ranged(st, g, b)
  <2>1. CASE pc = "idle" /\ root = 0 /\ Idle(g)
    <3>1. g.pages = {}
        BY <2>1 DEF Idle
    <3> QED
        BY <3>1 DEF Ranged, RangedPages, RangedKids, RangedApart, Inner
  <2>2. CASE ~(pc = "idle" /\ root = 0 /\ Idle(g))
      BY <1>1, <2>2 DEF InOrder, Resting, Sinking, Climbing
  <2> QED
      BY <2>1, <2>2
<1> QED
    BY <1>3, <1>4

\* The keys of a page, as they are.
LEMMA PlainKeys ==
  ASSUME NEW g, Tree(st, g), NEW b, Ranged(st, g, b), NEW p \in g.pages, NEW i \in 1 .. Len(st.mem[p].keys)
  PROVE  /\ st.mem[p].keys[i] \in Nat /\ st.mem[p].keys[i] < OverflowBit
         /\ b.lo[p] <= st.mem[p].keys[i] /\ st.mem[p].keys[i] < b.hi[p]
<1>1. /\ b.lo[p] \in Nat /\ b.hi[p] \in Nat /\ b.hi[p] <= OverflowBit
      /\ Increasing(st.mem[p].keys, b.lo[p], b.hi[p])
    BY DEF Ranged, RangedPages
<1>2. PageFits(st.mem[p], st.end) /\ st.mem[p].kind \in {"leaf", "branch"}
    BY DEF Tree, Owned, StoreFits, Levelled
<1>3. PICK keys, lo, hi : keys = st.mem[p].keys /\ lo = b.lo[p] /\ hi = b.hi[p]
    OBVIOUS
<1>4. keys \in Seq(Nat)
    BY <1>2, <1>3 DEF PageFits
<1>5. keys[i] \in Nat
    BY <1>3, <1>4
<1>6. lo <= keys[i] /\ keys[i] < hi
    BY <1>1, <1>3 DEF Increasing
<1>7. keys[i] < OverflowBit
    BY <1>1, <1>3, <1>5, <1>6, Sizes
<1> QED
    BY <1>3, <1>5, <1>6, <1>7

\* The leaves below the forest.
Bottom == {p \in Below(Forest) : st.mem[p].kind = "leaf"}

\* In the whole tree no key has overflow pages, and none is there twice.
KeysPlain == \A p \in Bottom : \A i \in 1 .. Len(st.mem[p].keys) :
               st.mem[p].keys[i] \in Nat /\ st.mem[p].keys[i] < OverflowBit
KeysOnce == \A p, q \in Bottom : \A i \in 1 .. Len(st.mem[p].keys), j \in 1 .. Len(st.mem[q].keys) :
              st.mem[p].keys[i] = st.mem[q].keys[j] => p = q /\ i = j

\* Leaves have intervals apart, and keys within.
LEMMA KeysStand ==
  ASSUME OInv
  PROVE  KeysPlain /\ KeysOnce
<1>1. PICK g, b : Tree(st, g) /\ Below(Forest) \subseteq Settled(g) /\ Ranged(st, g, b)
    BY OrderStands
<1>2. ASSUME NEW p \in Bottom PROVE p \in g.pages /\ g.level[p] = 0
    BY <1>1 DEF Bottom, Settled, Tree, Levelled
<1>3. KeysPlain
    BY <1>1, <1>2, PlainKeys DEF KeysPlain
<1>4. ASSUME NEW p \in Bottom, NEW q \in Bottom,
             NEW i \in 1 .. Len(st.mem[p].keys), NEW j \in 1 .. Len(st.mem[q].keys),
             st.mem[p].keys[i] = st.mem[q].keys[j]
      PROVE  p = q /\ i = j
  <2>1. PICK k, lo, hi, lo2, hi2 : k = st.mem[p].keys[i] /\ lo = b.lo[p] /\ hi = b.hi[p] /\ lo2 = b.lo[q] /\ hi2 = b.hi[q]
      OBVIOUS
  <2>2. k \in Nat /\ lo <= k /\ k < hi
      BY <1>1, <1>2, <2>1, PlainKeys
  <2>3. lo2 <= k /\ k < hi2
      BY <1>1, <1>2, <1>4, <2>1, PlainKeys
  <2>4. lo \in Nat /\ hi \in Nat /\ lo2 \in Nat /\ hi2 \in Nat
      BY <1>1, <1>2, <2>1 DEF Ranged, RangedPages
  <2>5. p = q
    <3>1. SUFFICES ASSUME p # q PROVE FALSE
        OBVIOUS
    <3>2. AwayFrom(b, p, b, q)
        BY <1>1, <1>2, <3>1 DEF Ranged, RangedApart
    <3>3. hi <= lo2 \/ hi2 <= lo
        BY <2>1, <3>2 DEF AwayFrom
    <3> QED
        BY <2>2, <2>3, <2>4, <3>3
  <2>6. i = j
    <3>1. SUFFICES ASSUME i # j PROVE FALSE
        OBVIOUS
    <3>2. PICK keys, n : keys = st.mem[p].keys /\ n = Len(keys)
        OBVIOUS
    <3>3. Increasing(keys, lo, hi)
        BY <1>1, <1>2, <2>1, <3>2 DEF Ranged, RangedPages
    <3>4. \A x, y \in 1 .. n : x < y => keys[x] < keys[y]
        BY <3>2, <3>3 DEF Increasing
    <3>5. i \in 1 .. n /\ j \in 1 .. n /\ keys[i] = k /\ keys[j] = k
        BY <1>4, <2>1, <2>5, <3>2
    <3>6. i < j \/ j < i
        BY <3>1, <3>5
    <3> QED
        BY <2>2, <3>4, <3>5, <3>6
  <2> QED
      BY <2>5, <2>6
<1> QED
    BY <1>3, <1>4 DEF KeysOnce

\* The leaves below the forest are those of the tree.
LEMMA BottomIs ==
  ASSUME Counted, NEW g, Tallied(g)
  PROVE  Bottom = {p \in g.pages : st.mem[p].kind = "leaf"}
<1>1. Formed(g) /\ Reared(st, g, Bare)
    BY DEF Tallied
<1>2. Below(Forest) \subseteq Settled(g) /\ Tree(st, g)
    BY <1>1, FormedParts, BelowSettled DEF Parts
<1>3. ASSUME NEW p \in g.pages, st.mem[p].kind = "leaf" PROVE p \in Below(Forest)
  <2>1. g.hole[p] = 0
    <3>1. SUFFICES ASSUME g.hole[p] # 0 PROVE FALSE
        OBVIOUS
    <3>2. pc = "ascend" /\ Ascending(g)
        BY <1>1, <3>1 DEF Formed, Idle, Descending, Whole
    <3>3. PICK k \in DOMAIN path : path[k].page = p
        BY <3>1, <3>2 DEF Ascending
    <3>4. path # <<>>
        BY <3>3
    <3>5. up.orig \in g.pages /\ Waits(st, g, path, up.orig, Top)
        BY <3>2, <3>4 DEF Ascending, Loose, Ends
    <3>6. path[k].page \in Inner(st, g)
        BY <1>2, <3>5, WaitingPages
    <3> QED
        BY <1>3, <3>3, <3>6 DEF Inner
  <2>2. p \in Settled(g) /\ g.pages # {}
      BY <2>1 DEF Settled
  <2> QED
      BY <1>1, <2>2, SettledBelow
<1>4. \A p \in Bottom : p \in g.pages /\ st.mem[p].kind = "leaf"
    BY <1>2 DEF Bottom, Settled
<1> QED
    BY <1>3, <1>4, Zenon DEF Bottom

\* What the pairs of a leaf are in PairsBelow, where no key has overflow pages.
Noted(s, p, i) == [pair |-> <<s.mem[p].keys[i], s.mem[p].vals[i]>>, at |-> <<p, i, 0, 0>>]

\* Each item is stored once, at its place.
LEMMA StoredIs ==
  ASSUME NEW p, st.mem[p].kind = "leaf",
         \A i \in 1 .. Len(st.mem[p].keys) : st.mem[p].keys[i] \in Nat /\ st.mem[p].keys[i] < OverflowBit
  PROVE  Stored(p) = {Noted(st, p, i) : i \in 1 .. Len(st.mem[p].keys)}
<1>1. \A i \in 1 .. Len(st.mem[p].keys) : KeyGet(st.mem[p].keys[i]) = st.mem[p].keys[i] /\ ~HasOverflow(st.mem[p].keys[i])
    BY KeyIs
<1> DEFINE Vals(i) == IF HasOverflow(st.mem[p].keys[i])
                        THEN UNION {{<<st.mem[q].vals[j], q, j>> : j \in 1 .. Len(st.mem[q].vals)} :
                                    q \in Chain(st.mem[p].vals[i])}
                        ELSE {<<st.mem[p].vals[i], 0, 0>>}
           Cell(i) == {[pair |-> <<KeyGet(st.mem[p].keys[i]), v[1]>>, at |-> <<p, i, v[2], v[3]>>] : v \in Vals(i)}
<1>2. Stored(p) = UNION {Cell(i) : i \in IF st.mem[p].kind = "leaf" THEN 1 .. Len(st.mem[p].keys) ELSE {}}
    BY Zenon DEF Stored
<1>3. ASSUME NEW i \in 1 .. Len(st.mem[p].keys) PROVE Cell(i) = {Noted(st, p, i)}
  <2>1. Vals(i) = {<<st.mem[p].vals[i], 0, 0>>}
      BY <1>1
  <2>2. PICK v : v = <<st.mem[p].vals[i], 0, 0>>
      OBVIOUS
  <2>3. v[1] = st.mem[p].vals[i] /\ v[2] = 0 /\ v[3] = 0
      BY <2>2
  <2> HIDE DEF Vals
  <2>4. Cell(i) = {[pair |-> <<KeyGet(st.mem[p].keys[i]), v[1]>>, at |-> <<p, i, v[2], v[3]>>]}
      BY <2>1, <2>2
  <2> QED
      BY <1>1, <2>3, <2>4 DEF Noted
<1> HIDE DEF Cell
<1>4. Stored(p) = UNION {Cell(i) : i \in 1 .. Len(st.mem[p].keys)}
    BY <1>2
<1> QED
    BY <1>3, <1>4

\* How many times an index that has these pairs, once each, holds each pair.
Counts(I) == [in \in Inputs |-> IF in \in I THEN 1 ELSE 0]

\* What the tree stands for, wherever a call is: the pairs in its leaves.
PairsTold == \A g : Tallied(g) => PairsBelow(Forest) = Counts(Items(st, g))

\* A key that is there once has one pair.
LEMMA PairsAre ==
  ASSUME OInv
  PROVE  PairsTold
<1> SUFFICES ASSUME NEW g, Tallied(g) PROVE PairsBelow(Forest) = Counts(Items(st, g))
    BY DEF PairsTold
<1>1. Counted /\ KeysPlain /\ KeysOnce
    BY KeysStand DEF OInv
<1>2. Bottom = {p \in g.pages : st.mem[p].kind = "leaf"}
    BY <1>1, BottomIs
<1>3. Items(st, g) \subseteq Inputs
    BY DEF Tallied
<1> DEFINE all == UNION {Stored(p) : p \in Below(Forest)}
<1>4. PairsBelow(Forest) =
        [in \in Inputs \cup {x.pair : x \in all} |-> Cardinality({x \in all : x.pair = in})]
    BY Zenon DEF PairsBelow
<1>5. \A x : x \in all <=> \E p \in Bottom : \E i \in 1 .. Len(st.mem[p].keys) : x = Noted(st, p, i)
  <2>1. ASSUME NEW p \in Below(Forest), st.mem[p].kind # "leaf" PROVE Stored(p) = {}
      BY <2>1 DEF Stored
  <2>2. ASSUME NEW p \in Bottom PROVE Stored(p) = {Noted(st, p, i) : i \in 1 .. Len(st.mem[p].keys)}
      BY <1>1, StoredIs DEF Bottom, KeysPlain
  <2>3. \A p \in Below(Forest) : p \in Bottom \/ st.mem[p].kind # "leaf"
      BY DEF Bottom
  <2>4. Bottom \subseteq Below(Forest)
      BY DEF Bottom
  <2>5. ASSUME NEW x \in all PROVE \E p \in Bottom : \E i \in 1 .. Len(st.mem[p].keys) : x = Noted(st, p, i)
    <3>1. PICK p \in Below(Forest) : x \in Stored(p)
        OBVIOUS
    <3>2. p \in Bottom
        BY <2>1, <2>3, <3>1
    <3> QED
        BY <2>2, <3>1, <3>2
  <2>6. ASSUME NEW p \in Bottom, NEW i \in 1 .. Len(st.mem[p].keys) PROVE Noted(st, p, i) \in all
    <3>1. Noted(st, p, i) \in Stored(p)
        BY <2>2
    <3> QED
        BY <2>4, <3>1
  <2> QED
      BY <2>5, <2>6
<1> HIDE DEF all
<1>6. \A p, i : Noted(st, p, i).pair = <<st.mem[p].keys[i], st.mem[p].vals[i]>>
    BY DEF Noted
<1>7. {x.pair : x \in all} = Items(st, g)
  <2>1. Items(st, g) = UNION {ItemsOf(st.mem[p]) : p \in Bottom}
      BY <1>2 DEF Items, LeafItems
  <2>2. ASSUME NEW x \in all PROVE x.pair \in Items(st, g)
    <3>1. PICK p \in Bottom : \E i \in 1 .. Len(st.mem[p].keys) : x = Noted(st, p, i)
        BY <1>5
    <3>2. PICK i \in 1 .. Len(st.mem[p].keys) : x = Noted(st, p, i)
        BY <3>1
    <3>3. x.pair \in ItemsOf(st.mem[p])
        BY <1>6, <3>2 DEF ItemsOf
    <3> QED
        BY <2>1, <3>3
  <2>3. ASSUME NEW y \in Items(st, g) PROVE \E x \in all : x.pair = y
    <3>1. PICK p \in Bottom : y \in ItemsOf(st.mem[p])
        BY <2>1
    <3>2. PICK i \in 1 .. Len(st.mem[p].keys) : y = <<st.mem[p].keys[i], st.mem[p].vals[i]>>
        BY <3>1 DEF ItemsOf
    <3> QED
        BY <1>5, <1>6, <3>2
  <2> QED
      BY <2>2, <2>3
<1>8. ASSUME NEW x \in all, NEW y \in all, x.pair = y.pair PROVE x = y
  <2>1. PICK p \in Bottom : \E i \in 1 .. Len(st.mem[p].keys) : x = Noted(st, p, i)
      BY <1>5
  <2>2. PICK i \in 1 .. Len(st.mem[p].keys) : x = Noted(st, p, i)
      BY <2>1
  <2>3. PICK q \in Bottom : \E j \in 1 .. Len(st.mem[q].keys) : y = Noted(st, q, j)
      BY <1>5
  <2>4. PICK j \in 1 .. Len(st.mem[q].keys) : y = Noted(st, q, j)
      BY <2>3
  <2>5. <<st.mem[p].keys[i], st.mem[p].vals[i]>> = <<st.mem[q].keys[j], st.mem[q].vals[j]>>
      BY <1>6, <1>8, <2>2, <2>4
  <2>6. st.mem[p].keys[i] = st.mem[q].keys[j]
      BY <2>5
  <2>7. p = q /\ i = j
      BY <1>1, <2>6 DEF KeysOnce
  <2> QED
      BY <2>2, <2>4, <2>7
<1>9. ASSUME NEW in \in Inputs
      PROVE  Cardinality({x \in all : x.pair = in}) = IF in \in Items(st, g) THEN 1 ELSE 0
  <2>1. CASE in \in Items(st, g)
    <3>1. PICK x \in all : x.pair = in
        BY <1>7, <2>1
    <3>2. {y \in all : y.pair = in} = {x}
        BY <1>8, <3>1
    <3> QED
        BY <2>1, <3>2, FS_Singleton
  <2>2. CASE in \notin Items(st, g)
    <3>1. {y \in all : y.pair = in} = {}
        BY <1>7, <2>2
    <3> QED
        BY <2>2, <3>1, FS_EmptySet
  <2> QED
      BY <2>1, <2>2
<1>10. Inputs \cup {x.pair : x \in all} = Inputs
    BY <1>3, <1>7
<1> QED
    BY <1>4, <1>9, <1>10 DEF Counts

\* The pair of the call is not one of those in the leaves before its leaf is written.
LEMMA PairIsNew ==
  ASSUME OInv, NEW g, Tallied(g), pc = "descend"
  PROVE  call \in Inputs /\ call \notin Items(st, g)
<1>1. Counted
    BY DEF OInv
<1>2. PICK o, b : Descending(o) /\ Sinking(o, b)
    BY DEF OInv, InOrder
<1>3. call \in Inputs /\ root # 0
    BY <1>2 DEF Descending
<1>4. Absent(st, root, call[1])
    BY <1>2 DEF Sinking
<1>5. Bottom = {p \in g.pages : st.mem[p].kind = "leaf"} /\ KeysPlain
    BY <1>1, BottomIs, KeysStand
<1>6. Tree(st, o) /\ StoreFits(st) /\ root \in DOMAIN st.mem
  <2>1. Tree(st, o) /\ Shallow(o, root) /\ StoreFits(st)
      BY <1>1, <1>2, CurStands
  <2> QED
      BY <2>1 DEF Shallow, Settled, Tree, Owned, StoreFits
<1>7. Forest = {root}
    BY <1>3 DEF Forest
<1>8. \A p \in Bottom : Within(st, {root}, p)
  <2>1. PICK S : S = {root}
      OBVIOUS
  <2>2. \A p : Within(st, S, p) <=> p \in Below(S)
      BY <1>6, <2>1, WithinBelow
  <2> QED
      BY <1>7, <2>1, <2>2 DEF Bottom
<1>9. ASSUME call \in Items(st, g) PROVE FALSE
  <2>1. PICK p \in Bottom : call \in ItemsOf(st.mem[p])
      BY <1>5, <1>9 DEF Items, LeafItems
  <2>2. PICK i \in 1 .. Len(st.mem[p].keys) : call = <<st.mem[p].keys[i], st.mem[p].vals[i]>>
      BY <2>1 DEF ItemsOf
  <2>3. call[1] = st.mem[p].keys[i]
      BY <2>2
  <2>4. KeyGet(st.mem[p].keys[i]) = st.mem[p].keys[i]
      BY <1>5, KeyIs DEF KeysPlain
  <2>5. call[1] \in KeysOf(st.mem[p])
      BY <2>3, <2>4 DEF KeysOf, Bottom
  <2> QED
      BY <1>4, <1>8, <2>5 DEF Absent
<1> QED
    BY <1>3, <1>9

\* No pair is the mark of no call.
LEMMA NoCallApart == NoCall \notin Inputs
<1>1. SUFFICES ASSUME NoCall \in Inputs PROVE FALSE
    OBVIOUS
<1>2. NoCall \in (0 .. OverflowBit - 1) \X Nat
    BY <1>1, BTreeAssumption
<1>3. PICK a, b : NoCall = <<a, b>>
    BY <1>2
<1>4. Len(NoCall) = 0 /\ Len(<<a, b>>) = 2
    BY DEF NoCall
<1> QED
    BY <1>3, <1>4

\* The index is empty at the start.
LEMMA IndexInit ==
  ASSUME Init
  PROVE  Index!Init
<1>1. OInv /\ PInv
    BY OInvInit, PInvInit
<1>2. PICK g : Tallied(g)
    BY <1>1 DEF PInv
<1>3. PairsBelow(Forest) = Counts(Items(st, g))
    BY <1>1, <1>2, PairsAre DEF PairsTold
<1>4. pc = "idle" /\ call = NoCall /\ root = 0
    BY DEF Init
<1>5. Items(st, g) = {}
  <2>1. g.pages = {}
      BY <1>2, <1>4 DEF Tallied, Formed, Idle
  <2> QED
      BY <2>1 DEF Items, LeafItems
<1>6. PairsBelow(Forest) = [in \in Inputs |-> 0]
    BY <1>3, <1>5 DEF Counts
<1> QED
    BY <1>4, <1>6 DEF Index!Init

\* A step of the tree is one of the index, or does not show: the pair is added when its
\* leaf is written.
LEMMA IndexStep ==
  ASSUME OInv, PInv, PairsTold', [Next]_vars
  PROVE  [Index!Next]_(Index!vars)
<1>1. PICK g : Counted /\ Tallied(g)
    BY DEF PInv
<1>2. PairsBelow(Forest) = Counts(Items(st, g))
    BY <1>1, PairsAre DEF PairsTold
<1>3. \A h : Tallied(h)' => PairsBelow(Forest)' = Counts(Items(st', h))
    BY DEF PairsTold
<1>4. NoCall \notin Inputs
    BY NoCallApart
<1>5. ASSUME call' = call, pc' = pc, NEW h, Tallied(h)', Items(st', h) = Items(st, g)
      PROVE  UNCHANGED Index!vars
  <2>1. PairsBelow(Forest)' = PairsBelow(Forest)
      BY <1>2, <1>3, <1>5
  <2> QED
      BY <1>5, <2>1 DEF Index!vars
<1>6. CASE Create
  <2>1. PICK h : Tallied(h)' /\ Items(st', h) = Items(st, g)
      BY <1>1, <1>6, TalliedCreate
  <2> QED
      BY <1>5, <1>6, <2>1 DEF Create
<1>7. CASE Destroy
  <2>1. PICK h : Tallied(h)' /\ Items(st', h) = {}
      BY <1>1, <1>7, TalliedDestroy
  <2>2. PairsBelow(Forest)' = [in \in Inputs |-> 0]
      BY <1>3, <2>1 DEF Counts
  <2>3. pc = "idle" /\ pc' = pc /\ call' = call
      BY <1>7 DEF Destroy
  <2>4. call = NoCall
      BY <1>1, <2>3 DEF Tallied, Formed, Idle
  <2>5. Index!Destroy
      BY <2>2, <2>3, <2>4 DEF Index!Destroy
  <2> QED
      BY <2>5 DEF Index!Next
<1>8. ASSUME NEW in \in Inputs, BeginAdd(in) PROVE Index!Next
  <2>1. PICK h : Tallied(h)' /\ Items(st', h) = Items(st, g)
      BY <1>1, <1>8, TalliedDown
  <2>2. PairsBelow(Forest)' = PairsBelow(Forest)
      BY <1>2, <1>3, <2>1
  <2>3. pc = "idle" /\ pc' = "descend" /\ call' = in
      BY <1>8 DEF BeginAdd
  <2>4. call = NoCall
      BY <1>1, <2>3 DEF Tallied, Formed, Idle
  <2>5. Index!Begin(in)
      BY <2>2, <2>3, <2>4 DEF Index!Begin
  <2> QED
      BY <2>5 DEF Index!Next
<1>9. CASE Descend
  <2>1. PICK h : Tallied(h)' /\ Items(st', h) = Items(st, g)
      BY <1>1, <1>9, TalliedDown
  <2> QED
      BY <1>5, <1>9, <2>1 DEF Descend
<1>10. ~LeafAddDup
  <2>1. SUFFICES ASSUME LeafAddDup PROVE FALSE
      OBVIOUS
  <2>2. pc = "descend" /\ At.kind = "leaf" /\ LeafHas(At, call[1])
      BY <2>1 DEF LeafAddDup
  <2>3. PICK o, b : InOrder(o, b)
      BY DEF OInv
  <2>4. Descending(o) /\ Sinking(o, b)
      BY <2>2, <2>3 DEF InOrder
  <2> QED
      BY <2>2, <2>4, KeyIsNew
<1>11. CASE LeafAdd \/ LeafSplitUp
  <2>1. PICK h : Tallied(h)' /\ Items(st', h) = Items(st, g) \cup {call}
      BY <1>1, <1>11, TalliedLeaf
  <2>2. pc = "descend" /\ pc' = "ascend" /\ call' = call
      BY <1>11 DEF LeafAdd, LeafSplitUp, GiveUp
  <2>3. call \in Inputs /\ call \notin Items(st, g)
      BY <1>1, <2>2, PairIsNew
  <2>4. PICK I : I = Items(st, g)
      OBVIOUS
  <2>5. PairsBelow(Forest) = Counts(I) /\ PairsBelow(Forest)' = Counts(I \cup {call}) /\ call \notin I
      BY <1>2, <1>3, <2>1, <2>3, <2>4
  <2>6. Counts(I \cup {call}) = [Counts(I) EXCEPT ![call] = Counts(I)[call] + 1]
      BY <2>3, <2>5 DEF Counts
  <2>7. Index!Add
      BY <1>4, <2>2, <2>3, <2>5, <2>6 DEF Index!Add
  <2> QED
      BY <2>7 DEF Index!Next
<1>12. CASE BranchAdd \/ BranchSplitUp
  <2>1. PICK h : Tallied(h)' /\ Items(st', h) = Items(st, g)
      BY <1>1, <1>12, TalliedBranch
  <2>2. pc' = pc /\ call' = call
      BY <1>12 DEF BranchAdd, BranchSplitUp, GiveUp
  <2> QED
      BY <1>5, <2>1, <2>2
<1>13. CASE EndAdd
  <2>1. PICK h : Tallied(h)' /\ Items(st', h) = Items(st, g)
      BY <1>1, <1>13, TalliedEndAdd
  <2>2. PairsBelow(Forest)' = PairsBelow(Forest)
      BY <1>2, <1>3, <2>1
  <2>3. pc = "ascend" /\ pc' = "idle" /\ call' = NoCall
      BY <1>13 DEF EndAdd
  <2>4. Index!Return
      BY <2>2, <2>3 DEF Index!Return
  <2> QED
      BY <2>4 DEF Index!Next
<1>14. CASE FindSteps \/ UNCHANGED vars
  <2>1. /\ st' = st /\ root' = root /\ adds' = adds /\ pc' = pc /\ call' = call
        /\ cur' = cur /\ path' = path /\ up' = up
      BY <1>14 DEF FindSteps, FindBegin, FindDescend, FindEnd, vars
  <2>2. Tallied(g)' /\ Items(st', g) = Items(st, g)
      BY <1>1, <2>1, TalliedSame
  <2> QED
      BY <1>5, <2>1, <2>2
<1> QED
    BY <1>6, <1>7, <1>8, <1>9, <1>10, <1>11, <1>12, <1>13, <1>14 DEF Next, FindSteps

\* The tree is the index its header file describes, if clients add no key twice: a call
\* of btree_add adds its pair, once and all at once, when its leaf is written, and no copy
\* or split on the way back up drops, doubles or moves one; btree_destroy drops them all
\* (btree_leaf_add, btree_leaf_split, btree_branch_add, btree_branch_split, btree_destroy).
THEOREM TreeImplementsIndex ==
  ASSUME AllowDups = FALSE
  PROVE  Spec => ImplementsKVIndex
<1>1. Init => Index!Init
    BY IndexInit
<1>2. OInv => PairsTold
    BY PairsAre
<1>3. OInv /\ PInv /\ PairsTold' /\ [Next]_vars => [Index!Next]_(Index!vars)
    BY IndexStep
<1> QED
    BY <1>1, <1>2, <1>3, OrderHolds, PagesTallied, PTL DEF Spec, ImplementsKVIndex, Index!Spec

=============================================================================
