-------------------------- MODULE ContainersProofs --------------------------
(***************************************************************************)
(* Theorems about module Containers, for clients that use one container in *)
(* any order of calls.                                                     *)
(***************************************************************************)
EXTENDS Containers, SequenceLemmas

(* The growing array. *)

\* An array d of m cells has n items.
HoldsItems(d, n, m) ==
  /\ m \in Nat /\ n \in 0 .. m
  /\ d = [i \in A!Cells(m) |-> d[i]]
  /\ \A i \in 0 .. n - 1 : d[i] \in Vals

\* The array's inductive invariant.
ArrayInv == HoldsItems(data, size, max_size)

\* The items in use, counted from 1 as ItemSeq counts them.
ArrayItems(d, n) == [i \in 1 .. n |-> d[i - 1]]

\* What the assumption says of the array's bounds and of the values no client stores.
LEMMA ArraySizes == MaxCells \in Nat /\ MaxCells >= 1 /\ NoVal \notin Vals /\ Junk \notin Vals
  BY ContainersAssumption DEF A!DArrayAssumption

\* An allocation of n cells has the cells 0 to n - 1.
LEMMA CellsOf ==
  ASSUME NEW n \in Nat
  PROVE  \A i : i \in A!Cells(n) <=> i \in 0 .. n - 1
  BY DEF A!Cells

\* An array's items are a sequence of values.
LEMMA ItemsOf ==
  ASSUME NEW d, NEW n, NEW m, HoldsItems(d, n, m)
  PROVE  /\ n \in Nat /\ m \in Nat /\ n <= m
         /\ ArrayItems(d, n) \in Seq(Vals) /\ Len(ArrayItems(d, n)) = n
         /\ \A i \in 1 .. n : ArrayItems(d, n)[i] = d[i - 1] /\ d[i - 1] \in Vals
<1>1. n \in Nat /\ m \in Nat /\ n <= m
    BY DEF HoldsItems
<1>2. \A i \in 1 .. n : d[i - 1] \in Vals
    BY <1>1 DEF HoldsItems
<1> QED
    BY <1>1, <1>2 DEF ArrayItems

\* realloc keeps what both have.
LEMMA Reallocated ==
  ASSUME HoldsItems(data, size, max_size), NEW n \in Nat
  PROVE  /\ A!Realloc(n) = [i \in A!Cells(n) |-> A!Realloc(n)[i]]
         /\ \A i \in 0 .. n - 1 : i < max_size => A!Realloc(n)[i] = data[i]
<1>1. DOMAIN data = A!Cells(max_size) /\ max_size \in Nat
    BY DEF HoldsItems
<1>2. \A i \in 0 .. n - 1 : i < max_size => i \in A!Cells(max_size) /\ i \in A!Cells(n)
    BY <1>1, CellsOf
<1> QED
    BY <1>1, <1>2 DEF A!Realloc

\* darray_reserve and darray_contract move the items and lose none.
LEMMA ReserveItems ==
  ASSUME ArrayInv, NEW n \in Nat, A!Reserve(n)
  PROVE  HoldsItems(data', size', max_size') /\ size' = size /\ up /\ up'
         /\ \A i \in 0 .. size - 1 : data'[i] = data[i]
<1>1. /\ size \in Nat /\ max_size \in Nat /\ size <= max_size /\ size <= n /\ up /\ up' = up
      /\ data' = A!Realloc(n) /\ max_size' = n /\ size' = size
      /\ \A i \in 0 .. size - 1 : data[i] \in Vals
    BY DEF ArrayInv, HoldsItems, A!Reserve
<1>2. \A i \in 0 .. size - 1 : i \in 0 .. n - 1 /\ i < max_size
    BY <1>1
<1>3. \A i \in 0 .. size - 1 : data'[i] = data[i]
    BY <1>1, <1>2, Reallocated DEF ArrayInv
<1>4. data' = [i \in A!Cells(n) |-> data'[i]]
    BY <1>1, Reallocated DEF ArrayInv
<1>5. n \in Nat /\ size \in 0 .. n /\ \A i \in 0 .. size - 1 : data'[i] \in Vals
    BY <1>1, <1>3
<1> QED
    BY <1>1, <1>3, <1>4, <1>5 DEF HoldsItems

\* darray_resize keeps the items that fit and fills the rest with one value.
LEMMA ResizeItems ==
  ASSUME ArrayInv, NEW n \in Nat, NEW v \in Vals, A!Resize(n, v)
  PROVE  /\ HoldsItems(data', size', max_size') /\ size' = n /\ n # 0 /\ up'
         /\ \A i \in 0 .. n - 1 : data'[i] = IF i < size THEN data[i] ELSE v
<1>1. /\ size \in Nat /\ max_size \in Nat /\ size <= max_size /\ up' = up /\ up /\ n # 0
      /\ data' = [i \in A!Cells(n) |-> IF i < size THEN A!Realloc(n)[i] ELSE v]
      /\ max_size' = n /\ size' = n
      /\ \A i \in 0 .. size - 1 : data[i] \in Vals
    BY DEF ArrayInv, HoldsItems, A!Resize
<1>2. \A i \in 0 .. n - 1 : i \in A!Cells(n)
    BY CellsOf
<1>3. \A i \in 0 .. n - 1 : i < size => A!Realloc(n)[i] = data[i]
    BY <1>1, Reallocated DEF ArrayInv
<1>4. \A i \in 0 .. n - 1 : data'[i] = IF i < size THEN data[i] ELSE v
    BY <1>1, <1>2, <1>3
<1>5. \A i \in 0 .. n - 1 : data'[i] \in Vals
    BY <1>1, <1>4
<1>6. data' = [i \in A!Cells(n) |-> data'[i]] /\ n \in 0 .. n
    BY <1>1
<1> QED
    BY <1>1, <1>4, <1>5, <1>6 DEF HoldsItems

\* darray_push keeps the items and puts one behind them, in the allocation.
LEMMA PushItems ==
  ASSUME ArrayInv, NEW v \in Vals, A!Push(v)
  PROVE  /\ HoldsItems(data', size', max_size') /\ size' = size + 1 /\ up'
         /\ \A i \in 0 .. size : data'[i] = IF i < size THEN data[i] ELSE v
<1> DEFINE cells == IF size >= max_size THEN 2 * max_size ELSE max_size
<1>1. /\ size \in Nat /\ max_size \in Nat /\ size <= max_size /\ max_size # 0 /\ up' = up /\ up
      /\ data' = [A!Realloc(cells) EXCEPT ![size] = v] /\ max_size' = cells /\ size' = size + 1
      /\ \A i \in 0 .. size - 1 : data[i] \in Vals
    BY DEF ArrayInv, HoldsItems, A!Push
<1>2. cells \in Nat /\ size < cells
    BY <1>1
<1> HIDE DEF cells
<1>3. /\ A!Realloc(cells) = [i \in A!Cells(cells) |-> A!Realloc(cells)[i]]
      /\ \A i \in 0 .. size - 1 : A!Realloc(cells)[i] = data[i]
    BY <1>1, <1>2, Reallocated DEF ArrayInv
<1>4. size \in A!Cells(cells) /\ \A i \in 0 .. size - 1 : i \in A!Cells(cells) /\ i # size
    BY <1>1, <1>2, CellsOf
<1>5. /\ data' = [i \in A!Cells(cells) |-> data'[i]] /\ data'[size] = v
      /\ \A i \in 0 .. size - 1 : data'[i] = data[i]
    BY <1>1, <1>3, <1>4
<1>6. \A i \in 0 .. size : i \in 0 .. size - 1 \/ i = size
    BY <1>1
<1>7. \A i \in 0 .. size : data'[i] = IF i < size THEN data[i] ELSE v
    BY <1>1, <1>5, <1>6
<1>8. \A i \in 0 .. size : data'[i] \in Vals
    BY <1>1, <1>5, <1>6
<1>9. size + 1 \in 0 .. cells
    BY <1>1, <1>2
<1>10. HoldsItems(data', size + 1, cells)
  <2> DEFINE n == size + 1
  <2>1. n \in 0 .. cells
      BY <1>9
  <2>2. \A i \in 0 .. n - 1 : data'[i] \in Vals
    <3>1. n - 1 = size
        BY <1>1
    <3> QED
        BY <1>8, <3>1, Zenon
  <2> HIDE DEF n
  <2>3. HoldsItems(data', n, cells)
      BY <1>2, <1>5, <2>1, <2>2 DEF HoldsItems
  <2> QED
      BY <1>1, <2>3 DEF n
<1> QED
    BY <1>1, <1>7, <1>10

\* darray_set changes one item.
LEMMA PutItems ==
  ASSUME ArrayInv, NEW i \in Nat, NEW v \in Vals, A!Put(i, v)
  PROVE  /\ HoldsItems(data', size', max_size') /\ size' = size /\ i < size /\ up'
         /\ \A k \in 0 .. size - 1 : data'[k] = IF k = i THEN v ELSE data[k]
<1>1. /\ size \in Nat /\ max_size \in Nat /\ size <= max_size /\ i < size /\ up /\ up' = up
      /\ data' = [data EXCEPT ![i] = v] /\ max_size' = max_size /\ size' = size
      /\ data = [k \in A!Cells(max_size) |-> data[k]]
      /\ \A k \in 0 .. size - 1 : data[k] \in Vals
    BY DEF ArrayInv, HoldsItems, A!Put
<1>2. i \in A!Cells(max_size) /\ \A k \in 0 .. size - 1 : k \in A!Cells(max_size)
    BY <1>1, CellsOf
<1>3. data' = [k \in A!Cells(max_size) |-> data'[k]]
    BY <1>1
<1>4. \A k \in 0 .. size - 1 : data'[k] = IF k = i THEN v ELSE data[k]
    BY <1>1, <1>2
<1>5. size \in 0 .. max_size /\ \A k \in 0 .. size - 1 : data'[k] \in Vals
    BY <1>1, <1>4
<1> QED
    BY <1>1, <1>3, <1>4, <1>5 DEF HoldsItems

\* A new array, and one that was destroyed, has no items.
LEMMA NoItems ==
  ASSUME NEW d, NEW m \in Nat, DOMAIN d = A!Cells(m), d = [i \in DOMAIN d |-> d[i]]
  PROVE  HoldsItems(d, 0, m)
  BY DEF HoldsItems

\* Every operation of the array keeps its items in its allocation.
LEMMA ArrayStep == ASSUME ArrayInv, A!Next PROVE ArrayInv'
<1>1. ASSUME NEW n \in 0 .. MaxCells, A!Create(n) PROVE ArrayInv'
  <2>1. n \in Nat /\ size' = 0 /\ max_size' = n /\ data' = [i \in A!Cells(n) |-> Junk] /\ up'
      BY <1>1, ArraySizes DEF A!Create
  <2> QED
      BY <2>1, NoItems DEF ArrayInv
<1>2. ASSUME NEW n \in Nat, A!Reserve(n) PROVE ArrayInv'
    BY <1>2, ReserveItems DEF ArrayInv
<1>3. ASSUME NEW n \in 0 .. MaxCells, NEW v \in Vals, A!Resize(n, v) PROVE ArrayInv'
  <2>1. n \in Nat
      BY ArraySizes
  <2> QED
      BY <1>3, <2>1, ResizeItems DEF ArrayInv
<1>4. CASE A!Expand \/ A!Contract
  <2>1. max_size \in Nat
      BY DEF ArrayInv, HoldsItems
  <2>2. 2 * max_size \in Nat /\ max_size \div 2 \in Nat
      BY <2>1
  <2> QED
      BY <1>2, <1>4, <2>2 DEF A!Expand, A!Contract
<1>5. CASE A!Destroy
  <2>1. size' = 0 /\ max_size' = 0 /\ data' = <<>> /\ 0 \in Nat
      BY <1>5 DEF A!Destroy
  <2>2. DOMAIN <<>> = A!Cells(0) /\ <<>> = [i \in DOMAIN <<>> |-> <<>>[i]]
      BY DEF A!Cells
  <2> QED
      BY <2>1, <2>2, NoItems DEF ArrayInv
<1>6. ASSUME NEW v \in Vals, A!Push(v) PROVE ArrayInv'
    BY <1>6, PushItems DEF ArrayInv
<1>7. CASE A!PushFails \/ \E i \in A!Cells(MaxCells) : A!Get(i)
    BY <1>7 DEF A!PushFails, A!Get, ArrayInv
<1>8. CASE A!Pop
  <2>1. /\ size \in Nat /\ max_size \in Nat /\ size <= max_size /\ up' = up /\ up
        /\ data' = data /\ max_size' = max_size /\ size' = IF size > 0 THEN size - 1 ELSE 0
        /\ \A i \in 0 .. size - 1 : data[i] \in Vals
      BY <1>8 DEF ArrayInv, HoldsItems, A!Pop
  <2>2. size' \in 0 .. max_size /\ \A i \in 0 .. size' - 1 : i \in 0 .. size - 1
      BY <2>1
  <2>3. data = [i \in A!Cells(max_size) |-> data[i]]
      BY DEF ArrayInv, HoldsItems
  <2> QED
      BY <2>1, <2>2, <2>3 DEF ArrayInv, HoldsItems
<1>9. ASSUME NEW i \in A!Cells(MaxCells), NEW v \in Vals, A!Put(i, v) PROVE ArrayInv'
  <2>1. i \in Nat
      BY ArraySizes, CellsOf
  <2> QED
      BY <1>9, <2>1, PutItems DEF ArrayInv
<1>10. \A n \in 0 .. MaxCells : n \in Nat
    BY ArraySizes
<1> QED
    BY <1>1, <1>2, <1>3, <1>4, <1>5, <1>6, <1>7, <1>8, <1>9, <1>10, Zenon DEF A!Next

\* There is no array at first.
LEMMA ArrayInvInit == Init => ArrayInv
<1>1. DOMAIN <<>> = A!Cells(0) /\ <<>> = [i \in DOMAIN <<>> |-> <<>>[i]]
    BY DEF A!Cells
<1> QED
    BY <1>1, NoItems DEF Init, A!Init, ArrayInv

\* The other containers leave the array alone.
LEMMA ArrayInvStep == ArrayInv /\ [Next]_vars => ArrayInv'
<1>1. [Next]_vars => A!Next \/ UNCHANGED arrayVars
    BY Zenon DEF Next, vars
<1>2. ArrayInv /\ UNCHANGED arrayVars => ArrayInv'
    BY DEF arrayVars, ArrayInv
<1> QED
    BY <1>1, <1>2, ArrayStep, Zenon

\* The array's invariant holds in all behaviours of all the containers.
LEMMA ArrayInvAlways == Spec => []ArrayInv
  BY ArrayInvInit, ArrayInvStep, PTL DEF Spec

\* darray.c: the items in use lie in the allocation, whatever was pushed, popped, resized,
\* reserved and contracted before.
THEOREM ArrayInBoundsAlways == Spec => []ArrayInBounds
<1>1. ArrayInv => ArrayInBounds
    BY CellsOf DEF ArrayInv, HoldsItems, ArrayInBounds, A!InBounds
<1> QED
    BY <1>1, ArrayInvAlways, PTL

\* No array is an empty sequence that is not there.
LEMMA ArrayRefinesInit == Init => A!Items!Init
<1>1. ASSUME size = 0 PROVE [i \in 1 .. size |-> data[i - 1]] = <<>>
    BY <1>1
<1> QED
    BY <1>1 DEF Init, A!Init, A!Items!Init

\* Every operation of darray.c is the operation of ItemSeq it is named for.
LEMMA ArrayRefinesNext == ASSUME ArrayInv, A!Next PROVE A!Items!Next
<1> USE DEF A!Items!Returns
<1>1. /\ ArrayItems(data, size) \in Seq(Vals) /\ Len(ArrayItems(data, size)) = size
      /\ size \in Nat /\ max_size \in Nat /\ size <= max_size
      /\ \A i \in 1 .. size : ArrayItems(data, size)[i] = data[i - 1]
    BY ItemsOf DEF ArrayInv
<1>2. ASSUME NEW n \in 0 .. MaxCells, A!Create(n) PROVE A!Items!Empty("create")
  <2>1. size' = 0 /\ arrayDone' = <<"create", NoVal>>
      BY <1>2 DEF A!Create
  <2> QED
      BY <2>1 DEF A!Items!Empty
<1>3. ASSUME A!Destroy PROVE A!Items!Empty("destroy")
  <2>1. size' = 0 /\ arrayDone' = <<"destroy", NoVal>>
      BY <1>3 DEF A!Destroy
  <2> QED
      BY <2>1 DEF A!Items!Empty
<1>4. ASSUME NEW n \in Nat, A!Reserve(n) PROVE A!Items!Keep("reserve")
  <2>1. size' = size /\ (\A i \in 0 .. size - 1 : data'[i] = data[i]) /\ arrayDone' = <<"reserve", NoVal>>
      BY <1>4, ReserveItems DEF A!Reserve
  <2>2. \A i \in 1 .. size : data'[i - 1] = data[i - 1]
      BY <1>1, <2>1
  <2> QED
      BY <2>1, <2>2 DEF A!Items!Keep
<1>5. ASSUME A!Expand \/ A!Contract PROVE A!Items!Keep("reserve")
  <2>1. 2 * max_size \in Nat /\ max_size \div 2 \in Nat
      BY <1>1
  <2> QED
      BY <1>4, <1>5, <2>1 DEF A!Expand, A!Contract
<1>6. ASSUME NEW n \in 0 .. MaxCells, NEW v \in Vals, A!Resize(n, v) PROVE n \in 1 .. MaxCells /\ A!Items!Resize(n, v)
  <2>0. n \in Nat
      BY ArraySizes
  <2>1. /\ size' = n /\ n # 0 /\ (\A i \in 0 .. n - 1 : data'[i] = IF i < size THEN data[i] ELSE v)
        /\ arrayDone' = <<"resize", NoVal>>
      BY <1>6, <2>0, ResizeItems DEF A!Resize
  <2>2. \A i \in 1 .. n : data'[i - 1] = IF i <= size THEN data[i - 1] ELSE v
      BY <1>1, <2>0, <2>1
  <2>3. \A i \in 1 .. n : i <= size => i \in 1 .. size
      OBVIOUS
  <2>4. ArrayItems(data', n) = [i \in 1 .. n |-> IF i <= Len(ArrayItems(data, size)) THEN ArrayItems(data, size)[i] ELSE v]
      BY <1>1, <2>0, <2>2, <2>3 DEF ArrayItems
  <2>5. ArrayItems(data', size') = [i \in 1 .. n |-> IF i <= Len(ArrayItems(data, size)) THEN ArrayItems(data, size)[i] ELSE v]
      BY <2>1, <2>4
  <2>6. n \in 1 .. MaxCells
      BY <2>0, <2>1, ArraySizes
  <2> QED
      BY <2>1, <2>5, <2>6, Zenon DEF A!Items!Resize, ArrayItems
<1>7. ASSUME NEW v \in Vals, A!Push(v) PROVE A!Items!Push(v)
  <2>1. /\ size' = size + 1 /\ (\A i \in 0 .. size : data'[i] = IF i < size THEN data[i] ELSE v)
        /\ arrayDone' = <<"push", NoVal>>
      BY <1>7, PushItems DEF A!Push
  <2>2. \A i \in 1 .. size + 1 : data'[i - 1] = IF i <= size THEN data[i - 1] ELSE v
      BY <1>1, <2>1
  <2>3. ArrayItems(data', size + 1) = Append(ArrayItems(data, size), v)
    <3> DEFINE x == ArrayItems(data, size)
    <3>1. Append(x, v) = [i \in 1 .. size + 1 |-> IF i <= size THEN x[i] ELSE v]
      <4>1. x \in Seq(Vals) /\ Len(x) = size
          BY <1>1
      <4> DEFINE z == Append(x, v)
      <4> HIDE DEF x
      <4>2. /\ z \in Seq(Vals) /\ Len(z) = size + 1
            /\ \A i \in 1 .. size : z[i] = x[i]
            /\ z[size + 1] = v
          BY <4>1, AppendProperties
      <4> HIDE DEF z
      <4>3. z = [i \in 1 .. size + 1 |-> z[i]]
          BY <1>1, <4>2
      <4>4. \A i \in 1 .. size + 1 : z[i] = IF i <= size THEN x[i] ELSE v
          BY <1>1, <4>2
      <4> QED
          BY <4>3, <4>4 DEF z
    <3>2. \A i \in 1 .. size + 1 : i <= size => x[i] = data[i - 1]
        BY <1>1
    <3> QED
        BY <2>2, <3>1, <3>2 DEF ArrayItems
  <2>4. ArrayItems(data', size') = Append(ArrayItems(data, size), v)
      BY <2>1, <2>3
  <2> QED
      BY <2>1, <2>4, Zenon DEF A!Items!Push, ArrayItems
<1>8. ASSUME A!PushFails PROVE A!Items!Keep("push failed")
    BY <1>8 DEF A!PushFails, A!Items!Keep
<1>9. ASSUME A!Pop PROVE A!Items!Pop \/ A!Items!TakeNothing("pop")
  <2>1. CASE size = 0
    <3>1. size' = 0 /\ arrayDone' = <<"pop", NoVal>>
        BY <1>9, <2>1 DEF A!Pop
    <3>2. ArrayItems(data, size) = <<>> /\ ArrayItems(data', size') = <<>>
        BY <2>1, <3>1 DEF ArrayItems
    <3> QED
        BY <3>1, <3>2, Zenon DEF A!Items!TakeNothing, ArrayItems
  <2>2. CASE size # 0
    <3>1. size' = size - 1 /\ data' = data /\ arrayDone' = <<"pop", data[size - 1]>> /\ size - 1 \in Nat
        BY <1>1, <1>9, <2>2 DEF A!Pop
    <3>2. \A i \in 1 .. size - 1 : i \in 1 .. size
        BY <1>1
    <3>3. ArrayItems(data', size') = [i \in 1 .. size - 1 |-> ArrayItems(data, size)[i]]
        BY <1>1, <3>1, <3>2 DEF ArrayItems
    <3>4. ArrayItems(data, size) # <<>>
        BY <1>1, <2>2
    <3>5. Front(ArrayItems(data, size)) = [i \in 1 .. size - 1 |-> ArrayItems(data, size)[i]]
        BY <1>1, <2>2, <3>1, <3>4, FrontProperties DEF Front
    <3>6. Last(ArrayItems(data, size)) = data[size - 1]
        BY <1>1, <2>2 DEF Last
    <3>7. ArrayItems(data', size') = Front(ArrayItems(data, size))
        BY <3>3, <3>5
    <3> QED
        BY <3>1, <3>4, <3>6, <3>7, Zenon DEF A!Items!Pop, ArrayItems, A!Items!Front, A!Items!Last, Front, Last
  <2> QED
      BY <2>1, <2>2
<1>10. ASSUME NEW i \in A!Cells(MaxCells), NEW v \in Vals, A!Put(i, v)
       PROVE  i + 1 \in 1 .. size /\ A!Items!Set(i + 1, v)
  <2>0. i \in Nat
      BY ArraySizes, CellsOf
  <2>1. /\ size' = size /\ i < size /\ (\A k \in 0 .. size - 1 : data'[k] = IF k = i THEN v ELSE data[k])
        /\ arrayDone' = <<"set", NoVal>>
      BY <1>10, <2>0, PutItems DEF A!Put
  <2>2. \A k \in 1 .. size : data'[k - 1] = IF k = i + 1 THEN v ELSE data[k - 1]
      BY <1>1, <2>0, <2>1
  <2>3. ArrayItems(data', size) = [ArrayItems(data, size) EXCEPT ![i + 1] = v]
      BY <1>1, <2>2 DEF ArrayItems
  <2>4. ArrayItems(data', size') = [ArrayItems(data, size) EXCEPT ![i + 1] = v]
      BY <2>1, <2>3
  <2>5. i + 1 \in 1 .. size
      BY <1>1, <2>0, <2>1
  <2> QED
      BY <2>1, <2>4, <2>5, Zenon DEF A!Items!Set, ArrayItems
<1>11. ASSUME NEW i \in A!Cells(MaxCells), A!Get(i)
       PROVE  A!Items!GetNothing \/ (i + 1 \in 1 .. size /\ A!Items!Get(i + 1))
  <2>0. i \in Nat
      BY ArraySizes, CellsOf
  <2>1. data' = data /\ size' = size
      BY <1>11 DEF A!Get
  <2>2. CASE i < size
    <3>1. i + 1 \in 1 .. size /\ (i + 1) - 1 = i
        BY <1>1, <2>0, <2>2
    <3>2. ArrayItems(data, size)[i + 1] = data[i]
        BY <1>1, <3>1
    <3>3. arrayDone' = <<"get", data[i]>>
        BY <1>11, <2>2 DEF A!Get
    <3>4. ArrayItems(data', size') = ArrayItems(data, size)
        BY <2>1
    <3> QED
        BY <3>1, <3>2, <3>3, <3>4, Zenon DEF A!Items!Get, ArrayItems
  <2>3. CASE ~(i < size)
      BY <1>11, <2>1, <2>3 DEF A!Get, A!Items!GetNothing
  <2> QED
      BY <2>2, <2>3
<1>12. ASSUME NEW n \in 0 .. MaxCells PROVE n \in Nat
    BY ArraySizes
<1>13. 1 .. size = DOMAIN [i \in 1 .. size |-> data[i - 1]]
    OBVIOUS
<1>14. CASE \E n \in 0 .. MaxCells : A!Create(n) \/ A!Reserve(n) \/ \E v \in Vals : A!Resize(n, v)
    BY <1>2, <1>4, <1>6, <1>12, <1>14, Zenon DEF A!Items!Next
<1>15. CASE \E i \in A!Cells(MaxCells) : A!Get(i) \/ \E v \in Vals : A!Put(i, v)
    BY <1>10, <1>11, <1>13, <1>15, Zenon DEF A!Items!Next
<1>16. CASE \E v \in Vals : A!Push(v)
    BY <1>7, <1>16, Zenon DEF A!Items!Next
<1>17. CASE A!Expand \/ A!Contract \/ A!Destroy \/ A!PushFails \/ A!Pop
    BY <1>3, <1>5, <1>8, <1>9, <1>17, Zenon DEF A!Items!Next
<1> QED
    BY <1>14, <1>15, <1>16, <1>17, Zenon DEF A!Next

\* darray.c: the growing array is a sequence of items; growing and shrinking the allocation
\* does not show.
THEOREM ArrayIsItemSeqAlways == Spec => ArrayIsItemSeq
<1>1. ArrayInv /\ [Next]_vars => [A!Items!Next]_(A!Items!vars)
  <2>1. [Next]_vars => A!Next \/ UNCHANGED arrayVars
      BY Zenon DEF Next, vars
  <2>2. UNCHANGED arrayVars => UNCHANGED A!Items!vars
      BY DEF arrayVars, A!Items!vars
  <2> QED
      BY <2>1, <2>2, ArrayRefinesNext, Zenon
<1> QED
    BY <1>1, ArrayRefinesInit, ArrayInvAlways, PTL DEF Spec, ArrayIsItemSeq, A!ImplementsItemSeq, A!Items!Spec
-----------------------------------------------------------------------------
(* The linked list. *)

\* The i-th address of a sequence, Null before the first and behind the last.
At(s, i) == IF i \in 1 .. Len(s) THEN s[i] ELSE L!Null
Elem == [prev : Nat, next : Nat, val : ListVals]

\* The elements of a heap h from place b on are chained in the order of s.
LinksFrom(b, s, h) ==
  \A i \in 1 .. Len(s) : i >= b =>
    h[s[i]] \in Elem /\ h[s[i]].prev = At(s, i - 1) /\ h[s[i]].next = At(s, i + 1)

\* A sequence of addresses in which none is twice.
Distinct(s) == s \in Seq(L!Addrs) /\ \A i, j \in 1 .. Len(s) : s[i] = s[j] => i = j

\* The elements of heap h are chained in the order of s, from f to l.
Chained(s, h, f, l) ==
  /\ Distinct(s) /\ LinksFrom(1, s, h)
  /\ DOMAIN h = {s[i] : i \in 1 .. Len(s)} /\ h = [a \in DOMAIN h |-> h[a]]
  /\ f = At(s, 1) /\ l = At(s, Len(s))

\* Each of the chained elements has a value of its own, and these are alive.
ValuesOwned(s, h, live) ==
  /\ \A i, j \in 1 .. Len(s) : h[s[i]].val = h[s[j]].val => i = j
  /\ live = {h[s[i]].val : i \in 1 .. Len(s)}

\* The addresses are those of the elements there may be, and none is the null pointer.
LEMMA AddrsAre == /\ MaxElems \in Nat /\ L!Addrs = 1 .. MaxElems /\ L!Null = 0 /\ NoVal \notin ListVals
                  /\ L!Addrs \in SUBSET Nat /\ L!Null \notin L!Addrs
  BY ContainersAssumption DEF L!DListAssumption, L!Addrs, L!Null

\* What a sequence of addresses has at a place.
LEMMA AtIs ==
  ASSUME NEW s \in Seq(L!Addrs)
  PROVE  /\ \A i \in 1 .. Len(s) : At(s, i) = s[i] /\ s[i] \in L!Addrs /\ s[i] \in Nat /\ s[i] # L!Null
         /\ \A i \in Int : i \notin 1 .. Len(s) => At(s, i) = L!Null
         /\ \A i \in Int : At(s, i) \in Nat /\ (At(s, i) = L!Null <=> i \notin 1 .. Len(s))
  BY AddrsAre DEF At

\* Two places with the same address are one, or both lie outside.
LEMMA AtInjective ==
  ASSUME NEW s, Distinct(s), NEW i \in 1 .. Len(s), NEW j \in Int, At(s, i) = At(s, j)
  PROVE  i = j
<1>1. s \in Seq(L!Addrs) /\ \A a, b \in 1 .. Len(s) : s[a] = s[b] => a = b
    BY DEF Distinct
<1>2. At(s, i) = s[i] /\ At(s, i) # L!Null
    BY <1>1, AtIs
<1>3. j \in 1 .. Len(s)
    BY <1>1, <1>2, AtIs
<1>4. At(s, j) = s[j]
    BY <1>1, <1>3, AtIs
<1> QED
    BY <1>1, <1>2, <1>3, <1>4

\* The first n addresses that a link leads to from one on.
Runs(t, from, link, n) ==
  /\ t = [i \in 1 .. n |-> t[i]] /\ (n >= 1 => t[1] = from)
  /\ \A i \in 1 .. n : i # 1 => t[i - 1] \in DOMAIN elems /\ t[i] = elems[t[i - 1]][link]

\* Following a link from an end, one comes to the addresses one after the other.
LEMMA FollowIs ==
  ASSUME NEW n \in Nat, NEW link, NEW from, NEW t, Runs(t, from, link, n)
  PROVE  L!Follow(from, link, n) = t
<1> DEFINE Is(at) == at = [i \in 1 .. n |->
                             IF i = 1 THEN from
                             ELSE IF at[i - 1] \in DOMAIN elems THEN elems[at[i - 1]][link] ELSE L!Null]
           c == L!Follow(from, link, n)
           Bad == {i \in 1 .. n : c[i] # t[i]}
<1> HIDE DEF c
<1>0. /\ t = [i \in 1 .. n |-> t[i]] /\ (n >= 1 => t[1] = from)
      /\ \A i \in 1 .. n : i # 1 => t[i - 1] \in DOMAIN elems /\ t[i] = elems[t[i - 1]][link]
    BY DEF Runs
<1>1. Is(c)
  <2>1. \A i \in 1 .. n : t[i] = IF i = 1 THEN from
                                 ELSE IF t[i - 1] \in DOMAIN elems THEN elems[t[i - 1]][link] ELSE L!Null
      BY <1>0
  <2>2. Is(t)
      BY <1>0, <2>1
  <2> HIDE DEF Is
  <2>3. Is(CHOOSE at : Is(at))
      BY <2>2, Zenon
  <2>4. c = CHOOSE at : Is(at)
      BY Zenon DEF c, Is, L!Follow
  <2> QED
      BY <2>3, <2>4, Zenon

<1>2. Bad = {}
  <2>1. SUFFICES ASSUME Bad # {} PROVE FALSE
      OBVIOUS
  <2>2. Bad \in SUBSET Nat
      OBVIOUS
  <2>3. PICK m \in Bad : \A b \in Bad : m <= b
      BY <2>1, <2>2, NatMin
  <2>4. m \in 1 .. n /\ c[m] # t[m]
      OBVIOUS
  <2>5. m # 1
      BY <1>0, <1>1, <2>4
  <2>6. m - 1 \in 1 .. n /\ m - 1 < m
      BY <2>4, <2>5
  <2>7. m - 1 \notin Bad
      BY <2>3, <2>6, <2>4
  <2>8. c[m - 1] = t[m - 1]
      BY <2>6, <2>7
  <2>9. c[m] = IF c[m - 1] \in DOMAIN elems THEN elems[c[m - 1]][link] ELSE L!Null
      BY <1>1, <2>4, <2>5
  <2> HIDE DEF Bad, Is
  <2>10. t[m - 1] \in DOMAIN elems /\ t[m] = elems[t[m - 1]][link]
      BY <1>0, <2>4, <2>5
  <2> QED
      BY <2>4, <2>8, <2>9, <2>10
<1>3. c = [i \in 1 .. n |-> c[i]] /\ \A i \in 1 .. n : c[i] = t[i]
    BY <1>1, <1>2
<1> HIDE DEF Is, Bad, c
<1>4. c = t
    BY <1>0, <1>3
<1> QED
    BY <1>4, Zenon DEF c

\* Read forwards, the list is the sequence of its addresses; read backwards, its reverse.
LEMMA ChainIs ==
  ASSUME NEW s, Chained(s, elems, first, last), count = Len(s)
  PROVE  /\ L!Chain = s
         /\ L!Follow(last, "prev", count) = Reverse(s)
<1>1. s \in Seq(L!Addrs) /\ Len(s) \in Nat /\ count = Len(s)
    BY DEF Chained, Distinct
<1>2. /\ DOMAIN elems = {s[i] : i \in 1 .. Len(s)}
      /\ first = At(s, 1) /\ last = At(s, Len(s))
      /\ \A i \in 1 .. Len(s) : elems[s[i]] \in Elem /\ elems[s[i]].prev = At(s, i - 1) /\ elems[s[i]].next = At(s, i + 1)
    BY <1>1 DEF Chained, LinksFrom
<1>3. \A e \in Elem : e["next"] = e.next /\ e["prev"] = e.prev
    BY DEF Elem
<1>4. \A i \in 1 .. Len(s) : At(s, i) = s[i]
    BY <1>1, AtIs
<1>5. L!Chain = s
  <2>1. s = [i \in 1 .. count |-> s[i]]
      BY <1>1
  <2>2. count >= 1 => s[1] = first
      BY <1>1, <1>2, <1>4
  <2>3. ASSUME NEW i \in 1 .. count, i # 1 PROVE s[i - 1] \in DOMAIN elems /\ s[i] = elems[s[i - 1]]["next"]
    <3>1. i - 1 \in 1 .. Len(s) /\ i \in 1 .. Len(s) /\ (i - 1) + 1 = i
        BY <1>1, <2>3
    <3>2. elems[s[i - 1]]["next"] = At(s, i)
        BY <1>2, <1>3, <3>1
    <3> QED
        BY <1>2, <1>4, <3>1, <3>2
  <2>4. L!Chain = L!Follow(first, "next", count)
      BY Zenon DEF L!Chain
  <2>5. count \in Nat
      BY <1>1
  <2>6. \A i \in 1 .. count : i # 1 => s[i - 1] \in DOMAIN elems /\ s[i] = elems[s[i - 1]]["next"]
      BY <2>3, Zenon
  <2>8. Runs(s, first, "next", count)
      BY ONLY <2>1, <2>2, <2>5, <2>6 DEF Runs
  <2> QED
      BY ONLY <2>4, <2>5, <2>8, FollowIs, Zenon
<1>6. L!Follow(last, "prev", count) = Reverse(s)
  <2> DEFINE r == Reverse(s)
  <2>1. r = [i \in 1 .. count |-> r[i]] /\ \A i \in 1 .. count : r[i] = s[(count - i) + 1]
      BY <1>1 DEF Reverse
  <2>2. count >= 1 => r[1] = last
      BY <1>1, <1>2, <1>4, <2>1
  <2> HIDE DEF r
  <2>3. ASSUME NEW i \in 1 .. count, i # 1 PROVE r[i - 1] \in DOMAIN elems /\ r[i] = elems[r[i - 1]]["prev"]
    <3> DEFINE k == (count - i) + 1
    <3>1. k \in 1 .. Len(s) /\ k + 1 \in 1 .. Len(s) /\ (k + 1) - 1 = k /\ i - 1 \in 1 .. count /\ (count - (i - 1)) + 1 = k + 1
        BY <1>1, <2>3
    <3>2. r[i] = s[k]
        BY <2>1
    <3> HIDE DEF k
    <3>3. r[i - 1] = s[k + 1]
        BY <2>1, <3>1
    <3>4. elems[s[k + 1]]["prev"] = At(s, k)
        BY <1>2, <1>3, <3>1
    <3> QED
        BY <1>2, <1>4, <3>1, <3>2, <3>3, <3>4
  <2>4. count \in Nat
      BY <1>1
  <2>5. r = [i \in 1 .. count |-> r[i]]
      BY <2>1
  <2>6. \A i \in 1 .. count : i # 1 => r[i - 1] \in DOMAIN elems /\ r[i] = elems[r[i - 1]]["prev"]
      BY <2>3, Zenon
  <2>8. Runs(r, last, "prev", count)
      BY ONLY <2>2, <2>5, <2>6 DEF Runs
  <2>7. L!Follow(last, "prev", count) = r
      BY ONLY <2>4, <2>8, FollowIs, Zenon
  <2> QED
      BY <2>7, Zenon DEF r
<1> QED
    BY <1>5, <1>6

\* A place for a new element is one where there is none.
LEMMA NewIs ==
  ASSUME NEW s, Chained(s, elems, first, last), DOMAIN elems # L!Addrs
  PROVE  L!New \in L!Addrs /\ L!New \notin DOMAIN elems
<1>1. s \in Seq(L!Addrs) /\ DOMAIN elems = {s[i] : i \in 1 .. Len(s)}
    BY DEF Chained, Distinct
<1>2. DOMAIN elems \in SUBSET L!Addrs
    BY <1>1
<1> DEFINE unused == L!Addrs \ DOMAIN elems
<1>3. unused \in SUBSET Nat /\ unused # {}
    BY <1>2, AddrsAre
<1> HIDE DEF unused
<1>4. Min(unused) \in unused
    BY <1>3, MinIsLeast
<1>5. L!New = Min(unused)
    BY Zenon DEF unused, L!New, L!Min, Min
<1> QED
    BY <1>4, <1>5 DEF unused

\* Heap k is heap h with the element a behind element l and before element f.
Linked(k, h, a, l, f, v) ==
  /\ DOMAIN k = DOMAIN h \cup {a} /\ k = [b \in DOMAIN k |-> k[b]]
  /\ k[a] \in Elem /\ k[a].prev = l /\ k[a].next = f /\ k[a].val = v
  /\ \A b \in DOMAIN h : /\ k[b] \in Elem /\ k[b].val = h[b].val
                         /\ k[b].next = (IF b = l THEN a ELSE h[b].next)
                         /\ k[b].prev = (IF b = f THEN a ELSE h[b].prev)

\* list_push's writes.
LEMMA PushLinks ==
  ASSUME NEW h, \A b \in DOMAIN h : h[b] \in Elem, NEW a \in Nat, a \notin DOMAIN h, L!Null \notin DOMAIN h,
         NEW l \in Nat, NEW v \in ListVals, NEW k,
         k = [b \in DOMAIN h \cup {a} |->
                IF b = a THEN [prev |-> l, next |-> L!Null, val |-> v]
                ELSE IF b = l THEN [h[b] EXCEPT !.next = a] ELSE h[b]]
  PROVE  Linked(k, h, a, l, L!Null, v)
<1> DEFINE e == [prev |-> l, next |-> L!Null, val |-> v]
           g == [b \in DOMAIN h |-> IF b = l THEN [h[b] EXCEPT !.next = a] ELSE h[b]]
<1>1. e \in Elem /\ e.prev = l /\ e.next = L!Null /\ e.val = v
    BY AddrsAre DEF Elem
<1>2. ASSUME NEW x \in Elem
      PROVE  /\ [x EXCEPT !.next = a] \in Elem /\ [x EXCEPT !.next = a].next = a
             /\ [x EXCEPT !.next = a].prev = x.prev /\ [x EXCEPT !.next = a].val = x.val
    BY DEF Elem
<1>3. DOMAIN g = DOMAIN h /\ \A b \in DOMAIN h :
          /\ g[b] \in Elem /\ g[b].val = h[b].val /\ g[b].prev = h[b].prev
          /\ g[b].next = (IF b = l THEN a ELSE h[b].next)
  <2> SUFFICES ASSUME NEW b \in DOMAIN h
               PROVE  /\ g[b] \in Elem /\ g[b].val = h[b].val /\ g[b].prev = h[b].prev
                      /\ g[b].next = (IF b = l THEN a ELSE h[b].next)
      OBVIOUS
  <2> DEFINE x == h[b]
  <2>1. x \in Elem /\ g[b] = IF b = l THEN [x EXCEPT !.next = a] ELSE x
      OBVIOUS
  <2> HIDE DEF x, g
  <2>2. CASE b = l
      BY <1>2, <2>1, <2>2 DEF x
  <2>3. CASE b # l
      BY <2>1, <2>3 DEF x
  <2> QED
      BY <2>2, <2>3
<1> HIDE DEF e, g
<1>4. k = [b \in DOMAIN h \cup {a} |-> IF b = a THEN e ELSE g[b]]
    BY DEF e, g
<1>5. /\ DOMAIN k = DOMAIN h \cup {a} /\ k = [b \in DOMAIN k |-> k[b]] /\ k[a] = e
      /\ \A b \in DOMAIN h : k[b] = g[b]
    BY <1>3, <1>4
<1> QED
    BY <1>1, <1>3, <1>5 DEF Linked

\* list_unshift's writes.
LEMMA UnshiftLinks ==
  ASSUME NEW h, \A b \in DOMAIN h : h[b] \in Elem, NEW a \in Nat, a \notin DOMAIN h, L!Null \notin DOMAIN h,
         NEW f \in Nat, NEW v \in ListVals, NEW k,
         k = [b \in DOMAIN h \cup {a} |->
                IF b = a THEN [prev |-> L!Null, next |-> f, val |-> v]
                ELSE IF b = f THEN [h[b] EXCEPT !.prev = a] ELSE h[b]]
  PROVE  Linked(k, h, a, L!Null, f, v)
<1> DEFINE e == [prev |-> L!Null, next |-> f, val |-> v]
           g == [b \in DOMAIN h |-> IF b = f THEN [h[b] EXCEPT !.prev = a] ELSE h[b]]
<1>1. e \in Elem /\ e.prev = L!Null /\ e.next = f /\ e.val = v
    BY AddrsAre DEF Elem
<1>2. ASSUME NEW x \in Elem
      PROVE  /\ [x EXCEPT !.prev = a] \in Elem /\ [x EXCEPT !.prev = a].prev = a
             /\ [x EXCEPT !.prev = a].next = x.next /\ [x EXCEPT !.prev = a].val = x.val
    BY DEF Elem
<1>3. DOMAIN g = DOMAIN h /\ \A b \in DOMAIN h :
          /\ g[b] \in Elem /\ g[b].val = h[b].val /\ g[b].next = h[b].next
          /\ g[b].prev = (IF b = f THEN a ELSE h[b].prev)
  <2> SUFFICES ASSUME NEW b \in DOMAIN h
               PROVE  /\ g[b] \in Elem /\ g[b].val = h[b].val /\ g[b].next = h[b].next
                      /\ g[b].prev = (IF b = f THEN a ELSE h[b].prev)
      OBVIOUS
  <2> DEFINE x == h[b]
  <2>1. x \in Elem /\ g[b] = IF b = f THEN [x EXCEPT !.prev = a] ELSE x
      OBVIOUS
  <2> HIDE DEF x, g
  <2>2. CASE b = f
      BY <1>2, <2>1, <2>2 DEF x
  <2>3. CASE b # f
      BY <2>1, <2>3 DEF x
  <2> QED
      BY <2>2, <2>3
<1> HIDE DEF e, g
<1>4. k = [b \in DOMAIN h \cup {a} |-> IF b = a THEN e ELSE g[b]]
    BY DEF e, g
<1>5. /\ DOMAIN k = DOMAIN h \cup {a} /\ k = [b \in DOMAIN k |-> k[b]] /\ k[a] = e
      /\ \A b \in DOMAIN h : k[b] = g[b]
    BY <1>3, <1>4
<1> QED
    BY <1>1, <1>3, <1>5 DEF Linked

\* What a list's invariant says of its elements.
LEMMA ChainedHas ==
  ASSUME NEW s, NEW h, NEW f, NEW l, Chained(s, h, f, l)
  PROVE  /\ s \in Seq(L!Addrs) /\ Len(s) \in Nat
         /\ \A i, j \in 1 .. Len(s) : s[i] = s[j] => i = j
         /\ DOMAIN h = {s[i] : i \in 1 .. Len(s)} /\ DOMAIN h \in SUBSET L!Addrs
         /\ f = At(s, 1) /\ l = At(s, Len(s)) /\ f \in Nat /\ l \in Nat
         /\ (f = L!Null <=> Len(s) = 0) /\ (l = L!Null <=> Len(s) = 0)
         /\ L!Null \notin DOMAIN h /\ \A b \in DOMAIN h : h[b] \in Elem
         /\ \A i \in 1 .. Len(s) : /\ h[s[i]] \in Elem
                                   /\ h[s[i]].prev = At(s, i - 1) /\ h[s[i]].next = At(s, i + 1)
<1>1. /\ s \in Seq(L!Addrs) /\ Len(s) \in Nat /\ \A i, j \in 1 .. Len(s) : s[i] = s[j] => i = j
      /\ DOMAIN h = {s[i] : i \in 1 .. Len(s)} /\ f = At(s, 1) /\ l = At(s, Len(s))
    BY DEF Chained, Distinct
<1>2. \A i \in 1 .. Len(s) : h[s[i]] \in Elem /\ h[s[i]].prev = At(s, i - 1) /\ h[s[i]].next = At(s, i + 1)
    BY <1>1 DEF Chained, LinksFrom
<1>3. DOMAIN h \in SUBSET L!Addrs /\ \A b \in DOMAIN h : h[b] \in Elem
  <2>1. \A b \in DOMAIN h : \E i \in 1 .. Len(s) : b = s[i]
      BY <1>1
  <2>2. \A i \in 1 .. Len(s) : s[i] \in L!Addrs
      BY <1>1
  <2> QED
      BY <1>2, <2>1, <2>2
<1>4. f \in Nat /\ l \in Nat /\ (f = L!Null <=> Len(s) = 0) /\ (l = L!Null <=> Len(s) = 0)
    BY <1>1, AtIs
<1> QED
    BY <1>1, <1>2, <1>3, <1>4, AddrsAre

\* A new element behind the last.
LEMMA PushChains ==
  ASSUME NEW s, NEW h, NEW f, NEW l, Chained(s, h, f, l), NEW a \in L!Addrs, a \notin DOMAIN h,
         NEW v \in ListVals, NEW k, Linked(k, h, a, l, L!Null, v), NEW g, g = IF l = L!Null THEN a ELSE f
  PROVE  Chained(Append(s, a), k, g, a)
<1> DEFINE t == Append(s, a)
           n == Len(s)
<1>1. /\ s \in Seq(L!Addrs) /\ n \in Nat
      /\ \A i, j \in 1 .. n : s[i] = s[j] => i = j
      /\ DOMAIN h = {s[i] : i \in 1 .. n}
      /\ f = At(s, 1) /\ l = At(s, n) /\ l \in Nat /\ L!Null \notin DOMAIN h
      /\ (l = L!Null <=> n = 0)
      /\ \A i \in 1 .. n : /\ h[s[i]] \in Elem
                           /\ h[s[i]].prev = At(s, i - 1) /\ h[s[i]].next = At(s, i + 1)
    BY ChainedHas
<1>2. /\ t \in Seq(L!Addrs) /\ Len(t) = n + 1 /\ t[n + 1] = a
      /\ \A i \in 1 .. n : t[i] = s[i]
    BY <1>1, AppendProperties
<1>3. /\ DOMAIN k = DOMAIN h \cup {a} /\ k = [b \in DOMAIN k |-> k[b]]
      /\ k[a] \in Elem /\ k[a].prev = l /\ k[a].next = L!Null /\ k[a].val = v
      /\ \A b \in DOMAIN h : /\ k[b] \in Elem /\ k[b].val = h[b].val
                             /\ k[b].next = (IF b = l THEN a ELSE h[b].next)
                             /\ k[b].prev = (IF b = L!Null THEN a ELSE h[b].prev)
    BY DEF Linked
<1> HIDE DEF t
<1>4. \A i \in Int : At(t, i) = IF i = n + 1 THEN a ELSE At(s, i)
  <2> SUFFICES ASSUME NEW i \in Int PROVE At(t, i) = IF i = n + 1 THEN a ELSE At(s, i)
      OBVIOUS
  <2>1. i \in 1 .. n + 1 <=> i \in 1 .. n \/ i = n + 1
      BY <1>1
  <2>2. n + 1 \notin 1 .. n
      BY <1>1
  <2> QED
      BY <1>2, <2>1, <2>2 DEF At
<1>5. \A i, j \in 1 .. Len(t) : t[i] = t[j] => i = j
  <2>1. \A i \in 1 .. n + 1 : i \in 1 .. n \/ i = n + 1
      BY <1>1
  <2>2. \A i \in 1 .. n : s[i] # a
      BY <1>1
  <2> QED
      BY <1>1, <1>2, <2>1, <2>2
<1>6. DOMAIN k = {t[i] : i \in 1 .. Len(t)}
  <2>1. 1 .. n + 1 = 1 .. n \cup {n + 1}
      BY <1>1
  <2>2. {t[i] : i \in 1 .. n + 1} = {s[i] : i \in 1 .. n} \cup {a}
      BY <1>2, <2>1
  <2> QED
      BY <1>1, <1>2, <1>3, <2>2
<1>7. ASSUME NEW i \in 1 .. Len(t)
      PROVE  k[t[i]] \in Elem /\ k[t[i]].prev = At(t, i - 1) /\ k[t[i]].next = At(t, i + 1)
  <2>1. CASE i = n + 1
    <3>1. i - 1 = n /\ i + 1 \in Int /\ n # n + 1 /\ i + 1 # n + 1 /\ i + 1 \notin 1 .. n
        BY <1>1, <2>1
    <3>2. At(t, i - 1) = l
        BY <1>1, <1>4, <3>1
    <3>4. At(t, i + 1) = At(s, i + 1)
        BY <1>4, <3>1
    <3>5. At(s, i + 1) = L!Null
        BY <1>1, <3>1, AtIs
    <3> QED
        BY <1>2, <1>3, <2>1, <3>2, <3>4, <3>5
  <2>2. CASE i # n + 1
    <3>1. i \in 1 .. n /\ i - 1 \in Int /\ i + 1 \in Int /\ i - 1 # n + 1
        BY <1>1, <1>2, <2>2
    <3>2. t[i] = s[i] /\ s[i] \in DOMAIN h /\ s[i] # L!Null
        BY <1>1, <1>2, <3>1
    <3>3. s[i] = l <=> i = n
      <4>1. At(s, i) = s[i]
          BY <1>1, <3>1, AtIs
      <4>2. Distinct(s)
          BY DEF Chained
      <4> QED
          BY <1>1, <3>1, <4>1, <4>2, AtInjective
    <3>4. At(t, i - 1) = At(s, i - 1)
        BY <1>4, <3>1
    <3>5. At(t, i + 1) = IF i = n THEN a ELSE At(s, i + 1)
        BY <1>1, <1>4, <3>1
    <3>6. /\ h[s[i]].prev = At(s, i - 1) /\ h[s[i]].next = At(s, i + 1)
          /\ k[s[i]] \in Elem
          /\ k[s[i]].next = (IF s[i] = l THEN a ELSE h[s[i]].next)
          /\ k[s[i]].prev = h[s[i]].prev
        BY <1>1, <1>3, <3>1, <3>2
    <3> QED
        BY <3>2, <3>3, <3>4, <3>5, <3>6
  <2> QED
      BY <2>1, <2>2
<1>8. g = At(t, 1) /\ a = At(t, Len(t))
  <2>1. n + 1 \in Int /\ 1 \in Int /\ (1 = n + 1 <=> n = 0)
      BY <1>1
  <2> QED
      BY <1>1, <1>2, <1>4, <2>1
<1> HIDE DEF n
<1>9. Chained(t, k, g, a)
    BY <1>2, <1>3, <1>5, <1>6, <1>7, <1>8 DEF Chained, Distinct, LinksFrom
<1> QED
    BY <1>9 DEF t

\* A new element in front of the first.
LEMMA UnshiftChains ==
  ASSUME NEW s, NEW h, NEW f, NEW l, Chained(s, h, f, l), NEW a \in L!Addrs, a \notin DOMAIN h,
         NEW v \in ListVals, NEW k, Linked(k, h, a, L!Null, f, v)
  PROVE  Chained(<<a>> \o s, k, a, IF f = L!Null THEN a ELSE l)
<1> DEFINE t == <<a>> \o s
           n == Len(s)
<1>1. /\ s \in Seq(L!Addrs) /\ n \in Nat
      /\ \A i, j \in 1 .. n : s[i] = s[j] => i = j
      /\ DOMAIN h = {s[i] : i \in 1 .. n}
      /\ f = At(s, 1) /\ l = At(s, n) /\ f \in Nat /\ L!Null \notin DOMAIN h
      /\ (f = L!Null <=> n = 0)
      /\ \A i \in 1 .. n : /\ h[s[i]] \in Elem
                           /\ h[s[i]].prev = At(s, i - 1) /\ h[s[i]].next = At(s, i + 1)
    BY ChainedHas
<1>2. /\ t \in Seq(L!Addrs) /\ Len(t) = n + 1
      /\ \A i \in 1 .. n + 1 : t[i] = IF i = 1 THEN a ELSE s[i - 1]
    BY <1>1, InFrontProperties
<1>3. /\ DOMAIN k = DOMAIN h \cup {a} /\ k = [b \in DOMAIN k |-> k[b]]
      /\ k[a] \in Elem /\ k[a].prev = L!Null /\ k[a].next = f /\ k[a].val = v
      /\ \A b \in DOMAIN h : /\ k[b] \in Elem /\ k[b].val = h[b].val
                             /\ k[b].next = (IF b = L!Null THEN a ELSE h[b].next)
                             /\ k[b].prev = (IF b = f THEN a ELSE h[b].prev)
    BY DEF Linked
<1> HIDE DEF t
<1>4. \A i \in Int : At(t, i) = IF i = 1 THEN a ELSE At(s, i - 1)
  <2> SUFFICES ASSUME NEW i \in Int PROVE At(t, i) = IF i = 1 THEN a ELSE At(s, i - 1)
      OBVIOUS
  <2>1. i \in 1 .. n + 1 <=> i - 1 \in 1 .. n \/ i = 1
      BY <1>1
  <2>2. i = 1 => i \in 1 .. n + 1
      BY <1>1
  <2> QED
      BY <1>2, <2>1, <2>2 DEF At
<1>5. \A i, j \in 1 .. Len(t) : t[i] = t[j] => i = j
  <2>1. \A i \in 1 .. n + 1 : i - 1 \in 1 .. n \/ i = 1
      BY <1>1
  <2>2. \A i \in 1 .. n : s[i] # a
      BY <1>1
  <2>3. \A i \in 1 .. n + 1 : t[i] = IF i = 1 THEN a ELSE s[i - 1]
      BY <1>2
  <2> SUFFICES ASSUME NEW i \in 1 .. n + 1, NEW j \in 1 .. n + 1, t[i] = t[j] PROVE i = j
      BY <1>2
  <2>4. CASE i = 1 \/ j = 1
      BY <2>1, <2>2, <2>3, <2>4
  <2>5. CASE i # 1 /\ j # 1
    <3>1. i - 1 \in 1 .. n /\ j - 1 \in 1 .. n /\ s[i - 1] = s[j - 1]
        BY <2>1, <2>3, <2>5
    <3>2. i - 1 = j - 1
        BY <1>1, <3>1
    <3> QED
        BY <1>1, <3>2
  <2> QED
      BY <2>4, <2>5
<1>6. DOMAIN k = {t[i] : i \in 1 .. Len(t)}
  <2>1. \A i \in 1 .. n : i + 1 \in 1 .. n + 1 /\ t[i + 1] = s[i]
    <3> TAKE i \in 1 .. n
    <3>1. i + 1 \in 1 .. n + 1 /\ i + 1 # 1 /\ (i + 1) - 1 = i
        BY <1>1
    <3> QED
        BY <1>2, <3>1
  <2>2. \A i \in 1 .. n + 1 : i = 1 \/ (i - 1 \in 1 .. n /\ t[i] = s[i - 1])
      BY <1>1, <1>2
  <2>3. 1 \in 1 .. n + 1 /\ t[1] = a
      BY <1>1, <1>2
  <2>4. {t[i] : i \in 1 .. n + 1} = {s[i] : i \in 1 .. n} \cup {a}
    <3>1. {t[i] : i \in 1 .. n + 1} \subseteq {s[i] : i \in 1 .. n} \cup {a}
        BY <2>2, <2>3
    <3>2. {s[i] : i \in 1 .. n} \subseteq {t[i] : i \in 1 .. n + 1}
        BY <2>1
    <3>3. a \in {t[i] : i \in 1 .. n + 1}
        BY <2>3
    <3> QED
        BY <3>1, <3>2, <3>3
  <2> QED
      BY <1>1, <1>2, <1>3, <2>4
<1>7. ASSUME NEW i \in 1 .. Len(t)
      PROVE  k[t[i]] \in Elem /\ k[t[i]].prev = At(t, i - 1) /\ k[t[i]].next = At(t, i + 1)
  <2>1. CASE i = 1
    <3>1. i - 1 \in Int /\ i + 1 \in Int /\ i + 1 # 1 /\ (i + 1) - 1 = 1 /\ i - 1 # 1 /\ (i - 1) - 1 \in Int /\ (i - 1) - 1 \notin 1 .. n
        BY <1>1, <2>1
    <3>2. At(t, i - 1) = L!Null /\ At(t, i + 1) = f
        BY <1>1, <1>4, <3>1, AtIs
    <3>3. t[i] = a
        BY <1>1, <1>2, <2>1
    <3> QED
        BY <1>3, <3>2, <3>3
  <2>2. CASE i # 1
    <3> DEFINE m == i - 1
    <3>1. m \in 1 .. n /\ m + 1 = i /\ m - 1 \in Int /\ m \in Int /\ i + 1 \in Int /\ i + 1 # 1 /\ (i + 1) - 1 = m + 1 /\ i \in 1 .. n + 1
        BY <1>1, <1>2, <2>2
    <3>2. t[i] = s[m] /\ s[m] \in DOMAIN h /\ s[m] # L!Null
        BY <1>1, <1>2, <2>2, <3>1
    <3>3. At(t, i + 1) = At(s, m + 1)
        BY <1>4, <3>1
    <3>4. At(t, i - 1) = IF m = 1 THEN a ELSE At(s, m - 1)
        BY <1>4, <3>1
    <3> HIDE DEF m
    <3>5. s[m] = f <=> m = 1
      <4>1. At(s, m) = s[m]
          BY <1>1, <3>1, AtIs
      <4>2. Distinct(s)
          BY DEF Chained
      <4> QED
          BY <1>1, <3>1, <4>1, <4>2, AtInjective
    <3>6. /\ h[s[m]].prev = At(s, m - 1) /\ h[s[m]].next = At(s, m + 1)
          /\ k[s[m]] \in Elem
          /\ k[s[m]].prev = (IF s[m] = f THEN a ELSE h[s[m]].prev)
          /\ k[s[m]].next = h[s[m]].next
        BY <1>1, <1>3, <3>1, <3>2
    <3> QED
        BY <3>2, <3>3, <3>4, <3>5, <3>6
  <2> QED
      BY <2>1, <2>2
<1>8. a = At(t, 1) /\ (IF f = L!Null THEN a ELSE l) = At(t, Len(t))
  <2>1. n + 1 \in Int /\ 1 \in Int /\ (1 = n + 1 <=> n = 0) /\ (n + 1) - 1 = n
      BY <1>1
  <2> QED
      BY <1>1, <1>2, <1>4, <2>1
<1> HIDE DEF n
<1>9. Chained(t, k, a, IF f = L!Null THEN a ELSE l)
    BY <1>2, <1>3, <1>5, <1>6, <1>7, <1>8 DEF Chained, Distinct, LinksFrom
<1> QED
    BY <1>9 DEF t

\* Heap k is heap h without the element e, its neighbours linked to each other.
Unlinked(k, h, e) ==
  /\ DOMAIN k = DOMAIN h \ {e} /\ k = [b \in DOMAIN k |-> k[b]]
  /\ \A b \in DOMAIN k : /\ k[b] \in Elem /\ k[b].val = h[b].val
                         /\ k[b].next = (IF b = h[e].prev THEN h[e].next ELSE h[b].next)
                         /\ k[b].prev = (IF b = h[e].next THEN h[e].prev ELSE h[b].prev)

\* list_remove's writes.
LEMMA RemoveLinks ==
  ASSUME NEW h, \A b \in DOMAIN h : h[b] \in Elem, NEW e \in DOMAIN h, NEW k,
         k = [b \in DOMAIN h \ {e} |->
                [h[b] EXCEPT !.next = IF b = h[e].prev THEN h[e].next ELSE h[b].next,
                             !.prev = IF b = h[e].next THEN h[e].prev ELSE h[b].prev]]
  PROVE  Unlinked(k, h, e)
<1>2. h[e].prev \in Nat /\ h[e].next \in Nat /\ \A b \in DOMAIN h : h[b].prev \in Nat /\ h[b].next \in Nat
    BY DEF Elem
<1>3. DOMAIN k = DOMAIN h \ {e} /\ k = [b \in DOMAIN k |-> k[b]]
    OBVIOUS
<1>4. ASSUME NEW b \in DOMAIN h \ {e}
      PROVE  /\ k[b] \in Elem /\ k[b].val = h[b].val
             /\ k[b].next = (IF b = h[e].prev THEN h[e].next ELSE h[b].next)
             /\ k[b].prev = (IF b = h[e].next THEN h[e].prev ELSE h[b].prev)
  <2> DEFINE n == IF b = h[e].prev THEN h[e].next ELSE h[b].next
             p == IF b = h[e].next THEN h[e].prev ELSE h[b].prev
             x == h[b]
  <2>1. n \in Nat /\ p \in Nat /\ x \in Elem
      BY <1>2
  <2>2. k[b] = [x EXCEPT !.next = n, !.prev = p]
      OBVIOUS
  <2> HIDE DEF n, p, x
  <2> DEFINE y == [x EXCEPT !.next = n, !.prev = p]
  <2>3. y \in Elem /\ y.val = x.val /\ y.next = n /\ y.prev = p
      BY ONLY <2>1 DEF Elem
  <2>4. k[b] = y
      BY <2>2
  <2> HIDE DEF y
  <2>5. k[b] \in Elem /\ k[b].val = x.val /\ k[b].next = n /\ k[b].prev = p
      BY <2>3, <2>4, Zenon
  <2> QED
      BY <2>5 DEF n, p, x
<1> QED
    BY <1>3, <1>4 DEF Unlinked

\* Sequence t is s without its i-th address.
IsRemove(t, s, i) ==
  /\ Distinct(t) /\ Len(t) = Len(s) - 1
  /\ \A j \in 1 .. Len(t) : t[j] = IF j < i THEN s[j] ELSE s[j + 1]
  /\ \A j \in Int : At(t, j) = IF j < i THEN At(s, j) ELSE At(s, j + 1)
  /\ {t[j] : j \in 1 .. Len(t)} = {s[j] : j \in 1 .. Len(s)} \ {s[i]}

\* Without one of them, the addresses are distinct again and keep their order.
LEMMA DistinctRemove ==
  ASSUME NEW s, Distinct(s), NEW i \in 1 .. Len(s), NEW t, t = RemoveAt(s, i)
  PROVE  IsRemove(t, s, i)
<1> DEFINE n == Len(s)
<1>1. s \in Seq(L!Addrs) /\ n \in Nat /\ i \in Nat /\ i >= 1 /\ i <= n /\ \A a, b \in 1 .. n : s[a] = s[b] => a = b
    BY DEF Distinct
<1>2. t \in Seq(L!Addrs) /\ Len(t) = n - 1 /\ \A j \in 1 .. n - 1 : t[j] = IF j < i THEN s[j] ELSE s[j + 1]
    BY <1>1, RemoveAtProperties
<1> HIDE DEF n
<1>3. ASSUME NEW a \in 1 .. n - 1, NEW b \in 1 .. n - 1, t[a] = t[b] PROVE a = b
  <2> DEFINE u == IF a < i THEN a ELSE a + 1
             w == IF b < i THEN b ELSE b + 1
  <2>1. u \in 1 .. n /\ w \in 1 .. n /\ t[a] = s[u] /\ t[b] = s[w]
      BY <1>1, <1>2
  <2>2. u = w
      BY <1>1, <1>3, <2>1
  <2> QED
      BY <1>1, <2>2
<1>4. ASSUME NEW j \in Int PROVE At(t, j) = IF j < i THEN At(s, j) ELSE At(s, j + 1)
  <2>1. CASE j \in 1 .. n - 1
    <3>1. At(t, j) = t[j] /\ j \in 1 .. n /\ j + 1 \in 1 .. n
        BY <1>1, <1>2, <2>1 DEF At
    <3>2. At(s, j) = s[j] /\ At(s, j + 1) = s[j + 1]
        BY <3>1 DEF At, n
    <3> QED
        BY <1>2, <2>1, <3>1, <3>2
  <2>2. CASE j \notin 1 .. n - 1
    <3>1. (j < i => j \notin 1 .. n) /\ (~(j < i) => j + 1 \notin 1 .. n)
        BY <1>1, <2>2
    <3>2. At(t, j) = L!Null
        BY <1>2, <2>2 DEF At
    <3> QED
        BY <3>1, <3>2 DEF At, n
  <2> QED
      BY <2>1, <2>2
<1>5. {t[j] : j \in 1 .. n - 1} = {s[j] : j \in 1 .. n} \ {s[i]}
  <2>1. ASSUME NEW j \in 1 .. n - 1 PROVE t[j] \in {s[m] : m \in 1 .. n} \ {s[i]}
    <3> DEFINE u == IF j < i THEN j ELSE j + 1
    <3>1. u \in 1 .. n /\ t[j] = s[u] /\ u # i
        BY <1>1, <1>2
    <3>2. s[u] # s[i]
        BY <1>1, <3>1
    <3> QED
        BY <3>1, <3>2
  <2>2. ASSUME NEW m \in 1 .. n, s[m] # s[i] PROVE \E j \in 1 .. n - 1 : t[j] = s[m]
    <3> DEFINE j == IF m < i THEN m ELSE m - 1
    <3>1. m # i
        BY <2>2
    <3>2. j \in 1 .. n - 1 /\ t[j] = s[m]
        BY <1>1, <1>2, <3>1
    <3> QED
        BY <3>2
  <2> QED
      BY <2>1, <2>2
<1> QED
    BY <1>2, <1>3, <1>4, <1>5 DEF n, Distinct, IsRemove

\* Without its i-th element the list is chained in the order of the others.
LEMMA RemoveChains ==
  ASSUME NEW s, NEW h, NEW f, NEW l, Chained(s, h, f, l), NEW i \in 1 .. Len(s), NEW k, Unlinked(k, h, s[i])
  PROVE  Chained(RemoveAt(s, i), k, IF s[i] = f THEN h[s[i]].next ELSE f, IF s[i] = l THEN h[s[i]].prev ELSE l)
<1> DEFINE t == RemoveAt(s, i)
           n == Len(s)
<1>1. /\ s \in Seq(L!Addrs) /\ n \in Nat /\ i \in 1 .. n /\ Distinct(s)
      /\ \A a, b \in 1 .. n : s[a] = s[b] => a = b
      /\ DOMAIN h = {s[j] : j \in 1 .. n}
      /\ f = At(s, 1) /\ l = At(s, n)
      /\ \A j \in 1 .. n : /\ h[s[j]] \in Elem
                           /\ h[s[j]].prev = At(s, j - 1) /\ h[s[j]].next = At(s, j + 1)
    BY ChainedHas DEF Chained
<1> HIDE DEF t
<1>2. /\ Distinct(t) /\ Len(t) = n - 1
      /\ \A j \in 1 .. Len(t) : t[j] = IF j < i THEN s[j] ELSE s[j + 1]
      /\ \A j \in Int : At(t, j) = IF j < i THEN At(s, j) ELSE At(s, j + 1)
      /\ {t[j] : j \in 1 .. Len(t)} = {s[j] : j \in 1 .. Len(s)} \ {s[i]}
  <2>1. IsRemove(t, s, i)
      BY <1>1, DistinctRemove, Zenon DEF t
  <2> QED
      BY <2>1 DEF IsRemove
<1>3. /\ DOMAIN k = DOMAIN h \ {s[i]} /\ k = [b \in DOMAIN k |-> k[b]]
      /\ \A b \in DOMAIN k :
           /\ k[b] \in Elem
           /\ k[b].next = (IF b = h[s[i]].prev THEN h[s[i]].next ELSE h[b].next)
           /\ k[b].prev = (IF b = h[s[i]].next THEN h[s[i]].prev ELSE h[b].prev)
    BY DEF Unlinked
<1>11. \A a \in 1 .. n : At(s, a) = s[a]
    BY <1>1, AtIs
<1>12. \A a \in 1 .. n, b \in Int : At(s, a) = At(s, b) => a = b
    BY <1>1, AtInjective, Zenon
<1>13. i \in Int /\ i - 1 \in Int /\ i + 1 \in Int /\ 1 \in Int /\ n \in Int /\ 1 \in 1 .. n /\ n \in 1 .. n
    BY <1>1
<1>4. h[s[i]].prev = At(s, i - 1) /\ h[s[i]].next = At(s, i + 1)
    BY <1>1
<1>5. DOMAIN k = {t[j] : j \in 1 .. Len(t)}
    BY <1>1, <1>2, <1>3
<1>6. ASSUME NEW m \in 1 .. n, m # i
      PROVE  /\ s[m] \in DOMAIN k
             /\ (s[m] = At(s, i - 1) <=> m = i - 1) /\ (s[m] = At(s, i + 1) <=> m = i + 1)
  <2>1. s[m] = At(s, m)
      BY <1>11
  <2>2. s[m] # s[i]
      BY <1>1, <1>6
  <2>3. s[m] = At(s, i - 1) => m = i - 1
      BY <1>12, <1>13, <2>1, Zenon
  <2>4. s[m] = At(s, i + 1) => m = i + 1
      BY <1>12, <1>13, <2>1, Zenon
  <2>5. s[m] \in DOMAIN k
      BY <1>1, <1>3, <2>2
  <2> QED
      BY <2>1, <2>3, <2>4, <2>5, Zenon
<1>7. ASSUME NEW j \in 1 .. Len(t)
      PROVE  k[t[j]] \in Elem /\ k[t[j]].prev = At(t, j - 1) /\ k[t[j]].next = At(t, j + 1)
  <2> DEFINE m == IF j < i THEN j ELSE j + 1
  <2>1. m \in 1 .. n /\ m # i /\ t[j] = s[m] /\ m - 1 \in Int /\ m + 1 \in Int /\ j - 1 \in Int /\ j + 1 \in Int
    <3>1. j \in 1 .. n - 1 /\ t[j] = IF j < i THEN s[j] ELSE s[j + 1]
        BY <1>2
    <3>2. m \in 1 .. n /\ m # i /\ m - 1 \in Int /\ m + 1 \in Int /\ j - 1 \in Int /\ j + 1 \in Int
        BY ONLY <1>1, <3>1
    <3> QED
        BY <3>1, <3>2
  <2>2. At(t, j - 1) = IF m = i + 1 THEN At(s, i - 1) ELSE At(s, m - 1)
    <3>1. At(t, j - 1) = IF j - 1 < i THEN At(s, j - 1) ELSE At(s, (j - 1) + 1)
        BY <1>2, <2>1
    <3>2. CASE j < i
      <4>1. m = j /\ j - 1 < i /\ m # i + 1
          BY <1>1, <2>1, <3>2
      <4> QED
          BY <3>1, <4>1
    <3>3. CASE j = i
      <4>1. m = i + 1 /\ j - 1 < i /\ j - 1 = i - 1
          BY <1>1, <2>1, <3>3
      <4> QED
          BY <3>1, <4>1
    <3>4. CASE j > i
      <4>1. m = j + 1
          BY ONLY <1>13, <3>4, j \in 1 .. Len(t)
      <4>2. m # i + 1 /\ ~(j - 1 < i) /\ (j - 1) + 1 = m - 1
          BY ONLY <1>13, <2>1, <3>4, <4>1
      <4> QED
          BY <3>1, <4>2
    <3> QED
        BY <1>1, <2>1, <3>2, <3>3, <3>4
  <2>3. At(t, j + 1) = IF m = i - 1 THEN At(s, i + 1) ELSE At(s, m + 1)
    <3>1. At(t, j + 1) = IF j + 1 < i THEN At(s, j + 1) ELSE At(s, (j + 1) + 1)
        BY <1>2, <2>1
    <3>2. CASE j + 1 < i
      <4>1. m = j /\ m # i - 1
          BY <1>1, <2>1, <3>2
      <4> QED
          BY <3>1, <3>2, <4>1
    <3>3. CASE j + 1 = i
      <4>1. m = i - 1 /\ ~(j + 1 < i) /\ (j + 1) + 1 = i + 1
          BY <1>1, <2>1, <3>3
      <4> QED
          BY <3>1, <4>1
    <3>4. CASE j >= i
      <4>1. m # i - 1 /\ ~(j + 1 < i) /\ (j + 1) + 1 = m + 1
          BY <1>1, <2>1, <3>4
      <4> QED
          BY <3>1, <4>1
    <3> QED
        BY <1>1, <2>1, <3>2, <3>3, <3>4
  <2> HIDE DEF m
  <2>4. /\ s[m] \in DOMAIN k
        /\ (s[m] = At(s, i - 1) <=> m = i - 1) /\ (s[m] = At(s, i + 1) <=> m = i + 1)
      BY <1>6, <2>1
  <2>5. /\ k[s[m]] \in Elem
        /\ k[s[m]].next = (IF s[m] = At(s, i - 1) THEN At(s, i + 1) ELSE h[s[m]].next)
        /\ k[s[m]].prev = (IF s[m] = At(s, i + 1) THEN At(s, i - 1) ELSE h[s[m]].prev)
        /\ h[s[m]].prev = At(s, m - 1) /\ h[s[m]].next = At(s, m + 1)
    <3>1. h[s[m]].prev = At(s, m - 1) /\ h[s[m]].next = At(s, m + 1)
        BY <1>1, <2>1
    <3>2. /\ k[s[m]] \in Elem
          /\ k[s[m]].next = (IF s[m] = h[s[i]].prev THEN h[s[i]].next ELSE h[s[m]].next)
          /\ k[s[m]].prev = (IF s[m] = h[s[i]].next THEN h[s[i]].prev ELSE h[s[m]].prev)
        BY <1>3, <2>4, Zenon
    <3> QED
        BY <1>4, <3>1, <3>2
  <2> QED
      BY <2>1, <2>2, <2>3, <2>4, <2>5
<1>8. (IF s[i] = f THEN h[s[i]].next ELSE f) = At(t, 1)
  <2>1. At(t, 1) = IF 1 < i THEN At(s, 1) ELSE At(s, 1 + 1)
      BY <1>2
  <2>2. s[i] = f <=> i = 1
    <3>1. s[i] = At(s, i) /\ f = At(s, 1)
        BY <1>1, <1>11
    <3> QED
        BY <1>1, <1>12, <1>13, <3>1, Zenon
  <2>3. i = 1 <=> ~(1 < i)
      BY <1>1
  <2> QED
      BY <1>1, <1>4, <2>1, <2>2, <2>3
<1>9. (IF s[i] = l THEN h[s[i]].prev ELSE l) = At(t, Len(t))
  <2>1. At(t, n - 1) = IF n - 1 < i THEN At(s, n - 1) ELSE At(s, (n - 1) + 1)
    <3>1. n - 1 \in Int
        BY <1>13
    <3> QED
        BY <1>2, <3>1, Zenon
  <2>2. s[i] = l <=> i = n
    <3>1. s[i] = At(s, i) /\ l = At(s, n)
        BY <1>1, <1>11
    <3> QED
        BY <1>1, <1>12, <1>13, <3>1, Zenon
  <2>3. (i = n <=> n - 1 < i) /\ (n - 1) + 1 = n
      BY <1>1
  <2> QED
      BY <1>1, <1>2, <1>4, <2>1, <2>2, <2>3
<1> HIDE DEF n
<1>10. Chained(t, k, IF s[i] = f THEN h[s[i]].next ELSE f, IF s[i] = l THEN h[s[i]].prev ELSE l)
    BY <1>2, <1>3, <1>5, <1>7, <1>8, <1>9 DEF Chained, LinksFrom
<1> QED
    BY <1>10 DEF t

\* What the values of the chained elements are.
LEMMA ValuesHave ==
  ASSUME NEW s, NEW h, NEW live, ValuesOwned(s, h, live)
  PROVE  /\ \A i, j \in 1 .. Len(s) : h[s[i]].val = h[s[j]].val => i = j
         /\ live = {h[s[i]].val : i \in 1 .. Len(s)}
  BY DEF ValuesOwned

\* The addresses of a sequence; heap k has the values of heap h at the addresses in W.
Places(s) == {s[i] : i \in 1 .. Len(s)}
KeepsValues(k, h, W) == \A b \in W : k[b].val = h[b].val

\* A value that was not alive comes with a new element.
LEMMA AddValue ==
  ASSUME NEW s, NEW h, NEW live, ValuesOwned(s, h, live), Distinct(s), DOMAIN h = Places(s),
         NEW v, v \notin live, NEW t, Distinct(t), NEW a \in L!Addrs, a \notin DOMAIN h,
         Places(t) = Places(s) \cup {a}, NEW k, k[a].val = v, KeepsValues(k, h, DOMAIN h)
  PROVE  ValuesOwned(t, k, live \cup {v})
<1> USE DEF Places, KeepsValues
<1>1. /\ \A i, j \in 1 .. Len(s) : h[s[i]].val = h[s[j]].val => s[i] = s[j]
      /\ live = {h[s[i]].val : i \in 1 .. Len(s)}
    BY DEF ValuesOwned
<1>2. \A b \in DOMAIN h : h[b].val \in live /\ k[b].val = h[b].val /\ k[b].val # v
    BY <1>1
<1>3. \A b, c \in DOMAIN h : h[b].val = h[c].val => b = c
    BY <1>1
<1>4. \A i \in 1 .. Len(t) : t[i] = a \/ t[i] \in DOMAIN h
    OBVIOUS
<1>5. ASSUME NEW i \in 1 .. Len(t), NEW j \in 1 .. Len(t), k[t[i]].val = k[t[j]].val PROVE i = j
  <2>1. t[i] = t[j]
      BY <1>2, <1>3, <1>4, <1>5
  <2> QED
      BY <2>1 DEF Distinct
<1>6. live = {h[b].val : b \in DOMAIN h}
    BY <1>1
<1>7. {k[t[i]].val : i \in 1 .. Len(t)} = {k[b].val : b \in DOMAIN h \cup {a}}
  <2>1. \A i \in 1 .. Len(t) : t[i] \in DOMAIN h \cup {a}
      BY <1>4
  <2>2. \A b \in DOMAIN h \cup {a} : \E i \in 1 .. Len(t) : t[i] = b
      OBVIOUS
  <2>3. {k[t[i]].val : i \in 1 .. Len(t)} \subseteq {k[b].val : b \in DOMAIN h \cup {a}}
      BY ONLY <2>1
  <2>4. {k[b].val : b \in DOMAIN h \cup {a}} \subseteq {k[t[i]].val : i \in 1 .. Len(t)}
      BY ONLY <2>2
  <2> QED
      BY ONLY <2>3, <2>4
<1>8. {k[b].val : b \in DOMAIN h \cup {a}} = live \cup {v}
    BY <1>2, <1>6
<1> QED
    BY <1>5, <1>7, <1>8 DEF ValuesOwned

\* The value of the element that goes is the client's again.
LEMMA RemoveValue ==
  ASSUME NEW s, NEW h, NEW live, ValuesOwned(s, h, live), Distinct(s), DOMAIN h = Places(s),
         NEW e \in DOMAIN h, NEW t, Distinct(t), Places(t) = Places(s) \ {e},
         NEW k, KeepsValues(k, h, DOMAIN h \ {e})
  PROVE  ValuesOwned(t, k, live \ {h[e].val})
<1> USE DEF Places, KeepsValues
<1>1. /\ \A i, j \in 1 .. Len(s) : h[s[i]].val = h[s[j]].val => s[i] = s[j]
      /\ live = {h[s[i]].val : i \in 1 .. Len(s)}
    BY DEF ValuesOwned
<1>3. \A b, c \in DOMAIN h : h[b].val = h[c].val => b = c
    BY <1>1
<1>4. \A i \in 1 .. Len(t) : t[i] \in DOMAIN h \ {e}
    OBVIOUS
<1>5. ASSUME NEW i \in 1 .. Len(t), NEW j \in 1 .. Len(t), k[t[i]].val = k[t[j]].val PROVE i = j
  <2>1. t[i] = t[j]
      BY <1>3, <1>4, <1>5
  <2> QED
      BY <2>1 DEF Distinct
<1>6. live = {h[b].val : b \in DOMAIN h}
    BY <1>1
<1>7. {k[t[i]].val : i \in 1 .. Len(t)} = {h[b].val : b \in DOMAIN h \ {e}}
  <2>1. \A i \in 1 .. Len(t) : t[i] \in DOMAIN h \ {e} /\ k[t[i]].val = h[t[i]].val
      BY <1>4
  <2>2. \A b \in DOMAIN h \ {e} : \E i \in 1 .. Len(t) : t[i] = b
      OBVIOUS
  <2>3. {k[t[i]].val : i \in 1 .. Len(t)} \subseteq {h[b].val : b \in DOMAIN h \ {e}}
      BY ONLY <2>1
  <2>4. {h[b].val : b \in DOMAIN h \ {e}} \subseteq {k[t[i]].val : i \in 1 .. Len(t)}
    <3> SUFFICES ASSUME NEW b \in DOMAIN h \ {e} PROVE \E i \in 1 .. Len(t) : k[t[i]].val = h[b].val
        OBVIOUS
    <3>1. PICK i \in 1 .. Len(t) : t[i] = b
        BY <2>2
    <3> QED
        BY <2>1, <3>1
  <2> QED
      BY ONLY <2>3, <2>4
<1>8. {h[b].val : b \in DOMAIN h \ {e}} = live \ {h[e].val}
    BY <1>3, <1>6
<1> QED
    BY <1>5, <1>7, <1>8 DEF ValuesOwned

\* The list has the elements that s tells, and counts them.
IsList(s) == Chained(s, elems, first, last) /\ count = Len(s) /\ cur = L!Null

\* list_destroy is at the k-th element of s and has freed those up to two before it.
FreedTo(s, k) ==
  /\ Distinct(s) /\ k \in 1 .. Len(s) + 1
  /\ cur = At(s, k) /\ last = At(s, Len(s))
  /\ LinksFrom(k - 1, s, elems)
  /\ DOMAIN elems = {s[i] : i \in {j \in 1 .. Len(s) : j >= k - 1}}

\* The list's inductive invariant.
ListInv ==
  \/ pc = "none" /\ elems = <<>> /\ alive = {} /\ cur = L!Null
  \/ pc = "open" /\ \E s : IsList(s) /\ ValuesOwned(s, elems, alive)
  \/ pc = "cleared" /\ alive = {} /\ \E s : IsList(s)
  \/ pc = "freeing" /\ alive = {} /\ \E s, k : FreedTo(s, k)

\* What list_push does to the sequence of elements.
LEMMA PushStep ==
  ASSUME NEW s, IsList(s), ValuesOwned(s, elems, alive), NEW v \in ListVals, L!Push(v),
         NEW a, a = L!New, NEW t, t = Append(s, a)
  PROVE  /\ a \in L!Addrs /\ a \notin DOMAIN elems
         /\ IsList(t)' /\ ValuesOwned(t, elems', alive')
         /\ Linked(elems', elems, a, last, L!Null, v)
<1>1. /\ Chained(s, elems, first, last) /\ count = Len(s) /\ cur = L!Null
      /\ v \notin alive /\ DOMAIN elems # L!Addrs /\ alive' = alive \cup {v} /\ count' = count + 1 /\ cur' = cur
      /\ elems' = [b \in DOMAIN elems \cup {a} |->
                     IF b = a THEN [prev |-> last, next |-> L!Null, val |-> v]
                     ELSE IF b = last THEN [elems[b] EXCEPT !.next = a] ELSE elems[b]]
      /\ first' = (IF last = L!Null THEN a ELSE first) /\ last' = a
    BY Zenon DEF IsList, L!Push, L!Adds
<1>2. a \in L!Addrs /\ a \notin DOMAIN elems
    BY <1>1, NewIs, Zenon
<1>3. /\ s \in Seq(L!Addrs) /\ Len(s) \in Nat /\ DOMAIN elems = {s[i] : i \in 1 .. Len(s)}
      /\ last \in Nat /\ L!Null \notin DOMAIN elems /\ \A b \in DOMAIN elems : elems[b] \in Elem
    BY <1>1, ChainedHas
<1>4. a \in Nat
    BY <1>2, AddrsAre
<1>5. Linked(elems', elems, a, last, L!Null, v)
    BY <1>1, <1>2, <1>3, <1>4, PushLinks, Zenon
<1>6. Chained(t, elems', first', last')
  <2>1. Chained(Append(s, a), elems', first', a)
      BY <1>1, <1>2, <1>5, PushChains, Zenon
  <2> QED
      BY <1>1, <2>1, Zenon
<1>7. Len(t) = Len(s) + 1 /\ DOMAIN elems = Places(s) /\ Places(t) = Places(s) \cup {a}
  <2>1. Len(t) = Len(s) + 1
      BY <1>2, <1>3
  <2>2. DOMAIN elems' = DOMAIN elems \cup {a}
      BY <1>5 DEF Linked
  <2>3. DOMAIN elems' = Places(t)
      BY <1>6, Zenon DEF Chained, Places
  <2>4. DOMAIN elems = Places(s)
      BY <1>3, Zenon DEF Places
  <2> QED
      BY <2>1, <2>2, <2>3, <2>4, Zenon
<1>8. elems'[a].val = v /\ KeepsValues(elems', elems, DOMAIN elems)
    BY <1>5 DEF Linked, KeepsValues
<1>9. Distinct(s) /\ Distinct(t)
    BY <1>1, <1>6 DEF Chained
<1>10. ValuesOwned(t, elems', alive')
  <2>1. ValuesOwned(t, elems', alive \cup {v}) 
      BY ONLY ValuesOwned(s, elems, alive), <1>1, <1>2, <1>7, <1>8, <1>9, AddValue, Zenon
  <2> QED
      BY <1>1, <2>1, Zenon
<1>11. IsList(t)'
    BY <1>1, <1>6, <1>7, Zenon DEF IsList
<1> QED
    BY <1>2, <1>5, <1>10, <1>11, Zenon

\* The same for an element in front.
LEMMA UnshiftStep ==
  ASSUME NEW s, IsList(s), ValuesOwned(s, elems, alive), NEW v \in ListVals, L!Unshift(v),
         NEW a, a = L!New, NEW t, t = <<a>> \o s
  PROVE  /\ a \in L!Addrs /\ a \notin DOMAIN elems
         /\ IsList(t)' /\ ValuesOwned(t, elems', alive')
         /\ Linked(elems', elems, a, L!Null, first, v)
<1>1. /\ Chained(s, elems, first, last) /\ count = Len(s) /\ cur = L!Null
      /\ v \notin alive /\ DOMAIN elems # L!Addrs /\ alive' = alive \cup {v} /\ count' = count + 1 /\ cur' = cur
      /\ elems' = [b \in DOMAIN elems \cup {a} |->
                     IF b = a THEN [prev |-> L!Null, next |-> first, val |-> v]
                     ELSE IF b = first THEN [elems[b] EXCEPT !.prev = a] ELSE elems[b]]
      /\ last' = (IF first = L!Null THEN a ELSE last) /\ first' = a
    BY Zenon DEF IsList, L!Unshift, L!Adds
<1>2. a \in L!Addrs /\ a \notin DOMAIN elems
    BY <1>1, NewIs, Zenon
<1>3. /\ s \in Seq(L!Addrs) /\ Len(s) \in Nat /\ DOMAIN elems = {s[i] : i \in 1 .. Len(s)}
      /\ first \in Nat /\ L!Null \notin DOMAIN elems /\ \A b \in DOMAIN elems : elems[b] \in Elem
    BY <1>1, ChainedHas
<1>4. a \in Nat
    BY <1>2, AddrsAre
<1>5. Linked(elems', elems, a, L!Null, first, v)
    BY <1>1, <1>2, <1>3, <1>4, UnshiftLinks, Zenon
<1>6. Chained(t, elems', first', last')
  <2>1. Chained(<<a>> \o s, elems', a, IF first = L!Null THEN a ELSE last)
      BY <1>1, <1>2, <1>5, UnshiftChains, Zenon
  <2> QED
      BY <1>1, <2>1, Zenon
<1>7. Len(t) = Len(s) + 1 /\ DOMAIN elems = Places(s) /\ Places(t) = Places(s) \cup {a}
  <2>1. Len(t) = Len(s) + 1
      BY <1>2, <1>3
  <2>2. DOMAIN elems' = DOMAIN elems \cup {a}
      BY <1>5 DEF Linked
  <2>3. DOMAIN elems' = Places(t)
      BY <1>6, Zenon DEF Chained, Places
  <2>4. DOMAIN elems = Places(s)
      BY <1>3, Zenon DEF Places
  <2> QED
      BY <2>1, <2>2, <2>3, <2>4, Zenon
<1>8. elems'[a].val = v /\ KeepsValues(elems', elems, DOMAIN elems)
    BY <1>5 DEF Linked, KeepsValues
<1>9. Distinct(s) /\ Distinct(t)
    BY <1>1, <1>6 DEF Chained
<1>10. ValuesOwned(t, elems', alive')
  <2>1. ValuesOwned(t, elems', alive \cup {v}) 
      BY ONLY ValuesOwned(s, elems, alive), <1>1, <1>2, <1>7, <1>8, <1>9, AddValue, Zenon
  <2> QED
      BY <1>1, <2>1, Zenon
<1>11. IsList(t)'
    BY <1>1, <1>6, <1>7, Zenon DEF IsList
<1> QED
    BY <1>2, <1>5, <1>10, <1>11, Zenon

\* What list_remove, list_pop and list_shift do to it.
LEMMA RemoveStep ==
  ASSUME NEW s, IsList(s), ValuesOwned(s, elems, alive), NEW op, NEW i \in 1 .. Len(s), L!RemoveElem(op, s[i])
  PROVE  /\ IsList(RemoveAt(s, i))' /\ ValuesOwned(RemoveAt(s, i), elems', alive')
         /\ IsRemove(RemoveAt(s, i), s, i)
         /\ Unlinked(elems', elems, s[i])
<1> DEFINE e == s[i]
           t == RemoveAt(s, i)
<1>1. /\ Chained(s, elems, first, last) /\ count = Len(s) /\ cur = L!Null
      /\ alive' = alive \ {elems[e].val} /\ count' = count - 1 /\ cur' = cur
      /\ elems' = [b \in DOMAIN elems \ {e} |->
                     [elems[b] EXCEPT !.next = IF b = elems[e].prev THEN elems[e].next ELSE elems[b].next,
                                      !.prev = IF b = elems[e].next THEN elems[e].prev ELSE elems[b].prev]]
      /\ first' = (IF e = first THEN elems[e].next ELSE first)
      /\ last' = (IF e = last THEN elems[e].prev ELSE last)
    BY Zenon DEF IsList, L!RemoveElem, L!Unlink
<1>2. /\ s \in Seq(L!Addrs) /\ Len(s) \in Nat /\ DOMAIN elems = {s[j] : j \in 1 .. Len(s)} /\ e \in DOMAIN elems
      /\ \A b \in DOMAIN elems : elems[b] \in Elem
  <2>1. /\ s \in Seq(L!Addrs) /\ Len(s) \in Nat /\ DOMAIN elems = {s[j] : j \in 1 .. Len(s)}
        /\ \A b \in DOMAIN elems : elems[b] \in Elem
      BY <1>1, ChainedHas, Zenon
  <2> QED
      BY <2>1
<1>3. Unlinked(elems', elems, e)
  <2> HIDE DEF e
  <2> QED
      BY <1>1, <1>2, RemoveLinks, Zenon
<1>4. Chained(t, elems', first', last')
    BY <1>1, <1>3, RemoveChains, Zenon
<1>5. Distinct(s) /\ Distinct(t)
    BY <1>1, <1>4 DEF Chained
<1>6. IsRemove(t, s, i)
    BY <1>5, DistinctRemove, Zenon
<1>7. Len(t) = Len(s) - 1 /\ DOMAIN elems = Places(s) /\ Places(t) = Places(s) \ {e}
    BY <1>2, <1>6, Zenon DEF IsRemove, Places
<1>8. KeepsValues(elems', elems, DOMAIN elems \ {e})
    BY <1>3 DEF Unlinked, KeepsValues
<1> HIDE DEF t, e
<1>9. ValuesOwned(t, elems', alive')
  <2>1. ValuesOwned(t, elems', alive \ {elems[e].val})
      BY ONLY ValuesOwned(s, elems, alive), <1>2, <1>5, <1>7, <1>8, RemoveValue, Zenon
  <2> QED
      BY <1>1, <2>1, Zenon
<1>10. IsList(t)'
    BY <1>1, <1>4, <1>7, Zenon DEF IsList
<1> QED
    BY <1>3, <1>6, <1>9, <1>10, Zenon DEF e, t

\* The element to be taken off an end is the first or the last of the sequence.
LEMMA EndsAre ==
  ASSUME NEW s, IsList(s), first # L!Null
  PROVE  Len(s) \in Nat /\ 1 \in 1 .. Len(s) /\ Len(s) \in 1 .. Len(s) /\ first = s[1] /\ last = s[Len(s)]
<1>1. Chained(s, elems, first, last)
    BY DEF IsList
<1>2. s \in Seq(L!Addrs) /\ Len(s) \in Nat /\ (first = L!Null <=> Len(s) = 0) /\ first = At(s, 1) /\ last = At(s, Len(s))
    BY ONLY <1>1, ChainedHas
<1>3. 1 \in 1 .. Len(s) /\ Len(s) \in 1 .. Len(s)
    BY <1>2
<1> QED
    BY <1>2, <1>3 DEF At

\* The elements of the list are those the client can take out.
LEMMA ElemsAre ==
  ASSUME NEW s, IsList(s), NEW e \in DOMAIN elems
  PROVE  \E i \in 1 .. Len(s) : e = s[i]
<1>1. Chained(s, elems, first, last)
    BY DEF IsList
<1> QED
    BY <1>1 DEF Chained

\* list_clear frees every value of the list.
LEMMA ClearsAll ==
  ASSUME NEW s, IsList(s), ValuesOwned(s, elems, alive)
  PROVE  /\ L!Chain = s /\ DOMAIN s = 1 .. Len(s)
         /\ \A i \in 1 .. Len(s) : L!ValAt(s[i]) = elems[s[i]].val /\ elems[s[i]].val \in ListVals
         /\ alive \ {L!ValAt(L!Chain[i]) : i \in DOMAIN L!Chain} = {}
<1>1. Chained(s, elems, first, last) /\ count = Len(s)
    BY DEF IsList
<1>2. L!Chain = s
    BY <1>1, ChainIs, Zenon
<1>3. s \in Seq(L!Addrs) /\ DOMAIN elems = {s[i] : i \in 1 .. Len(s)} /\ \A b \in DOMAIN elems : elems[b] \in Elem
    BY <1>1, ChainedHas, Zenon
<1>4. DOMAIN s = 1 .. Len(s)
    BY <1>3
<1>5. \A i \in 1 .. Len(s) : s[i] \in DOMAIN elems
    BY <1>3
<1>6. \A i \in 1 .. Len(s) : L!ValAt(s[i]) = elems[s[i]].val /\ elems[s[i]].val \in ListVals
    BY <1>3, <1>5 DEF L!ValAt, Elem
<1>7. alive = {elems[s[i]].val : i \in 1 .. Len(s)}
    BY ValuesHave
<1>8. alive \ {L!ValAt(s[i]) : i \in 1 .. Len(s)} = {}
  <2>1. \A i \in 1 .. Len(s) : L!ValAt(s[i]) = elems[s[i]].val
      BY <1>6
  <2> QED
      BY ONLY <1>7, <2>1
<1>9. alive \ {L!ValAt(L!Chain[i]) : i \in DOMAIN L!Chain} = {}
    BY <1>2, <1>4, <1>8, Zenon
<1> QED
    BY <1>2, <1>4, <1>6, <1>9, Zenon

\* list_destroy starts at the first element, with all of them there.
LEMMA StartsFree ==
  ASSUME NEW s, IsList(s), cur' = first, elems' = elems, last' = last
  PROVE  FreedTo(s, 1)'
<1>1. Chained(s, elems, first, last)
    BY DEF IsList
<1>2. s \in Seq(L!Addrs) /\ Len(s) \in Nat
    BY <1>1, ChainedHas, Zenon
<1>3. /\ Distinct(s) /\ LinksFrom(1, s, elems) /\ DOMAIN elems = {s[i] : i \in 1 .. Len(s)}
      /\ first = At(s, 1) /\ last = At(s, Len(s))
    BY <1>1, Zenon DEF Chained
<1>4. 1 \in 1 .. Len(s) + 1 /\ {j \in 1 .. Len(s) : j >= 1 - 1} = 1 .. Len(s)
    BY <1>2
<1>5. \A i \in 1 .. Len(s) : i >= 1
    BY <1>2
<1>6. LinksFrom(1 - 1, s, elems)
    BY <1>3, <1>5 DEF LinksFrom
<1> QED
    BY <1>3, <1>4, <1>6 DEF FreedTo

\* The loop of list_destroy frees what it has passed, and stands on an element that is there.
LEMMA FreesPrevious ==
  ASSUME NEW s, NEW k, FreedTo(s, k), L!FreePrevious
  PROVE  FreedTo(s, k + 1)'
<1>1. /\ s \in Seq(L!Addrs) /\ Len(s) \in Nat /\ k \in Nat /\ k >= 1 /\ Distinct(s)
      /\ \A i, j \in 1 .. Len(s) : s[i] = s[j] => i = j
      /\ cur = At(s, k) /\ last = At(s, Len(s)) /\ LinksFrom(k - 1, s, elems)
      /\ DOMAIN elems = {s[i] : i \in {j \in 1 .. Len(s) : j >= k - 1}}
    BY DEF FreedTo, Distinct
<1>2. cur # L!Null /\ elems' = L!Free(elems, {elems[cur].prev}) /\ cur' = elems[cur].next /\ last' = last
    BY DEF L!FreePrevious
<1>3. k \in 1 .. Len(s)
    BY <1>1, <1>2, AtIs
<1>4. cur = s[k]
    BY <1>1, <1>3, AtIs
<1>5. elems[s[k]].prev = At(s, k - 1) /\ elems[s[k]].next = At(s, k + 1)
    BY <1>1, <1>3 DEF LinksFrom
<1>6. elems' = [a \in DOMAIN elems \ {At(s, k - 1)} |-> elems[a]]
    BY <1>2, <1>4, <1>5, Zenon DEF L!Free, L!Restrict, Restrict
<1>7. /\ \A i \in 1 .. Len(s) : i >= k => s[i] \in DOMAIN elems /\ s[i] # At(s, k - 1)
      /\ \A i \in 1 .. Len(s) : i >= k - 1 /\ ~(i >= k) => s[i] = At(s, k - 1)
  <2>1. ASSUME NEW i \in 1 .. Len(s), i >= k PROVE s[i] \in DOMAIN elems /\ s[i] # At(s, k - 1)
    <3>1. i >= k - 1 /\ k - 1 \in Int /\ i # k - 1
        BY <1>1, <2>1
    <3>2. At(s, i) = s[i]
        BY <1>1, AtIs
    <3>3. At(s, i) # At(s, k - 1)
        BY <1>1, <3>1, AtInjective, Zenon
    <3> QED
        BY <1>1, <3>1, <3>2, <3>3
  <2>2. ASSUME NEW i \in 1 .. Len(s), i >= k - 1, ~(i >= k) PROVE s[i] = At(s, k - 1)
    <3>1. i = k - 1
        BY <1>1, <2>2
    <3> QED
        BY <1>1, <3>1, AtIs
  <2> QED
      BY <2>1, <2>2
<1>8. DOMAIN elems' = {s[i] : i \in {j \in 1 .. Len(s) : j >= k}}
  <2>1. \A i \in 1 .. Len(s) : i >= k => i >= k - 1
      BY <1>1
  <2>2. DOMAIN elems' = DOMAIN elems \ {At(s, k - 1)}
      BY <1>6
  <2>3. \A a \in DOMAIN elems' : \E i \in 1 .. Len(s) : i >= k /\ s[i] = a
      BY <1>1, <1>7, <2>2
  <2>4. \A i \in 1 .. Len(s) : i >= k => s[i] \in DOMAIN elems'
      BY <1>7, <2>2
  <2> QED
      BY <2>3, <2>4
<1>9. LinksFrom(k, s, elems')
  <2>1. \A i \in 1 .. Len(s) : i >= k => elems'[s[i]] = elems[s[i]]
      BY <1>6, <1>7
  <2>2. \A i \in 1 .. Len(s) : i >= k => i >= k - 1
      BY <1>1
  <2> QED
      BY <1>1, <2>1, <2>2 DEF LinksFrom
<1>10. k + 1 \in 1 .. Len(s) + 1 /\ (k + 1) - 1 = k
    BY <1>1, <1>3
<1>11. cur' = At(s, k + 1) /\ last' = At(s, Len(s))
    BY <1>1, <1>2, <1>4, <1>5
<1> QED
    BY <1>1, <1>8, <1>9, <1>10, <1>11 DEF FreedTo

\* The last element goes when the loop has ended.
LEMMA FreesLast ==
  ASSUME NEW s, NEW k, FreedTo(s, k), L!FreeLast
  PROVE  elems' = <<>>
<1>1. /\ s \in Seq(L!Addrs) /\ Len(s) \in Nat /\ k \in 1 .. Len(s) + 1
      /\ cur = At(s, k) /\ last = At(s, Len(s))
      /\ DOMAIN elems = {s[i] : i \in {j \in 1 .. Len(s) : j >= k - 1}}
    BY DEF FreedTo, Distinct
<1>2. cur = L!Null /\ elems' = L!Free(elems, {last})
    BY DEF L!FreeLast
<1>3. k = Len(s) + 1
  <2>1. k \in 1 .. Len(s) => At(s, k) # L!Null
      BY <1>1, AtIs
  <2> QED
      BY <1>1, <1>2, <2>1
<1>4. \A i \in 1 .. Len(s) : i >= k - 1 => i = Len(s) /\ s[i] = last
  <2>1. \A i \in 1 .. Len(s) : i >= k - 1 => i = Len(s)
      BY <1>1, <1>3
  <2> QED
      BY <1>1, <2>1, AtIs
<1>5. DOMAIN elems \ {last} = {}
    BY <1>1, <1>4
<1>6. elems' = [a \in DOMAIN elems \ {last} |-> elems[a]]
    BY <1>2, Zenon DEF L!Free, L!Restrict, Restrict
<1> QED
    BY <1>5, <1>6

\* list_create makes a list without elements.
LEMMA CreateStep ==
  ASSUME ListInv, L!Create, NEW s, s = <<>>
  PROVE  pc' = "open" /\ IsList(s)' /\ ValuesOwned(s, elems', alive')
<1>1. /\ pc' = "open" /\ elems' = <<>> /\ alive' = {} /\ cur' = L!Null
      /\ first' = L!Null /\ last' = L!Null /\ count' = 0
    BY DEF L!Create, ListInv
<1>2. s \in Seq(L!Addrs) /\ Len(s) = 0 /\ 1 .. Len(s) = {}
    OBVIOUS
<1>3. DOMAIN elems' = {} /\ elems' = [a \in DOMAIN elems' |-> elems'[a]]
    BY <1>1
<1>4. At(s, 1) = L!Null /\ At(s, Len(s)) = L!Null
    BY <1>2 DEF At
<1>5. Distinct(s) /\ LinksFrom(1, s, elems')
    BY <1>2 DEF Distinct, LinksFrom
<1>6. {s[i] : i \in 1 .. Len(s)} = {}
    BY <1>2
<1>7. Chained(s, elems', first', last')
    BY <1>1, <1>3, <1>4, <1>5, <1>6 DEF Chained
<1>8. ValuesOwned(s, elems', alive')
  <2>1. {elems'[s[i]].val : i \in 1 .. Len(s)} = {}
      BY <1>2
  <2>2. \A i, j \in 1 .. Len(s) : elems'[s[i]].val = elems'[s[j]].val => i = j
      BY <1>2
  <2> QED
      BY <1>1, <2>1, <2>2, Zenon DEF ValuesOwned
<1>9. IsList(s)'
    BY <1>1, <1>2, <1>7 DEF IsList
<1> QED
    BY <1>1, <1>8, <1>9

\* Every operation of the list keeps its invariant.
LEMMA ListStep == ASSUME ListInv, L!Next PROVE ListInv'
<1>1. CASE L!Create
  <2>1. PICK s : s = <<>>
      OBVIOUS
  <2>2. pc' = "open" /\ IsList(s)' /\ ValuesOwned(s, elems', alive')
      BY <1>1, <2>1, CreateStep, Zenon
  <2> QED
      BY <2>2, Zenon DEF ListInv
<1>2. ASSUME NEW v \in ListVals, L!Push(v) PROVE ListInv'
  <2>1. pc = "open" /\ pc' = "open"
      BY <1>2 DEF L!Push, L!Adds
  <2>2. PICK s : IsList(s) /\ ValuesOwned(s, elems, alive)
      BY <2>1 DEF ListInv
  <2>3. PICK a : a = L!New
      OBVIOUS
  <2>4. PICK t : t = Append(s, a)
      OBVIOUS
  <2>5. IsList(t)' /\ ValuesOwned(t, elems', alive')
      BY <1>2, <2>2, <2>3, <2>4, PushStep, Zenon
  <2> QED
      BY <2>1, <2>5 DEF ListInv
<1>3. ASSUME NEW v \in ListVals, L!Unshift(v) PROVE ListInv'
  <2>1. pc = "open" /\ pc' = "open"
      BY <1>3 DEF L!Unshift, L!Adds
  <2>2. PICK s : IsList(s) /\ ValuesOwned(s, elems, alive)
      BY <2>1 DEF ListInv
  <2>3. PICK a : a = L!New
      OBVIOUS
  <2>4. PICK t : t = <<a>> \o s
      OBVIOUS
  <2>5. IsList(t)' /\ ValuesOwned(t, elems', alive')
      BY <1>3, <2>2, <2>3, <2>4, UnshiftStep, Zenon
  <2> QED
      BY <2>1, <2>5 DEF ListInv
<1>4. ASSUME NEW op, NEW e, L!RemoveElem(op, e), e \in DOMAIN elems \/ e = first \/ e = last PROVE ListInv'
  <2>1. pc = "open" /\ pc' = "open" /\ first # L!Null
      BY <1>4 DEF L!RemoveElem
  <2>2. PICK s : IsList(s) /\ ValuesOwned(s, elems, alive)
      BY <2>1 DEF ListInv
  <2>3. PICK i \in 1 .. Len(s) : e = s[i]
      BY <1>4, <2>1, <2>2, ElemsAre, EndsAre, Zenon
  <2>4. L!RemoveElem(op, s[i])
      BY <1>4, <2>3, Zenon
  <2>5. IsList(RemoveAt(s, i))' /\ ValuesOwned(RemoveAt(s, i), elems', alive')
      BY <2>2, <2>4, RemoveStep, Zenon
  <2> QED
      BY <2>1, <2>5, Zenon DEF ListInv
<1>5. CASE \E op \in {"pop", "shift"} : L!TakeNothing(op)
    BY <1>5 DEF L!TakeNothing, ListInv, IsList, FreedTo
<1>6. CASE L!Clear
  <2>1. /\ pc = "open" /\ pc' = "cleared" /\ elems' = elems /\ first' = first /\ last' = last
        /\ count' = count /\ cur' = cur /\ alive' = alive \ {L!ValAt(L!Chain[i]) : i \in DOMAIN L!Chain}
      BY <1>6 DEF L!Clear
  <2>2. PICK s : IsList(s) /\ ValuesOwned(s, elems, alive)
      BY <2>1 DEF ListInv
  <2>3. alive' = {}
      BY <2>1, <2>2, ClearsAll, Zenon
  <2>4. IsList(s)'
      BY <2>1, <2>2 DEF IsList
  <2> QED
      BY <2>1, <2>3, <2>4 DEF ListInv
<1>7. CASE L!StartDestroy
  <2>1. /\ pc = "cleared" /\ pc' = "freeing" /\ elems' = elems /\ last' = last /\ cur' = first /\ alive' = alive
      BY <1>7 DEF L!StartDestroy
  <2>2. PICK s : IsList(s)
      BY <2>1 DEF ListInv
  <2>3. alive = {}
      BY <2>1 DEF ListInv
  <2>4. FreedTo(s, 1)'
      BY <2>1, <2>2, StartsFree, Zenon
  <2> QED
      BY <2>1, <2>3, <2>4, Zenon DEF ListInv
<1>8. CASE L!FreePrevious
  <2>1. pc = "freeing" /\ pc' = "freeing" /\ alive' = alive
      BY <1>8 DEF L!FreePrevious
  <2>2. alive = {} /\ \E s, k : FreedTo(s, k)
      BY <2>1 DEF ListInv
  <2>3. PICK s, k : FreedTo(s, k)
      BY <2>2
  <2>4. FreedTo(s, k + 1)'
      BY <1>8, <2>3, FreesPrevious, Zenon
  <2> QED
      BY <2>1, <2>2, <2>4, Zenon DEF ListInv
<1>9. CASE L!FreeLast
  <2>1. pc = "freeing" /\ pc' = "none" /\ alive' = alive /\ cur' = cur /\ cur = L!Null
      BY <1>9 DEF L!FreeLast
  <2>2. alive = {} /\ \E s, k : FreedTo(s, k)
      BY <2>1 DEF ListInv
  <2>3. elems' = <<>>
      BY <1>9, <2>2, FreesLast, Zenon
  <2> QED
      BY <2>1, <2>2, <2>3 DEF ListInv
<1> QED
    BY <1>1, <1>2, <1>3, <1>4, <1>5, <1>6, <1>7, <1>8, <1>9, Zenon DEF L!Next, L!RemoveAny, L!Pop, L!Shift

\* There is no list at first.
LEMMA ListInvInit == Init => ListInv
  BY DEF Init, L!Init, ListInv

\* The other containers leave the list alone.
LEMMA ListInvStep == ListInv /\ [Next]_vars => ListInv'
<1>1. [Next]_vars => L!Next \/ UNCHANGED listVars
    BY Zenon DEF Next, vars
<1>2. ListInv /\ UNCHANGED listVars => ListInv'
    BY DEF listVars, ListInv, IsList, FreedTo
<1> QED
    BY <1>1, <1>2, ListStep, Zenon

\* The list's invariant holds in all behaviours of all the containers.
LEMMA ListInvAlways == Spec => []ListInv
  BY ListInvInit, ListInvStep, PTL DEF Spec

\* list.c: between calls the list read backwards is the list read forwards, it counts its
\* elements, and there are no others: none is lost and none is linked twice.
THEOREM ListLinkedAlways == Spec => []ListLinked
<1>1. ListInv => ListLinked
  <2> SUFFICES ASSUME ListInv, pc \in {"open", "cleared"}
               PROVE  /\ L!Range(L!Chain) = DOMAIN elems
                      /\ L!Chain = L!Reverse(L!Follow(last, "prev", count))
                      /\ count = L!Cardinality(DOMAIN elems)
      BY Zenon DEF ListLinked, L!Linked
  <2>1. PICK s : IsList(s)
      BY DEF ListInv
  <2>2. Chained(s, elems, first, last) /\ count = Len(s)
      BY <2>1 DEF IsList
  <2>3. /\ s \in Seq(L!Addrs) /\ Len(s) \in Nat /\ DOMAIN elems = {s[i] : i \in 1 .. Len(s)}
        /\ \A i, j \in 1 .. Len(s) : s[i] = s[j] => i = j
      BY <2>2, ChainedHas, Zenon
  <2>4. L!Chain = s /\ L!Follow(last, "prev", count) = Reverse(s)
      BY <2>2, ChainIs, Zenon
  <2>5. L!Range(s) = DOMAIN elems
      BY <2>3 DEF L!Range
  <2>6. s = L!Reverse(Reverse(s))
    <3> DEFINE r == Reverse(s)
    <3>1. r = [i \in 1 .. Len(s) |-> s[(Len(s) - i) + 1]]
        BY Zenon DEF Reverse
    <3>2. \A i \in 1 .. Len(s) : (Len(s) - i) + 1 \in 1 .. Len(s) /\ (Len(s) - ((Len(s) - i) + 1)) + 1 = i
        BY <2>3
    <3>3. r \in Seq(L!Addrs) /\ Len(r) = Len(s)
        BY <2>3, <3>1, <3>2
    <3> HIDE DEF r
    <3>4. L!Reverse(r) = [i \in 1 .. Len(s) |-> r[(Len(s) - i) + 1]]
        BY <3>3, Zenon DEF L!Reverse
    <3>5. \A i \in 1 .. Len(s) : r[(Len(s) - i) + 1] = s[i]
        BY <3>1, <3>2
    <3>6. s = [i \in 1 .. Len(s) |-> s[i]]
        BY <2>3
    <3>7. L!Reverse(r) = s
        BY <3>4, <3>5, <3>6
    <3> QED
        BY <3>7 DEF r
  <2>7. Cardinality(DOMAIN elems) = Len(s)
    <3>1. s \in Bijection(1 .. Len(s), DOMAIN elems)
      <4>1. s \in [1 .. Len(s) -> DOMAIN elems]
          BY <2>3
      <4>2. \A b \in DOMAIN elems : \E i \in 1 .. Len(s) : s[i] = b
          BY <2>3
      <4> QED
          BY <2>3, <4>1, <4>2, Fun_IsBij
    <3>2. IsFiniteSet(1 .. Len(s)) /\ Cardinality(1 .. Len(s)) = Len(s)
      <4>1. 1 \in Int /\ Len(s) \in Int
          BY <2>3
      <4>2. IsFiniteSet(1 .. Len(s)) /\ Cardinality(1 .. Len(s)) = IF 1 > Len(s) THEN 0 ELSE Len(s) - 1 + 1
          BY <4>1, FS_Interval, Zenon
      <4> QED
          BY <2>3, <4>2
    <3> QED
        BY <3>1, <3>2, FS_Bijection DEF ExistsBijection
  <2>8. L!Cardinality(DOMAIN elems) = Cardinality(DOMAIN elems)
      BY Zenon DEF L!Cardinality, Cardinality
  <2> QED
      BY <2>2, <2>4, <2>5, <2>6, <2>7, <2>8, Zenon
<1> QED
    BY <1>1, ListInvAlways, PTL

\* list.c: the loop of list_destroy never stands on an element it has freed, and leaves
\* neither an element nor a value behind.
THEOREM ListMemorySafeAlways == Spec => []ListMemorySafe
<1>1. ListInv => ListMemorySafe
  <2>1. ASSUME NEW s, NEW k, FreedTo(s, k), cur # L!Null PROVE cur \in DOMAIN elems
    <3>1. /\ s \in Seq(L!Addrs) /\ Len(s) \in Nat /\ k \in Int /\ cur = At(s, k)
          /\ DOMAIN elems = {s[i] : i \in {j \in 1 .. Len(s) : j >= k - 1}}
        BY <2>1 DEF FreedTo, Distinct
    <3>2. k \in 1 .. Len(s)
        BY <2>1, <3>1, AtIs
    <3>3. cur = s[k] /\ k >= k - 1
        BY <3>1, <3>2, AtIs
    <3> QED
        BY <3>1, <3>2, <3>3
  <2>2. ASSUME NEW s, IsList(s) PROVE cur = L!Null
      BY <2>2 DEF IsList
  <2>3. ListInv => (cur # L!Null => cur \in DOMAIN elems)
      BY <2>1, <2>2, Zenon DEF ListInv
  <2>4. ListInv /\ pc = "none" => elems = <<>> /\ alive = {}
      BY DEF ListInv
  <2> QED
      BY <2>3, <2>4, Zenon DEF ListMemorySafe, L!MemorySafe
<1> QED
    BY <1>1, ListInvAlways, PTL

\* The list's items, first to last.
ListItems(s, h) == [i \in 1 .. Len(s) |-> h[s[i]].val]

\* To its clients the list is the sequence of its values.
LEMMA ItemsAre ==
  ASSUME NEW s, IsList(s), ValuesOwned(s, elems, alive)
  PROVE  /\ [i \in DOMAIN L!Chain |-> L!ValAt(L!Chain[i])] = ListItems(s, elems)
         /\ ListItems(s, elems) \in Seq(ListVals) /\ Len(ListItems(s, elems)) = Len(s) /\ Len(s) \in Nat
<1>1. /\ L!Chain = s /\ DOMAIN s = 1 .. Len(s)
      /\ \A i \in 1 .. Len(s) : L!ValAt(s[i]) = elems[s[i]].val /\ elems[s[i]].val \in ListVals
    BY ClearsAll, Zenon
<1>2. Len(s) \in Nat
    BY DEF IsList, Chained, Distinct
<1>3. ListItems(s, elems) \in Seq(ListVals) /\ Len(ListItems(s, elems)) = Len(s)
    BY <1>1, <1>2 DEF ListItems
<1>4. [i \in 1 .. Len(s) |-> L!ValAt(s[i])] = ListItems(s, elems)
    BY <1>1 DEF ListItems
<1> QED
    BY <1>1, <1>2, <1>3, <1>4, Zenon

\* Every element of a heap holds a value a client has passed.
HoldsVals(h) == \A b \in DOMAIN h : h[b].val \in ListVals

\* The items of heap k in the order of t are x and behind or before them v.
ItemsBehind(t, k, x, v) == ListItems(t, k) = Append(x, v)
ItemsBefore(t, k, x, v) == ListItems(t, k) = <<v>> \o x

\* With the element the list gets its value, behind the others or in front of them.
LEMMA PushedItems ==
  ASSUME NEW s, Distinct(s), NEW h, DOMAIN h = Places(s), HoldsVals(h),
         NEW a \in L!Addrs, NEW v \in ListVals, NEW k, NEW l, NEW f, Linked(k, h, a, l, f, v),
         NEW x, x = ListItems(s, h), NEW t
  PROVE  /\ t = Append(s, a) => ItemsBehind(t, k, x, v)
         /\ t = <<a>> \o s => ItemsBefore(t, k, x, v)
<1> DEFINE n == Len(s)
<1>1. s \in Seq(L!Addrs) /\ n \in Nat /\ \A i \in 1 .. n : s[i] \in DOMAIN h
    BY DEF Distinct, Places
<1>2. x \in Seq(ListVals) /\ Len(x) = n /\ \A i \in 1 .. n : x[i] = h[s[i]].val
    BY <1>1 DEF ListItems, HoldsVals
<1>3. k[a].val = v /\ \A b \in DOMAIN h : k[b].val = h[b].val
    BY DEF Linked
<1>4. \A i \in 1 .. n : k[s[i]].val = x[i]
    BY <1>1, <1>2, <1>3
<1> HIDE DEF n
<1>5. ASSUME t = Append(s, a) PROVE ListItems(t, k) = Append(x, v)
  <2> DEFINE y == Append(x, v)
  <2>1. t \in Seq(L!Addrs) /\ Len(t) = n + 1 /\ t[n + 1] = a /\ \A i \in 1 .. n : t[i] = s[i]
      BY <1>1, <1>5, AppendProperties DEF n
  <2>2. y \in Seq(ListVals) /\ Len(y) = n + 1 /\ y[n + 1] = v /\ \A i \in 1 .. n : y[i] = x[i]
      BY <1>2, AppendProperties
  <2> HIDE DEF y
  <2>3. \A i \in 1 .. n + 1 : i \in 1 .. n \/ i = n + 1
      BY <1>1
  <2>4. \A i \in 1 .. n + 1 : k[t[i]].val = y[i]
      BY <1>3, <1>4, <2>1, <2>2, <2>3
  <2>5. y = [i \in 1 .. n + 1 |-> y[i]]
      BY <2>2
  <2>6. ListItems(t, k) = y
      BY <2>1, <2>4, <2>5 DEF ListItems
  <2> QED
      BY <2>6, Zenon DEF y
<1>6. ASSUME t = <<a>> \o s PROVE ListItems(t, k) = <<v>> \o x
  <2> DEFINE y == <<v>> \o x
  <2>1. t \in Seq(L!Addrs) /\ Len(t) = n + 1 /\ \A i \in 1 .. n + 1 : t[i] = IF i = 1 THEN a ELSE s[i - 1]
      BY <1>1, <1>6, InFrontProperties DEF n
  <2>2. y \in Seq(ListVals) /\ Len(y) = n + 1 /\ \A i \in 1 .. n + 1 : y[i] = IF i = 1 THEN v ELSE x[i - 1]
      BY <1>2, InFrontProperties
  <2> HIDE DEF y
  <2>3. \A i \in 1 .. n + 1 : i - 1 \in 1 .. n \/ i = 1
      BY <1>1
  <2>4. \A i \in 1 .. n + 1 : k[t[i]].val = y[i]
      BY <1>3, <1>4, <2>1, <2>2, <2>3
  <2>5. y = [i \in 1 .. n + 1 |-> y[i]]
      BY <2>2
  <2>6. ListItems(t, k) = y
      BY <2>1, <2>4, <2>5 DEF ListItems
  <2> QED
      BY <2>6, Zenon DEF y
<1> QED
    BY <1>5, <1>6, Zenon DEF ItemsBehind, ItemsBefore

\* With the element its value goes, and the others stay in their order.
LEMMA RemovedItems ==
  ASSUME NEW s, Distinct(s), NEW h, DOMAIN h = Places(s), HoldsVals(h),
         NEW i \in 1 .. Len(s), NEW t, IsRemove(t, s, i), NEW k, Unlinked(k, h, s[i])
  PROVE  /\ ListItems(t, k) = RemoveAt(ListItems(s, h), i)
         /\ i = Len(s) => ListItems(t, k) = Front(ListItems(s, h))
         /\ i = 1 => ListItems(t, k) = Tail(ListItems(s, h))
<1> DEFINE n == Len(s)
           x == ListItems(s, h)
           y == ListItems(t, k)
<1>1. /\ s \in Seq(L!Addrs) /\ n \in Nat /\ i \in 1 .. n
      /\ \A j \in 1 .. n : s[j] \in DOMAIN h
      /\ \A j, m \in 1 .. n : s[j] = s[m] => j = m
    BY DEF Distinct, Places
<1>2. x \in Seq(ListVals) /\ Len(x) = n /\ \A j \in 1 .. n : x[j] = h[s[j]].val
    BY <1>1 DEF ListItems, HoldsVals
<1>3. Len(t) = n - 1 /\ \A j \in 1 .. n - 1 : t[j] = IF j < i THEN s[j] ELSE s[j + 1]
    BY Zenon DEF IsRemove
<1>4. \A b \in DOMAIN h : b # s[i] => k[b].val = h[b].val
    BY DEF Unlinked
<1>5. y = [j \in 1 .. n - 1 |-> k[t[j]].val]
    BY <1>3, Zenon DEF ListItems
<1> HIDE DEF n, x, y
<1>6. \A j \in 1 .. n - 1 : y[j] = IF j < i THEN x[j] ELSE x[j + 1]
  <2> SUFFICES ASSUME NEW j \in 1 .. n - 1 PROVE y[j] = IF j < i THEN x[j] ELSE x[j + 1]
      OBVIOUS
  <2> DEFINE m == IF j < i THEN j ELSE j + 1
  <2>1. m \in 1 .. n /\ m # i
      BY <1>1
  <2>2. t[j] = s[m]
      BY <1>3
  <2> HIDE DEF m
  <2>3. s[m] # s[i]
      BY <1>1, <2>1
  <2>4. k[s[m]].val = x[m]
      BY <1>1, <1>2, <1>4, <2>1, <2>3
  <2>5. y[j] = x[m]
      BY <1>5, <2>2, <2>4
  <2> QED
      BY <2>5 DEF m
<1>7. y = [j \in 1 .. n - 1 |-> y[j]]
    BY <1>5
<1>8. y = RemoveAt(x, i)
  <2>1. /\ RemoveAt(x, i) \in Seq(ListVals) /\ Len(RemoveAt(x, i)) = n - 1
        /\ \A j \in 1 .. n - 1 : RemoveAt(x, i)[j] = IF j < i THEN x[j] ELSE x[j + 1]
      BY <1>1, <1>2, RemoveAtProperties
  <2> DEFINE z == RemoveAt(x, i)
  <2> HIDE DEF z
  <2>2. z = [j \in 1 .. n - 1 |-> z[j]] /\ \A j \in 1 .. n - 1 : z[j] = y[j]
      BY <1>6, <2>1 DEF z
  <2>3. y = z
      BY <1>7, <2>2
  <2> QED
      BY <2>3 DEF z
<1>9. x # <<>>
    BY <1>1, <1>2
<1>10. ASSUME i = n PROVE y = Front(x)
  <2>1. /\ Front(x) \in Seq(ListVals) /\ Len(Front(x)) = n - 1
        /\ \A j \in 1 .. n - 1 : Front(x)[j] = x[j]
      BY <1>2, <1>9, FrontProperties
  <2> DEFINE z == Front(x)
  <2>2. z = [j \in 1 .. n - 1 |-> z[j]]
      BY <2>1
  <2>3. \A j \in 1 .. n - 1 : z[j] = y[j]
      BY <1>1, <1>6, <1>10, <2>1
  <2> HIDE DEF z
  <2>4. y = z
      BY <1>7, <2>2, <2>3
  <2> QED
      BY <2>4 DEF z
<1>11. ASSUME i = 1 PROVE y = Tail(x)
  <2> DEFINE z == Tail(x)
  <2>1. /\ z \in Seq(ListVals) /\ Len(z) = n - 1
        /\ \A j \in 1 .. n - 1 : z[j] = x[j + 1]
      BY <1>2, <1>9
  <2> HIDE DEF z
  <2>2. z = [j \in 1 .. n - 1 |-> z[j]]
      BY <2>1
  <2>3. \A j \in 1 .. n - 1 : z[j] = y[j]
      BY <1>1, <1>6, <1>11, <2>1
  <2>4. y = z
      BY <1>7, <2>2, <2>3
  <2> QED
      BY <2>4 DEF z
<1> QED
    BY <1>8, <1>10, <1>11 DEF n, x, y

\* What the clients see of an open list.
Shown == [i \in DOMAIN L!Chain |-> L!ValAt(L!Chain[i])]
ShowsItems == \A s : IsList(s) /\ ValuesOwned(s, elems, alive) => Shown = ListItems(s, elems)

\* In every state they see the values in the order of the elements.
LEMMA ShowsItemsAlways == ShowsItems
  BY ItemsAre, Zenon DEF ShowsItems, Shown

\* Every operation of list.c is the operation of ItemSeq it is named for, or goes on inside
\* list_destroy.
LEMMA ListRefinesNext ==
  ASSUME ListInv, ShowsItems', L!Next
  PROVE  L!Items!Next \/ UNCHANGED L!Items!vars
<1> DEFINE old == IF pc = "open" THEN Shown ELSE <<>>
<1>1. ASSUME NEW s, IsList(s), ValuesOwned(s, elems, alive)
      PROVE  /\ Shown = ListItems(s, elems) /\ ListItems(s, elems) \in Seq(ListVals) /\ Len(ListItems(s, elems)) = Len(s)
             /\ Distinct(s) /\ DOMAIN elems = Places(s) /\ HoldsVals(elems)
             /\ \A i \in 1 .. Len(s) : ListItems(s, elems)[i] = elems[s[i]].val
  <2>1. Chained(s, elems, first, last)
      BY <1>1 DEF IsList
  <2>2. Distinct(s) /\ DOMAIN elems = Places(s)
      BY <2>1, Zenon DEF Chained, Places
  <2>3. \A b \in DOMAIN elems : elems[b] \in Elem
      BY ONLY <2>1, ChainedHas
  <2>4. HoldsVals(elems)
      BY <2>3 DEF Elem, HoldsVals
  <2>5. /\ Shown = ListItems(s, elems)
        /\ ListItems(s, elems) \in Seq(ListVals) /\ Len(ListItems(s, elems)) = Len(s)
      BY <1>1, ItemsAre, Zenon DEF Shown
  <2>6. \A i \in 1 .. Len(s) : ListItems(s, elems)[i] = elems[s[i]].val
      BY DEF ListItems
  <2> QED
      BY <2>2, <2>4, <2>5, <2>6, Zenon
<1>2. ASSUME NEW s, IsList(s)', ValuesOwned(s, elems', alive')
      PROVE  Shown' = ListItems(s, elems')
    BY <1>2, Zenon DEF ShowsItems
<1>3. pc = "open" => \E s : IsList(s) /\ ValuesOwned(s, elems, alive)
    BY DEF ListInv
<1> HIDE DEF Shown
<1>4. CASE L!Create
  <2>1. PICK s : s = <<>>
      OBVIOUS
  <2>2. pc' = "open" /\ IsList(s)' /\ ValuesOwned(s, elems', alive')
      BY <1>4, <2>1, CreateStep, Zenon
  <2>3. ListItems(s, elems') = <<>>
      BY <2>1 DEF ListItems
  <2>4. Shown' = <<>>
      BY <1>2, <2>2, <2>3, Zenon
  <2>5. listDone' = <<"create", NoVal>>
      BY <1>4 DEF L!Create
  <2>6. L!Items!Empty("create")
      BY <2>2, <2>4, <2>5 DEF L!Items!Empty, L!Items!Returns, Shown
  <2> QED
      BY <2>6 DEF L!Items!Next
<1>5. ASSUME NEW v \in ListVals, L!Push(v) PROVE L!Items!Push(v)
  <2>1. pc = "open" /\ pc' = "open" /\ listDone' = <<"push", NoVal>>
      BY <1>5 DEF L!Push, L!Adds
  <2>2. PICK s : IsList(s) /\ ValuesOwned(s, elems, alive)
      BY <1>3, <2>1
  <2>3. PICK a : a = L!New
      OBVIOUS
  <2>4. PICK t : t = Append(s, a)
      OBVIOUS
  <2>5. /\ a \in L!Addrs /\ IsList(t)' /\ ValuesOwned(t, elems', alive')
        /\ Linked(elems', elems, a, last, L!Null, v)
      BY <1>5, <2>2, <2>3, <2>4, PushStep, Zenon
  <2>6. ListItems(t, elems') = Append(ListItems(s, elems), v)
    <3>1. Distinct(s) /\ DOMAIN elems = Places(s) /\ HoldsVals(elems)
        BY <1>1, <2>2, Zenon
    <3>2. PICK x : x = ListItems(s, elems)
        OBVIOUS
    <3>3. ItemsBehind(t, elems', x, v)
        BY <2>4, <2>5, <3>1, <3>2, PushedItems, Zenon
    <3> QED
        BY <3>2, <3>3, Zenon DEF ItemsBehind
  <2>7. Shown' = Append(Shown, v)
      BY <1>1, <1>2, <2>2, <2>5, <2>6, Zenon
  <2> QED
      BY <2>1, <2>7 DEF L!Items!Push, L!Items!Returns, Shown
<1>6. ASSUME NEW v \in ListVals, L!Unshift(v) PROVE L!Items!Unshift(v)
  <2>1. pc = "open" /\ pc' = "open" /\ listDone' = <<"unshift", NoVal>>
      BY <1>6 DEF L!Unshift, L!Adds
  <2>2. PICK s : IsList(s) /\ ValuesOwned(s, elems, alive)
      BY <1>3, <2>1
  <2>3. PICK a : a = L!New
      OBVIOUS
  <2>4. PICK t : t = <<a>> \o s
      OBVIOUS
  <2>5. /\ a \in L!Addrs /\ IsList(t)' /\ ValuesOwned(t, elems', alive')
        /\ Linked(elems', elems, a, L!Null, first, v)
      BY <1>6, <2>2, <2>3, <2>4, UnshiftStep, Zenon
  <2>6. ListItems(t, elems') = <<v>> \o ListItems(s, elems)
    <3>1. Distinct(s) /\ DOMAIN elems = Places(s) /\ HoldsVals(elems)
        BY <1>1, <2>2, Zenon
    <3>2. PICK x : x = ListItems(s, elems)
        OBVIOUS
    <3>3. ItemsBefore(t, elems', x, v)
        BY <2>4, <2>5, <3>1, <3>2, PushedItems, Zenon
    <3> QED
        BY <3>2, <3>3, Zenon DEF ItemsBefore
  <2>7. Shown' = <<v>> \o Shown
      BY <1>1, <1>2, <2>2, <2>5, <2>6, Zenon
  <2> QED
      BY <2>1, <2>7 DEF L!Items!Unshift, L!Items!Returns, Shown
<1>7. ASSUME NEW s, IsList(s), ValuesOwned(s, elems, alive), NEW i \in 1 .. Len(s), NEW op, L!RemoveElem(op, s[i])
      PROVE  /\ pc = "open" /\ pc' = "open" /\ listDone' = <<op, Shown[i]>>
             /\ Shown \in Seq(ListVals) /\ Len(Shown) = Len(s) /\ Len(s) \in Nat
             /\ Shown' = RemoveAt(Shown, i)
             /\ (i = Len(s) => Shown' = Front(Shown)) /\ (i = 1 => Shown' = Tail(Shown))
  <2>1. PICK t : t = RemoveAt(s, i)
      OBVIOUS
  <2>2. IsList(t)' /\ ValuesOwned(t, elems', alive') /\ IsRemove(t, s, i) /\ Unlinked(elems', elems, s[i])
      BY <1>7, <2>1, RemoveStep, Zenon
  <2>3. pc = "open" /\ pc' = "open" /\ listDone' = <<op, elems[s[i]].val>>
      BY <1>7 DEF L!RemoveElem
  <2>4. /\ Shown = ListItems(s, elems) /\ ListItems(s, elems) \in Seq(ListVals) /\ Len(ListItems(s, elems)) = Len(s)
        /\ Distinct(s) /\ DOMAIN elems = Places(s) /\ HoldsVals(elems)
        /\ \A j \in 1 .. Len(s) : ListItems(s, elems)[j] = elems[s[j]].val
      BY <1>1, <1>7, Zenon
  <2>5. /\ ListItems(t, elems') = RemoveAt(ListItems(s, elems), i)
        /\ i = Len(s) => ListItems(t, elems') = Front(ListItems(s, elems))
        /\ i = 1 => ListItems(t, elems') = Tail(ListItems(s, elems))
    <3>1. Distinct(s) /\ DOMAIN elems = Places(s) /\ HoldsVals(elems) /\ IsRemove(t, s, i) /\ Unlinked(elems', elems, s[i])
        BY <2>2, <2>4, Zenon
    <3> QED
        BY ONLY i \in 1 .. Len(s), <3>1, RemovedItems
  <2>6. Shown' = ListItems(t, elems')
      BY <1>2, <2>2, Zenon
  <2>7. Len(s) \in Nat
      BY <2>4 DEF Distinct
  <2> QED
      BY <2>3, <2>4, <2>5, <2>6, <2>7, Zenon
<1>8. ASSUME NEW e \in DOMAIN elems, L!RemoveAny(e) PROVE L!Items!Next
  <2>1. L!RemoveElem("remove", e) /\ pc = "open"
      BY <1>8 DEF L!RemoveAny, L!RemoveElem
  <2>2. PICK s : IsList(s) /\ ValuesOwned(s, elems, alive)
      BY <1>3, <2>1
  <2>3. PICK i \in 1 .. Len(s) : e = s[i]
      BY <2>2, ElemsAre, Zenon
  <2>4. /\ pc' = "open" /\ listDone' = <<"remove", Shown[i]>> /\ Shown' = RemoveAt(Shown, i)
        /\ Shown \in Seq(ListVals) /\ Len(Shown) = Len(s) /\ Len(s) \in Nat
      BY <1>7, <2>1, <2>2, <2>3, Zenon
  <2>5. i \in DOMAIN Shown
      BY <2>4
  <2>6. L!Items!RemoveAt(Shown, i) = RemoveAt(Shown, i)
      BY Zenon DEF L!Items!RemoveAt, RemoveAt
  <2>7. L!Items!RemoveItem(i) /\ i \in DOMAIN old
      BY <2>1, <2>4, <2>5, <2>6, Zenon DEF L!Items!RemoveItem, L!Items!Returns, Shown
  <2> QED
      BY <2>7, Zenon DEF L!Items!Next, Shown
<1>9. CASE L!Pop
  <2>1. L!RemoveElem("pop", last) /\ pc = "open" /\ first # L!Null
      BY <1>9 DEF L!Pop, L!RemoveElem
  <2>2. PICK s : IsList(s) /\ ValuesOwned(s, elems, alive)
      BY <1>3, <2>1
  <2>3. Len(s) \in 1 .. Len(s) /\ last = s[Len(s)]
      BY <2>1, <2>2, EndsAre, Zenon
  <2>4. /\ pc' = "open" /\ listDone' = <<"pop", Shown[Len(s)]>> /\ Shown' = Front(Shown)
        /\ Shown \in Seq(ListVals) /\ Len(Shown) = Len(s) /\ Len(s) \in Nat
      BY <1>7, <2>1, <2>2, <2>3, Zenon
  <2>5. Shown # <<>>
      BY <2>3, <2>4
  <2>6. L!Items!Front(Shown) = Front(Shown) /\ L!Items!Last(Shown) = Shown[Len(Shown)]
      BY Zenon DEF L!Items!Front, Front, L!Items!Last
  <2>7. L!Items!Pop
      BY <2>1, <2>4, <2>5, <2>6, Zenon DEF L!Items!Pop, L!Items!Returns, Shown
  <2> QED
      BY <2>7, Zenon DEF L!Items!Next
<1>10. CASE L!Shift
  <2>1. L!RemoveElem("shift", first) /\ pc = "open" /\ first # L!Null
      BY <1>10 DEF L!Shift, L!RemoveElem
  <2>2. PICK s : IsList(s) /\ ValuesOwned(s, elems, alive)
      BY <1>3, <2>1
  <2>3. 1 \in 1 .. Len(s) /\ first = s[1]
      BY <2>1, <2>2, EndsAre, Zenon
  <2>4. /\ pc' = "open" /\ listDone' = <<"shift", Shown[1]>> /\ Shown' = Tail(Shown)
        /\ Shown \in Seq(ListVals) /\ Len(Shown) = Len(s) /\ Len(s) \in Nat
      BY <1>7, <2>1, <2>2, <2>3, Zenon
  <2>5. Shown # <<>> /\ Head(Shown) = Shown[1]
      BY <2>3, <2>4
  <2>6. L!Items!Shift
      BY <2>1, <2>4, <2>5, Zenon DEF L!Items!Shift, L!Items!Returns, Shown
  <2> QED
      BY <2>6, Zenon DEF L!Items!Next
<1>11. ASSUME NEW op \in {"pop", "shift"}, L!TakeNothing(op) PROVE L!Items!TakeNothing(op)
  <2>1. /\ pc = "open" /\ first = L!Null /\ listDone' = <<op, NoVal>>
        /\ pc' = pc /\ elems' = elems /\ first' = first /\ count' = count /\ last' = last /\ alive' = alive /\ cur' = cur
      BY <1>11 DEF L!TakeNothing
  <2>2. PICK s : IsList(s) /\ ValuesOwned(s, elems, alive)
      BY <1>3, <2>1
  <2>3. Len(s) = 0
    <3>1. Chained(s, elems, first, last)
        BY <2>2 DEF IsList
    <3> QED
        BY ONLY <2>1, <3>1, ChainedHas
  <2>4. Shown = <<>>
    <3>1. Shown \in Seq(ListVals) /\ Len(Shown) = 0
        BY <1>1, <2>2, <2>3, Zenon
    <3> QED
        BY <3>1
  <2>5. IsList(s)' /\ ValuesOwned(s, elems', alive')
      BY <2>1, <2>2 DEF IsList
  <2>6. Shown' = Shown
      BY <1>1, <1>2, <2>1, <2>2, <2>5, Zenon
  <2> QED
      BY <2>1, <2>4, <2>6, Zenon DEF L!Items!TakeNothing, L!Items!Returns, Shown
<1>12. CASE L!Clear
  <2>1. pc' = "cleared" /\ listDone' = <<"clear", NoVal>>
      BY <1>12 DEF L!Clear
  <2>2. L!Items!Empty("clear")
      BY <2>1 DEF L!Items!Empty, L!Items!Returns
  <2> QED
      BY <2>2 DEF L!Items!Next
<1>13. CASE L!StartDestroy \/ L!FreePrevious
  <2>1. pc # "open" /\ pc' # "open" /\ listDone' = listDone
      BY <1>13 DEF L!StartDestroy, L!FreePrevious
  <2> QED
      BY <2>1 DEF L!Items!vars
<1>14. CASE L!FreeLast
  <2>1. pc' = "none" /\ listDone' = <<"destroy", NoVal>>
      BY <1>14 DEF L!FreeLast
  <2>2. L!Items!Empty("destroy")
      BY <2>1 DEF L!Items!Empty, L!Items!Returns
  <2> QED
      BY <2>2 DEF L!Items!Next
<1>15. CASE (\E v \in ListVals : L!Push(v) \/ L!Unshift(v)) \/ \E op \in {"pop", "shift"} : L!TakeNothing(op)
    BY <1>5, <1>6, <1>11, <1>15, Zenon DEF L!Items!Next
<1> QED
    BY <1>4, <1>8, <1>9, <1>10, <1>12, <1>13, <1>14, <1>15, Zenon DEF L!Next

\* There is no list and no item at first.
LEMMA ListRefinesInit == Init => L!Items!Init
  BY DEF Init, L!Init, L!Items!Init

\* list.c: the doubly linked list is a sequence of items, which grow and go at both ends and
\* in the middle; how its elements are linked and freed does not show.
THEOREM ListIsItemSeqAlways == Spec => ListIsItemSeq
<1>1. ListInv /\ ShowsItems' /\ [Next]_vars => [L!Items!Next]_(L!Items!vars)
  <2>1. [Next]_vars => L!Next \/ UNCHANGED listVars
      BY Zenon DEF Next, vars
  <2>2. UNCHANGED listVars => UNCHANGED L!Items!vars
      BY DEF listVars, L!Items!vars, L!Chain, L!Follow, L!ValAt
  <2> QED
      BY <2>1, <2>2, ListRefinesNext, Zenon
<1>2. Spec => []ShowsItems
    BY ShowsItemsAlways, PTL
<1> QED
    BY <1>1, <1>2, ListRefinesInit, ListInvAlways, PTL DEF Spec, ListIsItemSeq, L!ImplementsItemSeq, L!Items!Spec
=============================================================================
