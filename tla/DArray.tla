------------------------------ MODULE DArray ------------------------------
(***************************************************************************)
(* The growing array of src/src/struct/darray.c: cells, of which the first *)
(* size are in use.  darray_reserve and darray_contract cut cells off      *)
(* without a look at size, and darray_set behind the items leaves size     *)
(* where get does not see the new one: clients of this model do neither.   *)
(***************************************************************************)
EXTENDS Naturals, Sequences

CONSTANTS Vals, NoVal, Junk,   \* Junk: what a cell holds that was not written
          MaxCells             \* bound: cells

DArrayAssumption == MaxCells \in Nat \ {0} /\ NoVal \notin Vals /\ Junk \notin Vals

VARIABLES
  up,        \* is there an array?
  data,      \* its cells, 0 .. max_size - 1
  size,      \* items in use
  max_size,
  done       \* the last completed call and the value it returned

vars == <<up, data, size, max_size, done>>

Cells(n) == IF n = 0 THEN {} ELSE 0 .. n - 1

\* realloc to n cells, kept where old and new overlap.
Realloc(n) == [i \in Cells(n) |-> IF i \in DOMAIN data THEN data[i] ELSE Junk]

Init ==
  /\ up = FALSE /\ data = <<>> /\ size = 0 /\ max_size = 0
  /\ done = <<"none", NoVal>>

\* darray_create; an array of no cells is one that cannot grow.
Create(n) ==
  /\ ~up
  /\ up' = TRUE /\ max_size' = n /\ size' = 0
  /\ data' = [i \in Cells(n) |-> Junk]
  /\ done' = <<"create", NoVal>>

\* darray_destroy.
Destroy ==
  /\ up
  /\ up' = FALSE /\ max_size' = 0 /\ size' = 0 /\ data' = <<>>
  /\ done' = <<"destroy", NoVal>>

\* darray_reserve, and darray_expand and darray_contract, which call it with
\* twice and half the cells.
Reserve(n) ==
  /\ up /\ n # 0 /\ size <= n
  /\ data' = Realloc(n) /\ max_size' = n
  /\ done' = <<"reserve", NoVal>>
  /\ UNCHANGED <<up, size>>

Expand == 2 * max_size <= MaxCells /\ Reserve(2 * max_size)
Contract == max_size >= 2 /\ Reserve(max_size \div 2)

\* Mutant: the default value goes to all cells, not to the new ones.
ResizeFillsAll(n, v) ==
  /\ up /\ n # 0
  /\ data' = [i \in Cells(n) |-> v]
  /\ max_size' = n /\ size' = n
  /\ done' = <<"resize", NoVal>>
  /\ UNCHANGED up

\* darray_resize.
Resize(n, v) ==
  /\ up /\ n # 0
  /\ data' = [i \in Cells(n) |-> IF i < size THEN Realloc(n)[i] ELSE v]
  /\ max_size' = n /\ size' = n
  /\ done' = <<"resize", NoVal>>
  /\ UNCHANGED up

\* Mutant: the array grows when it has passed its end, not when it reaches it.
PushGrowsLate(v) ==
  LET cells == IF size > max_size THEN 2 * max_size ELSE max_size
  IN  /\ up /\ max_size # 0 /\ cells <= MaxCells
      /\ data' = [Realloc(cells) EXCEPT ![size] = v]
      /\ max_size' = cells /\ size' = size + 1
      /\ done' = <<"push", NoVal>>
      /\ UNCHANGED up

\* darray_push, which doubles a full array first.
Push(v) ==
  LET cells == IF size >= max_size THEN 2 * max_size ELSE max_size
  IN  /\ up /\ max_size # 0 /\ cells <= MaxCells
      /\ data' = [Realloc(cells) EXCEPT ![size] = v]
      /\ max_size' = cells /\ size' = size + 1
      /\ done' = <<"push", NoVal>>
      /\ UNCHANGED up

\* ... and fails where twice the cells are none.
PushFails ==
  /\ up /\ max_size = 0
  /\ done' = <<"push failed", NoVal>>
  /\ UNCHANGED <<up, data, size, max_size>>

\* darray_pop.
Pop ==
  /\ up
  /\ size' = IF size > 0 THEN size - 1 ELSE 0
  /\ done' = <<"pop", IF size > 0 THEN data[size - 1] ELSE NoVal>>
  /\ UNCHANGED <<up, data, max_size>>

\* darray_set of an item.
Put(i, v) ==
  /\ up /\ i < size
  /\ data' = [data EXCEPT ![i] = v]
  /\ done' = <<"set", NoVal>>
  /\ UNCHANGED <<up, size, max_size>>

\* darray_get.
Get(i) ==
  /\ up
  /\ done' = <<"get", IF i < size THEN data[i] ELSE NoVal>>
  /\ UNCHANGED <<up, data, size, max_size>>

Next ==
  \/ \E n \in 0 .. MaxCells : Create(n) \/ Reserve(n) \/ \E v \in Vals : Resize(n, v)
  \/ Expand \/ Contract \/ Destroy
  \/ \E v \in Vals : Push(v)
  \/ PushFails \/ Pop
  \/ \E i \in Cells(MaxCells) : Get(i) \/ \E v \in Vals : Put(i, v)

Spec == Init /\ [][Next]_vars
-----------------------------------------------------------------------------
\* Whatever the order of growing, cutting, pushing and popping, the items lie
\* inside the memory that is allocated, each in a cell that was written.
InBounds ==
  /\ DOMAIN data = Cells(max_size)
  /\ size <= max_size
  /\ \A i \in Cells(size) : data[i] \in Vals

\* The array is the sequence of its items.
Items == INSTANCE ItemSeq WITH
  Lengths <- 1 .. MaxCells,
  items <- [i \in 1 .. size |-> data[i - 1]]
ImplementsItemSeq == Items!Spec
=============================================================================
