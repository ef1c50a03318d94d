------------------------------- MODULE DList -------------------------------
(***************************************************************************)
(* The doubly linked list of src/src/struct/list.c, pointer by pointer: the*)
(* store's free list, the children of a trie node and the buckets of a hash*)
(* map.  The allocator hands out the lowest address that is free.          *)
(***************************************************************************)
EXTENDS Integers, SequencesExt, FiniteSetsExt

CONSTANTS Vals, NoVal, MaxElems   \* MaxElems bounds the elements at a time

DListAssumption == MaxElems \in Nat \ {0} /\ NoVal \notin Vals

VARIABLES
  pc,       \* "none", "open", "cleared" and, while list_destroy runs, "freeing"
  elems,    \* the allocated elements, by address
  first, last, count,   \* struct list
  alive,    \* the values that are allocated and in the client's hands or the list's
  cur,      \* list_destroy: the element the loop is at
  done      \* the last completed call and the value it returned

vars == <<pc, elems, first, last, count, alive, cur, done>>

Addrs == 1 .. MaxElems
Null == 0
New == Min(Addrs \ DOMAIN elems)
Free(heap, addrs) == Restrict(heap, DOMAIN heap \ addrs)

Init ==
  /\ pc = "none" /\ elems = <<>> /\ alive = {}
  /\ first = Null /\ last = Null /\ count = 0 /\ cur = Null
  /\ done = <<"none", NoVal>>

\* list_create.
Create ==
  /\ pc = "none"
  /\ pc' = "open" /\ first' = Null /\ last' = Null /\ count' = 0
  /\ done' = <<"create", NoVal>>
  /\ UNCHANGED <<elems, alive, cur>>

\* The client adds a value it has just allocated, and frees the ones it gets back.
Adds(v) ==
  /\ pc = "open" /\ v \notin alive
  /\ DOMAIN elems # Addrs
  /\ alive' = alive \cup {v}
  /\ count' = count + 1
  /\ UNCHANGED <<pc, cur>>

\* Mutant: the new element is not linked back to the old last one.
PushForgetsPrev(v) ==
  /\ Adds(v)
  /\ elems' = [a \in DOMAIN elems \cup {New} |->
                 IF a = New THEN [prev |-> Null, next |-> Null, val |-> v]
                 ELSE IF a = last THEN [elems[a] EXCEPT !.next = New] ELSE elems[a]]
  /\ first' = IF last = Null THEN New ELSE first
  /\ last' = New
  /\ done' = <<"push", NoVal>>

\* list_push.
Push(v) ==
  /\ Adds(v)
  /\ elems' = [a \in DOMAIN elems \cup {New} |->
                 IF a = New THEN [prev |-> last, next |-> Null, val |-> v]
                 ELSE IF a = last THEN [elems[a] EXCEPT !.next = New] ELSE elems[a]]
  /\ first' = IF last = Null THEN New ELSE first
  /\ last' = New
  /\ done' = <<"push", NoVal>>

\* list_unshift.
Unshift(v) ==
  /\ Adds(v)
  /\ elems' = [a \in DOMAIN elems \cup {New} |->
                 IF a = New THEN [prev |-> Null, next |-> first, val |-> v]
                 ELSE IF a = first THEN [elems[a] EXCEPT !.prev = New] ELSE elems[a]]
  /\ first' = New
  /\ last' = IF first = Null THEN New ELSE last
  /\ done' = <<"unshift", NoVal>>

\* Mutant: the first of several elements goes and stays the first.
UnlinkLeavesFirst(e) ==
  /\ first' = IF e = first /\ e = last THEN Null ELSE first
  /\ last' = IF e = last THEN elems[e].prev ELSE last
  /\ elems' = [a \in DOMAIN elems \ {e} |->
                 [elems[a] EXCEPT !.next = IF a = elems[e].prev THEN elems[e].next ELSE elems[a].next,
                                  !.prev = IF a = elems[e].next THEN elems[e].prev ELSE elems[a].prev]]
  /\ count' = count - 1

\* list_remove of an element of the list.  Its four cases are one here: a null
\* neighbour is first or last, and nothing is written through it.
Unlink(e) ==
  /\ first' = IF e = first THEN elems[e].next ELSE first
  /\ last' = IF e = last THEN elems[e].prev ELSE last
  /\ elems' = [a \in DOMAIN elems \ {e} |->
                 [elems[a] EXCEPT !.next = IF a = elems[e].prev THEN elems[e].next ELSE elems[a].next,
                                  !.prev = IF a = elems[e].next THEN elems[e].prev ELSE elems[a].prev]]
  /\ count' = count - 1

RemoveElem(op, e) ==
  /\ pc = "open" /\ first # Null
  /\ Unlink(e)
  /\ alive' = alive \ {elems[e].val}
  /\ done' = <<op, elems[e].val>>
  /\ UNCHANGED <<pc, cur>>

RemoveAny(e) == RemoveElem("remove", e)
Pop == RemoveElem("pop", last)        \* list_pop
Shift == RemoveElem("shift", first)   \* list_shift

\* list_pop and list_shift of an empty list return NULL.
TakeNothing(op) ==
  /\ pc = "open" /\ first = Null
  /\ done' = <<op, NoVal>>
  /\ UNCHANGED <<pc, elems, first, last, count, alive, cur>>
-----------------------------------------------------------------------------
\* The i-th element from an end, following a link; Null behind a broken one.
Follow(from, link, n) ==
  LET at[i \in 1 .. n] ==
        IF i = 1 THEN from
        ELSE IF at[i - 1] \in DOMAIN elems THEN elems[at[i - 1]][link] ELSE Null
  IN  at

Chain == Follow(first, "next", count)
ValAt(a) == IF a \in DOMAIN elems THEN elems[a].val ELSE NoVal

\* list_clear: the values of the elements from first on are freed; the elements
\* stay, so that all a client can do next is list_destroy.
Clear ==
  /\ pc = "open"
  /\ pc' = "cleared"
  /\ alive' = alive \ {ValAt(Chain[i]) : i \in DOMAIN Chain}
  /\ done' = <<"clear", NoVal>>
  /\ UNCHANGED <<elems, first, last, count, cur>>

\* list_destroy: an element is freed when the loop has reached the next one.
StartDestroy ==
  /\ pc = "cleared"
  /\ pc' = "freeing" /\ cur' = first
  /\ UNCHANGED <<elems, first, last, count, alive, done>>

FreePrevious ==
  /\ pc = "freeing" /\ cur # Null
  /\ elems' = Free(elems, {elems[cur].prev})
  /\ cur' = elems[cur].next
  /\ UNCHANGED <<pc, first, last, count, alive, done>>

\* Mutant: the last element is kept.
FreeNotLast ==
  /\ pc = "freeing" /\ cur = Null
  /\ elems' = elems
  /\ pc' = "none" /\ first' = Null /\ last' = Null /\ count' = 0
  /\ done' = <<"destroy", NoVal>>
  /\ UNCHANGED <<alive, cur>>

FreeLast ==
  /\ pc = "freeing" /\ cur = Null
  /\ elems' = Free(elems, {last})
  /\ pc' = "none" /\ first' = Null /\ last' = Null /\ count' = 0
  /\ done' = <<"destroy", NoVal>>
  /\ UNCHANGED <<alive, cur>>

Next ==
  \/ Create
  \/ \E v \in Vals : Push(v) \/ Unshift(v)
  \/ \E e \in DOMAIN elems : RemoveAny(e)
  \/ Pop \/ Shift
  \/ \E op \in {"pop", "shift"} : TakeNothing(op)
  \/ Clear \/ StartDestroy \/ FreePrevious \/ FreeLast

Spec == Init /\ [][Next]_vars
-----------------------------------------------------------------------------
\* Between calls the list read backwards is the list read forwards, with as many
\* elements as it counts, and these are all the elements there are.
Linked ==
  pc \in {"open", "cleared"} =>
    /\ Range(Chain) = DOMAIN elems
    /\ Chain = Reverse(Follow(last, "prev", count))
    /\ count = Cardinality(DOMAIN elems)

\* The loop of list_destroy never stands on an element it has freed, and leaves
\* neither an element nor a value behind.
MemorySafe ==
  /\ cur # Null => cur \in DOMAIN elems
  /\ pc = "none" => elems = <<>> /\ alive = {}

\* The list is the sequence of its values.
Items == INSTANCE ItemSeq WITH
  Lengths <- {},
  items <- IF pc = "open" THEN [i \in DOMAIN Chain |-> ValAt(Chain[i])] ELSE <<>>
ImplementsItemSeq == Items!Spec
=============================================================================
