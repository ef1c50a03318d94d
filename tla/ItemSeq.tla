------------------------------ MODULE ItemSeq ------------------------------
(***************************************************************************)
(* What the containers in order promise their clients: a sequence of       *)
(* items.  list.c implements it by linked elements (module DList),         *)
(* darray.c by an array that grows (module DArray).                        *)
(***************************************************************************)
EXTENDS Naturals, SequencesExt

CONSTANTS
  Vals, NoVal,   \* what a container holds, and the null pointer
  Lengths        \* the lengths clients resize to

VARIABLES
  items,    \* the items, first to last
  done      \* the last completed call and the value it returned

vars == <<items, done>>

Returns(op, val) == done' = <<op, val>>

Init == items = <<>> /\ done = <<"none", NoVal>>

Push(v) == items' = Append(items, v) /\ Returns("push", NoVal)
Unshift(v) == items' = <<v>> \o items /\ Returns("unshift", NoVal)

Pop == items # <<>> /\ items' = Front(items) /\ Returns("pop", Last(items))
Shift == items # <<>> /\ items' = Tail(items) /\ Returns("shift", Head(items))
RemoveItem(i) == items' = RemoveAt(items, i) /\ Returns("remove", items[i])
TakeNothing(op) == items = <<>> /\ items' = items /\ Returns(op, NoVal)

Get(i) == items' = items /\ Returns("get", items[i])
GetNothing == items' = items /\ Returns("get", NoVal)
Set(i, v) == items' = [items EXCEPT ![i] = v] /\ Returns("set", NoVal)
Resize(n, v) ==
  /\ items' = [i \in 1 .. n |-> IF i <= Len(items) THEN items[i] ELSE v]
  /\ Returns("resize", NoVal)

\* A call that could not be served, or that only moves memory.
Keep(op) == items' = items /\ Returns(op, NoVal)
Empty(op) == items' = <<>> /\ Returns(op, NoVal)

Next ==
  \/ \E v \in Vals : Push(v) \/ Unshift(v)
  \/ Pop \/ Shift
  \/ \E i \in DOMAIN items : RemoveItem(i) \/ Get(i) \/ \E v \in Vals : Set(i, v)
  \/ \E op \in {"pop", "shift"} : TakeNothing(op)
  \/ GetNothing
  \/ \E n \in Lengths, v \in Vals : Resize(n, v)
  \/ \E op \in {"reserve", "push failed"} : Keep(op)
  \/ \E op \in {"create", "clear", "destroy"} : Empty(op)

Spec == Init /\ [][Next]_vars
=============================================================================
