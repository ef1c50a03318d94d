----------------------------- MODULE Bindings -----------------------------
(***************************************************************************)
(* What a hash map promises: every key has a stack of values.  hmap_insert *)
(* shadows the value a key has, hmap_set replaces it, hmap_remove uncovers *)
(* the one below.                                                          *)
(***************************************************************************)
EXTENDS SequencesExt

CONSTANTS Keys, Vals, NoVal

VARIABLES
  stacks,   \* the values of each key, the newest first
  done      \* the last completed call, its key and the value it returned

vars == <<stacks, done>>

Returns(op, k, val) == done' = <<op, k, val>>
Top(k) == IF stacks[k] = <<>> THEN NoVal ELSE Head(stacks[k])
Below(k) == IF stacks[k] = <<>> THEN <<>> ELSE Tail(stacks[k])

NoStacks == [k \in Keys |-> <<>>]
Init == stacks = NoStacks /\ done = <<"none", NoVal, NoVal>>

Clear(op) == stacks' = NoStacks /\ Returns(op, NoVal, NoVal)
Insert(k, v) == stacks' = [stacks EXCEPT ![k] = <<v>> \o @] /\ Returns("insert", k, v)
Set(k, v) == stacks' = [stacks EXCEPT ![k] = <<v>> \o Below(k)] /\ Returns("set", k, v)
RemoveKey(k) == stacks' = [stacks EXCEPT ![k] = Below(k)] /\ Returns("remove", k, Top(k))
Get(k) == stacks' = stacks /\ Returns("get", k, Top(k))

\* Resizing turns the stacks over: only keys with one value keep what they answer.
Resize == stacks' = [k \in Keys |-> Reverse(stacks[k])] /\ Returns("resize", NoVal, NoVal)

Next ==
  \/ \E op \in {"create", "destroy"} : Clear(op)
  \/ \E k \in Keys : RemoveKey(k) \/ Get(k) \/ \E v \in Vals : Insert(k, v) \/ Set(k, v)
  \/ Resize

Spec == Init /\ [][Next]_vars
=============================================================================
