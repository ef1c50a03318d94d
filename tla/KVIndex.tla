------------------------------ MODULE KVIndex ------------------------------
(***************************************************************************)
(* What src/src/db/store/btree.h promises: an index from keys to values    *)
(* ("Indices on key/values").  A call adds its pair exactly once before it *)
(* returns, destroying the index drops all pairs, and nothing else changes *)
(* them.                                                                   *)
(***************************************************************************)
EXTENDS Naturals

CONSTANTS Inputs,       \* the <<key, value>> pairs clients add
          NoCall        \* no pair

VARIABLES pairs,        \* how many times the index holds each pair
          call,         \* the pair being added
          added         \* has the running call added it?

vars == <<pairs, call, added>>

Init == pairs = [in \in Inputs |-> 0] /\ call = NoCall /\ added = FALSE

Begin(in) == call = NoCall /\ call' = in /\ UNCHANGED <<pairs, added>>

Add ==
  /\ call # NoCall /\ ~added
  /\ pairs' = [pairs EXCEPT ![call] = @ + 1]
  /\ added' = TRUE
  /\ UNCHANGED call

Return == added /\ added' = FALSE /\ call' = NoCall /\ UNCHANGED pairs

Destroy == call = NoCall /\ pairs' = [in \in Inputs |-> 0] /\ UNCHANGED <<call, added>>

Next == (\E in \in Inputs : Begin(in)) \/ Add \/ Return \/ Destroy

Spec == Init /\ [][Next]_vars
=============================================================================
