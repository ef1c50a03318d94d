------------------------------ MODULE Brackets ------------------------------
(***************************************************************************)
(* What the JSON parser promises: it follows the brackets, and makes a     *)
(* token of each bracketed part, string and primitive.                     *)
(***************************************************************************)
EXTENDS Naturals, SequencesExt

CONSTANT Types   \* "object" and "array"

VARIABLES
  open,     \* the types of the parts that are open, the innermost last
  tokens,   \* how many tokens there are
  result    \* of the last call: "none" while one runs, "part", "invalid", "full" and "done"

vars == <<open, tokens, result>>

Init == open = <<>> /\ tokens = 0 /\ result = "done"

Call == result # "none" /\ result' = "none" /\ UNCHANGED <<open, tokens>>

Running == result = "none" /\ result' = "none"
Open(t) == Running /\ open' = Append(open, t) /\ tokens' = tokens + 1
Leaf == Running /\ open' = open /\ tokens' = tokens + 1
Close(t) == Running /\ open # <<>> /\ Last(open) = t /\ open' = Front(open) /\ tokens' = tokens

Return(how) == result = "none" /\ result' = how /\ UNCHANGED <<open, tokens>>
Fail == Return("invalid") \/ Return("full")
AtEnd == Return(IF open = <<>> THEN "done" ELSE "part")

\* A string that is cut is a part too.
CutString == Return("part")

Next ==
  \/ Call \/ Leaf
  \/ \E t \in Types : Open(t) \/ Close(t)
  \/ Fail \/ AtEnd \/ CutString

Spec == Init /\ [][Next]_vars
=============================================================================
