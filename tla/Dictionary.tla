---------------------------- MODULE Dictionary ----------------------------
(***************************************************************************)
(* What the trie of src/src/struct promises: a table of words, none of     *)
(* which begins with another.  A word stays what it was when it is added   *)
(* first; a longer word takes the place of its beginnings.                 *)
(***************************************************************************)
EXTENDS Naturals, FiniteSets, SequencesExt

CONSTANTS Words, Vals, NoVal

VARIABLES
  table,    \* the value of each word in the table
  done      \* the last completed call, its word and what it returned

vars == <<table, done>>

Returns(op, w, res) == done' = <<op, w, res>>

Init == table = <<>> /\ done = <<"none", <<>>, NoVal>>

Add(w, v) ==
  /\ Returns("add", w, v)
  /\ table' = IF \E other \in DOMAIN table : IsPrefix(w, other)
                THEN table
                ELSE [x \in {y \in DOMAIN table : ~IsPrefix(y, w)} \cup {w} |->
                        IF x = w THEN v ELSE table[x]]

Get(w) ==
  /\ Returns("get", w, IF w \in DOMAIN table THEN table[w] ELSE NoVal)
  /\ table' = table

\* The words a typed text may stand for: those that begin with it, and one that
\* the text begins with, each once.
Offered(text) == {w \in DOMAIN table : IsPrefix(text, w) \/ IsPrefix(w, text)}
Offer(text) ==
  LET words == done'[3]
  IN  /\ done' = <<"keys", text, words>>
      /\ ToSet(words) = Offered(text) /\ Len(words) = Cardinality(Offered(text))
      /\ table' = table

Clear(op) == table' = <<>> /\ Returns(op, <<>>, NoVal)

Next ==
  \/ \E w \in Words : Get(w) \/ Offer(w) \/ \E v \in Vals : Add(w, v)
  \/ \E op \in {"create", "destroy"} : Clear(op)

Spec == Init /\ [][Next]_vars
=============================================================================
