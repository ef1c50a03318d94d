-------------------------------- MODULE Text --------------------------------
(***************************************************************************)
(* What an sds string promises its clients: a sequence of bytes, zeros     *)
(* among them, which they append to, replace, cut and split.               *)
(***************************************************************************)
EXTENDS Integers, SequencesExt

CONSTANTS
  Zero,                 \* the byte 0
  Pieces, Separators,   \* texts that clients pass,
  Trimmed,              \* a set of bytes,
  Counts, Indices       \* lengths and places

VARIABLES
  text,
  done    \* the last completed call, what it was given and what it returned

vars == <<text, done>>

Returns(op, arg, res) == done' = <<op, arg, res>>

Init == text = <<>> /\ done = <<"none", <<>>, <<>>>>

Become(op, t) == text' = t /\ Returns(op, t, <<>>)
Cat(t) == text' = text \o t /\ Returns("cat", t, <<>>)
Keep(op) == text' = text /\ Returns(op, <<>>, <<>>)
Empty(op) == text' = <<>> /\ Returns(op, <<>>, <<>>)

GrowZero(n) ==
  /\ text' = text \o [i \in 1 .. n - Len(text) |-> Zero]
  /\ Returns("growzero", n, <<>>)

Cut(n) == text' = SubSeq(text, 1, Len(text) - n) /\ Returns("cut", n, <<>>)

\* Up to the first zero, if there is one.
Measure ==
  /\ IF Contains(text, Zero)
       THEN \E n \in DOMAIN text :
              /\ text[n] = Zero /\ ~Contains(SubSeq(text, 1, n - 1), Zero)
              /\ text' = SubSeq(text, 1, n - 1)
       ELSE text' = text
  /\ Returns("updatelen", <<>>, <<>>)

\* Trimming takes zeros away too, whatever bytes it was asked to take.
Trim ==
  LET goes(i) == text[i] \in Trimmed \cup {Zero}
  IN  /\ \/ /\ \A i \in DOMAIN text : goes(i)
            /\ text' = <<>>
         \/ \E a, b \in DOMAIN text :
              /\ ~goes(a) /\ ~goes(b)
              /\ \A i \in DOMAIN text : i < a \/ i > b => goes(i)
              /\ text' = SubSeq(text, a, b)
      /\ Returns("trim", <<>>, <<>>)

\* From one index to another, counted from 0 or, below it, from the end.  Both are
\* brought inside from the left: a range that ends before the text keeps a byte.
Slice(from, to) ==
  LET at(i) == IF i >= 0 THEN i ELSE IF Len(text) + i >= 0 THEN Len(text) + i ELSE 0
      last == IF at(to) < Len(text) THEN at(to) ELSE Len(text) - 1
  IN  /\ text' = SubSeq(text, at(from) + 1, last + 1)
      /\ Returns("range", <<from, to>>, <<>>)

\* The parts put together again are the text, and none holds the separator.
Split(sep) ==
  LET parts == done'[3]
      joined == FoldLeft(LAMBDA t, p : t \o sep \o p, Head(parts), Tail(parts))
  IN  /\ text' = text
      /\ done' = <<"split", sep, parts>>
      /\ IF text = <<>> THEN parts = <<>> ELSE parts # <<>> /\ joined = text
      /\ \A i \in DOMAIN parts : ~\E a, b \in DOMAIN parts[i] : SubSeq(parts[i], a, b) = sep

Next ==
  \/ \E t \in Pieces : Cat(t) \/ \E op \in {"new", "cpy"} : Become(op, t)
  \/ \E op \in {"make room", "remove free", "dup"} : Keep(op)
  \/ \E op \in {"clear", "free"} : Empty(op)
  \/ \E n \in Counts : GrowZero(n) \/ Cut(n)
  \/ Measure \/ Trim
  \/ \E from, to \in Indices : Slice(from, to)
  \/ \E sep \in Separators : Split(sep)

Spec == Init /\ [][Next]_vars
=============================================================================
