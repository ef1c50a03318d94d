-------------------------------- MODULE Line --------------------------------
(***************************************************************************)
(* What line editing promises the person who types: a text with a cursor   *)
(* in it, and the lines entered before, which can be visited and changed.  *)
(* The last entry stands for the line being typed.                         *)
(***************************************************************************)
EXTENDS Naturals, SequencesExt

CONSTANTS
  Letters, Space,   \* what is typed
  Words,            \* what TAB offers
  Room,             \* the longest line
  MaxEntries,       \* how many lines are kept
  ExitLines         \* lines that end the program

VARIABLES
  before, after,   \* the text to the left and to the right of the cursor
  entries, at,     \* the lines kept, and how far from the last the visited one is
  state,           \* "typing", "entered" or "ended"
  line             \* the line that was entered

vars == <<before, after, entries, at, state, line>>

Text == before \o after

Kept(lines, t) ==
  IF lines # <<>> /\ Last(lines) = t THEN lines
  ELSE Append(IF Len(lines) = MaxEntries THEN Tail(lines) ELSE lines, t)

Init ==
  /\ before = <<>> /\ after = <<>> /\ entries = <<<<>>>> /\ at = 0
  /\ state = "typing" /\ line = <<>>

Typing == state = "typing" /\ UNCHANGED <<entries, at, state, line>>

\* The text around the cursor becomes b and a.
Edit(b, a) == Typing /\ before' = b /\ after' = a

Type(c) == Len(Text) < Room /\ Edit(Append(before, c), after)
Left == before # <<>> /\ Edit(Front(before), <<Last(before)>> \o after)
Right == after # <<>> /\ Edit(Append(before, Head(after)), Tail(after))
Home == Edit(<<>>, Text)
End == Edit(Text, <<>>)
Delete == after # <<>> /\ Edit(before, Tail(after))
Backspace == before # <<>> /\ Edit(Front(before), after)
Clear == Edit(<<>>, <<>>)
CutRest == Edit(before, <<>>)

\* The blanks in front of the cursor go, and the word in front of them.
DeleteWord ==
  \E n \in 0 .. Len(before) :
    LET gone == SubSeq(before, n + 1, Len(before))
    IN  /\ n > 0 => before[n] = Space
        /\ \E m \in 0 .. Len(gone) :
             /\ Space \notin ToSet(SubSeq(gone, 1, m))
             /\ \A i \in m + 1 .. Len(gone) : gone[i] = Space
             /\ m = 0 => n = 0
        /\ Edit(SubSeq(before, 1, n), after)

\* The letters at both sides of the cursor change places; it moves on, but not
\* behind the last letter.
Swap ==
  LET moved == <<Head(after), Last(before)>>
  IN  /\ before # <<>> /\ after # <<>>
      /\ IF Len(after) = 1
           THEN Edit(Append(Front(before), moved[1]), <<moved[2]>>)
           ELSE Edit(Front(before) \o moved, Tail(after))

Complete(w) == Edit(w, <<>>)

\* A neighbouring entry is visited: the text is kept where it came from, and what is
\* loaded is cut by a letter when it fills the line.
Visit(to) ==
  LET kept == [entries EXCEPT ![Len(entries) - at] = Text]
      text == kept[Len(entries) - to]
  IN  /\ state = "typing"
      /\ Len(entries) > 1 /\ to \in 0 .. Len(entries) - 1
      /\ entries' = kept /\ at' = to
      /\ IF to = at
           THEN UNCHANGED <<before, after>>   \* there was no neighbour
           ELSE /\ before' = SubSeq(text, 1, IF Len(text) < Room THEN Len(text) ELSE Room - 1)
                /\ after' = <<>>
      /\ UNCHANGED <<state, line>>

\* The line is returned, without its entry or, at the end of the input and after a
\* byte that is no ASCII letter, with it.
Enter(lines) ==
  /\ state = "typing"
  /\ lines \in {entries, Front(entries)}
  /\ entries' = lines /\ line' = Text /\ state' = "entered"
  /\ UNCHANGED <<before, after, at>>

GiveUp(lines) ==
  /\ state = "typing"
  /\ lines \in {entries, Front(entries)}
  /\ entries' = lines /\ state' = "ended"
  /\ UNCHANGED <<before, after, at, line>>

\* The line is carried out and kept, and the next one begins.
Prompt ==
  /\ state = "entered" /\ line \notin ExitLines
  /\ entries' = Kept(IF line = <<>> THEN entries ELSE Kept(entries, line), <<>>)
  /\ before' = <<>> /\ after' = <<>> /\ at' = 0 /\ state' = "typing" /\ line' = <<>>

Exit ==
  /\ state = "entered" /\ line \in ExitLines
  /\ state' = "ended"
  /\ UNCHANGED <<before, after, entries, at, line>>

Restart ==
  /\ state = "ended"
  /\ before' = <<>> /\ after' = <<>> /\ entries' = <<<<>>>> /\ at' = 0
  /\ state' = "typing" /\ line' = <<>>

Next ==
  \/ \E c \in Letters : Type(c)
  \/ Left \/ Right \/ Home \/ End \/ Delete \/ Backspace \/ Clear \/ CutRest
  \/ DeleteWord \/ Swap
  \/ \E w \in Words : Complete(w)
  \/ \E to \in {at - 1, at, at + 1} : Visit(to)
  \/ \E lines \in {entries, Front(entries)} : Enter(lines) \/ GiveUp(lines)
  \/ Prompt \/ Exit \/ Restart

Spec == Init /\ [][Next]_vars
=============================================================================
