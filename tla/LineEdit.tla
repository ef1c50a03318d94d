------------------------------ MODULE LineEdit ------------------------------
(***************************************************************************)
(* Line editing as src/lib/linenoise/linenoise.c does it for the command   *)
(* line, in a buffer of bytes, with the loop of src/src/repl/repl.c around *)
(* it.  A key stands for its escape sequences too.  malloc, the terminal   *)
(* and the drawing of the line do not fail here, and cannot be seen.       *)
(***************************************************************************)
EXTENDS Integers, SequencesExt, FiniteSetsExt

CONSTANTS
  Letters, Space,   \* what is typed, and the letter that ends words
  Zero, Junk,       \* the byte 0, and a byte of the buffer before the first line
  BufSize,          \* LINENOISE_MAX_LINE
  MaxHistory,       \* history_max_len
  Commands,         \* the table's words, in the order it offers them
  ExitLines         \* repl_wants_exit

\* The words are text and fit in the buffer: completeLine takes their length for that
\* of the line.
LineEditAssumption ==
  /\ Space \in Letters /\ {Zero, Junk} \cap Letters = {}
  /\ BufSize \in Nat \ {0, 1} /\ MaxHistory \in Nat \ {0, 1}
  /\ Commands \in Seq(Seq(Letters)) /\ \A i \in DOMAIN Commands : Len(Commands[i]) < BufSize - 1

VARIABLES
  pc,         \* "key": a key is read; "accepted": the key that ended a completion is to
              \* be handled; "escape": the bytes behind ESC are read; "tab": the
              \* completions are shown; "returned" and "ended"
  buf, len, pos,           \* linenoiseState: the buffer, the line's length, the cursor
  history, history_index,  \* the entries, and the visited one counted from the last
  shown,      \* completeLine's i, from 0
  hup,        \* has the terminal gone away?
  line        \* what linenoise returned last

vars == <<pc, buf, len, pos, history, history_index, shown, hup, line>>

buflen == BufSize - 1   \* linenoiseEdit keeps a byte for the terminator

\* Memory: n bytes moved, a text written, the text up to the first zero.
Moved(b, dst, src, n) ==
  [i \in DOMAIN b |-> IF i \in dst .. dst + n - 1 THEN b[i - dst + src] ELSE b[i]]
Written(b, at, t) ==
  [i \in DOMAIN b |-> IF i - at + 1 \in DOMAIN t THEN t[i - at + 1] ELSE b[i]]
TextOf(b) ==
  LET n == Min({i \in DOMAIN b : b[i] = Zero})
  IN  [i \in 1 .. n |-> b[i - 1]]

\* linenoiseHistoryAdd to entries h.
HistoryAdd(h, t) ==
  IF h # <<>> /\ Last(h) = t THEN h
  ELSE Append(IF Len(h) = MaxHistory THEN Tail(h) ELSE h, t)

\* linenoise's local buffer when linenoiseEdit begins.
NewBuf == [i \in 0 .. BufSize - 1 |-> IF i = 0 THEN Zero ELSE Junk]

Init ==
  /\ pc = "key" /\ buf = NewBuf
  /\ len = 0 /\ pos = 0
  /\ history = HistoryAdd(<<>>, <<>>) /\ history_index = 0
  /\ shown = 0 /\ hup = FALSE /\ line = <<>>

\* A key is handled, one read now or the one that ended a completion; the buffer, the
\* length and the cursor are what it may change.
Handles == pc \in {"key", "accepted"} /\ ~hup
Key == Handles /\ pc' = "key"
Edits(b, n, p) ==
  /\ buf' = b /\ len' = n /\ pos' = p
  /\ UNCHANGED <<history, history_index, shown, hup, line>>
Moves(p) == Edits(buf, len, p)

\* linenoiseEditInsert.
Insert(c) ==
  /\ Key /\ len < buflen
  /\ Edits(Written(Written(Moved(buf, pos + 1, pos, len - pos), pos, <<c>>), len + 1, <<Zero>>),
           len + 1, pos + 1)

\* The keys below are control characters, or escape sequences, whose bytes are read
\* first.
Sequence == pc \in {"key", "accepted", "escape"} /\ ~hup /\ pc' = "key"

MoveLeft == Sequence /\ pos > 0 /\ Moves(pos - 1)
MoveRight == Sequence /\ pos # len /\ Moves(pos + 1)
MoveHome == Sequence /\ Moves(0)
MoveEnd == Sequence /\ Moves(len)

\* Mutant: the line keeps its old last byte.
DeleteWithoutEnd ==
  /\ Sequence /\ len > 0 /\ pos < len
  /\ Edits(Moved(buf, pos, pos + 1, len - pos - 1), len - 1, pos)

\* linenoiseEditDelete, for Ctrl-D too when the line is not empty.
Delete ==
  /\ Sequence /\ len > 0 /\ pos < len
  /\ Edits(Written(Moved(buf, pos, pos + 1, len - pos - 1), len - 1, <<Zero>>), len - 1, pos)

\* linenoiseEditBackspace.
Backspace ==
  /\ Key /\ pos > 0 /\ len > 0
  /\ Edits(Written(Moved(buf, pos - 1, pos, len - pos), len - 1, <<Zero>>), len - 1, pos - 1)

\* linenoiseEditDeletePrevWord: the cursor goes back over blanks, then over a word.
DeletePrevWord ==
  LET at(i) == buf[i - 1] = Space
      blanks == Max({0} \cup {i \in 1 .. pos : ~at(i)})
      start == Max({0} \cup {i \in 1 .. blanks : at(i)})
  IN  /\ Key
      /\ Edits(Moved(buf, start, pos, len - pos + 1), len - (pos - start), start)

\* Ctrl-T.
SwapChars ==
  /\ Key /\ pos > 0 /\ pos < len
  /\ Edits(Written(buf, pos - 1, <<buf[pos], buf[pos - 1]>>), len,
           IF pos # len - 1 THEN pos + 1 ELSE pos)

\* Ctrl-U and Ctrl-K.
DeleteLine == Key /\ Edits(Written(buf, 0, <<Zero>>), 0, 0)
DeleteToEnd == Key /\ Edits(Written(buf, pos, <<Zero>>), pos, pos)

\* Mutant: what was typed is not kept.
HistoryNextForgets(dir) ==
  LET to == history_index + dir
      text == history[Len(history) - to]
      loaded == SubSeq(text, 1, Min({Len(text), buflen - 1}))
  IN  /\ Sequence /\ Len(history) > 1
      /\ history' = history
      /\ IF to \notin 0 .. Len(history) - 1
           THEN UNCHANGED <<buf, len, pos, history_index>>
           ELSE /\ history_index' = to
                /\ buf' = Written(buf, 0, Append(loaded, Zero))
                /\ len' = Len(loaded) /\ pos' = Len(loaded)
      /\ UNCHANGED <<shown, hup, line>>

\* linenoiseEditHistoryNext: the entry the cursor leaves gets the text of the buffer,
\* and the next one is copied into it.  strncpy may use the whole buffer and has its
\* last byte overwritten.
HistoryNext(dir) ==
  LET to == history_index + dir
      text == history[Len(history) - to]
      loaded == SubSeq(text, 1, Min({Len(text), buflen - 1}))
  IN  /\ Sequence /\ Len(history) > 1
      /\ history' = [history EXCEPT ![Len(history) - history_index] = TextOf(buf)]
      /\ IF to \notin 0 .. Len(history) - 1
           THEN UNCHANGED <<buf, len, pos, history_index>>
           ELSE /\ history_index' = to
                /\ buf' = Written(buf, 0, Append(loaded, Zero))
                /\ len' = Len(loaded) /\ pos' = Len(loaded)
      /\ UNCHANGED <<shown, hup, line>>

\* Keys and sequences that mean nothing, Ctrl-L, and those that find nothing to do.
Ignored == Sequence /\ Moves(pos)
-----------------------------------------------------------------------------
\* The places in the table of what it offers for the text typed (KeysBelow in module
\* Trie), and its k-th offer, counted from 0.
Offers == {i \in DOMAIN Commands :
             IsPrefix(TextOf(buf), Commands[i]) \/ IsPrefix(Commands[i], TextOf(buf))}
Offer(k) == Commands[CHOOSE i \in Offers : Cardinality({j \in Offers : j < i}) = k]

\* completeLine: TAB shows the first offer, the next one, the text again, ...
Tab ==
  /\ pc = "key" /\ ~hup /\ Offers # {}
  /\ pc' = "tab" /\ shown' = 0
  /\ UNCHANGED <<buf, len, pos, history, history_index, hup, line>>

NextOffer ==
  /\ pc = "tab" /\ ~hup
  /\ shown' = (shown + 1) % (Cardinality(Offers) + 1)
  /\ UNCHANGED <<pc, buf, len, pos, history, history_index, hup, line>>

\* ESC leaves the text as it was, and is then read as the beginning of a sequence.
CancelOffer ==
  /\ pc = "tab" /\ ~hup
  /\ pc' = "escape" /\ shown' = 0
  /\ UNCHANGED <<buf, len, pos, history, history_index, hup, line>>

\* Any other key takes the offer.
AcceptOffer ==
  /\ pc = "tab" /\ ~hup
  /\ pc' = "accepted" /\ shown' = 0
  /\ IF shown < Cardinality(Offers)
       THEN /\ buf' = Written(buf, 0, Append(Offer(shown), Zero))
            /\ len' = Len(Offer(shown)) /\ pos' = len'
       ELSE UNCHANGED <<buf, len, pos>>
  /\ UNCHANGED <<history, history_index, hup, line>>
-----------------------------------------------------------------------------
\* linenoiseEdit returns, and linenoise copies the buffer.
Returns(h) ==
  /\ pc' = "returned" /\ line' = TextOf(buf) /\ history' = h /\ shown' = 0
  /\ UNCHANGED <<buf, len, pos, history_index>>

Enter == Handles /\ Returns(Front(history)) /\ UNCHANGED hup

\* The terminal goes away, and every read from now on finds the end of its input; the
\* entry for the line stays in the history.
HangUp ==
  /\ pc \in {"key", "tab", "escape"}
  /\ hup' = TRUE
  /\ Returns(history)

\* A byte above 127 that ends a completion is a negative number, which is taken for
\* the end of the input.
HighByte == pc = "accepted" /\ ~hup /\ Returns(history) /\ UNCHANGED hup

\* Ctrl-C, and Ctrl-D on an empty line: linenoise returns NULL, and repl ends.
Ends(h) ==
  /\ Handles
  /\ pc' = "ended" /\ history' = h
  /\ UNCHANGED <<buf, len, pos, history_index, shown, hup, line>>
CtrlC == Ends(history)
CtrlD == len = 0 /\ Ends(Front(history))

\* The loop of repl: a line with something in it is kept and carried out (module
\* Commands); linenoise is called again and makes an entry for the next line.
Loop ==
  /\ pc = "returned" /\ line \notin ExitLines
  /\ history' = HistoryAdd(IF line = <<>> THEN history ELSE HistoryAdd(history, line), <<>>)
  /\ pc' = "key"
  /\ buf' = NewBuf /\ len' = 0 /\ pos' = 0
  /\ history_index' = 0 /\ line' = <<>>
  /\ UNCHANGED <<shown, hup>>

Exit ==
  /\ pc = "returned" /\ line \in ExitLines
  /\ pc' = "ended"
  /\ UNCHANGED <<buf, len, pos, history, history_index, shown, hup, line>>

\* The program is started again.
Restart ==
  /\ pc = "ended"
  /\ pc' = "key"
  /\ buf' = NewBuf /\ len' = 0 /\ pos' = 0
  /\ history' = HistoryAdd(<<>>, <<>>) /\ history_index' = 0
  /\ shown' = 0 /\ hup' = FALSE /\ line' = <<>>

Next ==
  \/ \E c \in Letters : Insert(c)
  \/ MoveLeft \/ MoveRight \/ MoveHome \/ MoveEnd
  \/ Delete \/ Backspace \/ DeletePrevWord \/ SwapChars \/ DeleteLine \/ DeleteToEnd
  \/ \E dir \in {-1, 1} : HistoryNext(dir)
  \/ Ignored
  \/ Tab \/ NextOffer \/ CancelOffer \/ AcceptOffer
  \/ Enter \/ HangUp \/ HighByte \/ CtrlC \/ CtrlD
  \/ Loop \/ Exit \/ Restart

Spec == Init /\ [][Next]_vars
-----------------------------------------------------------------------------
\* The cursor is in the line, the line in the buffer with its terminator, every byte
\* of it was typed, and while it is edited the visited entry exists.
Safe ==
  /\ 0 <= pos /\ pos <= len /\ len <= buflen
  /\ buf[len] = Zero /\ TextOf(buf) = [i \in 1 .. len |-> buf[i - 1]]
  /\ \A i \in 1 .. len : buf[i - 1] \in Letters
  /\ pc \in {"key", "accepted", "escape", "tab"} => history_index \in 0 .. Len(history) - 1
  /\ Len(history) <= MaxHistory
  /\ pc = "tab" => shown <= Cardinality(Offers)

\* The buffer is a text with a cursor.
Typed == INSTANCE Line WITH
  Words <- ToSet(Commands), Room <- buflen, MaxEntries <- MaxHistory,
  before <- [i \in 1 .. pos |-> buf[i - 1]],
  after <- [i \in 1 .. len - pos |-> buf[pos + i - 1]],
  entries <- history, at <- history_index,
  state <- CASE pc = "returned" -> "entered" [] pc = "ended" -> "ended" [] OTHER -> "typing"
ImplementsLine == Typed!Spec
=============================================================================
