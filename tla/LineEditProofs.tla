--------------------------- MODULE LineEditProofs ---------------------------
(***************************************************************************)
(* Theorems about module LineEdit, for every alphabet, every table of      *)
(* words that fit, and buffers and histories of every size.                *)
(***************************************************************************)
EXTENDS LineEdit, SequenceLemmas

\* What a byte of the buffer can be, and a buffer.
Bytes == Letters \cup {Zero, Junk}
Buffers == [0 .. BufSize - 1 -> Bytes]

\* A buffer b holds a text of n letters and its terminator.
HoldsText(b, n) ==
  /\ b \in Buffers /\ n \in 0 .. buflen
  /\ b[n] = Zero /\ \A i \in 0 .. n - 1 : b[i] \in Letters

\* The line being edited is a text in the buffer, with the cursor in it.
InBuffer == HoldsText(buf, len) /\ pos \in 0 .. len

\* The entries are texts; while a line is edited there is one for it, and the visited
\* one exists.
Kept ==
  /\ history \in Seq(Seq(Letters)) /\ Len(history) <= MaxHistory
  /\ history_index \in Nat /\ line \in Seq(Letters)
  /\ pc \in {"key", "accepted", "escape", "tab"} => history_index < Len(history)

\* The completion shown is one of those offered.
Showing ==
  /\ pc \in {"key", "accepted", "escape", "tab", "returned", "ended"}
  /\ shown \in Nat
  /\ pc = "tab" => shown <= Cardinality(Offers)

\* The inductive invariant.
IInv == InBuffer /\ Kept /\ Showing
-----------------------------------------------------------------------------
\* There is room for a letter and the terminator.
LEMMA Sizes ==
  ASSUME LineEditAssumption
  PROVE  /\ BufSize \in Nat /\ BufSize >= 2 /\ buflen \in Nat /\ buflen = BufSize - 1 /\ buflen >= 1
         /\ MaxHistory \in Nat /\ MaxHistory >= 2
         /\ Zero \notin Letters /\ Space \in Letters
  BY DEF LineEditAssumption, buflen

\* The text up to the first zero is the line.
LEMMA TextOfText ==
  ASSUME LineEditAssumption, NEW b, NEW n, HoldsText(b, n)
  PROVE  /\ TextOf(b) = [i \in 1 .. n |-> b[i - 1]]
         /\ TextOf(b) \in Seq(Letters) /\ Len(TextOf(b)) = n
<1> DEFINE Z == {i \in DOMAIN b : b[i] = Zero}
<1>1. /\ n \in Nat /\ n <= buflen /\ b \in Buffers /\ DOMAIN b = 0 .. BufSize - 1
      /\ b[n] = Zero /\ \A i \in 0 .. n - 1 : b[i] \in Letters
    BY Sizes DEF HoldsText, Buffers
<1>2. n \in Z /\ Z \in SUBSET Nat
    BY <1>1, Sizes
<1>3. Min(Z) \in Z /\ Min(Z) <= n
    BY <1>2, MinIsLeast
<1>4. ~ (Min(Z) < n)
    BY <1>1, <1>3, Sizes
<1>5. Min(Z) = n
    BY <1>1, <1>2, <1>3, <1>4
<1>6. TextOf(b) = [i \in 1 .. n |-> b[i - 1]]
    BY <1>5 DEF TextOf
<1>7. \A i \in 1 .. n : b[i - 1] \in Letters
    BY <1>1
<1> QED
    BY <1>1, <1>6, <1>7

\* What moving and writing bytes does to each of them.
LEMMA MovedBytes ==
  ASSUME LineEditAssumption, NEW b \in Buffers, NEW dst \in Nat, NEW src \in Nat, NEW n \in Nat,
         src + n <= BufSize
  PROVE  /\ Moved(b, dst, src, n) \in Buffers
         /\ \A i \in 0 .. BufSize - 1 :
              Moved(b, dst, src, n)[i] = IF dst <= i /\ i < dst + n THEN b[i - dst + src] ELSE b[i]
<1>1. DOMAIN b = 0 .. BufSize - 1 /\ \A i \in 0 .. BufSize - 1 : b[i] \in Bytes
    BY DEF Buffers
<1>2. \A i \in 0 .. BufSize - 1 : i \in dst .. dst + n - 1 => i - dst + src \in 0 .. BufSize - 1
    BY Sizes
<1>3. \A i \in 0 .. BufSize - 1 : i \in dst .. dst + n - 1 <=> dst <= i /\ i < dst + n
    BY Sizes
<1>4. \A i \in 0 .. BufSize - 1 :
        Moved(b, dst, src, n)[i] = IF dst <= i /\ i < dst + n THEN b[i - dst + src] ELSE b[i]
    BY <1>1, <1>3 DEF Moved
<1> QED
    BY <1>1, <1>2, <1>3, <1>4 DEF Moved, Buffers

\* memcpy into the buffer writes the text's letters and no others.
LEMMA WrittenBytes ==
  ASSUME LineEditAssumption, NEW b \in Buffers, NEW at \in Nat, NEW t \in Seq(Bytes)
  PROVE  /\ Written(b, at, t) \in Buffers
         /\ \A i \in 0 .. BufSize - 1 :
              Written(b, at, t)[i] = IF at <= i /\ i < at + Len(t) THEN t[i - at + 1] ELSE b[i]
<1>1. DOMAIN b = 0 .. BufSize - 1 /\ \A i \in 0 .. BufSize - 1 : b[i] \in Bytes
    BY DEF Buffers
<1>2. DOMAIN t = 1 .. Len(t) /\ Len(t) \in Nat /\ \A i \in 1 .. Len(t) : t[i] \in Bytes
    OBVIOUS
<1>3. \A i \in 0 .. BufSize - 1 : i - at + 1 \in DOMAIN t <=> at <= i /\ i < at + Len(t)
    BY <1>2, Sizes
<1>4. \A i \in 0 .. BufSize - 1 :
        Written(b, at, t)[i] = IF at <= i /\ i < at + Len(t) THEN t[i - at + 1] ELSE b[i]
    BY <1>1, <1>3 DEF Written
<1>5. \A i \in 0 .. BufSize - 1 :
        (IF i - at + 1 \in DOMAIN t THEN t[i - at + 1] ELSE b[i]) \in Bytes
    BY <1>1, <1>2
<1>6. Written(b, at, t) \in Buffers
    BY <1>1, <1>5 DEF Written, Buffers
<1> QED
    BY <1>4, <1>6

\* One byte written.
LEMMA WrittenByte ==
  ASSUME LineEditAssumption, NEW b \in Buffers, NEW at \in Nat, NEW c \in Bytes
  PROVE  /\ Written(b, at, <<c>>) \in Buffers
         /\ \A i \in 0 .. BufSize - 1 : Written(b, at, <<c>>)[i] = IF i = at THEN c ELSE b[i]
<1>1. <<c>> \in Seq(Bytes) /\ Len(<<c>>) = 1 /\ <<c>>[1] = c
    OBVIOUS
<1>2. /\ Written(b, at, <<c>>) \in Buffers
      /\ \A i \in 0 .. BufSize - 1 :
           Written(b, at, <<c>>)[i] = IF at <= i /\ i < at + Len(<<c>>) THEN <<c>>[i - at + 1] ELSE b[i]
    BY <1>1, WrittenBytes
<1>3. \A i \in 0 .. BufSize - 1 : at <= i /\ i < at + 1 <=> i = at
    BY Sizes
<1> QED
    BY <1>1, <1>2, <1>3
-----------------------------------------------------------------------------
(* What each key leaves in the buffer. *)

\* linenoiseEditInsert opens a gap for the letter and moves the terminator along.
LEMMA InsertBytes ==
  ASSUME LineEditAssumption, InBuffer, NEW c \in Letters, Insert(c)
  PROVE  /\ HoldsText(buf', len') /\ pos' \in 0 .. len'
         /\ len' = len + 1 /\ pos' = pos + 1
         /\ \A i \in 0 .. len : buf'[i] = IF i < pos THEN buf[i] ELSE IF i = pos THEN c ELSE buf[i - 1]
<1> DEFINE m == Moved(buf, pos + 1, pos, len - pos)
           w == Written(m, pos, <<c>>)
<1>1. /\ len \in Nat /\ pos \in Nat /\ pos <= len /\ len < buflen
      /\ buf \in Buffers /\ \A i \in 0 .. len - 1 : buf[i] \in Letters
    BY Sizes DEF InBuffer, HoldsText, Insert
<1>2. /\ m \in Buffers
      /\ \A i \in 0 .. BufSize - 1 :
           m[i] = IF pos + 1 <= i /\ i < len + 1 THEN buf[i - 1] ELSE buf[i]
  <2>1. len - pos \in Nat /\ pos + (len - pos) <= BufSize /\ pos + 1 \in Nat
      BY <1>1, Sizes
  <2>2. /\ m \in Buffers
        /\ \A i \in 0 .. BufSize - 1 :
             m[i] = IF pos + 1 <= i /\ i < pos + 1 + (len - pos) THEN buf[i - (pos + 1) + pos] ELSE buf[i]
      BY <1>1, <2>1, MovedBytes
  <2>3. \A i \in 0 .. BufSize - 1 : i - (pos + 1) + pos = i - 1
      BY <1>1, Sizes
  <2>4. pos + 1 + (len - pos) = len + 1
      BY <1>1
  <2> HIDE DEF m
  <2> QED
      BY <2>2, <2>3, <2>4
<1> HIDE DEF m
<1>3. /\ w \in Buffers
      /\ \A i \in 0 .. BufSize - 1 : w[i] = IF i = pos THEN c ELSE m[i]
  <2>1. m \in Buffers /\ pos \in Nat /\ c \in Bytes
      BY <1>1, <1>2 DEF Bytes
  <2> QED
      BY <2>1, WrittenByte, SMTT(60)
<1> HIDE DEF w
<1>4. /\ buf' \in Buffers
      /\ \A i \in 0 .. BufSize - 1 : buf'[i] = IF i = len + 1 THEN Zero ELSE w[i]
  <2>1. len + 1 \in Nat /\ Zero \in Bytes
      BY <1>1 DEF Bytes
  <2>2. buf' = Written(w, len + 1, <<Zero>>)
      BY DEF Insert, Edits, w, m
  <2> QED
      BY <1>3, <2>1, <2>2, WrittenByte, SMTT(60)
<1>5. len' = len + 1 /\ pos' = pos + 1
    BY DEF Insert, Edits
<1>6. \A i \in 0 .. len : buf'[i] = IF i < pos THEN buf[i] ELSE IF i = pos THEN c ELSE buf[i - 1]
    BY <1>1, <1>2, <1>3, <1>4, Sizes
<1>7. buf'[len + 1] = Zero
    BY <1>1, <1>4, Sizes
<1>8. \A i \in 0 .. len + 1 - 1 : buf'[i] \in Letters
    BY <1>1, <1>6
<1>9. len + 1 \in 0 .. buflen /\ pos + 1 \in 0 .. len + 1 /\ len + 1 - 1 = len
    BY <1>1, Sizes
<1>10. HoldsText(buf', len + 1)
  <2> DEFINE n == len + 1
  <2>1. n \in 0 .. buflen /\ buf'[n] = Zero /\ \A i \in 0 .. n - 1 : buf'[i] \in Letters
      BY <1>1, <1>7, <1>8, <1>9
  <2> HIDE DEF n
  <2>2. HoldsText(buf', n)
      BY <1>4, <2>1 DEF HoldsText
  <2> QED
      BY <2>2 DEF n
<1> QED
    BY <1>5, <1>6, <1>9, <1>10

\* The letters from a place on move k places to the left, with the terminator or with a
\* new one.
LEMMA CutBytes ==
  ASSUME LineEditAssumption, InBuffer, NEW at \in 0 .. len, NEW k \in 0 .. len - at, NEW b \in Buffers,
         \A i \in 0 .. len - k - 1 : b[i] = IF i < at THEN buf[i] ELSE buf[i + k],
         b[len - k] = Zero
  PROVE  HoldsText(b, len - k)
<1>1. /\ len \in Nat /\ len <= buflen /\ at \in Nat /\ k \in Nat /\ at <= len /\ k <= len - at
      /\ \A i \in 0 .. len - 1 : buf[i] \in Letters
    BY Sizes DEF InBuffer, HoldsText
<1>2. \A i \in 0 .. len - k - 1 : b[i] \in Letters
    BY <1>1
<1>3. len - k \in 0 .. buflen
    BY <1>1, Sizes
<1> QED
    BY <1>2, <1>3 DEF HoldsText

\* linenoiseEditDelete closes the gap and moves the terminator along.
LEMMA DeleteBytes ==
  ASSUME LineEditAssumption, InBuffer, Delete
  PROVE  /\ HoldsText(buf', len') /\ pos' \in 0 .. len'
         /\ pos < len /\ len' = len - 1 /\ pos' = pos
         /\ \A i \in 0 .. len - 2 : buf'[i] = IF i < pos THEN buf[i] ELSE buf[i + 1]
<1> DEFINE m == Moved(buf, pos, pos + 1, len - pos - 1)
<1>1. /\ len \in Nat /\ pos \in Nat /\ pos < len /\ len <= buflen /\ buf \in Buffers
      /\ len' = len - 1 /\ pos' = pos
    BY Sizes DEF InBuffer, HoldsText, Delete, Edits
<1>2. /\ m \in Buffers
      /\ \A i \in 0 .. BufSize - 1 : m[i] = IF pos <= i /\ i < len - 1 THEN buf[i + 1] ELSE buf[i]
  <2>1. len - pos - 1 \in Nat /\ pos + 1 + (len - pos - 1) <= BufSize /\ pos + 1 \in Nat
      BY <1>1, Sizes
  <2>2. /\ m \in Buffers
        /\ \A i \in 0 .. BufSize - 1 :
             m[i] = IF pos <= i /\ i < pos + (len - pos - 1) THEN buf[i - pos + (pos + 1)] ELSE buf[i]
      BY <1>1, <2>1, MovedBytes
  <2>3. \A i \in 0 .. BufSize - 1 : i - pos + (pos + 1) = i + 1
      BY <1>1, Sizes
  <2>4. pos + (len - pos - 1) = len - 1
      BY <1>1
  <2> HIDE DEF m
  <2> QED
      BY <2>2, <2>3, <2>4
<1> HIDE DEF m
<1>3. /\ buf' \in Buffers
      /\ \A i \in 0 .. BufSize - 1 : buf'[i] = IF i = len - 1 THEN Zero ELSE m[i]
  <2>1. len - 1 \in Nat /\ Zero \in Bytes
      BY <1>1 DEF Bytes
  <2> QED
      BY <1>2, <2>1, WrittenByte, SMTT(60) DEF Delete, Edits, m
<1>4. \A i \in 0 .. len - 2 : buf'[i] = IF i < pos THEN buf[i] ELSE buf[i + 1]
    BY <1>1, <1>2, <1>3, Sizes
<1>5. buf'[len - 1] = Zero
    BY <1>1, <1>3, Sizes
<1>6. HoldsText(buf', len - 1)
  <2>1. pos \in 0 .. len /\ 1 \in 0 .. len - pos /\ len - 1 - 1 = len - 2
      BY <1>1
  <2> QED
      BY <1>3, <1>4, <1>5, <2>1, CutBytes
<1>7. pos \in 0 .. len - 1
    BY <1>1
<1> QED
    BY <1>1, <1>4, <1>6, <1>7

\* linenoiseEditBackspace does so one letter further left.
LEMMA BackspaceBytes ==
  ASSUME LineEditAssumption, InBuffer, Backspace
  PROVE  /\ HoldsText(buf', len') /\ pos' \in 0 .. len'
         /\ pos > 0 /\ len' = len - 1 /\ pos' = pos - 1
         /\ \A i \in 0 .. len - 2 : buf'[i] = IF i < pos - 1 THEN buf[i] ELSE buf[i + 1]
<1> DEFINE m == Moved(buf, pos - 1, pos, len - pos)
<1>1. /\ len \in Nat /\ pos \in Nat /\ pos <= len /\ pos > 0 /\ len <= buflen /\ buf \in Buffers
      /\ len' = len - 1 /\ pos' = pos - 1
    BY Sizes DEF InBuffer, HoldsText, Backspace, Edits
<1>2. /\ m \in Buffers
      /\ \A i \in 0 .. BufSize - 1 : m[i] = IF pos - 1 <= i /\ i < len - 1 THEN buf[i + 1] ELSE buf[i]
  <2>1. len - pos \in Nat /\ pos + (len - pos) <= BufSize /\ pos - 1 \in Nat
      BY <1>1, Sizes
  <2>2. /\ m \in Buffers
        /\ \A i \in 0 .. BufSize - 1 :
             m[i] = IF pos - 1 <= i /\ i < pos - 1 + (len - pos) THEN buf[i - (pos - 1) + pos] ELSE buf[i]
      BY <1>1, <2>1, MovedBytes
  <2>3. \A i \in 0 .. BufSize - 1 : i - (pos - 1) + pos = i + 1
      BY <1>1, Sizes
  <2>4. pos - 1 + (len - pos) = len - 1
      BY <1>1
  <2> HIDE DEF m
  <2> QED
      BY <2>2, <2>3, <2>4
<1> HIDE DEF m
<1>3. /\ buf' \in Buffers
      /\ \A i \in 0 .. BufSize - 1 : buf'[i] = IF i = len - 1 THEN Zero ELSE m[i]
  <2>1. len - 1 \in Nat /\ Zero \in Bytes
      BY <1>1 DEF Bytes
  <2> QED
      BY <1>2, <2>1, WrittenByte, SMTT(60) DEF Backspace, Edits, m
<1>4. \A i \in 0 .. len - 2 : buf'[i] = IF i < pos - 1 THEN buf[i] ELSE buf[i + 1]
    BY <1>1, <1>2, <1>3, Sizes
<1>5. buf'[len - 1] = Zero
    BY <1>1, <1>3, Sizes
<1>6. HoldsText(buf', len - 1)
  <2>1. pos - 1 \in 0 .. len /\ 1 \in 0 .. len - (pos - 1) /\ len - 1 - 1 = len - 2
      BY <1>1
  <2> QED
      BY <1>3, <1>4, <1>5, <2>1, CutBytes
<1>7. pos - 1 \in 0 .. len - 1
    BY <1>1
<1> QED
    BY <1>1, <1>4, <1>6, <1>7

\* linenoiseEditDeletePrevWord takes k letters: blanks, and before them letters of a word.
LEMMA DeletePrevWordBytes ==
  ASSUME LineEditAssumption, InBuffer, DeletePrevWord
  PROVE  \E start \in 0 .. pos, blanks \in 0 .. pos :
           /\ start <= blanks
           /\ \A i \in blanks .. pos - 1 : buf[i] = Space
           /\ \A i \in start .. blanks - 1 : buf[i] # Space
           /\ blanks > 0 => buf[blanks - 1] # Space
           /\ start > 0 => buf[start - 1] = Space
           /\ HoldsText(buf', len') /\ pos' \in 0 .. len'
           /\ len' = len - (pos - start) /\ pos' = start
           /\ \A i \in 0 .. len' - 1 : buf'[i] = IF i < start THEN buf[i] ELSE buf[i + (pos - start)]
<1> DEFINE at(i) == buf[i - 1] = Space
           B == {0} \cup {i \in 1 .. pos : ~at(i)}
           blanks == Max(B)
           A == {0} \cup {i \in 1 .. blanks : at(i)}
           start == Max(A)
<1>1. /\ len \in Nat /\ pos \in Nat /\ pos <= len /\ len <= buflen /\ buf \in Buffers /\ buf[len] = Zero
    BY Sizes DEF InBuffer, HoldsText
<1>2. blanks \in B /\ \A x \in B : x <= blanks
  <2>1. B \in SUBSET (0 .. pos) /\ B # {}
      BY <1>1
  <2> QED
      BY <1>1, <2>1, MaxIsGreatest
<1>3. /\ blanks \in 0 .. pos
      /\ \A i \in blanks .. pos - 1 : buf[i] = Space
      /\ blanks > 0 => buf[blanks - 1] # Space
  <2>1. blanks \in 0 .. pos /\ (blanks > 0 => buf[blanks - 1] # Space)
      BY <1>1, <1>2
  <2>2. ASSUME NEW i \in blanks .. pos - 1, buf[i] # Space PROVE FALSE
    <3>1. i \in Nat /\ i + 1 \in 1 .. pos /\ i + 1 - 1 = i /\ blanks <= i
        BY <1>1, <2>1
    <3>2. i + 1 \in B
        BY <2>2, <3>1
    <3> QED
        BY <1>2, <2>1, <3>1, <3>2
  <2> QED
      BY <2>1, <2>2
<1> HIDE DEF B, blanks
<1>4. start \in A /\ \A x \in A : x <= start
  <2>1. A \in SUBSET (0 .. blanks) /\ A # {} /\ blanks \in Nat
      BY <1>3
  <2> QED
      BY <2>1, MaxIsGreatest
<1>5. /\ start \in 0 .. pos /\ start <= blanks
      /\ \A i \in start .. blanks - 1 : buf[i] # Space
      /\ start > 0 => buf[start - 1] = Space
  <2>1. start \in 0 .. blanks /\ (start > 0 => buf[start - 1] = Space)
      BY <1>3, <1>4
  <2>2. ASSUME NEW i \in start .. blanks - 1, buf[i] = Space PROVE FALSE
    <3>1. i \in Nat /\ i + 1 \in 1 .. blanks /\ i + 1 - 1 = i /\ start <= i
        BY <1>3, <2>1
    <3>2. i + 1 \in A
        BY <2>2, <3>1
    <3> QED
        BY <1>4, <2>1, <3>1, <3>2
  <2> QED
      BY <1>1, <1>3, <2>1, <2>2
<1>6. buf' = Moved(buf, start, pos, len - pos + 1) /\ len' = len - (pos - start) /\ pos' = start
    BY DEF DeletePrevWord, Edits, blanks, B
<1> HIDE DEF A, start
<1>7. /\ buf' \in Buffers
      /\ \A i \in 0 .. BufSize - 1 :
           buf'[i] = IF start <= i /\ i < start + (len - pos + 1) THEN buf[i - start + pos] ELSE buf[i]
  <2>1. len - pos + 1 \in Nat /\ pos + (len - pos + 1) <= BufSize /\ start \in Nat
      BY <1>1, <1>5, Sizes
  <2>2. /\ Moved(buf, start, pos, len - pos + 1) \in Buffers
        /\ \A i \in 0 .. BufSize - 1 :
             Moved(buf, start, pos, len - pos + 1)[i] =
               IF start <= i /\ i < start + (len - pos + 1) THEN buf[i - start + pos] ELSE buf[i]
      BY <1>1, <2>1, MovedBytes
  <2> QED
      BY <1>6, <2>2
<1>8. \A i \in 0 .. len' - 1 : buf'[i] = IF i < start THEN buf[i] ELSE buf[i + (pos - start)]
  <2> SUFFICES ASSUME NEW i \in 0 .. len' - 1
               PROVE  buf'[i] = IF i < start THEN buf[i] ELSE buf[i + (pos - start)]
      OBVIOUS
  <2>1. /\ i \in 0 .. BufSize - 1 /\ i - start + pos = i + (pos - start)
        /\ ~ (i < start) => start <= i /\ i < start + (len - pos + 1)
      BY <1>1, <1>5, <1>6, Sizes
  <2> QED
      BY <1>1, <1>5, <1>7, <2>1
<1>9. buf'[len - (pos - start)] = Zero
  <2>1. /\ len - (pos - start) \in 0 .. BufSize - 1 /\ len - (pos - start) - start + pos = len
        /\ start <= len - (pos - start) /\ len - (pos - start) < start + (len - pos + 1)
      BY <1>1, <1>5, Sizes
  <2> QED
      BY <1>1, <1>7, <2>1
<1>10. HoldsText(buf', len')
  <2>1. start \in 0 .. len /\ pos - start \in 0 .. len - start
      BY <1>1, <1>5
  <2> QED
      BY <1>6, <1>7, <1>8, <1>9, <2>1, CutBytes
<1>11. start \in 0 .. len'
    BY <1>1, <1>5, <1>6
<1> QED
    BY <1>3, <1>5, <1>6, <1>8, <1>10, <1>11

\* Ctrl-T exchanges two letters, and the terminator is none of them.
LEMMA SwapCharsBytes ==
  ASSUME LineEditAssumption, InBuffer, SwapChars
  PROVE  /\ HoldsText(buf', len') /\ pos' \in 0 .. len'
         /\ pos > 0 /\ pos < len /\ len' = len /\ pos' = IF pos # len - 1 THEN pos + 1 ELSE pos
         /\ \A i \in 0 .. len - 1 : buf'[i] = IF i = pos - 1 THEN buf[pos]
                                              ELSE IF i = pos THEN buf[pos - 1] ELSE buf[i]
<1> DEFINE t == <<buf[pos], buf[pos - 1]>>
<1>1. /\ len \in Nat /\ pos \in Nat /\ pos > 0 /\ pos < len /\ len <= buflen /\ buf \in Buffers
      /\ buf[len] = Zero /\ \A i \in 0 .. len - 1 : buf[i] \in Letters
      /\ len' = len /\ pos' = IF pos # len - 1 THEN pos + 1 ELSE pos
      /\ buf' = Written(buf, pos - 1, t)
    BY Sizes DEF InBuffer, HoldsText, SwapChars, Edits
<1>2. /\ t \in Seq(Bytes) /\ Len(t) = 2 /\ t[1] = buf[pos] /\ t[2] = buf[pos - 1]
  <2>1. buf[pos] \in Bytes /\ buf[pos - 1] \in Bytes
      BY <1>1 DEF Bytes
  <2> QED
      BY <2>1
<1> HIDE DEF t
<1>3. /\ buf' \in Buffers
      /\ \A i \in 0 .. BufSize - 1 :
           buf'[i] = IF pos - 1 <= i /\ i < pos - 1 + 2 THEN t[i - (pos - 1) + 1] ELSE buf[i]
  <2>1. pos - 1 \in Nat
      BY <1>1
  <2>2. /\ Written(buf, pos - 1, t) \in Buffers
        /\ \A i \in 0 .. BufSize - 1 :
             Written(buf, pos - 1, t)[i] =
               IF pos - 1 <= i /\ i < pos - 1 + Len(t) THEN t[i - (pos - 1) + 1] ELSE buf[i]
      BY <1>1, <1>2, <2>1, WrittenBytes
  <2> QED
      BY <1>1, <1>2, <2>2
<1>4. \A i \in 0 .. BufSize - 1 : buf'[i] = IF i = pos - 1 THEN buf[pos]
                                            ELSE IF i = pos THEN buf[pos - 1] ELSE buf[i]
  <2> SUFFICES ASSUME NEW i \in 0 .. BufSize - 1
               PROVE  buf'[i] = IF i = pos - 1 THEN buf[pos] ELSE IF i = pos THEN buf[pos - 1] ELSE buf[i]
      OBVIOUS
  <2>1. pos - 1 <= i /\ i < pos - 1 + 2 <=> i = pos - 1 \/ i = pos
      BY <1>1, Sizes
  <2>2. (pos - 1) - (pos - 1) + 1 = 1 /\ pos - (pos - 1) + 1 = 2 /\ pos # pos - 1
      BY <1>1
  <2> QED
      BY <1>2, <1>3, <2>1, <2>2
<1>5. HoldsText(buf', len)
  <2>1. buf'[len] = Zero
      BY <1>1, <1>4, Sizes
  <2>2. \A i \in 0 .. len - 1 : buf'[i] \in Letters
      BY <1>1, <1>4, Sizes
  <2>3. len \in 0 .. buflen
      BY <1>1, Sizes
  <2> QED
      BY <1>3, <2>1, <2>2, <2>3 DEF HoldsText
<1>6. pos' \in 0 .. len
    BY <1>1
<1>7. \A i \in 0 .. len - 1 : buf'[i] = IF i = pos - 1 THEN buf[pos]
                                        ELSE IF i = pos THEN buf[pos - 1] ELSE buf[i]
    BY <1>1, <1>4, Sizes
<1> QED
    BY <1>1, <1>5, <1>6, <1>7

\* A text written from the beginning, with a terminator: an entry of the history or a
\* word of the table.
LEMMA LoadedBytes ==
  ASSUME LineEditAssumption, NEW b \in Buffers, NEW t \in Seq(Letters), Len(t) <= buflen
  PROVE  /\ HoldsText(Written(b, 0, Append(t, Zero)), Len(t))
         /\ \A i \in 0 .. Len(t) - 1 : Written(b, 0, Append(t, Zero))[i] = t[i + 1]
<1> DEFINE z == Append(t, Zero)
           w == Written(b, 0, z)
<1>1. Len(t) \in Nat /\ \A i \in 1 .. Len(t) : t[i] \in Letters
    OBVIOUS
<1>2. /\ z \in Seq(Bytes) /\ Len(z) = Len(t) + 1 /\ z[Len(t) + 1] = Zero
      /\ \A i \in 1 .. Len(t) : z[i] = t[i]
  <2>1. t \in Seq(Bytes) /\ Zero \in Bytes
      BY DEF Bytes
  <2> QED
      BY <2>1
<1> HIDE DEF z
<1>3. /\ w \in Buffers
      /\ \A i \in 0 .. BufSize - 1 : w[i] = IF 0 <= i /\ i < 0 + Len(z) THEN z[i - 0 + 1] ELSE b[i]
    BY <1>2, WrittenBytes
<1> HIDE DEF w
<1>4. \A i \in 0 .. Len(t) : w[i] = z[i + 1]
    BY <1>1, <1>2, <1>3, Sizes
<1>5. w[Len(t)] = Zero
    BY <1>1, <1>2, <1>4
<1>6. \A i \in 0 .. Len(t) - 1 : w[i] = t[i + 1] /\ w[i] \in Letters
    BY <1>1, <1>2, <1>4, SMTT(60)
<1>7. Len(t) \in 0 .. buflen
    BY <1>1, Sizes
<1>8. HoldsText(w, Len(t))
    BY <1>3, <1>5, <1>6, <1>7 DEF HoldsText
<1> QED
    BY <1>6, <1>8 DEF w, z

\* A terminator written into the line cuts it there.
LEMMA CutOffBytes ==
  ASSUME LineEditAssumption, InBuffer, NEW at \in 0 .. len
  PROVE  /\ HoldsText(Written(buf, at, <<Zero>>), at)
         /\ \A i \in 0 .. at - 1 : Written(buf, at, <<Zero>>)[i] = buf[i]
<1> DEFINE w == Written(buf, at, <<Zero>>)
<1>1. /\ len \in Nat /\ at \in Nat /\ at <= len /\ len <= buflen /\ buf \in Buffers
      /\ \A i \in 0 .. len - 1 : buf[i] \in Letters
    BY Sizes DEF InBuffer, HoldsText
<1>2. /\ w \in Buffers
      /\ \A i \in 0 .. BufSize - 1 : w[i] = IF i = at THEN Zero ELSE buf[i]
  <2>1. Zero \in Bytes
      BY DEF Bytes
  <2> QED
      BY <1>1, <2>1, WrittenByte, SMTT(60)
<1> HIDE DEF w
<1>3. w[at] = Zero /\ \A i \in 0 .. at - 1 : w[i] = buf[i] /\ w[i] \in Letters
    BY <1>1, <1>2, Sizes
<1>4. at \in 0 .. buflen
    BY <1>1, Sizes
<1> QED
    BY <1>2, <1>3, <1>4 DEF HoldsText, w

\* A call of linenoise starts with an empty line.
LEMMA NewBytes ==
  ASSUME LineEditAssumption
  PROVE  HoldsText(NewBuf, 0)
<1>1. NewBuf \in Buffers /\ NewBuf[0] = Zero
    BY Sizes DEF NewBuf, Buffers, Bytes
<1> QED
    BY <1>1, Sizes DEF HoldsText
-----------------------------------------------------------------------------
(* The history and the offers. *)

\* linenoiseHistoryAdd keeps the history's length within its limit.
LEMMA HistoryAddType ==
  ASSUME LineEditAssumption, NEW h \in Seq(Seq(Letters)), Len(h) <= MaxHistory, NEW t \in Seq(Letters)
  PROVE  /\ HistoryAdd(h, t) \in Seq(Seq(Letters)) /\ Len(HistoryAdd(h, t)) <= MaxHistory
         /\ Len(HistoryAdd(h, t)) >= 1
<1>1. Len(h) \in Nat /\ MaxHistory \in Nat /\ MaxHistory >= 2
    BY Sizes
<1>2. CASE h # <<>> /\ Last(h) = t
    BY <1>1, <1>2 DEF HistoryAdd
<1>3. CASE ~ (h # <<>> /\ Last(h) = t)
  <2> DEFINE g == IF Len(h) = MaxHistory THEN Tail(h) ELSE h
  <2>1. g \in Seq(Seq(Letters)) /\ Len(g) <= MaxHistory - 1
      BY <1>1
  <2>2. HistoryAdd(h, t) = Append(g, t)
      BY <1>3, Zenon DEF HistoryAdd
  <2> HIDE DEF g
  <2> QED
      BY <1>1, <2>1, <2>2
<1> QED
    BY <1>2, <1>3

\* The first linenoise makes an empty entry for its line.
LEMMA FirstEntry ==
  ASSUME LineEditAssumption
  PROVE  /\ HistoryAdd(<<>>, <<>>) = <<<<>>>>
         /\ <<<<>>>> \in Seq(Seq(Letters)) /\ Len(<<<<>>>>) = 1
<1>1. Len(<<>>) # MaxHistory
    BY Sizes
<1>2. HistoryAdd(<<>>, <<>>) = Append(<<>>, <<>>)
    BY <1>1, Zenon DEF HistoryAdd
<1>3. <<>> \in Seq(Letters)
    OBVIOUS
<1>4. \A e \in Seq(Letters) : <<e>> \in Seq(Seq(Letters)) /\ Len(<<e>>) = 1
    OBVIOUS
<1>5. Append(<<>>, <<>>) = <<<<>>>>
    OBVIOUS
<1> QED
    BY <1>2, <1>3, <1>4, <1>5, Zenon

\* What completeLine shows is a word of the table.
LEMMA OfferIsWord ==
  ASSUME LineEditAssumption, NEW k \in Nat, k < Cardinality(Offers)
  PROVE  \E i \in DOMAIN Commands : Offer(k) = Commands[i]
<1> DEFINE Nth(i) == Cardinality({j \in Offers : j < i}) = k
<1>1. Offers \in SUBSET (1 .. Len(Commands)) /\ Len(Commands) \in Nat
    BY DEF Offers, LineEditAssumption
<1>2. IsFiniteSet(1 .. Len(Commands))
    BY <1>1, FS_Interval
<1>3. IsFiniteSet(Offers) /\ Offers \in SUBSET Nat
  <2>1. Offers \in SUBSET Nat
      BY <1>1
  <2> HIDE DEF Nth
  <2> QED
      BY <1>1, <1>2, <2>1, FS_Subset
<1>4. \E i \in Offers : Nth(i)
    BY <1>3, RankExists
<1> HIDE DEF Nth
<1>5. (CHOOSE i \in Offers : Nth(i)) \in Offers
    BY <1>4
<1> QED
    BY <1>5 DEF Offer, Offers, Nth
-----------------------------------------------------------------------------
\* The first call starts with an empty line.
LEMMA IInvInit == LineEditAssumption /\ Init => IInv
<1> SUFFICES ASSUME LineEditAssumption, Init PROVE IInv
    OBVIOUS
<1>1. InBuffer
    BY NewBytes DEF Init, InBuffer
<1>2. <<>> \in Seq(Seq(Letters)) /\ <<>> \in Seq(Letters) /\ Len(<<>>) = 0
    OBVIOUS
<1>3. history \in Seq(Seq(Letters)) /\ Len(history) <= MaxHistory /\ Len(history) >= 1
  <2>1. history \in Seq(Seq(Letters)) /\ Len(history) = 1
      BY FirstEntry, Zenon DEF Init
  <2> QED
      BY <2>1, Sizes
<1>4. Kept
    BY <1>2, <1>3 DEF Init, Kept
<1> QED
    BY <1>1, <1>4 DEF Init, IInv, Showing

\* The invariant says what the runs check.
LEMMA SafeFromIInv == ASSUME LineEditAssumption, IInv PROVE Safe
<1>1. /\ len \in Nat /\ pos \in Nat /\ pos <= len /\ len <= buflen /\ buf[len] = Zero
      /\ \A i \in 0 .. len - 1 : buf[i] \in Letters
    BY Sizes DEF IInv, InBuffer, HoldsText
<1>2. TextOf(buf) = [i \in 1 .. len |-> buf[i - 1]]
    BY TextOfText DEF IInv, InBuffer
<1>3. \A i \in 1 .. len : buf[i - 1] \in Letters
    BY <1>1
<1>4. /\ pc \in {"key", "accepted", "escape", "tab"} => history_index \in 0 .. Len(history) - 1
      /\ Len(history) <= MaxHistory
    BY DEF IInv, Kept
<1>5. pc = "tab" => shown <= Cardinality(Offers)
    BY DEF IInv, Showing
<1> QED
    BY <1>1, <1>2, <1>3, <1>4, <1>5 DEF Safe
-----------------------------------------------------------------------------
\* A key that edits the line, or moves in it, leaves the history and the entry.
LEMMA EditStep ==
  ASSUME LineEditAssumption, IInv, NEW b, NEW n, NEW p, Edits(b, n, p),
         pc' = "key", pc \in {"key", "accepted", "escape"}, HoldsText(buf', len'), pos' \in 0 .. len'
  PROVE  IInv'
<1>1. Kept'
    BY DEF IInv, Kept, Edits
<1>2. Showing'
    BY DEF IInv, Showing, Edits
<1> QED
    BY <1>1, <1>2 DEF IInv, InBuffer

\* The four keys that move the cursor leave it in the line.
LEMMA MoveStep ==
  ASSUME LineEditAssumption, IInv, MoveLeft \/ MoveRight \/ MoveHome \/ MoveEnd \/ Ignored
  PROVE  IInv'
<1>1. len \in Nat /\ pos \in Nat /\ pos <= len /\ HoldsText(buf, len)
    BY Sizes DEF IInv, InBuffer, HoldsText
<1>2. PICK p \in 0 .. len : Moves(p)
    BY <1>1 DEF MoveLeft, MoveRight, MoveHome, MoveEnd, Ignored
<1>3. HoldsText(buf', len') /\ pos' \in 0 .. len' /\ Edits(buf, len, p)
    BY <1>1, <1>2 DEF Moves, Edits
<1>4. pc' = "key" /\ pc \in {"key", "accepted", "escape"}
    BY DEF MoveLeft, MoveRight, MoveHome, MoveEnd, Ignored, Sequence
<1> QED
    BY <1>3, <1>4, EditStep

\* Ctrl-U empties the line.
LEMMA DeleteLineBytes ==
  ASSUME LineEditAssumption, InBuffer, DeleteLine
  PROVE  HoldsText(buf', len') /\ pos' \in 0 .. len' /\ len' = 0 /\ pos' = 0
<1>1. buf' = Written(buf, 0, <<Zero>>) /\ len' = 0 /\ pos' = 0 /\ len \in Nat
    BY Sizes DEF DeleteLine, Edits, InBuffer, HoldsText
<1>2. 0 \in 0 .. len
    BY <1>1
<1> QED
    BY <1>1, <1>2, CutOffBytes

\* Ctrl-K ends the line at the cursor.
LEMMA DeleteToEndBytes ==
  ASSUME LineEditAssumption, InBuffer, DeleteToEnd
  PROVE  /\ HoldsText(buf', len') /\ pos' \in 0 .. len' /\ len' = pos /\ pos' = pos
         /\ \A i \in 0 .. pos - 1 : buf'[i] = buf[i]
<1>1. buf' = Written(buf, pos, <<Zero>>) /\ len' = pos /\ pos' = pos /\ len \in Nat /\ pos \in 0 .. len
    BY Sizes DEF DeleteToEnd, Edits, InBuffer, HoldsText
<1> QED
    BY <1>1, CutOffBytes

\* Every key that edits or moves keeps the invariant.
LEMMA KeyStep ==
  ASSUME LineEditAssumption, IInv,
         \/ \E c \in Letters : Insert(c)
         \/ Delete \/ Backspace \/ DeletePrevWord \/ SwapChars \/ DeleteLine \/ DeleteToEnd
  PROVE  IInv'
<1>1. InBuffer
    BY DEF IInv
<1>2. HoldsText(buf', len') /\ pos' \in 0 .. len'
    BY <1>1, InsertBytes, DeleteBytes, BackspaceBytes, DeletePrevWordBytes, SwapCharsBytes,
       DeleteLineBytes, DeleteToEndBytes
<1>3. pc' = "key" /\ pc \in {"key", "accepted", "escape"}
    BY DEF Insert, Delete, Backspace, DeletePrevWord, SwapChars, DeleteLine, DeleteToEnd, Key, Handles, Sequence
<1>4. \E b, n, p : Edits(b, n, p)
    BY DEF Insert, Delete, Backspace, DeletePrevWord, SwapChars, DeleteLine, DeleteToEnd
<1> QED
    BY <1>2, <1>3, <1>4, EditStep

\* The next entry and the one kept, when there is a neighbour and when there is none.
LEMMA HistoryNextBytes ==
  ASSUME LineEditAssumption, IInv, NEW dir \in {-1, 1}, HistoryNext(dir)
  PROVE  /\ history' = [history EXCEPT ![Len(history) - history_index] = TextOf(buf)]
         /\ TextOf(buf) \in Seq(Letters) /\ Len(history) - history_index \in DOMAIN history
         /\ \/ /\ history_index' = history_index /\ buf' = buf /\ len' = len /\ pos' = pos
            \/ /\ history_index' \in 0 .. Len(history) - 1 /\ history_index' # history_index
               /\ history_index' \in {history_index - 1, history_index + 1}
               /\ HoldsText(buf', len') /\ pos' = len'
               /\ LET text == history[Len(history) - history_index']
                  IN  /\ text \in Seq(Letters)
                      /\ len' = IF Len(text) < buflen THEN Len(text) ELSE buflen - 1
                      /\ \A i \in 0 .. len' - 1 : buf'[i] = text[i + 1]
<1>1. /\ history \in Seq(Seq(Letters)) /\ history_index \in Nat /\ history_index < Len(history)
      /\ Len(history) \in Nat
  <2>1. pc \in {"key", "accepted", "escape"}
      BY DEF HistoryNext, Sequence
  <2> QED
      BY <2>1 DEF IInv, Kept
<1>2. TextOf(buf) \in Seq(Letters) /\ Len(history) - history_index \in DOMAIN history
  <2>1. Len(history) - history_index \in 1 .. Len(history)
      BY <1>1
  <2> QED
      BY <1>1, <2>1, TextOfText DEF IInv, InBuffer
<1>3. history' = [history EXCEPT ![Len(history) - history_index] = TextOf(buf)]
    BY DEF HistoryNext
<1> DEFINE to == history_index + dir
           text == history[Len(history) - to]
           loaded == SubSeq(text, 1, Min({Len(text), buflen - 1}))
<1>4. CASE to \notin 0 .. Len(history) - 1
  <2>1. history_index' = history_index /\ buf' = buf /\ len' = len /\ pos' = pos
      BY <1>4 DEF HistoryNext
  <2> QED
      BY <1>2, <1>3, <2>1
<1>5. CASE to \in 0 .. Len(history) - 1
  <2>1. /\ history_index' = to /\ buf' = Written(buf, 0, Append(loaded, Zero))
        /\ len' = Len(loaded) /\ pos' = Len(loaded)
      BY <1>5 DEF HistoryNext
  <2>2. text \in Seq(Letters) /\ Len(text) \in Nat /\ to # history_index
        /\ to \in {history_index - 1, history_index + 1}
    <3>1. Len(history) - to \in 1 .. Len(history)
        BY <1>1, <1>5
    <3>2. text \in Seq(Letters)
        BY <1>1, <3>1
    <3>3. to # history_index /\ to \in {history_index - 1, history_index + 1}
        BY <1>1
    <3> QED
        BY <3>2, <3>3
  <2> HIDE DEF to, text
  <2>3. Min({Len(text), buflen - 1}) = IF Len(text) < buflen THEN Len(text) ELSE buflen - 1
    <3> DEFINE M == {Len(text), buflen - 1}
    <3>1. M \in SUBSET Nat /\ M # {}
        BY <2>2, Sizes
    <3>2. Min(M) \in M /\ \A x \in M : Min(M) <= x
        BY <3>1, MinIsLeast
    <3> QED
        BY <3>2, <2>2, Sizes
  <2> DEFINE k == IF Len(text) < buflen THEN Len(text) ELSE buflen - 1
  <2>4. k \in 0 .. Len(text) /\ k <= buflen
      BY <2>2, Sizes
  <2>5. loaded = SubSeq(text, 1, k)
      BY <2>3
  <2> HIDE DEF k, loaded
  <2>6. loaded \in Seq(Letters) /\ Len(loaded) = k /\ \A i \in 1 .. k : loaded[i] = text[i]
      BY <2>2, <2>4, <2>5
  <2>7. HoldsText(buf', len') /\ \A i \in 0 .. Len(loaded) - 1 : buf'[i] = loaded[i + 1]
    <3>1. buf \in Buffers
        BY DEF IInv, InBuffer, HoldsText
    <3> QED
        BY <2>1, <2>4, <2>6, <3>1, LoadedBytes
  <2>8. \A i \in 0 .. len' - 1 : buf'[i] = text[i + 1]
      BY <2>1, <2>4, <2>6, <2>7
  <2> QED
      BY <1>2, <1>3, <1>5, <2>1, <2>2, <2>4, <2>6, <2>7, <2>8 DEF text, k, to
<1> QED
    BY <1>4, <1>5

\* linenoiseEditHistoryNext keeps entry and line texts that fit.
LEMMA HistoryStep ==
  ASSUME LineEditAssumption, IInv, NEW dir \in {-1, 1}, HistoryNext(dir)
  PROVE  IInv'
<1>1. InBuffer'
  <2>1. HoldsText(buf, len) /\ pos \in 0 .. len /\ len \in Nat
      BY Sizes DEF IInv, InBuffer, HoldsText
  <2>2. HoldsText(buf', len') /\ len' \in Nat /\ (pos' = len' \/ pos' \in 0 .. len')
    <3>1. HoldsText(buf', len') /\ (pos' = len' \/ pos' \in 0 .. len')
        BY <2>1, HistoryNextBytes
    <3>2. len' \in Nat
        BY <3>1, Sizes DEF HoldsText
    <3> QED
        BY <3>1, <3>2
  <2> QED
      BY <2>2 DEF InBuffer
<1>2. Kept'
  <2>1. /\ history' = [history EXCEPT ![Len(history) - history_index] = TextOf(buf)]
        /\ TextOf(buf) \in Seq(Letters) /\ Len(history) - history_index \in DOMAIN history
        /\ history_index' = history_index \/ history_index' \in 0 .. Len(history) - 1
      BY HistoryNextBytes
  <2>2. /\ history \in Seq(Seq(Letters)) /\ Len(history) <= MaxHistory /\ Len(history) \in Nat
        /\ history_index \in Nat /\ line \in Seq(Letters) /\ history_index < Len(history)
    <3>1. pc \in {"key", "accepted", "escape"}
        BY DEF HistoryNext, Sequence
    <3> QED
        BY <3>1 DEF IInv, Kept
  <2>3. history' \in Seq(Seq(Letters)) /\ Len(history') = Len(history)
      BY <2>1, <2>2
  <2>4. history_index' \in Nat /\ history_index' < Len(history)
      BY <2>1, <2>2
  <2> QED
      BY <2>2, <2>3, <2>4 DEF Kept, HistoryNext
<1>3. Showing'
    BY DEF IInv, Showing, HistoryNext, Sequence
<1> QED
    BY <1>1, <1>2, <1>3 DEF IInv

\* The keys during a completion change what is shown and not the line.
LEMMA OfferStep ==
  ASSUME LineEditAssumption, IInv, Tab \/ NextOffer \/ CancelOffer
  PROVE  IInv' /\ UNCHANGED <<buf, len, pos, history, history_index, line>>
<1>1. UNCHANGED <<buf, len, pos, history, history_index, line>>
    BY DEF Tab, NextOffer, CancelOffer
<1>2. pc \in {"key", "tab"} /\ pc' \in {"key", "accepted", "escape", "tab"}
    BY DEF Tab, NextOffer, CancelOffer
<1>3. InBuffer' /\ Kept'
    BY <1>1, <1>2 DEF IInv, InBuffer, Kept
<1>4. Offers' = Offers /\ Cardinality(Offers) \in Nat
  <2>1. Offers \in SUBSET (1 .. Len(Commands)) /\ Len(Commands) \in Nat
      BY DEF Offers, LineEditAssumption
  <2>2. IsFiniteSet(1 .. Len(Commands))
      BY <2>1, FS_Interval
  <2>3. IsFiniteSet(Offers)
      BY <2>1, <2>2, FS_Subset
  <2>4. Offers' = Offers
      BY <1>1 DEF Offers
  <2> QED
      BY <2>3, <2>4, FS_CardinalityType
<1>5. Showing'
  <2>1. shown' \in Nat /\ shown' <= Cardinality(Offers)
    <3>1. CASE NextOffer
      <4>1. shown' = (shown + 1) % (Cardinality(Offers) + 1) /\ shown \in Nat
          BY <3>1 DEF NextOffer, IInv, Showing
      <4> QED
          BY <1>4, <4>1
    <3>2. CASE Tab \/ CancelOffer
        BY <1>4, <3>2 DEF Tab, CancelOffer
    <3> QED
        BY <3>1, <3>2
  <2> QED
      BY <1>2, <1>4, <2>1 DEF Showing
<1> QED
    BY <1>1, <1>3, <1>5 DEF IInv

\* The line becomes the word that is shown, or stays as it is.
LEMMA AcceptBytes ==
  ASSUME LineEditAssumption, IInv, AcceptOffer
  PROVE  /\ HoldsText(buf', len') /\ pos' \in 0 .. len'
         /\ \/ buf' = buf /\ len' = len /\ pos' = pos
            \/ \E i \in DOMAIN Commands :
                 /\ len' = Len(Commands[i]) /\ pos' = len'
                 /\ \A k \in 0 .. len' - 1 : buf'[k] = Commands[i][k + 1]
<1>1. CASE shown < Cardinality(Offers)
  <2>1. buf' = Written(buf, 0, Append(Offer(shown), Zero)) /\ len' = Len(Offer(shown)) /\ pos' = len'
      BY <1>1 DEF AcceptOffer
  <2>2. shown \in Nat /\ buf \in Buffers
      BY DEF IInv, Showing, InBuffer, HoldsText
  <2>3. PICK i \in DOMAIN Commands : Offer(shown) = Commands[i]
      BY <1>1, <2>2, OfferIsWord
  <2> DEFINE w == Commands[i]
  <2>4. w \in Seq(Letters) /\ Len(w) <= buflen
      BY Sizes DEF LineEditAssumption
  <2> HIDE DEF w
  <2>5. HoldsText(buf', len') /\ \A k \in 0 .. len' - 1 : buf'[k] = w[k + 1]
      BY <2>1, <2>2, <2>3, <2>4, LoadedBytes DEF w
  <2>6. pos' \in 0 .. len'
      BY <2>1, <2>3, <2>4 DEF w
  <2> QED
      BY <2>1, <2>3, <2>5, <2>6 DEF w
<1>2. CASE ~ (shown < Cardinality(Offers))
    BY <1>2 DEF AcceptOffer, IInv, InBuffer
<1> QED
    BY <1>1, <1>2

\* A completion that is accepted fits in the buffer.
LEMMA AcceptStep == ASSUME LineEditAssumption, IInv, AcceptOffer PROVE IInv'
<1>1. InBuffer'
    BY AcceptBytes DEF InBuffer
<1>2. Kept' /\ Showing'
    BY DEF AcceptOffer, IInv, Kept, Showing
<1> QED
    BY <1>1, <1>2 DEF IInv

\* The line is returned, with or without its entry in the history, or the loop ends.
LEMMA ReturnStep ==
  ASSUME LineEditAssumption, IInv, Enter \/ HangUp \/ HighByte \/ CtrlC \/ CtrlD
  PROVE  IInv'
<1>1. UNCHANGED <<buf, len, pos, history_index>> /\ pc' \in {"returned", "ended"}
    BY DEF Enter, HangUp, HighByte, CtrlC, CtrlD, Returns, Ends
<1>2. InBuffer'
    BY <1>1 DEF IInv, InBuffer
<1>3. history \in Seq(Seq(Letters)) /\ Len(history) <= MaxHistory /\ Len(history) > 0 /\ Len(history) \in Nat
  <2>1. pc \in {"key", "accepted", "escape", "tab"}
      BY DEF Enter, HangUp, HighByte, CtrlC, CtrlD, Ends, Handles
  <2>2. history \in Seq(Seq(Letters)) /\ history_index \in Nat /\ history_index < Len(history)
      BY <2>1 DEF IInv, Kept
  <2> QED
      BY <2>2 DEF IInv, Kept
<1>4. history' \in Seq(Seq(Letters)) /\ Len(history') <= MaxHistory
  <2>1. history' = history \/ history' = Front(history)
      BY DEF Enter, HangUp, HighByte, CtrlC, CtrlD, Returns, Ends
  <2>2. Front(history) \in Seq(Seq(Letters)) /\ Len(Front(history)) = Len(history) - 1
      BY <1>3, FrontProperties
  <2> QED
      BY <1>3, <2>1, <2>2, Sizes
<1>5. line' \in Seq(Letters)
  <2>1. line' = TextOf(buf) \/ line' = line
      BY DEF Enter, HangUp, HighByte, CtrlC, CtrlD, Returns, Ends
  <2> QED
      BY <2>1, TextOfText DEF IInv, InBuffer, Kept
<1>6. Kept'
    BY <1>1, <1>4, <1>5 DEF IInv, Kept
<1>7. Showing'
    BY <1>1 DEF IInv, Showing, Enter, HangUp, HighByte, CtrlC, CtrlD, Returns, Ends
<1> QED
    BY <1>2, <1>6, <1>7 DEF IInv

\* What ends a line and begins the next keeps the invariant.
LEMMA LoopStep ==
  ASSUME LineEditAssumption, IInv, Loop \/ Exit \/ Restart
  PROVE  IInv'
<1>1. CASE Loop
  <2> DEFINE h == IF line = <<>> THEN history ELSE HistoryAdd(history, line)
  <2>1. history \in Seq(Seq(Letters)) /\ Len(history) <= MaxHistory /\ line \in Seq(Letters)
      BY DEF IInv, Kept
  <2>2. h \in Seq(Seq(Letters)) /\ Len(h) <= MaxHistory
      BY <2>1, HistoryAddType
  <2>3. history' = HistoryAdd(h, <<>>)
      BY <1>1, Zenon DEF Loop
  <2> HIDE DEF h
  <2>4. /\ history' \in Seq(Seq(Letters)) /\ Len(history') <= MaxHistory /\ Len(history') >= 1
        /\ <<>> \in Seq(Letters)
    <3>1. <<>> \in Seq(Letters)
        OBVIOUS
    <3> QED
        BY <2>2, <2>3, <3>1, HistoryAddType
  <2>5. Kept'
      BY <1>1, <2>4 DEF Loop, Kept
  <2>6. InBuffer' /\ Showing'
      BY <1>1, NewBytes DEF Loop, InBuffer, Showing, IInv
  <2> QED
      BY <2>5, <2>6 DEF IInv
<1>2. CASE Exit
  <2>1. InBuffer' /\ Kept' /\ Showing'
      BY <1>2 DEF Exit, IInv, InBuffer, Kept, Showing
  <2> QED
      BY <2>1 DEF IInv
<1>3. CASE Restart
  <2>1. /\ history' \in Seq(Seq(Letters)) /\ Len(history') <= MaxHistory /\ Len(history') >= 1
        /\ <<>> \in Seq(Letters)
    <3>1. history' \in Seq(Seq(Letters)) /\ Len(history') = 1
        BY <1>3, FirstEntry, Zenon DEF Restart
    <3> QED
        BY <3>1, Sizes
  <2>2. Kept'
      BY <1>3, <2>1 DEF Restart, Kept
  <2>3. InBuffer' /\ Showing'
      BY <1>3, NewBytes DEF Restart, InBuffer, Showing
  <2> QED
      BY <2>2, <2>3 DEF IInv
<1> QED
    BY <1>1, <1>2, <1>3

\* Every key keeps the invariant.
LEMMA IInvStep == LineEditAssumption /\ IInv /\ [Next]_vars => IInv'
<1> SUFFICES ASSUME LineEditAssumption, IInv, [Next]_vars PROVE IInv'
    OBVIOUS
<1>1. CASE UNCHANGED vars
  <2>1. InBuffer' /\ Kept' /\ Showing'
      BY <1>1 DEF vars, IInv, InBuffer, Kept, Showing, Offers
  <2> QED
      BY <2>1 DEF IInv
<1> QED
    BY <1>1, KeyStep, MoveStep, HistoryStep, OfferStep, AcceptStep, ReturnStep, LoopStep DEF Next

\* linenoise.c: through every key, visit of the history and completion, and from line to
\* line, the cursor is in the line, the line in the buffer with its terminator, and every
\* byte of it was typed or offered; the visited entry exists.
THEOREM EditorSafeAlways == ASSUME LineEditAssumption PROVE Spec => []Safe
<1>1. Init => IInv
    BY IInvInit
<1>2. IInv /\ [Next]_vars => IInv'
    BY IInvStep
<1>3. IInv => Safe
    BY SafeFromIInv
<1> QED
    BY <1>1, <1>2, <1>3, PTL DEF Spec
-----------------------------------------------------------------------------
(* The buffer is a text with a cursor. *)

\* The letters in front of the cursor and behind it.
Before(b, p) == [i \in 1 .. p |-> b[i - 1]]
\* The p letters in front of the cursor and those behind it; how Line calls the places
\* where the editor waits.
After(b, n, p) == [i \in 1 .. n - p |-> b[p + i - 1]]
StateOf == CASE pc = "returned" -> "entered" [] pc = "ended" -> "ended" [] OTHER -> "typing"

\* A line is what is in front of the cursor and what is behind it.
LEMMA Halves ==
  ASSUME LineEditAssumption, NEW b, NEW n, HoldsText(b, n), NEW p \in 0 .. n
  PROVE  /\ n \in Nat /\ p \in Nat /\ n <= buflen
         /\ Before(b, p) \in Seq(Letters) /\ Len(Before(b, p)) = p
         /\ \A i \in 1 .. p : Before(b, p)[i] = b[i - 1]
         /\ After(b, n, p) \in Seq(Letters) /\ Len(After(b, n, p)) = n - p
         /\ \A i \in 1 .. n - p : After(b, n, p)[i] = b[p + i - 1]
         /\ Before(b, p) \o After(b, n, p) = TextOf(b)
<1>1. n \in Nat /\ p \in Nat /\ p <= n /\ n <= buflen /\ n - p \in Nat /\ \A i \in 0 .. n - 1 : b[i] \in Letters
    BY Sizes DEF HoldsText
<1>2. (\A i \in 1 .. p : b[i - 1] \in Letters) /\ (\A i \in 1 .. n - p : b[p + i - 1] \in Letters)
    BY <1>1
<1>3. /\ Before(b, p) \in Seq(Letters) /\ Len(Before(b, p)) = p
      /\ \A i \in 1 .. p : Before(b, p)[i] = b[i - 1]
    BY <1>1, <1>2 DEF Before
<1>4. /\ After(b, n, p) \in Seq(Letters) /\ Len(After(b, n, p)) = n - p
      /\ \A i \in 1 .. n - p : After(b, n, p)[i] = b[p + i - 1]
    BY <1>1, <1>2 DEF After
<1> DEFINE s == Before(b, p) \o After(b, n, p)
<1>5. /\ s \in Seq(Letters) /\ Len(s) = n
      /\ \A i \in 1 .. p + (n - p) : s[i] = IF i <= p THEN Before(b, p)[i] ELSE After(b, n, p)[i - p]
    BY <1>1, <1>3, <1>4, ConcatProperties
<1> HIDE DEF s
<1>6. ASSUME NEW i \in 1 .. n PROVE s[i] = b[i - 1]
  <2>1. i \in 1 .. p + (n - p)
      BY <1>1
  <2>2. CASE i <= p
      BY <1>1, <1>3, <1>5, <2>1, <2>2
  <2>3. CASE ~ (i <= p)
    <3>1. i - p \in 1 .. n - p /\ p + (i - p) - 1 = i - 1
        BY <1>1, <2>3
    <3>2. After(b, n, p)[i - p] = b[p + (i - p) - 1]
        BY <1>4, <3>1
    <3> QED
        BY <1>5, <2>1, <2>3, <3>1, <3>2
  <2> QED
      BY <2>2, <2>3
<1>7. /\ TextOf(b) \in Seq(Letters) /\ Len(TextOf(b)) = n
      /\ \A i \in 1 .. n : TextOf(b)[i] = b[i - 1]
    BY TextOfText
<1>8. s = TextOf(b)
    BY <1>5, <1>6, <1>7, SeqEqual
<1> QED
    BY <1>1, <1>3, <1>4, <1>8 DEF s

\* At the ends of the line one half is the text and the other is empty.
LEMMA WholeHalves ==
  ASSUME LineEditAssumption, NEW b, NEW n, HoldsText(b, n)
  PROVE  /\ Before(b, 0) = <<>> /\ After(b, n, 0) = TextOf(b)
         /\ Before(b, n) = TextOf(b) /\ After(b, n, n) = <<>>
<1>1. n \in Nat
    BY Sizes DEF HoldsText
<1>2. /\ TextOf(b) \in Seq(Letters) /\ Len(TextOf(b)) = n
      /\ \A i \in 1 .. n : TextOf(b)[i] = b[i - 1]
    BY TextOfText
<1>3. Before(b, 0) = <<>> /\ After(b, n, n) = <<>>
    BY <1>1 DEF Before, After
<1>4. /\ Before(b, n) \in Seq(Letters) /\ Len(Before(b, n)) = n
      /\ \A i \in 1 .. n : Before(b, n)[i] = b[i - 1]
    BY <1>1, Halves
<1>5. /\ After(b, n, 0) \in Seq(Letters) /\ Len(After(b, n, 0)) = n
      /\ \A i \in 1 .. n : After(b, n, 0)[i] = b[i - 1]
  <2>1. 0 \in 0 .. n /\ n - 0 = n /\ \A i \in 1 .. n : 0 + i - 1 = i - 1
      BY <1>1
  <2> QED
      BY <2>1, Halves
<1>6. Before(b, n) = TextOf(b)
    BY <1>2, <1>4, SeqEqual
<1>7. After(b, n, 0) = TextOf(b)
    BY <1>2, <1>5, SeqEqual
<1> QED
    BY <1>3, <1>6, <1>7

\* The texts in front of the cursor and behind it.
InFront == Before(buf, pos)
\* The letters behind the cursor.
Behind == After(buf, len, pos)

\* x is the text in front of the cursor at p of a buffer b, and y the text behind it.
Around(b, n, p, x, y) ==
  /\ x \in Seq(Letters) /\ Len(x) = p /\ \A i \in 1 .. p : x[i] = b[i - 1]
  /\ y \in Seq(Letters) /\ Len(y) = n - p /\ \A i \in 1 .. n - p : y[i] = b[p + i - 1]

\* The two halves are determined by their letters.
LEMMA AroundIs ==
  ASSUME LineEditAssumption, NEW b, NEW n, HoldsText(b, n), NEW p, p \in 0 .. n,
         NEW x, NEW y, Around(b, n, p, x, y)
  PROVE  Before(b, p) = x /\ After(b, n, p) = y
<1>1. /\ n \in Nat /\ p \in Nat /\ n <= buflen
      /\ Before(b, p) \in Seq(Letters) /\ Len(Before(b, p)) = p
      /\ \A i \in 1 .. p : Before(b, p)[i] = b[i - 1]
      /\ After(b, n, p) \in Seq(Letters) /\ Len(After(b, n, p)) = n - p
      /\ \A i \in 1 .. n - p : After(b, n, p)[i] = b[p + i - 1]
    BY Halves
<1>2. \A i \in 1 .. p : Before(b, p)[i] = x[i]
    BY <1>1 DEF Around
<1>3. \A i \in 1 .. n - p : After(b, n, p)[i] = y[i]
    BY <1>1 DEF Around
<1>4. Before(b, p) = x
    BY <1>1, <1>2, SeqEqual DEF Around
<1>5. After(b, n, p) = y
    BY <1>1, <1>3, SeqEqual DEF Around
<1> QED
    BY <1>4, <1>5

\* What is around the cursor before a key is handled.
LEMMA Cursor ==
  ASSUME LineEditAssumption, InBuffer
  PROVE  /\ len \in Nat /\ pos \in Nat /\ pos <= len /\ pos \in 0 .. len /\ HoldsText(buf, len)
         /\ InFront \in Seq(Letters) /\ Len(InFront) = pos
         /\ \A i \in 1 .. pos : InFront[i] = buf[i - 1]
         /\ Behind \in Seq(Letters) /\ Len(Behind) = len - pos
         /\ \A i \in 1 .. len - pos : Behind[i] = buf[pos + i - 1]
         /\ InFront \o Behind = TextOf(buf)
  BY Halves, Sizes, SMTT(60) DEF InBuffer, InFront, Behind

\* A key leaves the texts x and y around the cursor, and nothing else changes.
Becomes(x, y) ==
  /\ Before(buf', pos') = x /\ After(buf', len', pos') = y
  /\ StateOf = "typing" /\ StateOf' = "typing" /\ UNCHANGED <<history, history_index, line>>

\* An edit is a step of Line when the new halves are those of Line's step.
LEMMA EditIs ==
  ASSUME LineEditAssumption, NEW b, NEW n, NEW p, Edits(b, n, p),
         pc' = "key", pc \in {"key", "accepted", "escape"},
         HoldsText(buf', len'), pos' \in 0 .. len',
         NEW x, NEW y, Around(buf', len', pos', x, y)
  PROVE  Becomes(x, y)
<1>1. Before(buf', pos') = x /\ After(buf', len', pos') = y
    BY AroundIs
<1>2. StateOf = "typing" /\ StateOf' = "typing" /\ UNCHANGED <<history, history_index, line>>
    BY DEF StateOf, Edits
<1> QED
    BY <1>1, <1>2 DEF Becomes

\* linenoiseEditInsert types a letter in front of the cursor, if it fits.
LEMMA InsertIsType ==
  ASSUME LineEditAssumption, InBuffer, NEW c \in Letters, Insert(c)
  PROVE  Typed!Type(c)
<1>0. /\ len \in Nat /\ pos \in Nat /\ pos <= len /\ pos \in 0 .. len /\ HoldsText(buf, len)
      /\ InFront \in Seq(Letters) /\ Len(InFront) = pos
      /\ \A i \in 1 .. pos : InFront[i] = buf[i - 1]
      /\ Behind \in Seq(Letters) /\ Len(Behind) = len - pos
      /\ \A i \in 1 .. len - pos : Behind[i] = buf[pos + i - 1]
      /\ InFront \o Behind = TextOf(buf)
    BY Cursor
<1>1. /\ HoldsText(buf', len') /\ pos' \in 0 .. len' /\ len' = len + 1 /\ pos' = pos + 1
      /\ \A i \in 0 .. len : buf'[i] = IF i < pos THEN buf[i] ELSE IF i = pos THEN c ELSE buf[i - 1]
    BY InsertBytes
<1> DEFINE x == Append(InFront, c)
<1>2. /\ x \in Seq(Letters) /\ Len(x) = pos + 1 /\ x[pos + 1] = c
      /\ \A i \in 1 .. pos : x[i] = InFront[i]
    BY <1>0, AppendProperties
<1> HIDE DEF x
<1>3. \A i \in 1 .. pos' : x[i] = buf'[i - 1]
  <2> SUFFICES ASSUME NEW i \in 1 .. pos' PROVE x[i] = buf'[i - 1]
      OBVIOUS
  <2>1. /\ i - 1 \in 0 .. len /\ (i # pos + 1 => i \in 1 .. pos /\ i - 1 < pos)
        /\ pos + 1 - 1 = pos /\ ~ (pos < pos)
      BY <1>1, <1>0
  <2>2. CASE i = pos + 1
    <3>1. i - 1 = pos /\ pos \in 0 .. len
        BY <1>0, <2>2
    <3>2. buf'[pos] = c
        BY <1>1, <2>1, <3>1
    <3> QED
        BY <1>2, <2>2, <3>1, <3>2
  <2>3. CASE i # pos + 1
    <3>1. i - 1 \in 0 .. len /\ i - 1 < pos /\ i \in 1 .. pos
        BY <2>1, <2>3
    <3>2. buf'[i - 1] = buf[i - 1]
        BY <1>1, <3>1
    <3> QED
        BY <1>0, <1>2, <3>1, <3>2
  <2> QED
      BY <2>2, <2>3
<1>4. Len(Behind) = len' - pos' /\ \A i \in 1 .. len' - pos' : Behind[i] = buf'[pos' + i - 1]
  <2>1. len' - pos' = len - pos
      BY <1>1, <1>0
  <2>2. ASSUME NEW i \in 1 .. len - pos PROVE Behind[i] = buf'[pos' + i - 1]
    <3>1. /\ pos' + i - 1 = pos + i /\ pos + i \in 0 .. len /\ ~ (pos + i < pos) /\ pos + i # pos
      <4>1. pos' = pos + 1 /\ pos \in Nat /\ len \in Nat /\ pos <= len
          BY <1>0, <1>1
      <4> QED
          BY <4>1
    <3> QED
        BY <1>1, <3>1, <1>0
  <2> QED
      BY <2>1, <2>2, <1>0
<1>5. Around(buf', len', pos', x, Behind)
    BY <1>1, <1>2, <1>3, <1>4, <1>0 DEF Around
<1>6. Becomes(x, Behind)
  <2>1. \E b, n, p : Edits(b, n, p)
      BY DEF Insert
  <2>2. pc' = "key" /\ pc \in {"key", "accepted", "escape"}
      BY DEF Insert, Key, Handles
  <2> QED
      BY <1>1, <1>5, <2>1, <2>2, EditIs
<1>7. Len(InFront \o Behind) < buflen
    BY <1>0, TextOfText DEF Insert
<1> QED
    BY <1>6, <1>7, Zenon DEF x, Typed!Type, Typed!Text, Becomes, StateOf, Typed!Edit, Typed!Typing, Before, After, InFront, Behind

\* A movement of the cursor.
LEMMA MoveIs ==
  ASSUME LineEditAssumption, InBuffer, NEW p \in 0 .. len, Sequence, Moves(p),
         NEW x, NEW y, Around(buf, len, p, x, y)
  PROVE  Becomes(x, y)
<1>0. /\ len \in Nat /\ pos \in Nat /\ pos <= len /\ pos \in 0 .. len /\ HoldsText(buf, len)
      /\ InFront \in Seq(Letters) /\ Len(InFront) = pos
      /\ \A i \in 1 .. pos : InFront[i] = buf[i - 1]
      /\ Behind \in Seq(Letters) /\ Len(Behind) = len - pos
      /\ \A i \in 1 .. len - pos : Behind[i] = buf[pos + i - 1]
      /\ InFront \o Behind = TextOf(buf)
    BY Cursor
<1>1. buf' = buf /\ len' = len /\ pos' = p /\ Edits(buf, len, p)
    BY DEF Moves, Edits
<1>2. HoldsText(buf', len') /\ pos' \in 0 .. len' /\ Around(buf', len', pos', x, y)
    BY <1>1, <1>0
<1>3. pc' = "key" /\ pc \in {"key", "accepted", "escape"}
    BY DEF Sequence
<1> QED
    BY <1>1, <1>2, <1>3, EditIs

\* The cursor's move to the left takes a letter from one half to the other.
LEMMA MoveLeftIsLeft ==
  ASSUME LineEditAssumption, InBuffer, MoveLeft
  PROVE  Typed!Left
<1>0. /\ len \in Nat /\ pos \in Nat /\ pos <= len /\ pos \in 0 .. len /\ HoldsText(buf, len)
      /\ InFront \in Seq(Letters) /\ Len(InFront) = pos
      /\ \A i \in 1 .. pos : InFront[i] = buf[i - 1]
      /\ Behind \in Seq(Letters) /\ Len(Behind) = len - pos
      /\ \A i \in 1 .. len - pos : Behind[i] = buf[pos + i - 1]
      /\ InFront \o Behind = TextOf(buf)
    BY Cursor
<1>1. /\ pos > 0 /\ Moves(pos - 1) /\ Sequence /\ InFront # <<>>
      /\ pos - 1 \in 0 .. len /\ pos - 1 \in Nat
    BY <1>0 DEF MoveLeft
<1> DEFINE x == Front(InFront)
           z == <<Last(InFront)>>
           y == z \o Behind
<1>2. /\ x \in Seq(Letters) /\ Len(x) = pos - 1 /\ \A i \in 1 .. pos - 1 : x[i] = InFront[i]
      /\ z \in Seq(Letters) /\ Len(z) = 1 /\ z[1] = InFront[pos]
  <2>1. /\ Front(InFront) \in Seq(Letters) /\ Len(Front(InFront)) = Len(InFront) - 1
        /\ \A i \in 1 .. Len(InFront) - 1 : Front(InFront)[i] = InFront[i]
        /\ Last(InFront) = InFront[Len(InFront)] /\ Last(InFront) \in Letters
      BY <1>1, <1>0, FrontProperties
  <2>2. \A c \in Letters : <<c>> \in Seq(Letters) /\ Len(<<c>>) = 1 /\ <<c>>[1] = c
      OBVIOUS
  <2> QED
      BY <1>0, <2>1, <2>2
<1> HIDE DEF x, z
<1>3. /\ y \in Seq(Letters) /\ Len(y) = 1 + (len - pos)
      /\ \A i \in 1 .. 1 + (len - pos) : y[i] = IF i <= 1 THEN z[i] ELSE Behind[i - 1]
  <2>1. /\ y \in Seq(Letters) /\ Len(y) = Len(z) + Len(Behind)
        /\ \A i \in 1 .. Len(z) + Len(Behind) : y[i] = IF i <= Len(z) THEN z[i] ELSE Behind[i - Len(z)]
      BY <1>2, <1>0, ConcatProperties, ZenonT(60)
  <2> HIDE DEF y
  <2> QED
      BY <1>2, <1>0, <2>1
<1> HIDE DEF y
<1>4. \A i \in 1 .. pos - 1 : x[i] = buf[i - 1]
    BY <1>2, <1>0
<1>5. Len(y) = len - (pos - 1) /\ \A i \in 1 .. len - (pos - 1) : y[i] = buf[(pos - 1) + i - 1]
  <2>1. len - (pos - 1) = 1 + (len - pos)
      BY <1>0
  <2>2. ASSUME NEW i \in 1 .. 1 + (len - pos) PROVE y[i] = buf[(pos - 1) + i - 1]
    <3>1. CASE i = 1
      <4>1. y[i] = z[1] /\ (pos - 1) + i - 1 = pos - 1
          BY <1>3, <3>1, <1>0
      <4>2. z[1] = buf[pos - 1]
          BY <1>0, <1>1, <1>2
      <4> QED
          BY <4>1, <4>2
    <3>2. CASE i # 1
      <4>1. /\ ~ (i <= 1) /\ i - 1 \in 1 .. len - pos /\ pos + (i - 1) - 1 = (pos - 1) + i - 1
          BY <3>2, <1>0
      <4>2. y[i] = Behind[i - 1]
          BY <1>3, <4>1
      <4>3. Behind[i - 1] = buf[pos + (i - 1) - 1]
          BY <1>0, <4>1
      <4> QED
          BY <4>1, <4>2, <4>3
    <3> QED
        BY <3>1, <3>2
  <2> QED
      BY <1>3, <2>1, <2>2
<1>6. Around(buf, len, pos - 1, x, y)
    BY <1>2, <1>3, <1>4, <1>5 DEF Around
<1>7. Becomes(x, y)
    BY <1>1, <1>6, MoveIs
<1> QED
    BY <1>1, <1>7, Zenon DEF x, y, z, Typed!Left, Typed!Front, Typed!Last, Front, Last, Becomes, StateOf, Typed!Edit, Typed!Typing, Before, After, InFront, Behind

\* The move to the right takes it back.
LEMMA MoveRightIsRight ==
  ASSUME LineEditAssumption, InBuffer, MoveRight
  PROVE  Typed!Right
<1>0. /\ len \in Nat /\ pos \in Nat /\ pos <= len /\ pos \in 0 .. len /\ HoldsText(buf, len)
      /\ InFront \in Seq(Letters) /\ Len(InFront) = pos
      /\ \A i \in 1 .. pos : InFront[i] = buf[i - 1]
      /\ Behind \in Seq(Letters) /\ Len(Behind) = len - pos
      /\ \A i \in 1 .. len - pos : Behind[i] = buf[pos + i - 1]
      /\ InFront \o Behind = TextOf(buf)
    BY Cursor
<1>1. /\ pos < len /\ Moves(pos + 1) /\ Sequence /\ Behind # <<>>
      /\ pos + 1 \in 0 .. len /\ pos + 1 \in Nat
    BY <1>0 DEF MoveRight
<1> DEFINE c == Head(Behind)
           x == Append(InFront, c)
           y == Tail(Behind)
<1>2. /\ c \in Letters /\ c = Behind[1] /\ y \in Seq(Letters) /\ Len(y) = len - pos - 1
      /\ \A i \in 1 .. len - pos - 1 : y[i] = Behind[i + 1]
    BY <1>1, <1>0, HeadTailProperties
<1> HIDE DEF c, y
<1>3. /\ x \in Seq(Letters) /\ Len(x) = pos + 1 /\ x[pos + 1] = c
      /\ \A i \in 1 .. pos : x[i] = InFront[i]
    BY <1>2, <1>0, AppendProperties
<1> HIDE DEF x
<1>4. \A i \in 1 .. pos + 1 : x[i] = buf[i - 1]
  <2> SUFFICES ASSUME NEW i \in 1 .. pos + 1 PROVE x[i] = buf[i - 1]
      OBVIOUS
  <2>1. CASE i = pos + 1
    <3>1. pos + 1 - 1 = pos /\ 1 \in 1 .. len - pos
        BY <1>1, <1>0
    <3> QED
        BY <1>2, <1>3, <2>1, <3>1, <1>0
  <2>2. CASE i # pos + 1
    <3>1. i \in 1 .. pos
        BY <2>2, <1>0
    <3> QED
        BY <1>3, <3>1, <1>0
  <2> QED
      BY <2>1, <2>2
<1>5. Len(y) = len - (pos + 1) /\ \A i \in 1 .. len - (pos + 1) : y[i] = buf[(pos + 1) + i - 1]
  <2>1. len - (pos + 1) = len - pos - 1
      BY <1>0
  <2>2. ASSUME NEW i \in 1 .. len - pos - 1 PROVE y[i] = buf[(pos + 1) + i - 1]
    <3>1. i + 1 \in 1 .. len - pos /\ pos + (i + 1) - 1 = (pos + 1) + i - 1
        BY <1>0
    <3> QED
        BY <1>2, <3>1, <1>0
  <2> QED
      BY <1>2, <2>1, <2>2
<1>6. Around(buf, len, pos + 1, x, y)
    BY <1>2, <1>3, <1>4, <1>5 DEF Around
<1>7. Becomes(x, y)
    BY <1>1, <1>6, MoveIs
<1> QED
    BY <1>1, <1>7, Zenon DEF x, y, c, Typed!Right, Becomes, StateOf, Typed!Edit, Typed!Typing, Before, After, InFront, Behind

\* Home leaves nothing in front of the cursor.
LEMMA MoveHomeIsHome ==
  ASSUME LineEditAssumption, InBuffer, MoveHome
  PROVE  Typed!Home
<1>0. /\ len \in Nat /\ pos \in Nat /\ pos <= len /\ pos \in 0 .. len /\ HoldsText(buf, len)
      /\ InFront \in Seq(Letters) /\ Len(InFront) = pos
      /\ \A i \in 1 .. pos : InFront[i] = buf[i - 1]
      /\ Behind \in Seq(Letters) /\ Len(Behind) = len - pos
      /\ \A i \in 1 .. len - pos : Behind[i] = buf[pos + i - 1]
      /\ InFront \o Behind = TextOf(buf)
    BY Cursor
<1>1. Moves(0) /\ Sequence /\ 0 \in 0 .. len
    BY <1>0 DEF MoveHome
<1>2. Before(buf, 0) = <<>> /\ After(buf, len, 0) = InFront \o Behind
    BY <1>0, WholeHalves
<1>3. Becomes(<<>>, InFront \o Behind)
  <2>1. buf' = buf /\ len' = len /\ pos' = 0 /\ UNCHANGED <<history, history_index, line>>
      BY <1>1 DEF Moves, Edits
  <2>2. pc' = "key" /\ pc \in {"key", "accepted", "escape"}
      BY <1>1 DEF Sequence
  <2> QED
      BY <1>2, <2>1, <2>2 DEF Becomes, StateOf
<1> QED
    BY <1>3, Zenon DEF Typed!Home, Typed!Text, Becomes, StateOf, Typed!Edit, Typed!Typing, Before, After, InFront, Behind

\* End leaves nothing behind it.
LEMMA MoveEndIsEnd ==
  ASSUME LineEditAssumption, InBuffer, MoveEnd
  PROVE  Typed!End
<1>0. /\ len \in Nat /\ pos \in Nat /\ pos <= len /\ pos \in 0 .. len /\ HoldsText(buf, len)
      /\ InFront \in Seq(Letters) /\ Len(InFront) = pos
      /\ \A i \in 1 .. pos : InFront[i] = buf[i - 1]
      /\ Behind \in Seq(Letters) /\ Len(Behind) = len - pos
      /\ \A i \in 1 .. len - pos : Behind[i] = buf[pos + i - 1]
      /\ InFront \o Behind = TextOf(buf)
    BY Cursor
<1>1. Moves(len) /\ Sequence
    BY DEF MoveEnd
<1>2. Before(buf, len) = InFront \o Behind /\ After(buf, len, len) = <<>>
    BY <1>0, WholeHalves
<1>3. Becomes(InFront \o Behind, <<>>)
  <2>1. buf' = buf /\ len' = len /\ pos' = len /\ UNCHANGED <<history, history_index, line>>
      BY <1>1 DEF Moves, Edits
  <2>2. pc' = "key" /\ pc \in {"key", "accepted", "escape"}
      BY <1>1 DEF Sequence
  <2> QED
      BY <1>2, <2>1, <2>2 DEF Becomes, StateOf
<1> QED
    BY <1>3, Zenon DEF Typed!End, Typed!Text, Becomes, StateOf, Typed!Edit, Typed!Typing, Before, After, InFront, Behind

\* Delete takes the letter behind the cursor.
LEMMA DeleteIsDelete ==
  ASSUME LineEditAssumption, InBuffer, Delete
  PROVE  Typed!Delete
<1>0. /\ len \in Nat /\ pos \in Nat /\ pos <= len /\ pos \in 0 .. len /\ HoldsText(buf, len)
      /\ InFront \in Seq(Letters) /\ Len(InFront) = pos
      /\ \A i \in 1 .. pos : InFront[i] = buf[i - 1]
      /\ Behind \in Seq(Letters) /\ Len(Behind) = len - pos
      /\ \A i \in 1 .. len - pos : Behind[i] = buf[pos + i - 1]
      /\ InFront \o Behind = TextOf(buf)
    BY Cursor
<1>1. /\ HoldsText(buf', len') /\ pos' \in 0 .. len' /\ pos < len /\ len' = len - 1 /\ pos' = pos
      /\ \A i \in 0 .. len - 2 : buf'[i] = IF i < pos THEN buf[i] ELSE buf[i + 1]
    BY DeleteBytes
<1>2. Behind # <<>>
    BY <1>1, <1>0
<1> DEFINE y == Tail(Behind)
<1>3. /\ y \in Seq(Letters) /\ Len(y) = len - pos - 1
      /\ \A i \in 1 .. len - pos - 1 : y[i] = Behind[i + 1]
    BY <1>2, <1>0, HeadTailProperties
<1> HIDE DEF y
<1>4. \A i \in 1 .. pos' : InFront[i] = buf'[i - 1]
  <2> SUFFICES ASSUME NEW i \in 1 .. pos PROVE InFront[i] = buf'[i - 1]
      BY <1>1
  <2>1. i - 1 \in 0 .. len - 2 /\ i - 1 < pos
      BY <1>1, <1>0
  <2> QED
      BY <1>1, <2>1, <1>0
<1>5. Len(y) = len' - pos' /\ \A i \in 1 .. len' - pos' : y[i] = buf'[pos' + i - 1]
  <2>1. len' - pos' = len - pos - 1
      BY <1>1, <1>0
  <2>2. ASSUME NEW i \in 1 .. len - pos - 1 PROVE y[i] = buf'[pos' + i - 1]
    <3>1. /\ pos + i - 1 \in 0 .. len - 2 /\ ~ (pos + i - 1 < pos) /\ pos + i - 1 + 1 = pos + (i + 1) - 1
          /\ i + 1 \in 1 .. len - pos
        BY <1>1, <1>0
    <3> QED
        BY <1>1, <1>3, <3>1, <1>0
  <2> QED
      BY <1>3, <2>1, <2>2
<1>6. Around(buf', len', pos', InFront, y)
    BY <1>1, <1>3, <1>4, <1>5, <1>0 DEF Around
<1>7. Becomes(InFront, y)
  <2>1. \E b, n, p : Edits(b, n, p)
      BY DEF Delete
  <2>2. pc' = "key" /\ pc \in {"key", "accepted", "escape"}
      BY DEF Delete, Sequence
  <2> QED
      BY <1>1, <1>6, <2>1, <2>2, EditIs
<1> QED
    BY <1>2, <1>7, Zenon DEF y, Typed!Delete, Becomes, StateOf, Typed!Edit, Typed!Typing, Before, After, InFront, Behind

\* Backspace takes the letter in front of it.
LEMMA BackspaceIsBackspace ==
  ASSUME LineEditAssumption, InBuffer, Backspace
  PROVE  Typed!Backspace
<1>0. /\ len \in Nat /\ pos \in Nat /\ pos <= len /\ pos \in 0 .. len /\ HoldsText(buf, len)
      /\ InFront \in Seq(Letters) /\ Len(InFront) = pos
      /\ \A i \in 1 .. pos : InFront[i] = buf[i - 1]
      /\ Behind \in Seq(Letters) /\ Len(Behind) = len - pos
      /\ \A i \in 1 .. len - pos : Behind[i] = buf[pos + i - 1]
      /\ InFront \o Behind = TextOf(buf)
    BY Cursor
<1>1. /\ HoldsText(buf', len') /\ pos' \in 0 .. len' /\ pos > 0 /\ len' = len - 1 /\ pos' = pos - 1
      /\ \A i \in 0 .. len - 2 : buf'[i] = IF i < pos - 1 THEN buf[i] ELSE buf[i + 1]
    BY BackspaceBytes
<1>2. InFront # <<>>
    BY <1>1, <1>0
<1> DEFINE x == Front(InFront)
<1>3. /\ x \in Seq(Letters) /\ Len(x) = pos - 1 /\ \A i \in 1 .. pos - 1 : x[i] = InFront[i]
    BY <1>2, <1>0, FrontProperties
<1> HIDE DEF x
<1>4. \A i \in 1 .. pos' : x[i] = buf'[i - 1]
  <2> SUFFICES ASSUME NEW i \in 1 .. pos - 1 PROVE x[i] = buf'[i - 1]
      BY <1>1
  <2>1. i - 1 \in 0 .. len - 2 /\ i - 1 < pos - 1 /\ i \in 1 .. pos
      BY <1>1, <1>0
  <2> QED
      BY <1>1, <1>3, <2>1, <1>0
<1>5. Len(Behind) = len' - pos' /\ \A i \in 1 .. len' - pos' : Behind[i] = buf'[pos' + i - 1]
  <2>1. len' - pos' = len - pos
      BY <1>1, <1>0
  <2>2. ASSUME NEW i \in 1 .. len - pos PROVE Behind[i] = buf'[pos' + i - 1]
    <3>1. /\ pos' + i - 1 \in 0 .. len - 2 /\ ~ (pos' + i - 1 < pos - 1)
          /\ pos' + i - 1 + 1 = pos + i - 1
        BY <1>1, <1>0
    <3> QED
        BY <1>1, <3>1, <1>0
  <2> QED
      BY <2>1, <2>2, <1>0
<1>6. Around(buf', len', pos', x, Behind)
    BY <1>1, <1>3, <1>4, <1>5, <1>0 DEF Around
<1>7. Becomes(x, Behind)
  <2>1. \E b, n, p : Edits(b, n, p)
      BY DEF Backspace
  <2>2. pc' = "key" /\ pc \in {"key", "accepted", "escape"}
      BY DEF Backspace, Key, Handles
  <2> QED
      BY <1>1, <1>6, <2>1, <2>2, EditIs
<1> QED
    BY <1>2, <1>7, Zenon DEF x, Typed!Backspace, Typed!Front, Front, Becomes, StateOf, Typed!Edit, Typed!Typing, Before, After, InFront, Behind

\* Ctrl-U leaves an empty line.
LEMMA DeleteLineIsClear ==
  ASSUME LineEditAssumption, InBuffer, DeleteLine
  PROVE  Typed!Clear
<1>0. /\ len \in Nat /\ pos \in Nat /\ pos <= len /\ pos \in 0 .. len /\ HoldsText(buf, len)
      /\ InFront \in Seq(Letters) /\ Len(InFront) = pos
      /\ \A i \in 1 .. pos : InFront[i] = buf[i - 1]
      /\ Behind \in Seq(Letters) /\ Len(Behind) = len - pos
      /\ \A i \in 1 .. len - pos : Behind[i] = buf[pos + i - 1]
      /\ InFront \o Behind = TextOf(buf)
    BY Cursor
<1>1. HoldsText(buf', len') /\ pos' \in 0 .. len' /\ len' = 0 /\ pos' = 0
    BY DeleteLineBytes
<1>2. Around(buf', len', pos', <<>>, <<>>)
    BY <1>1 DEF Around
<1>3. Becomes(<<>>, <<>>)
  <2>1. \E b, n, p : Edits(b, n, p)
      BY DEF DeleteLine
  <2>2. pc' = "key" /\ pc \in {"key", "accepted", "escape"}
      BY DEF DeleteLine, Key, Handles
  <2> QED
      BY <1>1, <1>2, <2>1, <2>2, EditIs
<1> QED
    BY <1>3, Zenon DEF Typed!Clear, Becomes, StateOf, Typed!Edit, Typed!Typing, Before, After

\* Ctrl-K drops what is behind the cursor.
LEMMA DeleteToEndIsCutRest ==
  ASSUME LineEditAssumption, InBuffer, DeleteToEnd
  PROVE  Typed!CutRest
<1>0. /\ len \in Nat /\ pos \in Nat /\ pos <= len /\ pos \in 0 .. len /\ HoldsText(buf, len)
      /\ InFront \in Seq(Letters) /\ Len(InFront) = pos
      /\ \A i \in 1 .. pos : InFront[i] = buf[i - 1]
      /\ Behind \in Seq(Letters) /\ Len(Behind) = len - pos
      /\ \A i \in 1 .. len - pos : Behind[i] = buf[pos + i - 1]
      /\ InFront \o Behind = TextOf(buf)
    BY Cursor
<1>1. /\ HoldsText(buf', len') /\ pos' \in 0 .. len' /\ len' = pos /\ pos' = pos
      /\ \A i \in 0 .. pos - 1 : buf'[i] = buf[i]
    BY DeleteToEndBytes
<1>2. \A i \in 1 .. pos' : InFront[i] = buf'[i - 1]
  <2> SUFFICES ASSUME NEW i \in 1 .. pos PROVE InFront[i] = buf'[i - 1]
      BY <1>1
  <2>1. i - 1 \in 0 .. pos - 1
      BY <1>0
  <2> QED
      BY <1>1, <2>1, <1>0
<1>3. Around(buf', len', pos', InFront, <<>>)
  <2>1. len' - pos' = 0 /\ \A i \in 1 .. 0 : FALSE
      BY <1>1, <1>0
  <2>2. <<>> \in Seq(Letters) /\ Len(<<>>) = 0
      OBVIOUS
  <2> QED
      BY <1>1, <1>2, <2>1, <2>2, <1>0 DEF Around
<1>4. Becomes(InFront, <<>>)
  <2>1. \E b, n, p : Edits(b, n, p)
      BY DEF DeleteToEnd
  <2>2. pc' = "key" /\ pc \in {"key", "accepted", "escape"}
      BY DEF DeleteToEnd, Key, Handles
  <2> QED
      BY <1>1, <1>3, <2>1, <2>2, EditIs
<1> QED
    BY <1>4, Zenon DEF Typed!CutRest, Becomes, StateOf, Typed!Edit, Typed!Typing, Before, After, InFront, Behind

\* Ctrl-W drops the word in front of the cursor and the blanks behind that word.
LEMMA DeletePrevWordIsDeleteWord ==
  ASSUME LineEditAssumption, InBuffer, DeletePrevWord
  PROVE  Typed!DeleteWord
<1>0. /\ len \in Nat /\ pos \in Nat /\ pos <= len /\ pos \in 0 .. len /\ HoldsText(buf, len)
      /\ InFront \in Seq(Letters) /\ Len(InFront) = pos
      /\ \A i \in 1 .. pos : InFront[i] = buf[i - 1]
      /\ Behind \in Seq(Letters) /\ Len(Behind) = len - pos
      /\ \A i \in 1 .. len - pos : Behind[i] = buf[pos + i - 1]
      /\ InFront \o Behind = TextOf(buf)
    BY Cursor
<1>1. PICK start \in 0 .. pos, blanks \in 0 .. pos :
        /\ start <= blanks
        /\ \A i \in blanks .. pos - 1 : buf[i] = Space
        /\ \A i \in start .. blanks - 1 : buf[i] # Space
        /\ blanks > 0 => buf[blanks - 1] # Space
        /\ start > 0 => buf[start - 1] = Space
        /\ HoldsText(buf', len') /\ pos' \in 0 .. len'
        /\ len' = len - (pos - start) /\ pos' = start
        /\ \A i \in 0 .. len' - 1 : buf'[i] = IF i < start THEN buf[i] ELSE buf[i + (pos - start)]
    BY DeletePrevWordBytes
<1> DEFINE x == SubSeq(InFront, 1, start)
           gone == SubSeq(InFront, start + 1, Len(InFront))
           m == blanks - start
           word == SubSeq(gone, 1, m)
<1>2. /\ start \in Nat /\ blanks \in Nat /\ start <= pos /\ blanks <= pos /\ start <= blanks
      /\ m \in 0 .. pos - start /\ m \in Nat /\ start \in 0 .. Len(InFront)
    BY <1>0, <1>1
<1>3. /\ x \in Seq(Letters) /\ Len(x) = start /\ \A i \in 1 .. start : x[i] = InFront[i]
  <2>1. \A i \in 1 .. start : InFront[i] \in Letters
      BY <1>0, <1>2
  <2>2. /\ x \in Seq(Letters) /\ Len(x) = IF 1 <= start THEN start - 1 + 1 ELSE 0
        /\ \A i \in 1 .. start - 1 + 1 : x[i] = InFront[1 + i - 1]
      BY <1>2, <2>1, SubSeqProperties
  <2> HIDE DEF x
  <2> QED
      BY <1>2, <2>2
<1>4. /\ gone \in Seq(Letters) /\ Len(gone) = pos - start
      /\ \A i \in 1 .. pos - start : gone[i] = InFront[start + i]
  <2>1. \A i \in start + 1 .. pos : InFront[i] \in Letters
      BY <1>0, <1>2
  <2>2. /\ gone \in Seq(Letters) /\ Len(gone) = IF start + 1 <= pos THEN pos - (start + 1) + 1 ELSE 0
        /\ \A i \in 1 .. pos - (start + 1) + 1 : gone[i] = InFront[start + 1 + i - 1]
    <3>1. start + 1 \in Int /\ pos \in Int
        BY <1>0, <1>2
    <3> QED
        BY <1>0, <2>1, <3>1, SubSeqProperties
  <2> HIDE DEF gone
  <2>3. pos - (start + 1) + 1 = pos - start /\ \A i \in 1 .. pos - start : start + 1 + i - 1 = start + i
      BY <1>0, <1>2
  <2> QED
      BY <1>0, <1>2, <2>2, <2>3
<1> HIDE DEF x, gone
<1>5. \A i \in 1 .. pos - start : gone[i] = buf[start + i - 1]
  <2> SUFFICES ASSUME NEW i \in 1 .. pos - start PROVE gone[i] = buf[start + i - 1]
      OBVIOUS
  <2>1. start + i \in 1 .. pos
      BY <1>0, <1>2
  <2>2. gone[i] = InFront[start + i] /\ InFront[start + i] = buf[start + i - 1]
      BY <1>0, <1>4, <2>1
  <2> QED
      BY <2>2
<1>6. /\ Len(word) = m /\ \A i \in 1 .. m : word[i] = gone[i]
  <2>1. \A i \in 1 .. m : gone[i] \in Letters
      BY <1>0, <1>2, <1>4
  <2>2. /\ Len(word) = IF 1 <= m THEN m - 1 + 1 ELSE 0
        /\ \A i \in 1 .. m - 1 + 1 : word[i] = gone[1 + i - 1]
      BY <1>2, <2>1, SubSeqProperties
  <2> HIDE DEF word, m
  <2> QED
      BY <1>2, <2>2
<1>7. Space \notin {word[i] : i \in DOMAIN word}
  <2>1. SUFFICES ASSUME NEW i \in 1 .. m PROVE word[i] # Space
    <3>1. DOMAIN word = 1 .. m
        BY <1>6, <1>2, <1>4
    <3> HIDE DEF word, m
    <3> QED
        BY <3>1
  <2>2. i \in 1 .. pos - start /\ start + i - 1 \in start .. blanks - 1
      BY <1>0, <1>2
  <2> QED
      BY <1>1, <1>5, <1>6, <2>2
<1>8. \A i \in m + 1 .. Len(gone) : gone[i] = Space
  <2> SUFFICES ASSUME NEW i \in m + 1 .. pos - start PROVE gone[i] = Space
      BY <1>4
  <2>1. i \in 1 .. pos - start /\ start + i - 1 \in blanks .. pos - 1
      BY <1>0, <1>2
  <2> QED
      BY <1>1, <1>5, <2>1
<1>9. (m = 0 => start = 0) /\ (start > 0 => InFront[start] = Space) /\ m \in 0 .. Len(gone)
  <2>1. m = 0 => start = blanks
      BY <1>2
  <2>2. m = 0 => start = 0
      BY <1>1, <1>2, <2>1
  <2>3. start > 0 => InFront[start] = Space
      BY <1>0, <1>1, <1>2
  <2> QED
      BY <1>2, <1>4, <2>2, <2>3
<1>10. Around(buf', len', pos', x, Behind)
  <2>1. \A i \in 1 .. start : x[i] = buf'[i - 1]
    <3> SUFFICES ASSUME NEW i \in 1 .. start PROVE x[i] = buf'[i - 1]
        OBVIOUS
    <3>1. i - 1 \in 0 .. len' - 1 /\ i - 1 < start /\ i \in 1 .. pos
      <4>1. len' = len - (pos - start) /\ len \in Nat /\ pos \in Nat /\ pos <= len
          BY <1>0, <1>1
      <4> QED
          BY <1>2, <4>1
    <3>2. buf'[i - 1] = buf[i - 1]
        BY <1>1, <3>1
    <3> QED
        BY <1>0, <1>3, <3>1, <3>2
  <2>2. len' - pos' = len - pos
      BY <1>0, <1>1, <1>2
  <2>3. ASSUME NEW i \in 1 .. len - pos PROVE Behind[i] = buf'[pos' + i - 1]
    <3>1. /\ start + i - 1 \in 0 .. len' - 1 /\ ~ (start + i - 1 < start)
          /\ start + i - 1 + (pos - start) = pos + i - 1
        BY <1>0, <1>1, <1>2
    <3>2. buf'[start + i - 1] = buf[pos + i - 1]
        BY <1>1, <3>1
    <3> QED
        BY <1>0, <1>1, <3>2
  <2> QED
      BY <1>0, <1>1, <1>3, <2>1, <2>2, <2>3 DEF Around
<1>11. Becomes(x, Behind)
  <2>1. \E b, n, p : Edits(b, n, p)
      BY DEF DeletePrevWord
  <2>2. pc' = "key" /\ pc \in {"key", "accepted", "escape"}
      BY DEF DeletePrevWord, Key, Handles
  <2> QED
      BY <1>1, <1>10, <2>1, <2>2, EditIs
<1> HIDE DEF m
<1>12. \E n \in 0 .. Len(InFront) :
         LET lost == SubSeq(InFront, n + 1, Len(InFront))
         IN  /\ n > 0 => InFront[n] = Space
             /\ \E k \in 0 .. Len(lost) :
                  /\ Space \notin {SubSeq(lost, 1, k)[i] : i \in DOMAIN SubSeq(lost, 1, k)}
                  /\ \A i \in k + 1 .. Len(lost) : lost[i] = Space
                  /\ k = 0 => n = 0
             /\ Becomes(SubSeq(InFront, 1, n), Behind)
    BY <1>2, <1>7, <1>8, <1>9, <1>11, Zenon DEF x, gone, word
<1> QED
    BY <1>12, Zenon DEF Typed!DeleteWord, Typed!ToSet, Becomes, StateOf, Typed!Edit, Typed!Typing,
                        Before, After, InFront, Behind

\* Ctrl-T exchanges the letters on both sides of the cursor.
LEMMA SwapCharsIsSwap ==
  ASSUME LineEditAssumption, InBuffer, SwapChars
  PROVE  Typed!Swap
<1>0. /\ len \in Nat /\ pos \in Nat /\ pos <= len /\ pos \in 0 .. len /\ HoldsText(buf, len)
      /\ InFront \in Seq(Letters) /\ Len(InFront) = pos
      /\ \A i \in 1 .. pos : InFront[i] = buf[i - 1]
      /\ Behind \in Seq(Letters) /\ Len(Behind) = len - pos
      /\ \A i \in 1 .. len - pos : Behind[i] = buf[pos + i - 1]
      /\ InFront \o Behind = TextOf(buf)
    BY Cursor
<1>1. /\ HoldsText(buf', len') /\ pos' \in 0 .. len'
      /\ pos > 0 /\ pos < len /\ len' = len /\ pos' = IF pos # len - 1 THEN pos + 1 ELSE pos
      /\ \A i \in 0 .. len - 1 : buf'[i] = IF i = pos - 1 THEN buf[pos]
                                           ELSE IF i = pos THEN buf[pos - 1] ELSE buf[i]
    BY SwapCharsBytes
<1> DEFINE moved == <<Head(Behind), Last(InFront)>>
           f == Front(InFront)
<1>2. InFront # <<>> /\ Behind # <<>>
    BY <1>0, <1>1
<1>3. /\ moved \in Seq(Letters) /\ Len(moved) = 2 /\ moved[1] \in Letters /\ moved[2] \in Letters
      /\ moved[1] = buf[pos] /\ moved[2] = buf[pos - 1]
      /\ f \in Seq(Letters) /\ Len(f) = pos - 1 /\ \A i \in 1 .. pos - 1 : f[i] = buf[i - 1]
  <2>1. /\ Front(InFront) \in Seq(Letters) /\ Len(Front(InFront)) = Len(InFront) - 1
        /\ \A i \in 1 .. Len(InFront) - 1 : Front(InFront)[i] = InFront[i]
        /\ Last(InFront) = InFront[Len(InFront)] /\ Last(InFront) \in Letters
      BY <1>0, <1>2, FrontProperties
  <2>2. Head(Behind) = Behind[1] /\ Head(Behind) \in Letters
      BY <1>0, <1>2
  <2>3. \A c, d \in Letters : <<c, d>> \in Seq(Letters) /\ Len(<<c, d>>) = 2 /\ <<c, d>>[1] = c /\ <<c, d>>[2] = d
      OBVIOUS
  <2>4. moved \in Seq(Letters) /\ Len(moved) = 2 /\ moved[1] = Head(Behind) /\ moved[2] = Last(InFront)
      BY <2>1, <2>2, <2>3
  <2>5. Behind[1] = buf[pos] /\ InFront[pos] = buf[pos - 1]
    <3>1. 1 \in 1 .. len - pos /\ pos + 1 - 1 = pos /\ pos \in 1 .. pos
        BY <1>0, <1>1
    <3> QED
        BY <1>0, <3>1
  <2>6. \A i \in 1 .. pos - 1 : Front(InFront)[i] = buf[i - 1]
    <3>1. \A i \in 1 .. pos - 1 : i \in 1 .. pos
        BY <1>0
    <3> QED
        BY <1>0, <2>1, <3>1
  <2> HIDE DEF moved
  <2> QED
      BY <1>0, <2>1, <2>2, <2>4, <2>5, <2>6
<1> HIDE DEF moved, f
<1>4. (\E b, n, p : Edits(b, n, p)) /\ pc' = "key" /\ pc \in {"key", "accepted", "escape"}
    BY DEF SwapChars, Key, Handles
<1>5. /\ buf'[pos - 1] = buf[pos] /\ buf'[pos] = buf[pos - 1]
      /\ \A i \in 0 .. len - 1 : i # pos - 1 /\ i # pos => buf'[i] = buf[i]
  <2>1. pos - 1 \in 0 .. len - 1 /\ pos \in 0 .. len - 1 /\ pos # pos - 1
      BY <1>0, <1>1
  <2> QED
      BY <1>1, <2>1
<1>6. \A i \in 1 .. pos - 1 : f[i] = buf'[i - 1]
  <2> SUFFICES ASSUME NEW i \in 1 .. pos - 1 PROVE f[i] = buf'[i - 1]
      OBVIOUS
  <2>1. i - 1 \in 0 .. len - 1 /\ i - 1 # pos - 1 /\ i - 1 # pos
      BY <1>0, <1>1
  <2> QED
      BY <1>3, <1>5, <2>1
<1>7. CASE pos = len - 1
  <2> DEFINE x == Append(f, moved[1])
             y == <<moved[2]>>
  <2>1. /\ x \in Seq(Letters) /\ Len(x) = pos /\ x[pos] = moved[1] /\ \A i \in 1 .. pos - 1 : x[i] = f[i]
    <3>1. /\ x \in Seq(Letters) /\ Len(x) = Len(f) + 1 /\ x[Len(f) + 1] = moved[1]
          /\ \A i \in 1 .. Len(f) : x[i] = f[i]
        BY <1>3, AppendProperties
    <3> HIDE DEF x
    <3> QED
        BY <1>0, <1>3, <3>1
  <2>2. y \in Seq(Letters) /\ Len(y) = 1 /\ y[1] = moved[2]
      BY <1>3
  <2> HIDE DEF x, y
  <2>3. pos' = pos /\ len' = len /\ len - pos = 1 /\ Len(Behind) = 1
      BY <1>0, <1>1, <1>7
  <2>4. \A i \in 1 .. pos : x[i] = buf'[i - 1]
    <3> SUFFICES ASSUME NEW i \in 1 .. pos PROVE x[i] = buf'[i - 1]
        OBVIOUS
    <3>1. CASE i = pos
        BY <1>3, <1>5, <2>1, <3>1
    <3>2. CASE i # pos
      <4>1. i \in 1 .. pos - 1
          BY <1>0, <3>2
      <4> QED
          BY <1>6, <2>1, <4>1
    <3> QED
        BY <3>1, <3>2
  <2>5. \A i \in 1 .. 1 : y[i] = buf'[pos + i - 1]
    <3>1. \A i \in 1 .. 1 : i = 1
        OBVIOUS
    <3>2. pos + 1 - 1 = pos
        BY <1>0
    <3> QED
        BY <1>3, <1>5, <2>2, <3>1, <3>2
  <2>6. Around(buf', len', pos', x, y)
      BY <2>1, <2>2, <2>3, <2>4, <2>5 DEF Around
  <2>7. Becomes(x, y)
      BY <1>1, <1>4, <2>6, EditIs
  <2> QED
      BY <1>2, <2>3, <2>7, Zenon
      DEF x, y, f, moved, Typed!Swap, Typed!Front, Typed!Last, Front, Last, Becomes, StateOf, Typed!Edit,
          Typed!Typing, Before, After, InFront, Behind
<1>8. CASE pos # len - 1
  <2> DEFINE x == f \o moved
             y == Tail(Behind)
  <2>1. /\ x \in Seq(Letters) /\ Len(x) = pos + 1
        /\ \A i \in 1 .. pos + 1 : x[i] = IF i <= pos - 1 THEN f[i] ELSE moved[i - (pos - 1)]
    <3>1. /\ x \in Seq(Letters) /\ Len(x) = Len(f) + Len(moved)
          /\ \A i \in 1 .. Len(f) + Len(moved) : x[i] = IF i <= Len(f) THEN f[i] ELSE moved[i - Len(f)]
        BY <1>3, ConcatProperties
    <3>2. Len(f) = pos - 1 /\ Len(f) + Len(moved) = pos + 1
        BY <1>0, <1>3
    <3> HIDE DEF x
    <3> QED
        BY <3>1, <3>2
  <2>2. /\ y \in Seq(Letters) /\ Len(y) = len - pos - 1
        /\ \A i \in 1 .. len - pos - 1 : y[i] = Behind[i + 1]
      BY <1>0, <1>2, HeadTailProperties
  <2> HIDE DEF x, y
  <2>3. pos' = pos + 1 /\ len' = len /\ len - (pos + 1) = len - pos - 1 /\ Len(Behind) # 1
      BY <1>0, <1>1, <1>8
  <2>4. \A i \in 1 .. pos + 1 : x[i] = buf'[i - 1]
    <3> SUFFICES ASSUME NEW i \in 1 .. pos + 1 PROVE x[i] = buf'[i - 1]
        OBVIOUS
    <3>1. CASE i <= pos - 1
      <4>1. i \in 1 .. pos - 1
          BY <1>0, <3>1
      <4> QED
          BY <1>6, <2>1, <3>1, <4>1
    <3>2. CASE i = pos
      <4>1. ~ (i <= pos - 1) /\ i - (pos - 1) = 1
          BY <1>0, <3>2
      <4>2. x[i] = moved[1]
          BY <2>1, <4>1
      <4> QED
          BY <1>3, <1>5, <3>2, <4>2
    <3>3. CASE i = pos + 1
      <4>1. ~ (i <= pos - 1) /\ i - (pos - 1) = 2 /\ i - 1 = pos
          BY <1>0, <3>3
      <4>2. x[i] = moved[2]
          BY <2>1, <4>1
      <4> QED
          BY <1>3, <1>5, <4>1, <4>2
    <3> QED
        BY <1>0, <3>1, <3>2, <3>3
  <2>5. ASSUME NEW i \in 1 .. len - pos - 1 PROVE y[i] = buf'[pos + 1 + i - 1]
    <3>1. /\ i + 1 \in 1 .. len - pos /\ pos + (i + 1) - 1 = pos + 1 + i - 1
          /\ pos + 1 + i - 1 \in 0 .. len - 1 /\ pos + 1 + i - 1 # pos - 1 /\ pos + 1 + i - 1 # pos
        BY <1>0, <1>1
    <3>2. y[i] = Behind[i + 1] /\ Behind[i + 1] = buf[pos + (i + 1) - 1]
        BY <1>0, <2>2, <3>1
    <3>3. buf'[pos + 1 + i - 1] = buf[pos + 1 + i - 1]
        BY <1>5, <3>1
    <3> QED
        BY <3>1, <3>2, <3>3
  <2>6. Around(buf', len', pos', x, y)
      BY <2>1, <2>2, <2>3, <2>4, <2>5 DEF Around
  <2>7. Becomes(x, y)
      BY <1>1, <1>4, <2>6, EditIs
  <2> QED
      BY <1>2, <2>3, <2>7, Zenon
      DEF x, y, f, moved, Typed!Swap, Typed!Front, Typed!Last, Front, Last, Becomes, StateOf, Typed!Edit,
          Typed!Typing, Before, After, InFront, Behind
<1> QED
    BY <1>7, <1>8

\* A key that only looks, or finds nothing to do.
LEMMA LookIsStutter ==
  ASSUME Ignored \/ Tab \/ NextOffer \/ CancelOffer
  PROVE  UNCHANGED Typed!vars
<1>1. UNCHANGED <<buf, len, pos, history, history_index, line>>
    BY DEF Ignored, Moves, Edits, Tab, NextOffer, CancelOffer
<1>2. StateOf = "typing" /\ StateOf' = "typing"
    BY DEF Ignored, Sequence, Tab, NextOffer, CancelOffer, StateOf
<1> QED
    BY <1>1, <1>2, Zenon DEF Typed!vars, StateOf

\* An accepted completion is the line, with the cursor at its end.
LEMMA AcceptIsComplete ==
  ASSUME LineEditAssumption, IInv, AcceptOffer
  PROVE  (\E w \in ToSet(Commands) : Typed!Complete(w)) \/ UNCHANGED Typed!vars
<1>1. /\ HoldsText(buf', len') /\ pos' \in 0 .. len'
      /\ \/ buf' = buf /\ len' = len /\ pos' = pos
         \/ \E i \in DOMAIN Commands :
              /\ len' = Len(Commands[i]) /\ pos' = len'
              /\ \A k \in 0 .. len' - 1 : buf'[k] = Commands[i][k + 1]
    BY AcceptBytes
<1>2. UNCHANGED <<history, history_index, line>> /\ StateOf = "typing" /\ StateOf' = "typing"
    BY DEF AcceptOffer, StateOf
<1>3. CASE buf' = buf /\ len' = len /\ pos' = pos
    BY <1>2, <1>3, Zenon DEF Typed!vars, StateOf
<1>4. CASE \E i \in DOMAIN Commands :
             /\ len' = Len(Commands[i]) /\ pos' = len'
             /\ \A k \in 0 .. len' - 1 : buf'[k] = Commands[i][k + 1]
  <2>1. PICK i \in DOMAIN Commands :
               /\ len' = Len(Commands[i]) /\ pos' = len'
               /\ \A k \in 0 .. len' - 1 : buf'[k] = Commands[i][k + 1]
      BY <1>4
  <2> DEFINE w == Commands[i]
  <2>2. w \in ToSet(Commands) /\ w \in Seq(Letters)
      BY DEF ToSet, LineEditAssumption
  <2> HIDE DEF w
  <2>3. len' = Len(w) /\ pos' = Len(w) /\ Len(w) \in Nat /\ \A k \in 0 .. Len(w) - 1 : buf'[k] = w[k + 1]
      BY <2>1, <2>2 DEF w
  <2>4. ASSUME NEW k \in 1 .. Len(w) PROVE w[k] = buf'[k - 1]
    <3>1. k - 1 \in 0 .. Len(w) - 1 /\ k - 1 + 1 = k
        BY <2>3
    <3> QED
        BY <2>3, <3>1
  <2>5. Around(buf', len', pos', w, <<>>)
    <3>1. Len(w) - Len(w) = 0 /\ \A k \in 1 .. 0 : FALSE
        BY <2>3
    <3>2. <<>> \in Seq(Letters) /\ Len(<<>>) = 0
        OBVIOUS
    <3> QED
        BY <2>2, <2>3, <2>4, <3>1, <3>2 DEF Around
  <2>6. Before(buf', pos') = w /\ After(buf', len', pos') = <<>>
      BY <1>1, <2>5, AroundIs
  <2>7. Typed!Complete(w)
      BY <1>2, <2>6, Zenon DEF Typed!Complete, Typed!Edit, Typed!Typing, StateOf, Before, After
  <2> QED
      BY <2>2, <2>7
<1> QED
    BY <1>1, <1>3, <1>4

\* A visit to the history puts some entry into the line, cut where the buffer ends.
LEMMA HistoryNextIsVisit ==
  ASSUME LineEditAssumption, IInv, NEW dir \in {-1, 1}, HistoryNext(dir)
  PROVE  \E to \in {history_index - 1, history_index, history_index + 1} : Typed!Visit(to)
<1>0. /\ len \in Nat /\ pos \in Nat /\ pos <= len /\ pos \in 0 .. len /\ HoldsText(buf, len)
      /\ InFront \in Seq(Letters) /\ Len(InFront) = pos
      /\ \A i \in 1 .. pos : InFront[i] = buf[i - 1]
      /\ Behind \in Seq(Letters) /\ Len(Behind) = len - pos
      /\ \A i \in 1 .. len - pos : Behind[i] = buf[pos + i - 1]
      /\ InFront \o Behind = TextOf(buf)
    BY Cursor DEF IInv
<1>1. /\ history' = [history EXCEPT ![Len(history) - history_index] = TextOf(buf)]
      /\ TextOf(buf) \in Seq(Letters) /\ Len(history) - history_index \in DOMAIN history
      /\ \/ /\ history_index' = history_index /\ buf' = buf /\ len' = len /\ pos' = pos
         \/ /\ history_index' \in 0 .. Len(history) - 1 /\ history_index' # history_index
            /\ history_index' \in {history_index - 1, history_index + 1}
            /\ HoldsText(buf', len') /\ pos' = len'
            /\ LET text == history[Len(history) - history_index']
               IN  /\ text \in Seq(Letters)
                   /\ len' = IF Len(text) < buflen THEN Len(text) ELSE buflen - 1
                   /\ \A i \in 0 .. len' - 1 : buf'[i] = text[i + 1]
    BY HistoryNextBytes
<1>2. /\ history \in Seq(Seq(Letters)) /\ history_index \in Nat /\ history_index < Len(history)
      /\ Len(history) \in Nat /\ Len(history) > 1
  <2>1. pc \in {"key", "accepted", "escape"} /\ Len(history) > 1
      BY DEF HistoryNext, Sequence
  <2> QED
      BY <2>1 DEF IInv, Kept
<1>3. StateOf = "typing" /\ StateOf' = "typing" /\ line' = line
    BY DEF HistoryNext, Sequence, StateOf
<1>4. history' = [history EXCEPT ![Len(history) - history_index] = InFront \o Behind]
    BY <1>0, <1>1
<1>5. CASE history_index' = history_index /\ buf' = buf /\ len' = len /\ pos' = pos
  <2>1. PICK to : to = history_index
      OBVIOUS
  <2>2. to \in 0 .. Len(history) - 1 /\ to \in {history_index - 1, history_index, history_index + 1}
      BY <1>2, <2>1
  <2>3. Typed!Visit(to)
      BY <1>2, <1>3, <1>4, <1>5, <2>1, <2>2, Zenon
      DEF Typed!Visit, Typed!Text, StateOf, InFront, Behind, Before, After
  <2> QED
      BY <2>2, <2>3
<1>6. CASE /\ history_index' \in 0 .. Len(history) - 1 /\ history_index' # history_index
           /\ history_index' \in {history_index - 1, history_index + 1}
           /\ HoldsText(buf', len') /\ pos' = len'
           /\ LET text == history[Len(history) - history_index']
              IN  /\ text \in Seq(Letters)
                  /\ len' = IF Len(text) < buflen THEN Len(text) ELSE buflen - 1
                  /\ \A i \in 0 .. len' - 1 : buf'[i] = text[i + 1]
  <2>1. PICK to : to = history_index'
      OBVIOUS
  <2> DEFINE kept == [history EXCEPT ![Len(history) - history_index] = InFront \o Behind]
             text == kept[Len(history) - to]
             k == IF Len(text) < buflen THEN Len(text) ELSE buflen - 1
             x == SubSeq(text, 1, k)
  <2>2. text = history[Len(history) - to]
    <3>1. Len(history) - to # Len(history) - history_index /\ Len(history) - to \in DOMAIN history
        BY <1>2, <1>6, <2>1
    <3> QED
        BY <3>1
  <2> HIDE DEF text
  <2>3. /\ text \in Seq(Letters) /\ Len(text) \in Nat /\ k \in Nat /\ k <= Len(text) /\ k <= buflen
        /\ len' = k /\ pos' = k /\ HoldsText(buf', len')
        /\ \A i \in 0 .. k - 1 : buf'[i] = text[i + 1]
    <3>1. text \in Seq(Letters) /\ len' = k /\ \A i \in 0 .. len' - 1 : buf'[i] = text[i + 1]
        BY <1>6, <2>1, <2>2
    <3>2. Len(text) \in Nat /\ k \in Nat /\ k <= Len(text) /\ k <= buflen
        BY <3>1, Sizes
    <3> QED
        BY <1>6, <3>1, <3>2
  <2> HIDE DEF k
  <2>4. x \in Seq(Letters) /\ Len(x) = k /\ \A i \in 1 .. k : x[i] = text[i]
    <3>1. \A i \in 1 .. k : text[i] \in Letters
        BY <2>3
    <3>2. /\ x \in Seq(Letters) /\ Len(x) = IF 1 <= k THEN k - 1 + 1 ELSE 0
          /\ \A i \in 1 .. k - 1 + 1 : x[i] = text[1 + i - 1]
        BY <2>3, <3>1, SubSeqProperties
    <3> HIDE DEF x
    <3> QED
        BY <2>3, <3>2
  <2> HIDE DEF x
  <2>5. ASSUME NEW i \in 1 .. k PROVE x[i] = buf'[i - 1]
    <3>1. i - 1 \in 0 .. k - 1 /\ i - 1 + 1 = i
        BY <2>3
    <3> QED
        BY <2>3, <2>4, <3>1
  <2>6. Around(buf', len', pos', x, <<>>)
    <3>1. k - k = 0 /\ \A i \in 1 .. 0 : FALSE
        BY <2>3
    <3>2. <<>> \in Seq(Letters) /\ Len(<<>>) = 0
        OBVIOUS
    <3> QED
        BY <2>3, <2>4, <2>5, <3>1, <3>2 DEF Around
  <2>7. Before(buf', pos') = x /\ After(buf', len', pos') = <<>>
    <3>1. pos' \in 0 .. len'
        BY <2>3
    <3> QED
        BY <2>3, <2>6, <3>1, AroundIs
  <2>8. to \in 0 .. Len(history) - 1 /\ to # history_index /\ history_index' = to
        /\ to \in {history_index - 1, history_index, history_index + 1}
      BY <1>6, <2>1
  <2>9. Typed!Visit(to)
      BY <1>2, <1>3, <1>4, <2>7, <2>8, Zenon
      DEF x, k, text, Typed!Visit, Typed!Text, StateOf, InFront, Behind, Before, After
  <2> QED
      BY <2>8, <2>9
<1> QED
    BY <1>1, <1>5, <1>6

\* The Enter key hands the line to the loop.
LEMMA ReturnIsEnter ==
  ASSUME LineEditAssumption, InBuffer, Enter \/ HangUp \/ HighByte
  PROVE  \E lines \in {history, Front(history)} : Typed!Enter(lines)
<1>1. InFront \o Behind = TextOf(buf)
    BY Cursor
<1>2. /\ history' \in {history, Front(history)} /\ line' = TextOf(buf)
      /\ UNCHANGED <<buf, len, pos, history_index>>
      /\ StateOf = "typing" /\ StateOf' = "entered"
    BY DEF Enter, HangUp, HighByte, Handles, Returns, StateOf
<1>3. PICK lines : lines = history'
    OBVIOUS
<1>4. Typed!Enter(lines)
    BY <1>1, <1>2, <1>3, Zenon
    DEF Typed!Enter, Typed!Text, Typed!Front, Front, StateOf, InFront, Behind, Before, After
<1> QED
    BY <1>2, <1>3, <1>4

\* Ctrl-C, Ctrl-D and the end of the input give the line up.
LEMMA EndIsGiveUp ==
  ASSUME CtrlC \/ CtrlD
  PROVE  \E lines \in {history, Front(history)} : Typed!GiveUp(lines)
<1>1. /\ history' \in {history, Front(history)}
      /\ UNCHANGED <<buf, len, pos, history_index, line>>
      /\ StateOf = "typing" /\ StateOf' = "ended"
    BY DEF CtrlC, CtrlD, Ends, Handles, StateOf
<1>2. PICK lines : lines = history'
    OBVIOUS
<1>3. Typed!GiveUp(lines)
    BY <1>1, <1>2, Zenon DEF Typed!GiveUp, Typed!Front, Front, StateOf
<1> QED
    BY <1>1, <1>2, <1>3

\* A new line is empty on both sides of the cursor.
LEMMA NewHalves ==
  ASSUME NEW b
  PROVE  Before(b, 0) = <<>> /\ After(b, 0, 0) = <<>>
  BY DEF Before, After

\* The loop asks for the next line.
LEMMA LoopIsPrompt ==
  ASSUME Loop
  PROVE  Typed!Prompt
<1>1. /\ StateOf = "entered" /\ StateOf' = "typing" /\ line \notin ExitLines
      /\ history' = HistoryAdd(IF line = <<>> THEN history ELSE HistoryAdd(history, line), <<>>)
      /\ history_index' = 0 /\ line' = <<>>
    BY DEF Loop, StateOf
<1>2. Before(buf', pos') = <<>> /\ After(buf', len', pos') = <<>>
    BY NewHalves DEF Loop
<1> QED
    BY <1>1, <1>2, Zenon
    DEF Typed!Prompt, Typed!Kept, HistoryAdd, Typed!Last, Last, StateOf, Before, After

\* The loop ends.
LEMMA ExitIsExit == ASSUME Exit PROVE Typed!Exit
<1>1. /\ StateOf = "entered" /\ StateOf' = "ended" /\ line \in ExitLines
      /\ UNCHANGED <<buf, len, pos, history, history_index, line>>
    BY DEF Exit, StateOf
<1> QED
    BY <1>1, Zenon DEF Typed!Exit, StateOf

\* The program is started again.
LEMMA RestartIsRestart == ASSUME LineEditAssumption, Restart PROVE Typed!Restart
<1>1. /\ StateOf = "ended" /\ StateOf' = "typing" /\ history_index' = 0 /\ line' = <<>>
      /\ history' = HistoryAdd(<<>>, <<>>)
    BY DEF Restart, StateOf
<1>2. history' = <<<<>>>>
    BY <1>1, FirstEntry
<1>3. Before(buf', pos') = <<>> /\ After(buf', len', pos') = <<>>
    BY NewHalves DEF Restart
<1> QED
    BY <1>1, <1>2, <1>3, Zenon DEF Typed!Restart, StateOf, Before, After

\* An empty buffer is an empty line.
LEMMA RefinesInit == LineEditAssumption /\ Init => Typed!Init
<1> SUFFICES ASSUME LineEditAssumption, Init PROVE Typed!Init
    OBVIOUS
<1>1. StateOf = "typing" /\ history_index = 0 /\ line = <<>>
    BY DEF Init, StateOf
<1>2. history = <<<<>>>>
    BY FirstEntry, Zenon DEF Init
<1>3. Before(buf, pos) = <<>> /\ After(buf, len, pos) = <<>>
    BY NewHalves DEF Init
<1> QED
    BY <1>1, <1>2, <1>3, Zenon DEF Typed!Init, StateOf, Before, After

\* Every key is the step of Line it is named for, or one that does not show.
LEMMA RefinesNext == LineEditAssumption /\ IInv /\ [Next]_vars => [Typed!Next]_(Typed!vars)
<1> SUFFICES ASSUME LineEditAssumption, IInv, [Next]_vars PROVE Typed!Next \/ UNCHANGED Typed!vars
    BY Zenon
<1>0. InBuffer
    BY DEF IInv
<1>1. CASE UNCHANGED vars
    BY <1>1, Zenon DEF vars, Typed!vars, StateOf
<1>2. CASE \E c \in Letters : Insert(c)
    BY <1>0, <1>2, InsertIsType, Zenon DEF Typed!Next
<1>3. CASE MoveLeft \/ MoveRight \/ MoveHome \/ MoveEnd
    BY <1>0, <1>3, MoveLeftIsLeft, MoveRightIsRight, MoveHomeIsHome, MoveEndIsEnd, Zenon DEF Typed!Next
<1>4. CASE Delete \/ Backspace \/ DeletePrevWord \/ SwapChars \/ DeleteLine \/ DeleteToEnd
    BY <1>0, <1>4, DeleteIsDelete, BackspaceIsBackspace, DeletePrevWordIsDeleteWord, SwapCharsIsSwap,
       DeleteLineIsClear, DeleteToEndIsCutRest, Zenon DEF Typed!Next
<1>5. CASE \E dir \in {-1, 1} : HistoryNext(dir)
    BY <1>5, HistoryNextIsVisit, Zenon DEF Typed!Next
<1>6. CASE Ignored \/ Tab \/ NextOffer \/ CancelOffer
    BY <1>6, LookIsStutter, Zenon
<1>7. CASE AcceptOffer
    BY <1>7, AcceptIsComplete, Zenon DEF Typed!Next
<1>8. CASE Enter \/ HangUp \/ HighByte
    BY <1>0, <1>8, ReturnIsEnter, Zenon DEF Typed!Next, Typed!Front, Front
<1>9. CASE CtrlC \/ CtrlD
    BY <1>9, EndIsGiveUp, Zenon DEF Typed!Next, Typed!Front, Front
<1>10. CASE Loop \/ Exit \/ Restart
    BY <1>10, LoopIsPrompt, ExitIsExit, RestartIsRestart, Zenon DEF Typed!Next
<1> QED
    BY <1>1, <1>2, <1>3, <1>4, <1>5, <1>6, <1>7, <1>8, <1>9, <1>10, Zenon DEF Next

\* Every key, visit and completion does to the text around the cursor what module Line
\* promises the person who types.
THEOREM EditorImplementsLine == ASSUME LineEditAssumption PROVE Spec => ImplementsLine
<1>1. Init => IInv /\ Typed!Init
    BY IInvInit, RefinesInit
<1>2. IInv /\ [Next]_vars => IInv'
    BY IInvStep
<1>3. IInv /\ [Next]_vars => [Typed!Next]_(Typed!vars)
    BY RefinesNext
<1> QED
    BY <1>1, <1>2, <1>3, PTL DEF Spec, ImplementsLine, Typed!Spec
=============================================================================
