-------------------------------- MODULE Str --------------------------------
(***************************************************************************)
(* The strings of src/lib/sds/sds.c: a header with the length and the free *)
(* space, and the bytes behind it.  The paths of files, the keys of the    *)
(* trie and the prompt are such strings.  malloc does not fail here.       *)
(***************************************************************************)
EXTENDS Integers, SequencesExt, FiniteSetsExt

CONSTANTS
  Zero, Junk,           \* the byte 0, and one that was allocated and not written
  Prealloc,             \* SDS_MAX_PREALLOC
  FormatBuf,            \* the 16 bytes that sdscatvprintf tries first
  Pieces, Separators, Trimmed, Counts, Indices,   \* what clients pass (module Text)
  MaxText               \* bound: length of the string

StrAssumption ==
  /\ Zero # Junk
  /\ Prealloc \in Nat \ {0} /\ FormatBuf \in Nat \ {0, 1}
  /\ Counts \subseteq Nat /\ Indices \subseteq Int /\ MaxText \in Nat
  /\ <<>> \notin Separators

VARIABLES
  bytes,        \* sdshdr.buf, 0 .. the allocation's last byte; <<>> is no string
  len, free,    \* the header
  done          \* the last completed call, what it was given and what it returned

vars == <<bytes, len, free, done>>

NoString == <<>>
Up == bytes # NoString
Text == [i \in 1 .. len |-> bytes[i - 1]]

Returns(op, arg) == done' = <<op, arg, <<>>>>

\* realloc, memcpy and memmove; a write outside of the allocation is lost.
Realloc(n) == [i \in 0 .. n - 1 |-> IF i \in DOMAIN bytes THEN bytes[i] ELSE Junk]
Write(cells, at, t) ==
  [i \in DOMAIN cells |-> IF i - at + 1 \in DOMAIN t THEN t[i - at + 1] ELSE cells[i]]
Terminated(t) == Append(t, Zero)

Init ==
  /\ bytes = NoString /\ len = 0 /\ free = 0
  /\ done = <<"none", <<>>, <<>>>>

\* sdsnewlen, for sdsnew and sdsempty too.
New(t) ==
  /\ ~Up
  /\ bytes' = [i \in 0 .. Len(t) |-> Terminated(t)[i + 1]]
  /\ len' = Len(t) /\ free' = 0
  /\ Returns("new", t)

\* sdsdup; the client goes on with the copy and frees the old one.
Dup ==
  /\ Up
  /\ bytes' = [i \in 0 .. len |-> Terminated(Text)[i + 1]]
  /\ free' = 0
  /\ Returns("dup", <<>>)
  /\ UNCHANGED len

\* sdsfree.
FreeString ==
  /\ Up
  /\ bytes' = NoString /\ len' = 0 /\ free' = 0
  /\ Returns("free", <<>>)

\* The string becomes the n bytes at its front: what shortens it shares this.
Shorten(cells, n) ==
  /\ bytes' = Write(cells, n, <<Zero>>)
  /\ free' = free + (len - n)
  /\ len' = n

\* sdsupdatelen: strlen, which stops at the terminator at the latest.
UpdateLen ==
  LET n == Min({i \in DOMAIN bytes : bytes[i] = Zero})
  IN  /\ Up
      /\ free' = free + (len - n) /\ len' = n
      /\ Returns("updatelen", <<>>)
      /\ UNCHANGED bytes

\* sdsclear.
Clear == Up /\ Shorten(bytes, 0) /\ Returns("clear", <<>>)

\* Mutant: the length counts as free space.
RoomForLength(n) ==
  LET newlen == IF len + n < Prealloc THEN 2 * (len + n) ELSE len + n + Prealloc
  IN  IF free >= n THEN [cells |-> bytes, free |-> free]
      ELSE [cells |-> Realloc(newlen + 1), free |-> newlen]

\* The buffer sdsMakeRoomFor returns for n more bytes: at least twice what is
\* needed, or a fixed amount more.
RoomFor(n) ==
  LET newlen == IF len + n < Prealloc THEN 2 * (len + n) ELSE len + n + Prealloc
  IN  IF free >= n THEN [cells |-> bytes, free |-> free]
      ELSE [cells |-> Realloc(newlen + 1), free |-> newlen - len]

MakeRoomFor(n) ==
  /\ Up /\ len + n <= MaxText
  /\ bytes' = RoomFor(n).cells /\ free' = RoomFor(n).free
  /\ Returns("make room", <<>>)
  /\ UNCHANGED len

\* sdsRemoveFreeSpace.
RemoveFreeSpace ==
  /\ Up
  /\ bytes' = Realloc(len + 1) /\ free' = 0
  /\ Returns("remove free", <<>>)
  /\ UNCHANGED len

\* sdsIncrLen, after the client has written into the free space or, with a negative
\* length, to cut the end off.
IncrLen(t) ==
  /\ Up /\ len + Len(t) <= MaxText
  /\ Len(t) <= free
  /\ bytes' = Write(bytes, len, Terminated(t))
  /\ len' = len + Len(t) /\ free' = free - Len(t)
  /\ Returns("cat", t)

DecrLen(n) == Up /\ n <= len /\ Shorten(bytes, len - n) /\ Returns("cut", n)

\* Text t goes behind the string, or over it, into a buffer with room.
Place(room, at, t) ==
  /\ bytes' = Write(room.cells, at, Terminated(t))
  /\ len' = at + Len(t)
  /\ free' = len + room.free - (at + Len(t))

\* sdsgrowzero.
GrowZero(n) ==
  /\ Up /\ n <= MaxText
  /\ IF n <= len
       THEN UNCHANGED <<bytes, len, free>>
       ELSE Place(RoomFor(n - len), len, [i \in 1 .. n - len |-> Zero])
  /\ Returns("growzero", n)

\* sdscatlen, and sdscat and sdscatsds, which only measure what they append.
CatLen(t) ==
  /\ Up /\ len + Len(t) <= MaxText
  /\ Place(RoomFor(Len(t)), len, t)
  /\ Returns("cat", t)

\* sdscpylen; where the string's memory is enough it stays.
CpyLen(t) ==
  /\ Up /\ Len(t) <= MaxText
  /\ Place(IF free + len < Len(t) THEN RoomFor(Len(t) - len) ELSE [cells |-> bytes, free |-> free], 0, t)
  /\ Returns("cpy", t)

\* sdscatvprintf: a buffer that the formatted text reaches the last but one byte of
\* is doubled, until the text ends before it.
Formatted(t) ==
  LET size == Min({n \in {FormatBuf * 2 ^ k : k \in 0 .. Len(t)} : Len(t) <= n - 2})
  IN  SubSeq(t, 1, Min({Len(t), size - 1}))
CatPrintf(t) ==
  /\ Zero \notin ToSet(t)
  /\ CatLen(Formatted(t))

\* sdstrim.  strchr finds the terminator of the set too, so zeros are trimmed.
Trim ==
  LET goes(i) == bytes[i] \in Trimmed \cup {Zero}
      sp == Min({len} \cup {i \in 0 .. len - 1 : ~goes(i)})
      ep == Max({-1} \cup {i \in 0 .. len - 1 : ~goes(i)})
      n == IF sp > ep THEN 0 ELSE ep - sp + 1
  IN  /\ Up
      /\ Shorten(Write(bytes, 0, SubSeq(Text, sp + 1, sp + n)), n)
      /\ Returns("trim", <<>>)

\* Mutant: the end is taken for the place behind the range.
NewLenExclusive(start, end) ==
  IF start > end \/ start >= len THEN 0
  ELSE IF end >= len THEN len - start
  ELSE end - start

\* sdsrange: the bytes that stay.
NewLen(start, end) ==
  IF start > end \/ start >= len THEN 0
  ELSE IF end >= len THEN len - start
  ELSE end - start + 1

SdsRange(from, to) ==
  LET at(i) == IF i < 0 THEN Max({0, len + i}) ELSE i
      n == NewLen(at(from), at(to))
  IN  /\ Up
      /\ IF len = 0
           THEN UNCHANGED <<bytes, len, free>>
           ELSE Shorten(Write(bytes, 0, SubSeq(Text, at(from) + 1, at(from) + n)), n)
      /\ Returns("range", <<from, to>>)

\* sdssplitlen: from each start on, the first place of the separator ends a part.
Parts(sep) ==
  LET part[start \in 0 .. len] ==
        LET hits == {j \in start .. len - Len(sep) : SubSeq(Text, j + 1, j + Len(sep)) = sep}
        IN  IF hits = {} THEN <<SubSeq(Text, start + 1, len)>>
            ELSE <<SubSeq(Text, start + 1, Min(hits))>> \o part[Min(hits) + Len(sep)]
  IN  IF len = 0 THEN <<>> ELSE part[0]

Split(sep) ==
  /\ Up
  /\ done' = <<"split", sep, Parts(sep)>>
  /\ UNCHANGED <<bytes, len, free>>

Next ==
  \/ \E t \in Pieces : New(t) \/ IncrLen(t) \/ CatLen(t) \/ CatPrintf(t) \/ CpyLen(t)
  \/ Dup \/ FreeString \/ UpdateLen \/ Clear \/ RemoveFreeSpace \/ Trim
  \/ \E n \in Counts : MakeRoomFor(n) \/ DecrLen(n) \/ GrowZero(n)
  \/ \E from, to \in Indices : SdsRange(from, to)
  \/ \E sep \in Separators : Split(sep)

Spec == Init /\ [][Next]_vars
-----------------------------------------------------------------------------
\* The header tells the truth about the memory: length, free space and terminator
\* are all that is allocated, every byte of the text was written, and it ends
\* where the terminator is.
Sound ==
  Up => /\ len >= 0 /\ free >= 0
        /\ DOMAIN bytes = 0 .. len + free
        /\ bytes[len] = Zero
        /\ Junk \notin ToSet(Text)

\* The string is the sequence of its bytes, wherever its memory has moved.
Bytes == INSTANCE Text WITH text <- IF Up THEN Text ELSE <<>>
ImplementsText == Bytes!Spec
=============================================================================
