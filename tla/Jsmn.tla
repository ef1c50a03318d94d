-------------------------------- MODULE Jsmn --------------------------------
(***************************************************************************)
(* The JSON parser src/lib/jsmn/jsmn.c (neither strict nor with parent     *)
(* links), which the command load runs over a file, and which may be       *)
(* called again when more of the text has come or more tokens are there.   *)
(* A character stands for those the code treats alike.                     *)
(***************************************************************************)
EXTENDS Integers, SequencesExt, FiniteSetsExt

CONSTANTS
  Texts,               \* what there may be of the text at first: all of a file, or nothing
  Chars,               \* the characters that come later, of those below
  MaxChars, MaxTokens  \* bounds: the text, and the tokens a client has in the end

\* Any mark of a gap; a letter that ends the escape \u; one that is a hexadecimal
\* digit and an escape too; one that is no character of JSON.
Alphabet == {"{", "}", "[", "]", "quote", "backslash", "gap", "u", "hex", "control"}

JsmnAssumption ==
  /\ Texts \subseteq Seq(Alphabet) /\ Chars \subseteq Alphabet
  /\ {MaxChars, MaxTokens} \subseteq Nat

VARIABLES
  rest,        \* the text from parser->pos on, as far as it has come
  pos,         \* parser->pos, the place of the next character
  tokens,      \* the tokens allocated, parser->toknext of them
  toksuper,    \* the innermost open token's index, or -1
  num_tokens,  \* how many the client has
  count,       \* jsmn_parse's count
  first,       \* toknext when the call began
  result       \* "none" while a call runs, or what it returned: "part", "invalid", "full"
               \* (JSMN_ERROR_...) and "done"

vars == <<rest, pos, tokens, toksuper, num_tokens, count, first, result>>

NoToken == -1
Types == {"object", "array"}

\* jsmn_init; the client has no token at first, or all it will have.
Init ==
  /\ rest \in Texts /\ pos = 0 /\ tokens = <<>> /\ toksuper = NoToken
  /\ num_tokens \in {0, MaxTokens}
  /\ count = 0 /\ first = 0 /\ result = "done"

\* Between two calls the client gets another character, or makes room for a token when
\* it was asked to; it may call with nothing new, and where the text was invalid too.
More(c) ==
  /\ result # "none" /\ pos + Len(rest) < MaxChars
  /\ rest' = Append(rest, c)
  /\ UNCHANGED <<pos, tokens, toksuper, num_tokens, count, first, result>>

Grow ==
  /\ result = "full" /\ num_tokens < MaxTokens
  /\ num_tokens' = num_tokens + 1
  /\ UNCHANGED <<rest, pos, tokens, toksuper, count, first, result>>

Call ==
  /\ result # "none"
  /\ result' = "none" /\ count' = 0 /\ first' = Len(tokens)
  /\ UNCHANGED <<rest, pos, tokens, toksuper, num_tokens>>
-----------------------------------------------------------------------------
At(chars) == result = "none" /\ rest # <<>> /\ Head(rest) \in chars
Takes(n) == pos' = pos + n /\ rest' = SubSeq(rest, n + 1, Len(rest))
Goes == UNCHANGED <<num_tokens, first, result>>

\* jsmn_parse returns; the character it stands at is read again next time.
Returns(how) ==
  /\ result' = how
  /\ UNCHANGED <<rest, pos, tokens, toksuper, num_tokens, count, first>>

Full == Len(tokens) >= num_tokens

\* jsmn_alloc_token and jsmn_fill_token; the innermost open token has a part more.
WithToken(type, start, end) ==
  Append([i \in DOMAIN tokens |-> IF i = toksuper + 1 THEN [tokens[i] EXCEPT !.size = @ + 1] ELSE tokens[i]],
         [type |-> type, start |-> start, end |-> end, size |-> 0])

\* A string or a primitive of n characters, whose token has these bounds.
Leaf(type, n, start, end) ==
  IF Full THEN Returns("full")
  ELSE /\ tokens' = WithToken(type, start, end)
       /\ count' = count + 1
       /\ Takes(n) /\ Goes
       /\ UNCHANGED toksuper

\* An opening bracket.
OpenPart ==
  /\ At({"{", "["})
  /\ IF Full THEN Returns("full")
     ELSE /\ tokens' = WithToken(IF Head(rest) = "{" THEN "object" ELSE "array", pos, NoToken)
          /\ toksuper' = Len(tokens)
          /\ count' = count + 1
          /\ Takes(1) /\ Goes

IsOpen(tok) == tok.start # NoToken /\ tok.end = NoToken
OpenTokens == {i \in DOMAIN tokens : IsOpen(tokens[i])}

\* Mutant: the token before the closed one becomes the innermost open one, whether it is
\* open or not.
EnclosingBefore(i) == i - 2

\* The index of the innermost part that is open around token i, counted from 0.
Enclosing(i) == Max({0} \cup {j \in OpenTokens : j < i}) - 1

\* Mutant: the bracket that closes a part is counted as one that opens it is.
ClosePartCounted ==
  LET i == Max({0} \cup OpenTokens)
      type == IF Head(rest) = "}" THEN "object" ELSE "array"
  IN  /\ At({"}", "]"})
      /\ IF i = 0 \/ tokens[i].type # type THEN Returns("invalid")
         ELSE /\ tokens' = [tokens EXCEPT ![i].end = pos + 1]
              /\ toksuper' = Enclosing(i) /\ count' = count + 1
              /\ Takes(1) /\ Goes

\* A closing bracket: the last open token must be of its type.
ClosePart ==
  LET i == Max({0} \cup OpenTokens)
      type == IF Head(rest) = "}" THEN "object" ELSE "array"
  IN  /\ At({"}", "]"})
      /\ IF i = 0 \/ tokens[i].type # type THEN Returns("invalid")
         ELSE /\ tokens' = [tokens EXCEPT ![i].end = pos + 1]
              /\ toksuper' = Enclosing(i)
              /\ Takes(1) /\ Goes
              /\ UNCHANGED count

\* jsmn_parse_string: the place of the quote that ends the string, or why there is none.
\* Behind a backslash the end of the text is a wrong character, but not in \uXXXX.
StringEnd ==
  LET hexes(i) == CHOOSE n \in 0 .. 4 :
        /\ \A k \in 1 .. n : i + k <= Len(rest) /\ rest[i + k] = "hex"
        /\ n = 4 \/ i + n = Len(rest) \/ (i + n < Len(rest) /\ rest[i + n + 1] # "hex")
      ends[i \in 2 .. Len(rest) + 1] ==
        IF i > Len(rest) THEN [how |-> "part", at |-> 0]
        ELSE CASE rest[i] = "quote" -> [how |-> "end", at |-> i]
               [] rest[i] # "backslash" -> ends[i + 1]
               [] OTHER ->
                    IF i = Len(rest) \/ rest[i + 1] \notin {"quote", "backslash", "hex", "u"}
                      THEN [how |-> "invalid", at |-> 0]
                    ELSE IF rest[i + 1] # "u" THEN ends[i + 2]
                    ELSE IF hexes(i + 1) < 4 /\ i + 1 + hexes(i + 1) < Len(rest)
                      THEN [how |-> "invalid", at |-> 0]
                    ELSE ends[i + 2 + hexes(i + 1)]
  IN  ends[2]

ReadString ==
  /\ At({"quote"})
  /\ IF StringEnd.how # "end" THEN Returns(StringEnd.how)
     ELSE Leaf("string", StringEnd.at, pos + 1, pos + StringEnd.at - 1)

\* jsmn_parse_primitive: everything up to a gap or a closing bracket, or to the end of
\* what has come: the rest of it will be another primitive.
PrimitiveLen ==
  Min({Len(rest)} \cup {i - 1 : i \in {j \in DOMAIN rest : rest[j] \in {"gap", "]", "}"}}})

ReadPrimitive ==
  /\ At({"backslash", "u", "hex", "control"})
  /\ IF \E i \in 1 .. PrimitiveLen : rest[i] = "control" THEN Returns("invalid")
     ELSE Leaf("primitive", PrimitiveLen, pos, pos + PrimitiveLen)

SkipGap ==
  /\ At({"gap"})
  /\ Takes(1) /\ Goes
  /\ UNCHANGED <<tokens, toksuper, count>>

\* Mutant: what is still open is not looked for.
FinishUnchecked == result = "none" /\ rest = <<>> /\ Returns("done")

Finish ==
  /\ result = "none" /\ rest = <<>>
  /\ Returns(IF OpenTokens # {} THEN "part" ELSE "done")

Next ==
  \/ \E c \in Chars : More(c)
  \/ Grow \/ Call
  \/ OpenPart \/ ClosePart \/ ReadString \/ ReadPrimitive \/ SkipGap \/ Finish

Spec == Init /\ [][Next]_vars
-----------------------------------------------------------------------------
\* What streamJSON reads of the tokens when its one call has returned: all it was told
\* of or, when a part is open, those in front of it; and of these the text, if they have
\* an end.
Reads == 1 .. (IF toksuper # NoToken THEN toksuper ELSE IF result = "done" THEN count ELSE 0)
Prints(tok) == tok.start >= 0 /\ tok.end >= 0

\* The command load reads tokens that were filled in and text that is there, and when the
\* parser is content it has been told of every token (count is kept apart from toknext,
\* and what is read depends on toksuper as the last call left it).
LoadReadsTokens ==
  (result # "none" /\ first = 0) =>
    /\ Reads \subseteq DOMAIN tokens
    /\ \A i \in Reads : Prints(tokens[i]) => tokens[i].start <= tokens[i].end /\ tokens[i].end <= pos
    /\ (result = "done" /\ count > 0) => Reads = DOMAIN tokens

\* Token i begins inside the part of token j.
BeginsIn(i, j) == j < i /\ (IsOpen(tokens[j]) \/ tokens[i].start < tokens[j].end)

\* However the text is cut and however often the parser is called again, parts lie within
\* each other or apart, only objects and arrays hold others, each knows how many it holds
\* directly, and toksuper is the innermost that is open.
TokensNest ==
  /\ \A i, j \in DOMAIN tokens : BeginsIn(i, j) =>
       /\ tokens[j].type \in Types /\ tokens[j].start < tokens[i].start
       /\ ~IsOpen(tokens[j]) => tokens[i].end \in tokens[i].start .. tokens[j].end - 1
  /\ \A j \in DOMAIN tokens :
       tokens[j].size = Cardinality({i \in DOMAIN tokens :
                          BeginsIn(i, j) /\ \A k \in j + 1 .. i - 1 : ~BeginsIn(i, k)})
  /\ toksuper = Max({0} \cup OpenTokens) - 1

\* The parser follows the brackets: what it has open is a stack, a part is closed by the
\* bracket that fits it, and it is content only when nothing is open.
OpenTypes == LET parts == SelectSeq(tokens, IsOpen) IN [i \in DOMAIN parts |-> parts[i].type]
Abstract == INSTANCE Brackets WITH open <- OpenTypes, tokens <- Len(tokens)
ImplementsBrackets == Abstract!Spec
=============================================================================
