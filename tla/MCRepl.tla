------------------------------- MODULE MCRepl -------------------------------
(***************************************************************************)
(* Repl for TLC: a letter and a blank, a command to complete and a line to *)
(* leave with; two databases; texts that come in pieces, and whole ones    *)
(* with escapes of every length, gaps and bytes that are no text.          *)
(***************************************************************************)
EXTENDS Repl, Sequences

MCOffered == <<<<"a">>>>
MCExitLines == {<<"a", "a">>}

Escaped(n) == <<"quote", "backslash", "u">> \o [i \in 1 .. n |-> "hex"]
MCTexts ==
  {<<>>} \cup {Escaped(n) : n \in {0, 3, 4, 5}} \cup {Append(Escaped(n), "quote") : n \in {0, 3, 4}}
  \cup {<<"quote", "backslash", "gap", "quote">>, <<"hex", "control", "gap", "hex">>,
        <<"{", "quote", "hex", "quote", "gap", "[", "hex", "gap", "{", "}", "]", "gap", "u", "}">>}
=============================================================================
