--------------------------- MODULE MCContainers ---------------------------
(***************************************************************************)
(* Containers for TLC: three keys, two of which meet in buckets of every   *)
(* size and one that meets them in some; words with common beginnings, one *)
(* of them the beginning of three others; texts with a zero and with spaces  *)
(* to trim, and separators of one and of two bytes.                        *)
(***************************************************************************)
EXTENDS Containers

MCKeys == {"a", "b", "c"}
MCHash == [k \in MCKeys |-> CASE k = "a" -> 1 [] k = "b" -> 7 [] OTHER -> 3]
MCWords == {<<"a">>, <<"b">>, <<"a", "b">>, <<"a", "b", "c">>, <<"a", "c">>}

MCPieces == {<<>>, <<"x">>, <<" ">>, <<"x", " ">>, <<"x", "zero", "x">>}
MCSeparators == {<<" ">>, <<"x", "x">>}
MCIndices == {-4, -1, 0, 1, 3}
=============================================================================
