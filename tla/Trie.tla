-------------------------------- MODULE Trie --------------------------------
(***************************************************************************)
(* The trie of src/src/struct/trie.c, the table of the command line's      *)
(* words.  A node is named by its key, which is its parent's and one       *)
(* letter more; the root's is empty.  A node without children has no list  *)
(* of children either: the code makes the list when it adds the first.     *)
(***************************************************************************)
EXTENDS Integers, SequencesExt, FiniteSetsExt

CONSTANTS
  Words,        \* what clients add, look up and type: sequences of letters
  Vals, NoVal

TrieAssumption == <<>> \notin Words /\ NoVal \notin Vals

VARIABLES
  nodes,    \* a value and the children's keys in order, by key; <<>> is no trie
  done      \* the last completed call, its word and what it returned

vars == <<nodes, done>>

NoTrie == <<>>
Root == <<>>
IsLeaf(key) == nodes[key].children = <<>>

Init == nodes = NoTrie /\ done = <<"none", <<>>, NoVal>>

\* trie_create.
Create ==
  /\ nodes = NoTrie
  /\ nodes' = Root :> [val |-> NoVal, children |-> <<>>]
  /\ done' = <<"create", <<>>, NoVal>>

\* trie_destroy.
Destroy ==
  /\ nodes # NoTrie
  /\ nodes' = NoTrie
  /\ done' = <<"destroy", <<>>, NoVal>>

\* Where the walk down for a word ends: the longest of its beginnings with a node.
Deepest(w) == Max({n \in 0 .. Len(w) : SubSeq(w, 1, n) \in DOMAIN nodes})

\* trie_add: below that node one for each further letter, all with the value.
Add(w, v) ==
  LET depth == Deepest(w)
      key(n) == SubSeq(w, 1, n)
      below(n) == IF n = Len(w) THEN <<>> ELSE <<key(n + 1)>>
  IN  /\ nodes # NoTrie
      /\ nodes' = [k \in {key(n) : n \in depth + 1 .. Len(w)} |->
                     [val |-> v, children |-> below(Len(k))]]
                  @@ [nodes EXCEPT ![key(depth)].children = @ \o below(depth)]
      /\ done' = <<"add", w, v>>

\* Mutant: a node with children is an answer too.
FindsInner(w) == w \in DOMAIN nodes

\* trie_get_subtrie: only a node without children is an answer.
Finds(w) == w \in DOMAIN nodes /\ IsLeaf(w)

\* trie_get.
Get(w) ==
  /\ nodes # NoTrie
  /\ done' = <<"get", w, IF Finds(w) THEN nodes[w].val ELSE NoVal>>
  /\ UNCHANGED nodes

\* trie_get_keys: the leaves, depth first, without the branches that leave the
\* text.  A key longer than the text is not compared: its parent was.
KeysBelow(text) ==
  LET below[k \in DOMAIN nodes] ==
        IF Len(k) <= Len(text) /\ ~IsPrefix(k, text) THEN <<>>
        ELSE IF IsLeaf(k) THEN <<k>>
        ELSE FlattenSeq([i \in DOMAIN nodes[k].children |-> below[nodes[k].children[i]]])
  IN  below[Root]

\* The command line asks a table with commands in it; the root of an empty one
\* has no key to offer.
GetKeys(text) ==
  /\ nodes # NoTrie /\ ~IsLeaf(Root)
  /\ done' = <<"keys", text, KeysBelow(text)>>
  /\ UNCHANGED nodes

Next ==
  \/ Create \/ Destroy
  \/ \E w \in Words : Get(w) \/ GetKeys(w) \/ \E v \in Vals : Add(w, v)

Spec == Init /\ [][Next]_vars
-----------------------------------------------------------------------------
\* The trie is a table of the words at its leaves.
Leaves == IF nodes = NoTrie THEN {} ELSE {k \in DOMAIN nodes \ {Root} : IsLeaf(k)}
Table == INSTANCE Dictionary WITH table <- [w \in Leaves |-> nodes[w].val]
ImplementsDictionary == Table!Spec
=============================================================================
