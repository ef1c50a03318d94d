---------------------------- MODULE Containers ----------------------------
(***************************************************************************)
(* A client that uses one container, of the kind chosen at the start, in   *)
(* every order of calls: those of src/src/struct, which the repository has *)
(* a test program each for, the strings they and the files are named with, *)
(* and the page stacks of a store.                                         *)
(***************************************************************************)
EXTENDS Integers

CONSTANTS
  Keys, Vals, NoVal, Junk,
  ListVals,                         \* values for the list, each in it once at most
  MaxElems, MaxCells, MaxEntries,   \* bounds of the three containers
  Hash, DefaultSize, Sizes,
  Words,                            \* for the trie
  Zero, Prealloc, FormatBuf, Pieces, Separators, Trimmed, Counts, Indices, MaxText,  \* for the string
  Owners, PageWords, Blank, MaxPages, MaxPushes    \* for the page stacks

VARIABLES
  kind,                                                 \* which container it is
  pc, elems, first, last, count, alive, cur, listDone,  \* DList
  up, data, size, max_size, arrayDone,                  \* DArray
  buckets, mapDone,                                     \* HashMap
  nodes, trieDone,                                      \* Trie
  bytes, len, room, textDone,                           \* Str
  words, free, fresh, tops, pushed, calls               \* BStack

listVars == <<pc, elems, first, last, count, alive, cur, listDone>>
arrayVars == <<up, data, size, max_size, arrayDone>>
mapVars == <<buckets, mapDone>>
trieVars == <<nodes, trieDone>>
textVars == <<bytes, len, room, textDone>>
stackVars == <<words, free, fresh, tops, pushed, calls>>
vars == <<kind, listVars, arrayVars, mapVars, trieVars, textVars, stackVars>>

L == INSTANCE DList WITH Vals <- ListVals, done <- listDone
A == INSTANCE DArray WITH done <- arrayDone
M == INSTANCE HashMap WITH done <- mapDone
T == INSTANCE Trie WITH done <- trieDone
S == INSTANCE Str WITH free <- room, done <- textDone
P == INSTANCE BStack WITH Stacks <- Owners

ASSUME ContainersAssumption ==
  /\ L!DListAssumption
  /\ A!DArrayAssumption
  /\ M!HashMapAssumption
  /\ T!TrieAssumption
  /\ S!StrAssumption
  /\ P!BStackAssumption

Init ==
  /\ kind \in {"list", "array", "map", "trie", "string", "page stacks"}
  /\ L!Init /\ A!Init /\ M!Init /\ T!Init /\ S!Init /\ P!Init

Next ==
  /\ UNCHANGED kind
  /\ \/ kind = "list" /\ L!Next /\ UNCHANGED <<arrayVars, mapVars, trieVars, textVars, stackVars>>
     \/ kind = "array" /\ A!Next /\ UNCHANGED <<listVars, mapVars, trieVars, textVars, stackVars>>
     \/ kind = "map" /\ M!Next /\ UNCHANGED <<listVars, arrayVars, trieVars, textVars, stackVars>>
     \/ kind = "trie" /\ T!Next /\ UNCHANGED <<listVars, arrayVars, mapVars, textVars, stackVars>>
     \/ kind = "string" /\ S!Next /\ UNCHANGED <<listVars, arrayVars, mapVars, trieVars, stackVars>>
     \/ kind = "page stacks" /\ P!Next /\ UNCHANGED <<listVars, arrayVars, mapVars, trieVars, textVars>>

Spec == Init /\ [][Next]_vars
-----------------------------------------------------------------------------
\* list.c: between calls the list read backwards is the list read forwards, and
\* it holds all the elements there are.
ListLinked == L!Linked

\* list_clear and list_destroy use nothing they have freed and leave nothing.
ListMemorySafe == L!MemorySafe

\* list.c is a sequence to its clients.
ListIsItemSeq == L!ImplementsItemSeq

\* darray.c: the items lie in allocated cells that were written, through every
\* order of growing, cutting, pushing and popping.
ArrayInBounds == A!InBounds

\* darray.c is a sequence to its clients.
ArrayIsItemSeq == A!ImplementsItemSeq

\* hashmap.c answers as if each key had a stack of its own, through collisions
\* and resizes.
MapIsBindings == M!ImplementsBindings

\* trie.c is a dictionary: it finds the words at its leaves and offers for a typed
\* text those that begin with it, however they were added.
TrieIsDictionary == T!ImplementsDictionary

\* sds.c: the header of a string tells the truth about its memory.
StringSound == S!Sound

\* sds.c is a sequence of bytes to its clients.
StringIsText == S!ImplementsText

\* bstack.c: each stack of pages holds what was pushed on it.
StacksHoldPushed == P!HoldsPushed
=============================================================================
