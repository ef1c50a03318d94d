# Verification of adventure

adventure is a small graph database in C: a node table and edge segments in
memory-mapped files, a page allocator under them, a copy-on-write B-tree for
indices, a few containers and a command line on three small vendored libraries. This directory holds TLA+ models of
it, TLC configurations that check them on small instances, and TLAPS proofs of the main
properties for every value of the constants.

Paths below are relative to the repository (`src/db/...` is its C source).

## 1. Inventory

| component | state | operations | interacts with |
|---|---|---|---|
| **store** `src/db/store/store.c`, `src/util/fs.c` | file: size, `end` in the header; handle: mapping, its size, copy of `end`, free list, `free_root` | `store_open`, `store_close`, `store_resize`, `store_extend`, `store_alloc`, `store_free`, reads and writes through the mapping | `fs_*` (files, mmap), `list` (free list), `btree_create` (the free tree's root, on creation) |
| **btree** `btree.c` | pages in a store; the client keeps the root | `btree_create`, `btree_add`, `btree_find`, `btree_destroy` | `store_alloc`/`store_free` per page, `bstack` for duplicates |
| **bstack** `bstack.c` | chain of overflow pages | `bstack_create`, `bstack_add` | store |
| **nodes** `nodes.c` | array of 16-byte items in its store | `nodes_add`, `nodes_edges_from`, `nodes_edges_set`, `nodes_count` | store |
| **edges** `edges.c` | segments (size word, ids) in its store | `edges_add`, `edges_remove` | store |
| **adv** `adv.c` | the two stores | `adv_open`, `adv_close`, `adv_node_add`, `adv_edge_add`, `adv_edge_remove`, `adv_debug_print` | nodes, edges |
| **list, hashmap, darray, trie** `src/struct` | heap structures | usual container operations | list is used by store, hashmap, trie |
| **repl** `src/repl` | one global `db`, the command trie | `create`, `open`, `close`, `+n`, `+e`, `-e`, `debug`, `load` | adv, trie, list, fs, linenoise, jsmn |
| **linenoise** `lib/linenoise` (vendored) | buffer, length, cursor; the history and the visited entry | every key, completion, `linenoiseHistoryAdd` | trie (completions), repl |
| **jsmn** `lib/jsmn` (vendored) | place in the text, token count, innermost open token; the client's tokens | `jsmn_init`, `jsmn_parse` | load |
| **sds** `lib/sds` (vendored) | per string: length, free space, bytes | making, growing, appending, cutting, splitting | fs, adv, trie, repl |
| bvec, murmur3, math.h, dbg.h | – | unused or helpers | – |

What is hard in each, and what makes it correct:

- **store.** The end of the file lives in the header and in the handle and is moved
  in two steps; the free list lives in memory only; the file doubles and is mapped
  again in the middle of an allocation; a process may die anywhere. Correct: a page
  has one holder, held pages do not overlap, a reopened file never cuts bytes again
  that are held, a call returns.
- **btree.** A call of `btree_add` copies the path from leaf to root, frees each old
  page as soon as its copy exists and lets the next copy take it; splits travel up.
  Correct: sorted, balanced, each pair added exactly once, no page in two places,
  none lost, lookups find what is there.
- **nodes, edges, adv.** An edge operation writes a segment in one file and moves a
  pointer in another, with kills in between. Correct: atomic, and no other node's
  edges change.
- **containers.** Sequential code; the hazards are boundaries (size against capacity,
  a key that is the prefix of another, resizing with equal keys).
- **repl.** The life of the one handle: `close` leaves it set, `open` drops it, and a
  second handle of the same files has its own copy of their ends. Correct: the handle in
  use is open and current, at most one database is in use, nothing that was added goes.
- **linenoise.** Three numbers and a terminator that every key changes for itself; a
  history whose last entry is the line being typed and whose entries change while they are
  visited; keys handled twice, for a completion and for the line. Correct: the buffer is a
  text with a cursor, and it never leaves its bounds.
- **jsmn, load.** A parser without a stack, which may stop anywhere and be called again;
  a client that guesses from two numbers how many tokens there are. Correct: tokens nest
  as the text does, and only tokens that were filled in are read.
- **sds.** Length, free space and allocation are kept apart. Correct: they agree.

There are no threads in the code. The only concurrency it promises is that of readers
beside a writer (repository README, line 8); run `btree_reader` looks at it. A process that dies keeps
what it wrote through `MAP_SHARED`, so a kill loses the handle and nothing of the file;
a power failure, where pages reach the disk in any order, is not modelled: nothing in
the code syncs (`store_sync` is declared only).

## 2. Plan

Order: the allocator first, since everything stands on it; then the B-tree, the
largest algorithm; then the database with its two files; then the rest.

| step | modules | status |
|---|---|---|
| 1 | `PageAlloc` (abstract), `Store`, `StoreProofs` | done |
| 2 | `KVIndex` (abstract), `BTree`, `MCBTree` | done |
| 3 | `Adjacency` (abstract), `Graph` | done |
| 4 | `BStack`: pages as words, with the copy that overruns the last slot | done |
| 5 | `ItemSeq`, `Bindings` (abstract), `DList`, `DArray`, `HashMap`, `Containers`, `MCContainers` | done |
| 6 | `Dictionary`, `Sessions`, `Line`, `Brackets`, `Text` (abstract), `Trie`, `Commands`, `LineEdit`, `Jsmn`, `Str`, `Repl`, `MCRepl` | done |
| 7 | proofs: `GraphProofs`, `LineEditProofs`, `ReplProofs`, the array and the list of `ContainersProofs`, over `SequenceLemmas` | done |
| 8 | proofs: `BTreeProofs`, the pages, types and shape of `BTree` | done |
| 9 | proofs: `BTreeUniqueProofs`, the order of keys, the lookups, the page accounting and the refinement of `BTree` | done |
| 10 | proofs: the refinement of `BTree` with duplicates; the strings; the page stacks | open |

## 3. Modules

**Store** (refines **PageAlloc**). Variables are the file (`fsize`, `hdr`), the handle
(`mapped`, `end`, `free`, `freeRoot`), the place in the running call (`pc`, `req`,
`caller`, and `given`, the page it returned to a client) and two history variables: `live`, the pages clients hold with the size they
asked for, and `carved`, the extents ever cut from the end of the file. `store_open`
is `CreateFile`, `WriteHeader` and an allocation for a new file, `OpenExisting`
otherwise; `store_alloc` is `Alloc`, any number of `Extend` (the code's recursion), and
then `Reuse`, or `Bump` and `PersistEnd`: the two writes of line 119 and 120. `Crash`
may come between any two of them. Sizes are bytes. A client releases only pages it
holds: `store_free` trusts its caller, as every caller in `src/db` does except
`edges_add` (see `Graph`).

**BTree** (refines **KVIndex**). A page is a record of its flags and its items as
sequences; the byte layout is abstracted to capacities computed from the page and header sizes.
All pages of a tree have one size, so the store is reduced to page numbers: memory,
next unused page and free list with `store_alloc`'s rule (the page freed last goes out
first). `btree_recur_add` is a recursion: `Descend` pushes a call on `path`; `LeafAdd`,
`LeafAddDup` or `LeafSplitUp` writes the leaf level; `BranchAdd` or `BranchSplitUp`
returns through one caller each; `EndAdd` makes a new root if needed and returns it.
Each action has all allocations, copies and releases of its function, in their order,
as nested operators on the store. The median of a split keeps its overflow bit, and
both searches compare raw keys, as in the code. `Destroy` frees in the order of the code's recursion
(`Freed`), written as a function of the depth; `MaxDepth` is the depth no tree of `MaxAdds` keys exceeds. `btree_find` goes one page at a time so
that it can run beside a writer (`ConcurrentFind`).

Two limits come from the code. `bstack_add` copies `end` bytes from behind its header,
16 more than the page holds, so the copy that fills the last slot runs 8 bytes into the
next page (bstack.c line 150). Pages as records cannot show that, and so the
model stays below it: `AllowDups => MaxAdds < StackCap`; `BStack` goes on from there. And keys with the top bit set
are excluded by the assumption on `Inputs`.

**Graph** (refines **Adjacency**). The node table is the sequence of edge pointers, the
edges file an array of 8-byte words; a segment is a size word, counted in words, and ids. `AddEdge`,
`RemoveEdge` and `RemoveNothing` are `edges_add` and `edges_remove`, `Link` is
`nodes_edges_set`; `Crash` may come in between. `adv_open` is two steps, nodes and
edges, each created if missing. The stores are reduced to their ends and the edges
store's free list; creating a file with its header is one step here (`Store` has the
kill inside it). The edges store's release of the null pointer is in the model, and its
consequence is run `graph_session`. `ReuseFits` restricts the clients of the
passing run: before the segment freed last is too small for the next one, or is the null
pointer, they reopen the database, which forgets the free list. Anything beyond that goes wrong.

**Containers** puts six data structures side by side for a client that uses one of them:
the four of `src/struct`, the strings and the page stacks. **DList** has list.c's elements with their pointers in a heap,
`list_destroy` as the loop it is, and refines **ItemSeq**, which is why the other modules may take a
list (the free list, a bucket) for a sequence. **DArray** has the allocated cells,
written or not, and refines `ItemSeq` too. Its clients do not use the two calls that
break it: a cut below the items in use (`darray_reserve`, `darray_contract`), after which
one doubling in `darray_push` is not enough, and `darray_set` behind the last item, which
`darray_get` does not find again. **HashMap** refines **Bindings**, a stack of values
per key. `Bindings` says what the code does on a resize: the stacks turn over, so that a key
inserted twice answers with its older value afterwards, and one with a single value is
not affected. The hash is any function to numbers; its computation is left out.
**Trie** refines **Dictionary**: a node per beginning of a word, in which only a leaf's
value is found, so that a word that is the beginning of another is gone when the other is
added, and adding it once more changes nothing; the dictionary's `Add` says which words
go. **Str** refines **Text**, a sequence of bytes: every operation of sds that src/src
uses, and those near it, on a header and an allocation with bytes never written (`Junk`).
The dictionary and the text say what the code does where a doc would promise more: the
trimming of zeros, and a range that ends before the text and still keeps a byte.
**BStack** has the pages of bstack.c as words in one mapping with the store's free list, so
that the copy of `bstack_add` runs into the next page as it does in the code. It does no harm when that page is
free, not cut yet, or the page copied from. Otherwise it overwrites another page's header, and
its clients do not push then (`MayPush`): the property fails without that rule.

**Repl** puts the command line's three parts side by side: a line is typed, lines are
carried out, a text is read.

**LineEdit** (refines **Line**) is linenoise with the loop of repl.c. The state is the
code's: buffer with terminator, length, cursor, history, visited entry. An action is a
key, with its escape sequence if it has one; `completeLine` is the four actions from `Tab` on, since the
key that ends it is handled a second time (`accepted`, and `escape` when the bytes of a
sequence are still to come). `Offers` are the commands that begin with what was typed, `Offer(k)` the k-th of them. A read that finds the end of the input (`HangUp`) returns the line so far,
leaves its entry in the history, and the loop calls again for ever. `Line` has the text left and right of the cursor.
The assumption has three limits from the code: completions fit in the buffer
(`completeLine` takes their length for the line's, whatever was copied), nobody types the
byte 0 (Ctrl-Space, which the code inserts like a letter and which ends the line for
everyone who reads it), and the history keeps two lines at least.

**Commands** (refines **Sessions**) is cmds.c: the variable `db`, the handles a process
opened and dropped, each with its copy of the end of the node table, and the files. Each
command is an action with what it answers; -1 is reported as an unknown command, also by
`+n` without a database and by a `load` that runs out of tokens. `create` opens what exists: `fs_create_dir` clears the
error before it returns it. `Crash` has the lines the program dies of, `Kill` may leave one
of the two files. After `close` the variable still holds the freed handle: whatever uses it then is undefined, so
these users open or create first (`MayUse`, with the history variable `closed`).

**Jsmn** (refines **Brackets**, a stack of open parts) is jsmn.c as it is built, one action per turn of
`jsmn_parse`'s loop. A character stands for those the code treats alike. The client may call again with more text, with
room for another token, or with nothing new. `Reads` is what `streamJSON` in load.c
makes of the result. Two things the code does with a text that is cut are in the model and in no
property: the rest of a primitive is a primitive of its own, and a string cut behind a backslash is invalid.

The abstract modules keep the running call in a variable (`given` in `PageAlloc`, `call`
in `KVIndex` and `Adjacency`) and count what they hold. Without that a lost insertion
would be a step that changes nothing, and a page handed out twice or a doubled pair
would disappear in a set: every refinement allows such steps.

**MCBTree** gives TLC the inputs and the scripted prefix of `BTree`, **MCContainers** the
hash of each key and what is typed into tries and strings, **MCRepl** the commands and the texts. The other modules need no MC module: their configurations assign plain values.

The modules named *Proofs* have the theorems (section 5), **SequenceLemmas** what they
use of sequences: what appending, cutting, inserting and removing leave where, and how
often an element occurs.

Operators marked *Mutant* are never used by a specification. Each is a plausible wrong
version of the definition below it, kept to show that the property it is listed with in
`PROJECT.json` would notice.

## 4. Runs

| run | shows | bounds and why they are enough |
|---|---|---|
| `store` (124 420 states) | all safety properties, `NoLeak`, `HandedOutOnce`, `AllocReturns`, refinement of `PageAlloc` | page size 16 beside the root's 64, ends up to 144: the root page and up to three client pages, the file doubling more than once, pages freed, reused and lost by kills. `ResizeTo = {200}`: a size that is no power of two; capacity 1600 is never reached. `TornCreate = FALSE`: `store_torn_create` shows why. |
| `store_mixed_sizes` | `NoOverlap` fails with sizes 16 and 24 | the same file |
| `store_disk_full` | `AllocReturns` fails when the file cannot pass 128 bytes | `FairSpec` |
| `store_torn_create` | `BehindHeader` fails if creation may be torn | |
| `btree` (30 799 states) | order, shape, page accounting, lookups, refinement of `KVIndex` | 64-byte pages as in the code: 3 items per leaf, 3 keys per branch. Eight scripted adds (2, 4, ..., 16) give four leaves under a full root; four free ones among 17 keys then split leaves at every position, the full root, and branches; one tree, destroyed at any point between calls. |
| `btree_overflow` (237 834 states) | page accounting and refinement with two values for each of four keys | five adds, so a stack page gets at most five values; two trees, the second out of the first one's pages |
| `btree_dups` | `FindSees` fails: a key in a leaf with overflow values is not found | |
| `btree_reader` | `FindSees` fails when a reader may run beside the writer | |
| `graph` (170 488 states) | `SegmentsApart`, refinement of `Adjacency`, kills included | two nodes, 20 words of which 8 are for segments: several generations of segments for both nodes, reuse of freed ones, parallel edges, self loops, removal of the last edge |
| `containers` (45 457 states) | list: links, memory and refinement of `ItemSeq`; array: bounds and refinement; map: refinement of `Bindings`; trie: of `Dictionary`; string: `Sound` and refinement of `Text`; page stacks: what was pushed is there | a list of up to four elements, so that one has two inner neighbours; arrays of 0 to 4 cells; three keys, of which two share buckets at every size (1, 2, 3), up to three entries; five words, among them beginnings of others, in every order; strings to three bytes with zeros inside, growth on both sides of the preallocation limit, ranges with ends inside and outside; two stacks with 12 pushes in the 8-word pages of the code, six items each: both stacks fill a page, take freed pages, and meet the overrun |
| `repl` (754 458 states) | editor: bounds, terminator and refinement of `Line`; commands: the handle is open and current, refinement of `Sessions`; parser: nesting, `streamJSON`'s reads, refinement of `Brackets` | a buffer of four bytes (lines of three, so that words, full lines and the truncation happen) with two entries; two databases with two nodes, three handles per process, so two of one file and a third; every text of up to five brackets, quotes and backslashes in every cut, with room for six tokens at once or one by one; whole texts with escapes of all lengths, gaps, control bytes and six tokens in three levels |
| `graph_session` | `ImplementsAdjacency` fails when edges change freely in a session | `FairSpec` |

`CHECK_DEADLOCK FALSE` is set for the B-tree: its clients may stop, and do when the
bounds on calls are used up. The other passing runs check for deadlock: a client can always close.

Fairness. `AllocReturns` needs `WF_vars(AllocStep)`: a call of `store_alloc` is
straight-line code of one thread, so one of its steps is taken as long as the process
lives; it says nothing of the clients or of kills, which may always come instead
(they lead to `closed`). `Graph`'s `WF_vars(Link)` is the same for the second half of an edge
operation; no liveness is claimed there, the fairness only makes the counterexample of
`graph_session` one that a running process reaches.

### What the failing runs say

- `store_mixed_sizes`: `store_alloc` (store.c 124-128) hands out any freed page,
  whatever its size; store.h line 19 speaks of variable-length pages. B-trees and
  nodes use one size per store. Edges do not.
- `store_disk_full`: `check` clears `errno` before `fs_resize_file` returns it, and
  `store_resize` returns 0 always; line 112's check never fails, the recursion never ends.
- `store_torn_create`: nobody checks the magic or the end of an existing file. One
  created but not initialised opens with `end = 0`, and page 0 is the null page.
- `btree_dups`: a key with overflow values compares above all others. The code lists
  duplicates as a TODO, and their test is disabled.
- `btree_reader`: pages of the old path are freed at once and reused by the same call.
- `graph_session`: `edges_add` (line 18) frees the null pointer with a node's first
  edge; the next segment of the session lands on the file's header and its pointer, 0, means none.

## 5. Proofs

What is proved holds for every value of the constants that satisfies the module's named
assumption, which TLC evaluates on the runs; further assumptions are in the table.

| theorem | statement | further assumptions |
|---|---|---|
| `StoreProofs!TypeCorrect` | `Spec => []TypeOK` | none |
| `StoreProofs!Inductive` | `Spec => []IInv` | no torn creation |
| `OneHolderHolds`, `EndInMappingHolds` | safety | no torn creation |
| `NoLeakHolds`, `HandedOutOnceHolds` | action properties | no torn creation |
| `RecordedEndHolds`, `NoOverlapHolds` | safety | no torn creation, one page size |
| `StoreProofs!Refinement` | `Spec => ImplementsPageAlloc` | no torn creation, one page size |
| `GraphProofs!TypesAlways`, `SegmentsApartAlways` | safety | `ReuseFits` |
| `GraphProofs!GraphImplementsAdjacency` | `Spec => ImplementsAdjacency` | `ReuseFits` |
| `ReplProofs!OpenHandleUsed`, `HandleInUseCurrent` | safety | none |
| `ReplProofs!CommandsImplementSessions` | `Spec => ImplementsSessions` | none |
| `LineEditProofs!EditorSafeAlways` | `Spec => []Safe` | none |
| `LineEditProofs!EditorImplementsLine` | `Spec => ImplementsLine` | none |
| `ReplProofs`: `CommandsUseOpenHandleAlways`, `CommandsHandleCurrentAlways`, `CommandsAreSessionsAlways`, `EditorSafeAlways`, `EditorIsLineAlways` | the same for the command line as a whole, as run `repl` checks them | none |
| `BTreeProofs!InvariantHolds` | `Spec => []IInv` | none |
| `BTreeProofs!TypesAlways`, `ShapeAlways`, `PagesApartAlways` | safety | none |
| `BTreeProofs!ReachAlways` | the model looks at whole trees | none |
| `BTreeUniqueProofs!OrderHolds` | `Spec => []OInv` | `AllowDups = FALSE` |
| `BTreeUniqueProofs!OrderedAlways` | safety | `AllowDups = FALSE` |
| `BTreeUniqueProofs!FindSeesAlways` | safety | `AllowDups = FALSE`, `ConcurrentFind = FALSE` |
| `BTreeUniqueProofs!PagesTallied` | `Spec => []PInv` | `AllowDups = FALSE` |
| `BTreeUniqueProofs!NoPageLostAlways` | safety | `AllowDups = FALSE` |
| `BTreeUniqueProofs!TreeImplementsIndex` | `Spec => ImplementsKVIndex` | `AllowDups = FALSE` |
| `ContainersProofs!ArrayInBoundsAlways`, `ArrayIsItemSeqAlways` | safety and refinement of the growing array | none |
| `ContainersProofs!ListLinkedAlways`, `ListMemorySafeAlways`, `ListIsItemSeqAlways` | safety and refinement of the linked list | none |

**Store.** The two assumptions are the ones the violation runs show to be needed. The argument:
none of the properties is inductive. `OneHolder` needs to know that a page just cut is
new, which needs the extents cut so far to lie in front of the recorded end
(`CarvedApart`); that needs to know where `end` and `hdr` are at each point of a call
(`Phases`), since they differ between `Bump` and `PersistEnd`. `Asked` keeps pages within the
clients' bound, which the abstract allocator's set of addresses asks for. `SizesKept`, that a page in
circulation still has the size it was cut with, is what one page size buys: with two, a
freed page of 16 bytes may be held as 24. `IInv` is the conjunction; it is an invariant
of run `store` too. The proof has one lemma per group of actions: `OpenStep`,
`DropStep`, `GrowStep`, `PersistStep`, `ReuseStep`, `FreeStep`, over `PushMembers` and `PopMembers`, which say
what the free list's two operations do to its members. `TypeCorrect` needs that `Bump` has added what
`PersistEnd` subtracts.

**Graph.** `SegmentsApart` speaks of the nodes' segments. A new segment takes the place of a freed one, so the
invariant has to speak of every segment there is, the nodes', the freed ones and the one
whose pointer is still to be set (`Heads`): each lies in the file with the size it says
(`InFile`), no two share a word (`Apart`), and none has two users except the one between the
two writes of an operation (`OneUser`). `ReuseFits` keeps the null pointer, which
`edges_add` frees, and segments too small from being handed out. `Written` and
`SegmentsAfter` say what a write does to the other segments. For the refinement the
invariant `Counted` adds what the unlinked segment must hold: the edges the call is to
leave. A kill before the pointer moves is then a call that never happened, and `Link`
is the abstract operation. Edges are counted, so parallel edges are covered, through the lemmas on
occurrences in `SequenceLemmas`.

**BTree.** None of the three properties is inductive, and what they lack is in no variable: which
page is whose parent, at which level, and which stack an overflow page belongs to. `IInv`
says that there is a record `g` of this: the pages in use, their levels, for each branch
that waits the place whose child has been freed (`hole`), the overflow pages and the first
page of the stack of each. `Tree` then states what holds at every step: levels go down by
one from parent to child, and a page is some branch's child once (`Levelled`, `OneParent`); a stack is one
item's (`Stacked`); no page in use is free (`Owned`); no leaf but the root is empty (`Filled`). The
three places of `btree_add` differ in what else they know: between calls there is one whole tree
(`Idle`), on the way down the path leads from the root to the page reached
(`Descending`), on the way up the pages handed up are nobody's children yet (`Ascending`).
The proof goes from the bottom up: what the store hands out and takes back
(`Taken`, `Given`, `Swapped`); what the copies and splits contain, item by item
(`BranchWithIs`, `BranchSplitIs`, `LeafSplitIs`); that pages with those contents in place of the old one leave
a tree (`Rewriting`, `Restacking`, `Rebuilding`); that the call then is where `Ascending` says (`Returning`); and
one lemma per action (`LeafAddFormed` to `DestroyFormed`). `Grown` counts the adds a
tree of some depth took, so that `MaxDepth` rows are all there are (`ReachAlways`). `Row`, `Chain` and `Freed`
are recursive functions: `IteratesExist` and its uses show that they are
the sequences they are meant to be, by the least number at which they would not be, and so without an
induction theorem. The assumption `AllowDups => MaxAdds < StackCap` keeps the model
true to `bstack_add`; the proof does not use it.

**Order.** `Ordered` compares a separator with all keys below a child, while a step writes one
page, so it is not inductive. `OInv` adds to the record `g` a record `b` of intervals: the keys of a page go
up within its own (`RangedPages`), the live children of a branch have the gaps between its
keys as theirs (`RangedKids`), and pages of one level have intervals that do not meet
(`RangedApart`). On the way down the key being added lies in the interval of the page
reached (`Sinking`); that page's interval is what the pages handed up share between them, cut at the separator
(`Climbing`). The lemmas on copies and splits say which part of the old page's keys each new
page has (`WidenedRises`, `Parted`, `LeafHalvedRanged`, `BranchHalvedRanged`, `RootRanged`), and
from the interval of each new page follows that of its children. That the
intervals nest is used between calls only, where the tree is whole: `BelowLies` says that all keys below a
page lie in its interval, and `Ordered` follows. `FindSees` needs more than order, that the page a
lookup has reached is in the tree and its interval has the key (`Seeks`): two leaves with the same key in
their intervals are the same leaf. Duplicates are excluded because the code then compares keys with the
overflow bit set, which breaks the lookups (run `btree_dups`); a lookup beside an add is
excluded because of run `btree_reader`. In place of an induction over the depth, `Within` is the
least set closed under children.

**Pages and pairs.** `NoPageLost` says where each page is, but not why: `Held` follows pointers from the roots,
and a step changes a page in the middle. `PInv` says of the record `g` that every page in use
is one of its pages (`InUse`), and that each page in place is the child of a branch, but for the
root and what is being handed up (`Reared`, `Bare`). A step keeps the first because a copy takes
the place of the page it frees (`LeafWriteUses`, `BranchWriteUses`), the second because the new branches
take over what the old one had and what was handed up (`Takes`, `RewrittenReared`). That all
these pages are below the forest is then a matter of levels, from the top down
(`AllReached`), as no page is above the rows that `Below` looks at (`AllShallow`);
`DestroyUses` shows with the same lemma that `btree_destroy` gives all of them back. For the
refinement `PInv` also knows that the leaves hold clients' pairs, and each step's lemma says which pairs
they hold after it (`LeafAddItems`, `LeafHalvedItems`, `BranchItems`). What `OInv` knows of the intervals
makes these pairs the ones that `PairsBelow` counts, each once (`KeysOnce`, `PairsAre`), and the pair
of a call a new one (`PairIsNew`). `OInv` and `PInv` say that there are such
records, each its own; they are put together by what they say of a state without them.

**Commands** (in `ReplProofs`). `HandleCurrent` needs that a database which was opened has both of its files
(`HandlesWhole`) and that only such a one has nodes (`NodesWhole`): otherwise `create` after a kill
between the two files could meet nodes that no handle counted. `WriteFiles`, `WriteNodes`,
`GrowHandle` and `CloseHandle` say what the four kinds of writes leave alone; the refinement
maps databases to those that have both files.

**LineEdit.** The invariant: the buffer holds a text with its terminator at `len` and the cursor
in it (`InBuffer`), the history is a bounded sequence of texts with an entry for the line
being typed (`Kept`), and the completion shown is one of those offered (`Showing`). Each key
has a lemma on the bytes it leaves (`InsertBytes`, `DeleteBytes`, ...) and one saying which step of
`Line` it is (`InsertIsType`, `SwapCharsIsSwap`, ...), by the text in front of the cursor
and the text behind it (`Halves`, `EditIs`).

**Repl, Containers.** `ReplProofs` carries the theorems over to the instances of `Commands` and
`LineEdit` in `Repl`, whose other parts leave their variables alone. `ContainersProofs`
does the growing array: what lies below `size` is written and inside the allocation
(`HoldsItems`), and each call is the step of `ItemSeq` it is named for.

**List.** What the pointers of list.c mean is in no variable: in which order the elements stand. `ListInv`
says that there is a sequence of addresses (`IsList`), none twice, that are all the elements
there are; that each element's `prev` and `next` are its neighbours in it and `first` and
`last` its ends (`Chained`); and that each has a value of its own (`ValuesOwned`). In the loop of
`list_destroy` the sequence is what is left from the element freed next on (`FreedTo`). `FollowIs`
shows that following the pointers, either way, gives the sequence or its reverse; each
operation has a lemma on the sequence it leaves. For the refinement the clients' items are the
values in that order (`ShowsItems`).

Model-checked only: of `BTree` the refinement with duplicates; `Jsmn` and the containers beside the array and the list; liveness and fairness
(`AllocReturns`), which the proof system does not cover, nor `ENABLED`; properties of
recursively defined data (`KeysBelow`, `StringEnd`), since induction
theorems that take an operator cannot be instantiated with the provers used, and of `HashMap` and `Trie`, whose
`SelectSeq` none of them can expand.

## 6. Not modelled

- Failing `mmap`, power failures, the `debug` output and `printf` formats.
- `btree_remove`, `nodes_remove`, transactions, `adv_validate`, `adv_compact`,
  `adv_backup`, `adv_delete`: declared, not implemented. `store_delete`, `store_repair`, `bstack_destroy`: empty.
- bvec (an unfinished copy of bstack's page format that nothing calls), murmur3 (a
  third-party hash that nothing calls), math.h and dbg.h (helpers and logging).
- sds: comparison, case and character mapping, numbers, quoting, `sdssplitargs` and
  joins, which the program does not use. linenoise: drawing and columns, raw mode,
  terminals it does not support and input from a file or pipe, the key-code printer,
  history files and `linenoiseHistorySetMaxLen`, which the program does not call. jsmn: the
  modes `JSMN_STRICT` and `JSMN_PARENT_LINKS`, which are not built, and counting without tokens.
- A failing `malloc`, `calloc` or `mkdir`, and the memory of hash map entries, trie nodes
  and lines (`repl` does not free an empty line; an `open` that fails leaks a handle).
- What is undefined: a command after `close` other than `open`, `create` and those without a
  database; node numbers out of range at the command line; a file for `load` whose
  mapping ends without a zero.
