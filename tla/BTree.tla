------------------------------- MODULE BTree -------------------------------
(***************************************************************************)
(* The copy-on-write B-tree, src/src/db/store/btree.c, on one store.       *)
(*                                                                         *)
(* A page is a record: the flags of its header and its items as sequences, *)
(* whose length is the header's n_keys.  All pages of a tree have the same *)
(* size, so the store is reduced here to page numbers: page p is the one   *)
(* at byte 64 * p - 32, page 1 is the root of the store's own free tree,   *)
(* and 0 is the null page.  Module Store has the allocator in full.        *)
(*                                                                         *)
(* btree_recur_add is a recursion down to a leaf and back; each call that  *)
(* writes pages (leaf add, leaf split, branch add, ...) is one step, with  *)
(* the path of the recursion kept in a variable.                           *)
(***************************************************************************)
EXTENDS Integers, SequencesExt, FiniteSetsExt

CONSTANTS
  PageSize,       \* BTREE_DEF_PAGE_SIZE, in bytes
  OverflowBit,    \* 1 << 63, the bit of a key that marks an overflow stack
  Inputs,         \* the <<key, value>> pairs clients add
  FindKeys,       \* the keys clients look up
  AllowDups,      \* may clients add a key the tree already holds?
  ConcurrentFind, \* may btree_find run while btree_add does?
  MaxTrees,       \* bound: calls of btree_create
  MaxAdds,        \* bound: calls of btree_add
  Script          \* bound: the keys of the first calls, in order

LeafCap == (PageSize - 8) \div 16       \* items of 16 bytes behind the header
BranchCap == (PageSize - 16) \div 16    \* the first pointer has no key
StackCap == (PageSize - 16) \div 8      \* values in a page of bstack.c

ASSUME BTreeAssumption ==
  /\ PageSize \in Nat /\ PageSize >= 64 /\ PageSize % 8 = 0
  /\ OverflowBit \in Nat \ {0}
  /\ Inputs \subseteq (0 .. OverflowBit - 1) \X Nat
  /\ FindKeys \subseteq Nat
  /\ AllowDups \in BOOLEAN /\ ConcurrentFind \in BOOLEAN
  /\ MaxTrees \in Nat /\ MaxAdds \in Nat
  /\ Script \in Seq(Nat)
  /\ AllowDups => MaxAdds < StackCap    \* bstack_add's last slot: see README
  /\ ~(AllowDups /\ ConcurrentFind)

VARIABLES
  st,     \* the store: pages by number, the next page never used, the free list
  root,   \* the client's reference to the root page, 0 without a tree
  trees,  \* calls of btree_create so far
  adds,   \* calls of btree_add so far
  pc,     \* "idle", or where btree_add is: "descend" or "ascend"
  call,   \* its arguments, <<key, value>>
  cur,    \* descending: the page of the current recursive call
  path,   \* the calls that wait: branch page and child position
  up,     \* ascending: what a call gives its caller, orig, split and mid
  find    \* btree_find: its key, the page reached (0 when it is not running)
          \* and, as history, whether the tree had the key when it was called

vars == <<st, root, trees, adds, pc, call, cur, path, up, find>>

NoCall == <<>>
NoUp == [orig |-> 0, split |-> 0, mid |-> 0]
NoFind == [key |-> 0, page |-> 0, had |-> FALSE]
-----------------------------------------------------------------------------
(* Pages and the store *)

Leaf(isRoot, keys, vals) ==
  [kind |-> "leaf", root |-> isRoot, keys |-> keys, vals |-> vals]
Branch(isRoot, keys, kids) ==
  [kind |-> "branch", root |-> isRoot, keys |-> keys, kids |-> kids]
Stack(vals, next) == [kind |-> "stack", vals |-> vals, next |-> next]

\* store_alloc for a page of the one size in use.
NextPage(s) == IF s.free = <<>> THEN s.end ELSE Head(s.free)

\* store_alloc and the writes that fill the new page.
PutNew(s, content) ==
  LET p == NextPage(s)
  IN  [mem  |-> [q \in DOMAIN s.mem \cup {p} |-> IF q = p THEN content ELSE s.mem[q]],
       end  |-> IF s.free = <<>> THEN s.end + 1 ELSE s.end,
       free |-> IF s.free = <<>> THEN <<>> ELSE Tail(s.free)]

\* store_free: the page keeps its bytes until it is handed out again.
Release(s, p) == [s EXCEPT !.free = <<p>> \o @]

\* btree_leaf_add, btree_branch_add: the page is replaced by a changed copy.
\* Mutants: the copy is freed, not the page; nothing is freed.
ReplaceFreesCopy(s, p, content) == Release(PutNew(s, content), NextPage(s))
ReplaceFreesNothing(s, p, content) == PutNew(s, content)

Replace(s, p, content) == Release(PutNew(s, content), p)

\* Mutant: the bit is subtracted, set or not.
KeyMinusBit(raw) == raw - OverflowBit

KeyGet(raw) == raw % OverflowBit
HasOverflow(raw) == raw >= OverflowBit
SetOverflow(raw) == IF HasOverflow(raw) THEN raw ELSE raw + OverflowBit
-----------------------------------------------------------------------------
(* Searching a page.  Both searches compare the stored key as it is, with  *)
(* its overflow bit.                                                       *)

FirstOr(S, other) == IF S = {} THEN other ELSE Min(S)

\* Mutant: a key equal to a separator is sent to the left of it.
BranchFindAtMost(pg, key) ==
  FirstOr({i \in 1 .. Len(pg.keys) : key <= pg.keys[i]}, Len(pg.keys) + 1)

BranchFind(pg, key) ==
  FirstOr({i \in 1 .. Len(pg.keys) : key < pg.keys[i]}, Len(pg.keys) + 1)

LeafFind(pg, key) ==
  FirstOr({i \in 1 .. Len(pg.keys) : key <= pg.keys[i]}, Len(pg.keys) + 1)

LeafHas(pg, key) ==
  LET i == LeafFind(pg, key)
  IN  i <= Len(pg.keys) /\ KeyGet(pg.keys[i]) = key
-----------------------------------------------------------------------------
(* Changing a page *)

\* Mutant: one end of the range is compared with < on both sides.
LeafCopyInside(pg, from, to, i, key, val) ==
  LET keys == SubSeq(pg.keys, from + 1, to)
      vals == SubSeq(pg.vals, from + 1, to)
  IN  IF (from = 0 \/ i - 1 > from) /\ i - 1 < to
        THEN Leaf(FALSE, InsertAt(keys, i - from, key), InsertAt(vals, i - from, val))
        ELSE Leaf(FALSE, keys, vals)

\* btree_leaf_copy_in: items from + 1 .. to of a leaf, and the new item when
\* its place i falls among them.
LeafCopyIn(pg, from, to, i, key, val) ==
  LET keys == SubSeq(pg.keys, from + 1, to)
      vals == SubSeq(pg.vals, from + 1, to)
  IN  IF (from = 0 \/ i - 1 > from) /\ i - 1 <= to
        THEN Leaf(FALSE, InsertAt(keys, i - from, key), InsertAt(vals, i - from, val))
        ELSE Leaf(FALSE, keys, vals)

\* How many of the n old keys stay in the left page of a split, for a new
\* item at place i (btree_leaf_split and btree_branch_split).
SplitAt(n, i) == IF i > n \div 2 + 1 THEN n \div 2 + 1 ELSE n \div 2

\* Mutant: the last key of the left page.
SeparatorOfLeft(pg, m) == pg.keys[m]

\* The median: the first old key right of the split.
Separator(pg, m) == pg.keys[m + 1]

\* btree_leaf_split: the two new leaves and the median for the parent.
LeafSplit(pg, key, val) ==
  LET i == LeafFind(pg, key)
      m == SplitAt(Len(pg.keys), i)
  IN  [left  |-> LeafCopyIn(pg, 0, m, i, KeyGet(key), val),
       right |-> LeafCopyIn(pg, m, Len(pg.keys), i, KeyGet(key), val),
       mid   |-> Separator(pg, m)]

\* A branch whose child i has become u.orig, or u.orig and u.split.
BranchWith(isRoot, keys, kids, i, u) ==
  LET copied == ReplaceAt(kids, i, u.orig)
  IN  IF u.split = 0
        THEN Branch(isRoot, keys, copied)
        ELSE Branch(isRoot, InsertAt(keys, i, u.mid), InsertAt(copied, i + 1, u.split))

\* btree_branch_copy_up: children from + 1 .. to + 1 of a branch and the keys
\* between them, with the child's two halves when it is one of them.
BranchCopyUp(pg, from, to, i, u) ==
  LET keys == SubSeq(pg.keys, from + 1, to)
      kids == SubSeq(pg.kids, from + 1, to + 1)
  IN  IF i - 1 >= from /\ (from # 0 \/ i - 1 <= to)
        THEN BranchWith(FALSE, keys, kids, i - from, u)
        ELSE Branch(FALSE, keys, kids)

\* btree_branch_split: the median moves up and is in neither page.
BranchSplit(pg, i, u) ==
  LET m == SplitAt(Len(pg.keys), i)
  IN  [left  |-> BranchCopyUp(pg, 0, m, i, u),
       right |-> BranchCopyUp(pg, m + 1, Len(pg.keys), i, u),
       mid   |-> Separator(pg, m)]

\* Mutants: the new page is freed; the old values are not copied.
StackAddFreesNew(s, p, val) ==
  LET pg == s.mem[p]
  IN  IF Len(pg.vals) = StackCap
        THEN PutNew(s, Stack(<<val>>, p))
        ELSE Release(PutNew(s, Stack(Append(pg.vals, val), pg.next)), NextPage(s))
StackAddCopiesNothing(s, p, val) ==
  LET pg == s.mem[p]
  IN  IF Len(pg.vals) = StackCap
        THEN PutNew(s, Stack(<<val>>, p))
        ELSE Release(PutNew(s, Stack(<<val>>, pg.next)), p)

\* bstack_add: a copy with the value appended, or a new page in front of a
\* full one.  The new page is NextPage(s).
StackAdd(s, p, val) ==
  LET pg == s.mem[p]
  IN  IF Len(pg.vals) = StackCap
        THEN PutNew(s, Stack(<<val>>, p))
        ELSE Release(PutNew(s, Stack(Append(pg.vals, val), pg.next)), p)
-----------------------------------------------------------------------------
(* What hangs below a page *)

Kids(pg) == IF pg.kind = "branch" THEN Range(pg.kids) ELSE {}

\* The pages d levels below a set of pages.
Row(S, depth) ==
  LET row[d \in 0 .. depth] ==
        IF d = 0 THEN S ELSE UNION {Kids(st.mem[p]) : p \in row[d - 1]}
  IN  row

\* No tree of MaxAdds keys is deeper: the first level takes a full leaf and one
\* add, each one after it a full root, whose keys came from an add each.
MaxDepth ==
  IF MaxAdds <= LeafCap THEN 0 ELSE 1 + (MaxAdds - LeafCap - 1) \div BranchCap

Below(S) == UNION Range(Row(S, MaxDepth))

\* The overflow pages of a leaf, following bstack's next pointers.
Chain(p) ==
  LET chain[n \in 0 .. MaxAdds] ==
        IF n = 0 THEN {p}
        ELSE {st.mem[q].next : q \in {x \in chain[n - 1] : st.mem[x].kind = "stack"}} \ {0}
  IN  UNION Range(chain)

\* The first overflow page of each item of a leaf that has one.
Stacks(pg) ==
  IF pg.kind # "leaf" THEN <<>>
  ELSE [i \in {j \in 1 .. Len(pg.keys) : HasOverflow(pg.keys[j])} |-> pg.vals[i]]

Overflows(pg) == UNION {Chain(q) : q \in Range(Stacks(pg))}

KeysOf(pg) == IF pg.kind = "leaf" THEN {KeyGet(pg.keys[i]) : i \in 1 .. Len(pg.keys)} ELSE {}

\* The pairs of a leaf and their places: item i of the leaf, or place j of an
\* overflow page q of that item.
Stored(p) ==
  LET pg == st.mem[p]
      values(i) ==
        IF HasOverflow(pg.keys[i])
          THEN UNION {{<<st.mem[q].vals[j], q, j>> : j \in 1 .. Len(st.mem[q].vals)} :
                      q \in Chain(pg.vals[i])}
          ELSE {<<pg.vals[i], 0, 0>>}
      items == IF pg.kind = "leaf" THEN 1 .. Len(pg.keys) ELSE {}
  IN  UNION {{[pair |-> <<KeyGet(pg.keys[i]), v[1]>>, at |-> <<p, i, v[2], v[3]>>] :
              v \in values(i)} : i \in items}

KeysBelow(S) == UNION {KeysOf(st.mem[p]) : p \in Below(S)}

\* How many times the trees at S hold each pair.
PairsBelow(S) ==
  LET all == UNION {Stored(p) : p \in Below(S)}
  IN  [in \in Inputs \cup {x.pair : x \in all} |-> Cardinality({x \in all : x.pair = in})]
-----------------------------------------------------------------------------
(* btree_create, btree_add, btree_destroy *)

EmptyRoot == Leaf(TRUE, <<>>, <<>>)

\* The store is new and has taken its page 1; the client has no tree.
Init ==
  /\ st = [mem |-> [p \in {1} |-> EmptyRoot], end |-> 2, free |-> <<>>]
  /\ root = 0
  /\ trees = 0 /\ adds = 0
  /\ pc = "idle" /\ call = NoCall /\ cur = 0 /\ path = <<>> /\ up = NoUp
  /\ find = NoFind

Create ==
  /\ pc = "idle" /\ root = 0 /\ trees < MaxTrees
  /\ trees' = trees + 1
  /\ st' = PutNew(st, EmptyRoot)
  /\ root' = NextPage(st)
  /\ UNCHANGED <<adds, pc, call, cur, path, up, find>>

\* btree_add: the recursion starts at the root.
BeginAdd(in) ==
  /\ pc = "idle" /\ root # 0 /\ adds < MaxAdds
  /\ adds < Len(Script) => in[1] = Script[adds + 1]
  /\ AllowDups \/ in[1] \notin KeysBelow({root})
  /\ ConcurrentFind \/ find.page = 0
  /\ adds' = adds + 1
  /\ pc' = "descend" /\ call' = in /\ cur' = root
  /\ UNCHANGED <<st, root, trees, path, up, find>>

At == st.mem[cur]
Place == LeafFind(At, call[1])

\* btree_recur_add of a branch calls itself for the child.
Descend ==
  /\ pc = "descend" /\ At.kind = "branch"
  /\ LET i == BranchFind(At, call[1])
     IN  /\ path' = <<[page |-> cur, child |-> i]>> \o path
         /\ cur' = At.kids[i]
  /\ UNCHANGED <<st, root, trees, adds, pc, call, up, find>>

\* Back to the caller, with the page or the two pages that replace this one.
GiveUp(orig, split, mid) ==
  /\ pc' = "ascend"
  /\ up' = [orig |-> orig, split |-> split, mid |-> mid]

\* btree_leaf_add of a key the leaf has not, with room for it.
LeafAdd ==
  /\ pc = "descend" /\ At.kind = "leaf" /\ ~LeafHas(At, call[1])
  /\ Len(At.keys) < LeafCap
  /\ st' = Replace(st, cur, Leaf(At.root, InsertAt(At.keys, Place, call[1]),
                                          InsertAt(At.vals, Place, call[2])))
  /\ GiveUp(NextPage(st), 0, call[1])
  /\ cur' = 0
  /\ UNCHANGED <<root, trees, adds, call, path, find>>

\* btree_leaf_add_dup: the values of a key added again move to a stack of
\* overflow pages, which the item then refers to.
LeafAddDup ==
  /\ pc = "descend" /\ At.kind = "leaf" /\ LeafHas(At, call[1])
  /\ LET raw == At.keys[Place]
         old == At.vals[Place]
         created == PutNew(st, Stack(<<>>, 0))
         before == IF HasOverflow(raw) THEN st ELSE StackAdd(created, NextPage(st), old)
         stack == IF HasOverflow(raw) THEN old ELSE NextPage(created)
         added == StackAdd(before, stack, call[2])
     IN  /\ st' = Replace(added, cur,
                          Leaf(At.root, ReplaceAt(At.keys, Place, SetOverflow(raw)),
                                        ReplaceAt(At.vals, Place, NextPage(before))))
         /\ GiveUp(NextPage(added), 0, call[1])
  /\ cur' = 0
  /\ UNCHANGED <<root, trees, adds, call, path, find>>

\* btree_leaf_split, when btree_leaf_add found no room.
LeafSplitUp ==
  /\ pc = "descend" /\ At.kind = "leaf" /\ ~LeafHas(At, call[1])
  /\ Len(At.keys) >= LeafCap
  /\ LET halves == LeafSplit(At, call[1], call[2])
         withLeft == PutNew(st, halves.left)
     IN  /\ st' = Release(PutNew(withLeft, halves.right), cur)
         /\ GiveUp(NextPage(st), NextPage(withLeft), halves.mid)
  /\ cur' = 0
  /\ UNCHANGED <<root, trees, adds, call, path, find>>

\* Mutant: room is taken to be left in a full page.
BranchHasRoomForOneMore(pg) == Len(pg.keys) <= BranchCap

BranchHasRoom(pg) == Len(pg.keys) < BranchCap

\* The innermost call that waits has its child's replacement.
Waiting == Head(path)
Parent == st.mem[Waiting.page]

\* btree_branch_add: a copy of the branch with the new child or children.
BranchAdd ==
  /\ pc = "ascend" /\ path # <<>>
  /\ up.split = 0 \/ BranchHasRoom(Parent)
  /\ st' = Replace(st, Waiting.page,
                   BranchWith(Parent.root, Parent.keys, Parent.kids, Waiting.child, up))
  /\ GiveUp(NextPage(st), 0, up.mid)
  /\ path' = Tail(path)
  /\ UNCHANGED <<root, trees, adds, call, cur, find>>

\* btree_branch_split, when btree_branch_add found no room.
BranchSplitUp ==
  /\ pc = "ascend" /\ path # <<>>
  /\ up.split # 0 /\ ~BranchHasRoom(Parent)
  /\ LET halves == BranchSplit(Parent, Waiting.child, up)
         withLeft == PutNew(st, halves.left)
     IN  /\ st' = Release(PutNew(withLeft, halves.right), Waiting.page)
         /\ GiveUp(NextPage(st), NextPage(withLeft), halves.mid)
  /\ path' = Tail(path)
  /\ UNCHANGED <<root, trees, adds, call, cur, find>>

\* btree_add makes a new root over two halves (btree_root_create) and returns;
\* the client keeps what it returns.
EndAdd ==
  /\ pc = "ascend" /\ path = <<>>
  /\ IF up.split = 0
       THEN st' = st /\ root' = up.orig
       ELSE /\ st' = PutNew(st, Branch(TRUE, <<up.mid>>, <<up.orig, up.split>>))
            /\ root' = NextPage(st)
  /\ pc' = "idle" /\ call' = NoCall /\ up' = NoUp
  /\ UNCHANGED <<trees, adds, cur, path, find>>

\* What btree_destroy frees for each page, in this order: what it frees for the
\* children, at most depth levels down, and then the page.
Freed(depth) ==
  LET freed[d \in 0 .. depth] ==
        [p \in DOMAIN st.mem |->
           IF d = 0 \/ st.mem[p].kind # "branch" THEN <<p>>
           ELSE FlattenSeq([i \in DOMAIN st.mem[p].kids |-> freed[d - 1][st.mem[p].kids[i]]])
                  \o <<p>>]
  IN  freed[depth]

\* btree_destroy frees every child before its parent, and no overflow page.
Destroy ==
  /\ pc = "idle" /\ root # 0 /\ find.page = 0
  /\ st' = [st EXCEPT !.free = Reverse(Freed(MaxDepth)[root]) \o @]
  /\ root' = 0
  /\ UNCHANGED <<trees, adds, pc, call, cur, path, up, find>>
-----------------------------------------------------------------------------
(* btree_find, one page at a time *)

FindBegin(key) ==
  /\ find.page = 0 /\ root # 0
  /\ ConcurrentFind \/ pc = "idle"
  /\ find' = [key |-> key, page |-> root, had |-> key \in KeysBelow({root})]
  /\ UNCHANGED <<st, root, trees, adds, pc, call, cur, path, up>>

FindDescend ==
  /\ find.page # 0
  /\ LET pg == st.mem[find.page]
     IN  /\ pg.kind = "branch"
         /\ find' = [find EXCEPT !.page = pg.kids[BranchFind(pg, find.key)]]
  /\ UNCHANGED <<st, root, trees, adds, pc, call, cur, path, up>>

\* The cursor is returned: the leaf and the key's place in it.
FindEnd ==
  /\ find.page # 0 /\ st.mem[find.page].kind = "leaf"
  /\ find' = NoFind
  /\ UNCHANGED <<st, root, trees, adds, pc, call, cur, path, up>>
-----------------------------------------------------------------------------
Next ==
  \/ Create \/ Destroy
  \/ \E in \in Inputs : BeginAdd(in)
  \/ Descend \/ LeafAdd \/ LeafAddDup \/ LeafSplitUp
  \/ BranchAdd \/ BranchSplitUp \/ EndAdd
  \/ \E key \in FindKeys : FindBegin(key)
  \/ FindDescend \/ FindEnd

Spec == Init /\ [][Next]_vars
-----------------------------------------------------------------------------
(* Properties *)

PageOK(pg) ==
  CASE pg.kind = "leaf" -> /\ pg.keys \in Seq(Nat) /\ pg.vals \in Seq(Nat)
                           /\ Len(pg.vals) = Len(pg.keys)
    [] pg.kind = "branch" -> /\ pg.keys \in Seq(Nat) /\ pg.kids \in Seq(1 .. st.end - 1)
                             /\ Len(pg.kids) = Len(pg.keys) + 1
    [] pg.kind = "stack" -> /\ pg.vals \in Seq(Nat) /\ pg.next \in 0 .. st.end - 1
                            /\ Len(pg.vals) <= StackCap

TypeOK ==
  /\ DOMAIN st.mem = 1 .. st.end - 1
  /\ \A p \in DOMAIN st.mem : PageOK(st.mem[p])
  /\ st.free \in Seq(1 .. st.end - 1)
  /\ root \in 0 .. st.end - 1 /\ cur \in 0 .. st.end - 1
  /\ trees \in 0 .. MaxTrees /\ adds \in 0 .. MaxAdds
  /\ pc \in {"idle", "descend", "ascend"}
  /\ call \in Inputs \cup {NoCall}
  /\ path \in Seq([page : 1 .. st.end - 1, child : 1 .. BranchCap + 1])
  /\ up \in [orig : 0 .. st.end - 1, split : 0 .. st.end - 1, mid : Nat]
  /\ find \in [key : FindKeys \cup {0}, page : 0 .. st.end - 1, had : BOOLEAN]

\* The trees the pages form: the client's, or, on the way back up, the parts
\* btree_add has yet to put together.
Forest ==
  IF root = 0 THEN {}
  ELSE IF pc # "ascend" THEN {root}
  ELSE ({up.orig, up.split} \ {0}) \cup
       UNION {{st.mem[f.page].kids[i] : i \in DOMAIN st.mem[f.page].kids \ {f.child}} :
              f \in Range(path)}

\* Pages somebody still needs: those of the trees, their overflow pages and the
\* branches waiting to be copied.
Held ==
  LET tree == Below(Forest)
  IN  tree \cup (UNION {Overflows(st.mem[p]) : p \in tree}) \cup {f.page : f \in Range(path)}

\* Between calls every key lies between the separators around it at every
\* level, through any order of splits and copies: otherwise btree_find, which
\* looks in one leaf only, would miss it.
Ordered ==
  pc = "idle" /\ root # 0 =>
    \A p \in Below({root}) :
      LET pg == st.mem[p]
      IN  /\ \A i \in 2 .. Len(pg.keys) : pg.keys[i - 1] < pg.keys[i]
          /\ pg.kind = "branch" =>
               \A i \in DOMAIN pg.kids : \A key \in KeysBelow({pg.kids[i]}) :
                 /\ i > 1 => pg.keys[i - 1] <= key
                 /\ i <= Len(pg.keys) => key < pg.keys[i]

\* Between calls the tree is balanced, only its root carries the root flag, no
\* page is over its capacity and no leaf but the root is empty.
Shape ==
  pc = "idle" /\ root # 0 =>
    LET row == Row({root}, MaxDepth)
    IN  /\ \A d \in DOMAIN row : \A p, q \in row[d] : st.mem[p].kind = st.mem[q].kind
        /\ \A p \in UNION Range(row) :
             LET pg == st.mem[p]
             IN  /\ pg.root <=> p = root
                 /\ Len(pg.keys) <= IF pg.kind = "leaf" THEN LeafCap ELSE BranchCap
                 /\ pg.kind = "leaf" /\ p # root => pg.keys # <<>>

\* At every step of every call, a page is needed in at most one place or free
\* in at most one place of the list, never both: the copies btree_add makes
\* may take pages it has just freed, but none that is still to be read.
PagesApart ==
  LET tree == Below(Forest)
      inner == {p \in tree : st.mem[p].kind = "branch"}
  IN  /\ IsInjective(st.free)
      /\ Range(st.free) \cap (Held \cup {1}) = {}
      /\ 1 \notin Held
      /\ \A p \in inner : IsInjective(st.mem[p].kids) /\ Forest \cap Kids(st.mem[p]) = {}
      /\ \A p, q \in inner : p # q => Kids(st.mem[p]) \cap Kids(st.mem[q]) = {}
      /\ \A p \in tree : tree \cap Overflows(st.mem[p]) = {} /\ IsInjective(Stacks(st.mem[p]))
      /\ \A p, q \in tree : p # q => Overflows(st.mem[p]) \cap Overflows(st.mem[q]) = {}

\* No page is lost: each one ever cut from the file is needed or free, also
\* after btree_destroy and through every copy of the path.
NoPageLost == 2 .. st.end - 1 \subseteq Held \cup Range(st.free)

\* A lookup that reaches a leaf finds the key there if the tree held it when
\* the lookup was called.
FindSees ==
  find.page # 0 /\ st.mem[find.page].kind = "leaf" =>
    (find.had => LeafHas(st.mem[find.page], find.key))

\* The tree implements the index its header file describes: a call of btree_add
\* adds its pair, once and all at once, when it writes the leaf, and no copy or
\* split before or after it drops, doubles or moves a pair to another key.
Index == INSTANCE KVIndex WITH
  pairs <- PairsBelow(Forest),
  added <- pc = "ascend"
ImplementsKVIndex == Index!Spec
=============================================================================
