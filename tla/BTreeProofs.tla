----------------------------- MODULE BTreeProofs -----------------------------
(***************************************************************************)
(* The pages of the B-tree, for every page size from 64 bytes on, every    *)
(* set of keys and every sequence of calls: the invariant that             *)
(* btree_create, btree_destroy and each step of btree_add and of           *)
(* btree_find keep, and what follows from it for the types, the shape of   *)
(* the tree and the pages in use.                                          *)
(*                                                                         *)
(* TypeOK, Shape and PagesApart are not inductive.  That a copy takes no   *)
(* page in use (PagesApart) needs that every page of the tree has one      *)
(* parent; that the tree stays level (Shape) needs the level of each page  *)
(* also while a call is on its way back up and some pages are nobody's     *)
(* children; that no stack is shared needs to know which stack each        *)
(* overflow page belongs to.  None of this is in a variable: the invariant *)
(* says that there is a record g of it (pages, level, hole, stacks,        *)
(* first), and the lemma of each step gives the record of the next state.  *)
(***************************************************************************)
EXTENDS BTree, SequenceLemmas

(* What the pages in use form.  g names what a state has of it: the pages  *)
(* of the trees and of the calls that wait, the place in each whose child  *)
(* is being replaced (0: none), the levels, the overflow pages and the first*)
(* page of the stack each belongs to.  Only the proof knows this record.    *)

\* A page as btree.c and bstack.c write it, in a store of n - 1 pages.
PageFits(pg, n) ==
  \/ /\ pg.kind = "leaf" /\ pg.keys \in Seq(Nat) /\ pg.vals \in Seq(Nat)
     /\ Len(pg.vals) = Len(pg.keys) /\ Len(pg.keys) <= LeafCap
  \/ /\ pg.kind = "branch" /\ pg.keys \in Seq(Nat) /\ pg.kids \in Seq(1 .. n - 1)
     /\ Len(pg.kids) = Len(pg.keys) + 1 /\ Len(pg.keys) <= BranchCap
  \/ /\ pg.kind = "stack" /\ pg.vals \in Seq(Nat) /\ Len(pg.vals) <= StackCap
     /\ pg.next \in 0 .. n - 1

\* A store in which any page ever handed out holds such a page.
StoreFits(s) ==
  /\ s.end \in Nat /\ s.end >= 2
  /\ s = [mem |-> s.mem, end |-> s.end, free |-> s.free]
  /\ DOMAIN s.mem = 1 .. s.end - 1
  /\ \A p \in 1 .. s.end - 1 : PageFits(s.mem[p], s.end)
  /\ s.free \in Seq(2 .. s.end - 1) /\ IsInjective(s.free)

\* The pages of H are in use: none is free, none is the store's own.
Owned(s, H) ==
  /\ StoreFits(s)
  /\ H \subseteq 2 .. s.end - 1
  /\ \A p \in H : p \notin Range(s.free)

\* The leaves and the branches among the pages of the tree.
Leaves(s, g) == {p \in g.pages : s.mem[p].kind = "leaf"}
Inner(s, g) == {p \in g.pages : s.mem[p].kind = "branch"}

\* The places of a branch whose children are part of the tree.
Live(s, g, p) == {i \in DOMAIN s.mem[p].kids : i # g.hole[p]}

\* The places of a leaf whose values are overflow pages.
Marked(s, p) == {i \in DOMAIN s.mem[p].keys : HasOverflow(s.mem[p].keys[i])}

\* Leaves are at level 0, and a branch is one level above its children.
Levelled(s, g) ==
  /\ \A p \in g.pages : /\ g.level[p] \in Nat /\ g.hole[p] \in Nat
                        /\ s.mem[p].kind = IF g.level[p] = 0 THEN "leaf" ELSE "branch"
  /\ \A p \in Inner(s, g) : \A i \in Live(s, g, p) :
       /\ s.mem[p].kids[i] \in g.pages
       /\ g.hole[s.mem[p].kids[i]] = 0
       /\ g.level[p] = g.level[s.mem[p].kids[i]] + 1

\* A page is the child of one branch at most, and once.
OneParent(s, g) ==
  \A p, q \in Inner(s, g) : \A i \in Live(s, g, p), j \in Live(s, g, q) :
    s.mem[p].kids[i] = s.mem[q].kids[j] => p = q /\ i = j

\* An overflow page is the first of one item's stack, or behind the first.
Stacked(s, g) ==
  /\ \A p \in Leaves(s, g) : \A i \in Marked(s, p) :
       s.mem[p].vals[i] \in g.stacks /\ g.first[s.mem[p].vals[i]] = s.mem[p].vals[i]
  /\ \A p, q \in Leaves(s, g) : \A i \in Marked(s, p), j \in Marked(s, q) :
       s.mem[p].vals[i] = s.mem[q].vals[j] => p = q /\ i = j
  /\ \A x \in g.stacks :
       /\ s.mem[x].kind = "stack"
       /\ s.mem[x].next # 0 => /\ s.mem[x].next \in g.stacks
                               /\ g.first[s.mem[x].next] = g.first[x]
                               /\ s.mem[x].next # g.first[x]

\* No leaf is empty but one that is the root.
Filled(s, g) == \A p \in Leaves(s, g) : s.mem[p].root \/ s.mem[p].keys # <<>>

\* What holds between the steps of any call: pages in use and apart, levels,
\* parents, stacks, and no empty leaf.
Tree(s, g) ==
  /\ Owned(s, g.pages \cup g.stacks)
  /\ g.pages \cap g.stacks = {}
  /\ Levelled(s, g) /\ OneParent(s, g) /\ Stacked(s, g) /\ Filled(s, g)

\* The pages of R are nobody's children.
Loose(s, g, R) ==
  /\ \A r \in R : r \in g.pages /\ g.hole[r] = 0
  /\ \A p \in Inner(s, g) : \A i \in Live(s, g, p) : s.mem[p].kids[i] \notin R

\* Only page r carries the root flag.
Flagged(s, g, r) == \A p \in g.pages : s.mem[p].root <=> p = r

\* No page is above level l.
UpTo(g, l) == \A p \in g.pages : g.level[p] <= l

\* The adds that a root at level l with n keys takes: a root above other pages
\* has a key.
Grown(l, n) ==
  IF l = 0 THEN n ELSE LeafCap + BranchCap * (l - 1) + (IF n = 0 THEN 1 ELSE n)

\* One tree, all of it in place, with page r for its root.
Whole(s, g, r) ==
  /\ Tree(s, g) /\ Loose(s, g, {r}) /\ Flagged(s, g, r) /\ UpTo(g, g.level[r])
  /\ \A p \in g.pages : g.hole[p] = 0

\* Between two calls of btree_add there is no tree or one whole tree.
Idle(g) ==
  /\ path = <<>> /\ cur = 0 /\ up = NoUp /\ call = NoCall
  /\ root = 0 => g.pages = {} /\ g.stacks = {} /\ StoreFits(st)
  /\ root # 0 => /\ Whole(st, g, root)
                 /\ Grown(g.level[root], Len(st.mem[root].keys)) <= adds

\* The calls that wait, innermost first, are the branches from page p up to r.
Waits(s, g, w, p, r) ==
  /\ w \in Seq([page : g.pages, child : Nat])
  /\ \A k \in DOMAIN w :
       /\ g.level[w[k].page] = g.level[p] + k
       /\ w[k].child \in DOMAIN s.mem[w[k].page].kids
  /\ IF w = <<>> THEN p = r ELSE w[Len(w)].page = r

\* btree_recur_add on its way down: the tree is whole, the calls that wait are
\* the branches above the page it has reached.
Descending(g) ==
  /\ root # 0 /\ call \in Inputs /\ up = NoUp
  /\ Whole(st, g, root) /\ cur \in g.pages
  /\ Waits(st, g, path, cur, root)
  /\ \A k \in DOMAIN path :
       st.mem[path[k].page].kids[path[k].child] = IF k = 1 THEN cur ELSE path[k - 1].page
  /\ Grown(g.level[root], Len(st.mem[root].keys)) + 1 <= adds

\* What a call has given its caller.
Ends == {up.orig, up.split} \ {0}

\* The page with the root flag on the way up: none when the root was split.
Top ==
  IF path # <<>> THEN path[Len(path)].page ELSE IF up.split = 0 THEN up.orig ELSE 0

\* On its way back: each branch that waits has one place whose child was freed,
\* and the pages that replace it, of one level, are nobody's children yet.
Ascending(g) ==
  /\ root # 0 /\ call \in Inputs /\ cur = 0
  /\ up \in [orig : Nat \ {0}, split : Nat, mid : Nat] /\ up.orig # up.split
  /\ Tree(st, g) /\ Loose(st, g, Ends) /\ Flagged(st, g, Top)
  /\ UpTo(g, g.level[up.orig] + Len(path))
  /\ up.split # 0 => g.level[up.split] = g.level[up.orig]
  /\ path # <<>> => Waits(st, g, path, up.orig, Top)
  /\ \A k \in DOMAIN path : g.hole[path[k].page] = path[k].child
  /\ \A p \in g.pages : g.hole[p] # 0 => \E k \in DOMAIN path : path[k].page = p
  /\ IF path # <<>> THEN Grown(g.level[Top], Len(st.mem[Top].keys)) + 1 <= adds
     ELSE IF up.split = 0 THEN Grown(g.level[Top], Len(st.mem[Top].keys)) <= adds
     ELSE Grown(g.level[up.orig] + 1, 1) <= adds

\* The client's root, its trees and adds so far, and the page of a lookup.
Counted ==
  /\ root \in 0 .. st.end - 1 /\ trees \in 0 .. MaxTrees /\ adds \in 0 .. MaxAdds
  /\ find \in [key : FindKeys \cup {0}, page : 0 .. st.end - 1, had : BOOLEAN]

\* The pages are what the place in btree_add calls for.
Formed(g) ==
  \/ pc = "idle" /\ Idle(g)
  \/ pc = "descend" /\ Descending(g)
  \/ pc = "ascend" /\ Ascending(g)

(* The sizes of pages. *)

\* What the assumption says of the room in pages.
LEMMA Sizes ==
  /\ LeafCap \in Nat /\ LeafCap >= 3
  /\ BranchCap \in Nat /\ BranchCap >= 3
  /\ StackCap \in Nat /\ StackCap >= 6
  /\ MaxAdds \in Nat /\ MaxTrees \in Nat
  /\ OverflowBit \in Nat /\ OverflowBit >= 1
  BY BTreeAssumption DEF LeafCap, BranchCap, StackCap

\* A page that fits a file fits a longer one.
LEMMA PageFitsMore ==
  ASSUME NEW pg, NEW n \in Nat, NEW m \in Nat, n <= m, PageFits(pg, n)
  PROVE  PageFits(pg, m)
<1>1. \A x \in 1 .. n - 1 : x \in 1 .. m - 1
    OBVIOUS
<1>2. \A x \in 0 .. n - 1 : x \in 0 .. m - 1
    OBVIOUS
<1>3. CASE pg.kind = "branch" /\ pg.kids \in Seq(1 .. n - 1)
  <2>1. Seq(1 .. n - 1) \subseteq Seq(1 .. m - 1)
      BY <1>1, SeqMonotonic
  <2> QED
      BY <1>3, <2>1 DEF PageFits
<1> QED
    BY <1>2, <1>3 DEF PageFits

(* The store. *)

\* The page handed out is one nobody uses, and the next one is another.
LEMMA NextPageOwned ==
  ASSUME NEW s, StoreFits(s)
  PROVE  /\ NextPage(s) \in Nat /\ NextPage(s) >= 2 /\ NextPage(s) <= s.end
         /\ s.free = <<>> => NextPage(s) = s.end
         /\ s.free # <<>> => NextPage(s) < s.end /\ NextPage(s) \in Range(s.free)
<1>1. s.end \in Nat /\ s.end >= 2 /\ s.free \in Seq(2 .. s.end - 1)
    BY DEF StoreFits
<1>2. CASE s.free = <<>>
    BY <1>1, <1>2 DEF NextPage
<1>3. CASE s.free # <<>>
  <2>1. 1 \in DOMAIN s.free /\ Head(s.free) = s.free[1] /\ Head(s.free) \in 2 .. s.end - 1
      BY <1>1, <1>3
  <2> QED
      BY <1>1, <1>3, <2>1 DEF NextPage, Range
<1> QED
    BY <1>2, <1>3

\* Taking a page and filling it.
LEMMA PutNewStore ==
  ASSUME NEW s, StoreFits(s), NEW c, PageFits(c, s.end)
  PROVE  /\ StoreFits(PutNew(s, c))
         /\ NextPage(s) < PutNew(s, c).end /\ s.end <= PutNew(s, c).end
         /\ PutNew(s, c).mem[NextPage(s)] = c
         /\ \A q \in 1 .. s.end - 1 : q # NextPage(s) => PutNew(s, c).mem[q] = s.mem[q]
         /\ Range(PutNew(s, c).free) = Range(s.free) \ {NextPage(s)}
         /\ PutNew(s, c).end = s.end \/ (PutNew(s, c).end = s.end + 1 /\ NextPage(s) = s.end)
<1> DEFINE p == NextPage(s)
           t == PutNew(s, c)
           m == [q \in DOMAIN s.mem \cup {p} |-> IF q = p THEN c ELSE s.mem[q]]
           e == IF s.free = <<>> THEN s.end + 1 ELSE s.end
           f == IF s.free = <<>> THEN <<>> ELSE Tail(s.free)
<1>1. /\ s.end \in Nat /\ s.end >= 2 /\ s.free \in Seq(2 .. s.end - 1) /\ IsInjective(s.free)
      /\ DOMAIN s.mem = 1 .. s.end - 1 /\ \A q \in 1 .. s.end - 1 : PageFits(s.mem[q], s.end)
    BY DEF StoreFits
<1>2. t = [mem |-> m, end |-> e, free |-> f]
    BY DEF PutNew
<1>3. t.mem = m /\ t.end = e /\ t.free = f /\ t = [mem |-> t.mem, end |-> t.end, free |-> t.free]
    BY <1>2
<1>4. /\ p \in Nat /\ p >= 2 /\ p <= s.end /\ (s.free = <<>> => p = s.end)
      /\ (s.free # <<>> => p < s.end /\ p \in Range(s.free))
    BY NextPageOwned
<1>5. e \in Nat /\ e >= 2 /\ p < e /\ s.end <= e /\ (e = s.end \/ (e = s.end + 1 /\ p = s.end))
    BY <1>1, <1>4
<1>6. DOMAIN m = 1 .. e - 1
  <2>1. CASE s.free = <<>>
      BY <1>1, <1>4, <2>1
  <2>2. CASE s.free # <<>>
      BY <1>1, <1>4, <2>2
  <2> QED
      BY <2>1, <2>2
<1>7. m[p] = c /\ \A q \in 1 .. s.end - 1 : q # p => m[q] = s.mem[q]
    BY <1>1
<1>8. \A q \in 1 .. e - 1 : PageFits(m[q], e)
  <2> HIDE DEF p, e
  <2>1. PageFits(c, e)
      BY <1>1, <1>5, PageFitsMore
  <2>2. \A q \in 1 .. s.end - 1 : PageFits(s.mem[q], e)
      BY <1>1, <1>5, PageFitsMore
  <2>3. \A q \in 1 .. e - 1 : q = p \/ q \in 1 .. s.end - 1
      BY <1>1, <1>4, <1>5
  <2> HIDE DEF m
  <2> QED
      BY <1>7, <2>1, <2>2, <2>3
<1>9. f \in Seq(2 .. e - 1) /\ IsInjective(f) /\ Range(f) = Range(s.free) \ {p}
  <2>1. CASE s.free = <<>>
    <3>1. f = <<>> /\ p = s.end
        BY <1>4, <2>1
    <3>2. Range(s.free) = {} /\ Range(<<>>) = {}
        BY <2>1 DEF Range
    <3> QED
        BY <3>1, <3>2, <2>1 DEF IsInjective
  <2>2. CASE s.free # <<>>
    <3>1. f = Tail(s.free) /\ p = s.free[1] /\ e = s.end
        BY <1>1, <2>2 DEF NextPage
    <3> HIDE DEF f, p, e
    <3>2. /\ f \in Seq(2 .. s.end - 1) /\ Len(f) = Len(s.free) - 1
          /\ \A i \in 1 .. Len(f) : f[i] = s.free[i + 1]
        BY <1>1, <2>2, <3>1, HeadTailProperties, Zenon
    <3>3. DOMAIN f = 1 .. Len(f) /\ DOMAIN s.free = 1 .. Len(s.free) /\ Len(s.free) \in Nat /\ Len(f) \in Nat
        BY <1>1, <3>2
    <3>4. \A i, j \in 1 .. Len(s.free) : s.free[i] = s.free[j] => i = j
        BY <1>1, <3>3, Zenon DEF IsInjective
    <3>5. \A i, j \in 1 .. Len(f) : f[i] = f[j] => i = j
      <4>1. SUFFICES ASSUME NEW i \in 1 .. Len(f), NEW j \in 1 .. Len(f), f[i] = f[j] PROVE i = j
          OBVIOUS
      <4>2. i + 1 \in 1 .. Len(s.free) /\ j + 1 \in 1 .. Len(s.free) /\ i \in Nat /\ j \in Nat
          BY <3>2, <3>3
      <4>3. i + 1 = j + 1
          BY <3>2, <3>4, <4>1, <4>2, Zenon
      <4> QED
          BY <4>2, <4>3
    <3>6. \A x : x \in Range(f) <=> x \in Range(s.free) /\ x # p
      <4>1. ASSUME NEW i \in 1 .. Len(f) PROVE f[i] \in Range(s.free) /\ f[i] # p
        <5>1. i + 1 \in 1 .. Len(s.free) /\ i + 1 # 1 /\ 1 \in 1 .. Len(s.free)
            BY <3>2, <3>3
        <5> QED
            BY <3>1, <3>2, <3>3, <3>4, <5>1 DEF Range
      <4>2. ASSUME NEW i \in 1 .. Len(s.free), s.free[i] # p PROVE s.free[i] \in Range(f)
        <5>1. i - 1 \in 1 .. Len(f) /\ (i - 1) + 1 = i
            BY <3>1, <3>2, <3>3, <4>2
        <5> QED
            BY <3>2, <3>3, <5>1, Zenon DEF Range
      <4> QED
          BY <3>3, <4>1, <4>2, Zenon DEF Range
    <3> QED
        BY <3>1, <3>2, <3>3, <3>5, <3>6, Zenon DEF IsInjective
  <2> QED
      BY <2>1, <2>2
<1> HIDE DEF p, t, m, e, f
<1>10. StoreFits(t)
    BY <1>3, <1>5, <1>6, <1>8, <1>9 DEF StoreFits
<1> QED
    BY <1>3, <1>5, <1>7, <1>9, <1>10 DEF p, t

\* Store t has one page more in use than s had, p with content c.
Taken(s, t, H, p, c) ==
  /\ Owned(t, H \cup {p})
  /\ p \notin H /\ t.mem[p] = c
  /\ \A q \in H : t.mem[q] = s.mem[q]
  /\ s.end <= t.end /\ s.end \in Nat /\ t.end \in Nat
  /\ p \in 2 .. t.end - 1

\* Store t has one page less in use, with the same memory.
Given(s, t, H, p) == Owned(t, H \ {p}) /\ t.mem = s.mem /\ t.end = s.end

\* Store t has page n, with content c, in place of page p.
Swapped(s, t, H, p, c, n) ==
  /\ Owned(t, (H \ {p}) \cup {n})
  /\ n \notin H /\ t.mem[n] = c
  /\ \A q \in H : t.mem[q] = s.mem[q]
  /\ s.end <= t.end /\ s.end \in Nat /\ t.end \in Nat
  /\ n \in 2 .. t.end - 1

\* store_alloc takes a page that was not in use, and no page in use changes.
LEMMA PutNewOwned ==
  ASSUME NEW s, NEW H, Owned(s, H), NEW c, PageFits(c, s.end), NEW t, t = PutNew(s, c), NEW p, p = NextPage(s)
  PROVE  Taken(s, t, H, p, c)
<1>1. StoreFits(s) /\ H \subseteq 2 .. s.end - 1 /\ \A q \in H : q \notin Range(s.free)
    BY DEF Owned
<1>2. /\ StoreFits(t)
      /\ p < t.end /\ s.end <= t.end
      /\ t.mem[p] = c
      /\ \A q \in 1 .. s.end - 1 : q # p => t.mem[q] = s.mem[q]
      /\ Range(t.free) = Range(s.free) \ {p}
    BY <1>1, PutNewStore
<1>3. /\ p \in Nat /\ p >= 2 /\ p <= s.end
      /\ s.free = <<>> => p = s.end
      /\ s.free # <<>> => p \in Range(s.free)
    BY <1>1, NextPageOwned
<1>4. s.end \in Nat /\ t.end \in Nat
    BY <1>1, <1>2 DEF StoreFits
<1>5. p \notin H
    BY <1>1, <1>3, <1>4
<1>6. p \in 2 .. t.end - 1
    BY <1>2, <1>3, <1>4
<1>7. \A q \in H : q \in 1 .. s.end - 1 /\ q \in 2 .. t.end - 1
    BY <1>1, <1>2, <1>4
<1>8. \A q \in H : t.mem[q] = s.mem[q]
    BY <1>2, <1>5, <1>7
<1>9. Owned(t, H \cup {p})
    BY <1>1, <1>2, <1>6, <1>7, Zenon DEF Owned
<1> QED
    BY <1>2, <1>4, <1>5, <1>6, <1>8, <1>9 DEF Taken

\* Giving a page back.
LEMMA ReleaseParts ==
  ASSUME NEW s, StoreFits(s), NEW p
  PROVE  Release(s, p) = [mem |-> s.mem, end |-> s.end, free |-> <<p>> \o s.free]
<1>1. s = [mem |-> s.mem, end |-> s.end, free |-> s.free]
    BY DEF StoreFits
<1>2. Release(s, p) = [x \in DOMAIN s |-> IF x = "free" THEN <<p>> \o s.free ELSE s[x]]
    BY <1>1, Zenon DEF Release
<1>3. [x \in DOMAIN s |-> IF x = "free" THEN <<p>> \o s.free ELSE s[x]]
        = [mem |-> s.mem, end |-> s.end, free |-> <<p>> \o s.free]
    BY <1>1
<1> QED
    BY <1>2, <1>3

\* store_free of a page in use leaves the memory alone.
LEMMA ReleaseStore ==
  ASSUME NEW s, StoreFits(s), NEW p \in 2 .. s.end - 1, p \notin Range(s.free)
  PROVE  /\ StoreFits(Release(s, p))
         /\ Release(s, p).mem = s.mem /\ Release(s, p).end = s.end
         /\ Range(Release(s, p).free) = Range(s.free) \cup {p}
<1> DEFINE f == <<p>> \o s.free
<1>1. /\ s.end \in Nat /\ s.end >= 2 /\ s.free \in Seq(2 .. s.end - 1) /\ IsInjective(s.free)
      /\ DOMAIN s.mem = 1 .. s.end - 1 /\ \A q \in 1 .. s.end - 1 : PageFits(s.mem[q], s.end)
    BY DEF StoreFits
<1>2. Release(s, p) = [mem |-> s.mem, end |-> s.end, free |-> f]
    BY ReleaseParts
<1>3. /\ Release(s, p).mem = s.mem /\ Release(s, p).end = s.end /\ Release(s, p).free = f
      /\ Release(s, p) = [mem |-> Release(s, p).mem, end |-> Release(s, p).end, free |-> Release(s, p).free]
    BY <1>2
<1>4. /\ f \in Seq(2 .. s.end - 1) /\ Len(f) = Len(s.free) + 1
      /\ \A k \in 1 .. Len(s.free) + 1 : f[k] = IF k = 1 THEN p ELSE s.free[k - 1]
    BY <1>1, InFrontProperties
<1> HIDE DEF f
<1>5. DOMAIN f = 1 .. Len(s.free) + 1 /\ DOMAIN s.free = 1 .. Len(s.free) /\ Len(s.free) \in Nat
    BY <1>1, <1>4
<1>6. \A i \in 2 .. Len(s.free) + 1 : f[i] = s.free[i - 1] /\ i - 1 \in 1 .. Len(s.free)
    BY <1>4, <1>5
<1>7. f[1] = p /\ 1 \in 1 .. Len(s.free) + 1
    BY <1>4, <1>5
<1>8. \A i \in 1 .. Len(s.free) + 1 : i = 1 \/ i \in 2 .. Len(s.free) + 1
    BY <1>5
<1>9. \A i \in 1 .. Len(s.free) : s.free[i] \in Range(s.free) /\ s.free[i] = f[i + 1] /\ i + 1 \in 2 .. Len(s.free) + 1
  <2>1. \A i \in 1 .. Len(s.free) : i + 1 \in 2 .. Len(s.free) + 1 /\ (i + 1) - 1 = i
      BY <1>5
  <2> QED
      BY <1>5, <1>6, <2>1, Zenon DEF Range
<1>10. IsInjective(f)
  <2>1. SUFFICES ASSUME NEW i \in 1 .. Len(s.free) + 1, NEW j \in 1 .. Len(s.free) + 1, f[i] = f[j] PROVE i = j
      BY <1>5 DEF IsInjective
  <2>2. CASE i = 1 \/ j = 1
      BY <1>6, <1>7, <1>8, <1>9, <2>1, <2>2
  <2>3. CASE i \in 2 .. Len(s.free) + 1 /\ j \in 2 .. Len(s.free) + 1
    <3>1. i - 1 = j - 1
        BY <1>1, <1>5, <1>6, <2>1, <2>3, Zenon DEF IsInjective
    <3> QED
        BY <1>5, <2>3, <3>1
  <2> QED
      BY <1>8, <2>2, <2>3
<1>11. Range(f) = Range(s.free) \cup {p}
  <2>1. \A i \in 1 .. Len(s.free) + 1 : f[i] \in Range(s.free) \cup {p}
      BY <1>6, <1>7, <1>8, <1>9, Zenon
  <2>2. \A i \in 1 .. Len(s.free) : s.free[i] \in Range(f)
    <3>1. \A i \in 2 .. Len(s.free) + 1 : f[i] \in Range(f)
        BY <1>5 DEF Range
    <3> QED
        BY <1>9, <3>1, Zenon
  <2>3. p \in Range(f)
      BY <1>5, <1>7 DEF Range
  <2> QED
      BY <1>5, <2>1, <2>2, <2>3, Zenon DEF Range
<1> QED
    BY <1>1, <1>3, <1>4, <1>10, <1>11 DEF StoreFits

\* store_free takes the page, and no other, from those in use.
LEMMA ReleaseOwned ==
  ASSUME NEW s, NEW H, Owned(s, H), NEW p \in H, NEW t, t = Release(s, p)
  PROVE  Given(s, t, H, p)
<1>1. StoreFits(s) /\ H \subseteq 2 .. s.end - 1 /\ \A q \in H : q \notin Range(s.free)
    BY DEF Owned
<1>2. /\ StoreFits(t) /\ t.mem = s.mem /\ t.end = s.end
      /\ Range(t.free) = Range(s.free) \cup {p}
    BY <1>1, ReleaseStore
<1> QED
    BY <1>1, <1>2 DEF Owned, Given

\* A page replaced by a copy: NextPage(s) holds it, p is free.
LEMMA ReplaceOwned ==
  ASSUME NEW s, NEW H, Owned(s, H), NEW p \in H, NEW c, PageFits(c, s.end), NEW t, t = Replace(s, p, c),
         NEW n, n = NextPage(s)
  PROVE  Swapped(s, t, H, p, c, n)
<1>0. PICK u : u = PutNew(s, c)
    OBVIOUS
<1>1. /\ Owned(u, H \cup {n}) /\ n \notin H /\ u.mem[n] = c
      /\ \A q \in H : u.mem[q] = s.mem[q]
      /\ s.end <= u.end /\ s.end \in Nat /\ u.end \in Nat
      /\ n \in 2 .. u.end - 1
    BY <1>0, PutNewOwned DEF Taken
<1>2. t = Release(u, p)
    BY <1>0 DEF Replace
<1>3. /\ Owned(t, (H \cup {n}) \ {p}) /\ t.mem = u.mem /\ t.end = u.end
    BY <1>1, <1>2, ReleaseOwned DEF Given
<1>4. (H \cup {n}) \ {p} = (H \ {p}) \cup {n}
    BY <1>1
<1> QED
    BY <1>1, <1>3, <1>4, Zenon DEF Swapped

(* Places in a page. *)

\* The first place of a set, or the place behind all of them.
LEMMA FirstOrIs ==
  ASSUME NEW m \in Nat \ {0}, NEW S, S \subseteq 1 .. m - 1
  PROVE  /\ FirstOr(S, m) \in 1 .. m
         /\ \A j \in S : FirstOr(S, m) <= j
         /\ FirstOr(S, m) # m => FirstOr(S, m) \in S
<1>1. CASE S = {}
    BY <1>1 DEF FirstOr
<1>2. CASE S # {}
  <2>1. S \in SUBSET Nat
      OBVIOUS
  <2>2. Min(S) \in S /\ \A j \in S : Min(S) <= j
      BY <1>2, <2>1, MinIsLeast
  <2>3. Min(S) \in 1 .. m
    <3>1. Min(S) \in 1 .. m - 1
        BY <2>2, Zenon
    <3> QED
        BY <3>1
  <2>4. FirstOr(S, m) = Min(S)
      BY <1>2, Zenon DEF FirstOr
  <2> QED
      BY <2>2, <2>3, <2>4
<1> QED
    BY <1>1, <1>2

\* btree_branch_find: the keys before the place are at most the key searched,
\* the key at the place is greater.
LEMMA BranchFindIs ==
  ASSUME NEW pg, pg.keys \in Seq(Nat), NEW key \in Nat
  PROVE  /\ BranchFind(pg, key) \in 1 .. Len(pg.keys) + 1
         /\ \A j \in 1 .. Len(pg.keys) : j < BranchFind(pg, key) => pg.keys[j] <= key
         /\ BranchFind(pg, key) <= Len(pg.keys) => key < pg.keys[BranchFind(pg, key)]
<1> DEFINE S == {j \in 1 .. Len(pg.keys) : key < pg.keys[j]}
<1>1. PICK m : m = Len(pg.keys) + 1
    OBVIOUS
<1>2. Len(pg.keys) \in Nat /\ m \in Nat \ {0} /\ S \subseteq 1 .. m - 1
    BY <1>1
<1>3. BranchFind(pg, key) = FirstOr(S, m)
    BY <1>1 DEF BranchFind
<1>4. \A j \in 1 .. Len(pg.keys) : j \in S <=> key < pg.keys[j]
    OBVIOUS
<1> HIDE DEF S
<1>5. /\ FirstOr(S, m) \in 1 .. m /\ \A j \in S : FirstOr(S, m) <= j
      /\ FirstOr(S, m) # m => FirstOr(S, m) \in S
    BY <1>2, FirstOrIs, Zenon
<1>6. \A j \in 1 .. Len(pg.keys) : pg.keys[j] \in Nat
    OBVIOUS
<1>7. \A j \in 1 .. Len(pg.keys) : j < FirstOr(S, m) => j \notin S
    BY <1>1, <1>2, <1>5
<1>8. \A j \in 1 .. Len(pg.keys) : j < FirstOr(S, m) => pg.keys[j] <= key
    BY <1>4, <1>6, <1>7
<1>9. FirstOr(S, m) <= Len(pg.keys) => key < pg.keys[FirstOr(S, m)]
    BY <1>1, <1>2, <1>4, <1>5
<1> QED
    BY <1>1, <1>3, <1>5, <1>8, <1>9

\* btree_leaf_find: the keys before the place are less than the key searched,
\* the key at the place is not.
LEMMA LeafFindIs ==
  ASSUME NEW pg, pg.keys \in Seq(Nat), NEW key \in Nat
  PROVE  /\ LeafFind(pg, key) \in 1 .. Len(pg.keys) + 1
         /\ \A j \in 1 .. Len(pg.keys) : j < LeafFind(pg, key) => pg.keys[j] < key
         /\ LeafFind(pg, key) <= Len(pg.keys) => key <= pg.keys[LeafFind(pg, key)]
<1> DEFINE S == {j \in 1 .. Len(pg.keys) : key <= pg.keys[j]}
<1>1. PICK m : m = Len(pg.keys) + 1
    OBVIOUS
<1>2. Len(pg.keys) \in Nat /\ m \in Nat \ {0} /\ S \subseteq 1 .. m - 1
    BY <1>1
<1>3. LeafFind(pg, key) = FirstOr(S, m)
    BY <1>1 DEF LeafFind
<1>4. \A j \in 1 .. Len(pg.keys) : j \in S <=> key <= pg.keys[j]
    OBVIOUS
<1> HIDE DEF S
<1>5. /\ FirstOr(S, m) \in 1 .. m /\ \A j \in S : FirstOr(S, m) <= j
      /\ FirstOr(S, m) # m => FirstOr(S, m) \in S
    BY <1>2, FirstOrIs, Zenon
<1>6. \A j \in 1 .. Len(pg.keys) : pg.keys[j] \in Nat
    OBVIOUS
<1>7. \A j \in 1 .. Len(pg.keys) : j < FirstOr(S, m) => j \notin S
    BY <1>1, <1>2, <1>5
<1>8. \A j \in 1 .. Len(pg.keys) : j < FirstOr(S, m) => pg.keys[j] < key
    BY <1>4, <1>6, <1>7
<1>9. FirstOr(S, m) <= Len(pg.keys) => key <= pg.keys[FirstOr(S, m)]
    BY <1>1, <1>2, <1>4, <1>5
<1> QED
    BY <1>1, <1>3, <1>5, <1>8, <1>9

\* Sequence t is the part of s behind place c, n elements long.
IsPart(t, s, c, n) == Len(t) = n /\ \A j \in 1 .. n : t[j] = s[c + j]

\* What SubSeq takes.
LEMMA PartIs ==
  ASSUME NEW T, NEW s \in Seq(T), NEW to \in 0 .. Len(s), NEW c \in 0 .. to,
         NEW f, f = c + 1, NEW n, n = to - c, NEW t, t = SubSeq(s, f, to)
  PROVE  t \in Seq(T) /\ IsPart(t, s, c, n)
<1>1. Len(s) \in Nat /\ DOMAIN s = 1 .. Len(s) /\ to \in Nat /\ c \in Nat /\ f \in Nat
    OBVIOUS
<1>2. f \in Int /\ to \in Int /\ \A j \in f .. to : s[j] \in T
  <2>1. \A j \in f .. to : j \in 1 .. Len(s)
      BY <1>1
  <2> QED
      BY <1>1, <2>1
<1>3. /\ t \in Seq(T)
      /\ Len(t) = IF f <= to THEN to - f + 1 ELSE 0
      /\ \A j \in 1 .. to - f + 1 : t[j] = s[f + j - 1]
    BY <1>2, SubSeqProperties
<1>4. n \in Nat /\ n = to - f + 1 /\ Len(t) = n
    BY <1>1, <1>3
<1>5. ASSUME NEW j \in 1 .. n PROVE t[j] = s[c + j]
  <2>1. f + j - 1 = c + j
      BY <1>1, <1>4
  <2> QED
      BY <1>3, <1>4, <2>1
<1> QED
    BY <1>3, <1>4, <1>5 DEF IsPart

(* A branch whose child i has become u.orig, or u.orig and u.split: child *)
(* and key j of all it then has.                                           *)
Extra(u) == IF u.split = 0 THEN 0 ELSE 1

\* Child j.
WideKid(kids, i, u, j) ==
  IF j < i THEN kids[j] ELSE IF j = i THEN u.orig
  ELSE IF u.split = 0 THEN kids[j] ELSE IF j = i + 1 THEN u.split ELSE kids[j - 1]

\* Key j.
WideKey(keys, i, u, j) ==
  IF u.split = 0 \/ j < i THEN keys[j] ELSE IF j = i THEN u.mid ELSE keys[j - 1]

\* The new branch a has these children, from child c + 1 on.
HasWide(a, flag, T, kids, keys, i, u, c, n) ==
  /\ a.kind = "branch" /\ a.root = flag
  /\ a.keys \in Seq(Nat) /\ a.kids \in Seq(T) /\ Len(a.kids) = n /\ Len(a.keys) = n - 1
  /\ \A j \in 1 .. n : a.kids[j] = WideKid(kids, i, u, c + j)
  /\ \A j \in 1 .. n - 1 : a.keys[j] = WideKey(keys, i, u, c + j)

\* btree_branch_add: the copy has all children and keys, the new ones in place.
LEMMA BranchWithIs ==
  ASSUME NEW T, NEW keys \in Seq(Nat), NEW kids \in Seq(T), Len(kids) = Len(keys) + 1,
         NEW i \in 1 .. Len(kids), NEW flag, NEW u, u.orig \in T, u.split = 0 \/ u.split \in T, u.mid \in Nat,
         NEW a, a = BranchWith(flag, keys, kids, i, u),
         NEW n, n = Len(kids) + Extra(u)
  PROVE  HasWide(a, flag, T, kids, keys, i, u, 0, n)
<1>a. PICK ks : ks = ReplaceAt(kids, i, u.orig)
    OBVIOUS
<1>1. /\ ks \in Seq(T) /\ Len(ks) = Len(kids)
      /\ \A j \in 1 .. Len(kids) : ks[j] = IF j = i THEN u.orig ELSE kids[j]
    BY <1>a, ExceptSeq DEF ReplaceAt
<1>2. Len(keys) \in Nat /\ Len(kids) \in Nat /\ i \in Nat
    OBVIOUS
<1>3. CASE u.split = 0
  <2>1. a = Branch(flag, keys, ks)
      BY <1>a, <1>3 DEF BranchWith
  <2>2. a.kind = "branch" /\ a.root = flag /\ a.keys = keys /\ a.kids = ks /\ n = Len(kids)
      BY <1>2, <1>3, <2>1 DEF Branch, Extra
  <2>3. \A j \in 1 .. n : a.kids[j] = WideKid(kids, i, u, j) /\ 0 + j = j
      BY <1>1, <1>2, <1>3, <2>2 DEF WideKid
  <2>4. \A j \in 1 .. n - 1 : a.keys[j] = WideKey(keys, i, u, j) /\ 0 + j = j
      BY <1>2, <1>3, <2>2 DEF WideKey
  <2>5. Len(a.kids) = n /\ Len(a.keys) = n - 1
      BY <1>1, <1>2, <2>2
  <2> QED
      BY <1>1, <2>2, <2>3, <2>4, <2>5 DEF HasWide
<1>4. CASE u.split # 0
  <2>0. PICK d : d = i + 1
      OBVIOUS
  <2>1. a = Branch(flag, InsertAt(keys, i, u.mid), InsertAt(ks, d, u.split))
      BY <1>a, <1>4, <2>0 DEF BranchWith
  <2>2. /\ a.kind = "branch" /\ a.root = flag
        /\ a.keys = InsertAt(keys, i, u.mid) /\ a.kids = InsertAt(ks, d, u.split)
      BY <2>1 DEF Branch
  <2>3. i \in 1 .. Len(keys) + 1 /\ d \in 1 .. Len(ks) + 1 /\ u.split \in T
      BY <1>1, <1>2, <1>4, <2>0
  <2>4. a.keys \in Seq(Nat) /\ IsInsert(a.keys, keys, i, u.mid)
      BY <2>2, <2>3, InsertAtIs, Zenon
  <2>5. a.kids \in Seq(T) /\ IsInsert(a.kids, ks, d, u.split)
      BY <1>1, <2>2, <2>3, InsertAtIs, Zenon
  <2>6. n = Len(kids) + 1 /\ Len(a.kids) = n /\ Len(a.keys) = n - 1
      BY <1>1, <1>2, <1>4, <2>4, <2>5 DEF IsInsert, Extra
  <2>7. ASSUME NEW j \in 1 .. n PROVE a.kids[j] = WideKid(kids, i, u, j)
    <3>0. /\ j < d => a.kids[j] = ks[j]
          /\ j = d => a.kids[j] = u.split
          /\ j > d => a.kids[j] = ks[j - 1]
        BY <1>1, <2>5, <2>6, Zenon DEF IsInsert
    <3>1. CASE j <= i
      <4>1. j \in 1 .. Len(kids) /\ j < d
          BY <1>2, <2>0, <2>6, <3>1
      <4> QED
          BY <1>1, <1>2, <3>0, <3>1, <4>1 DEF WideKid
    <3>2. CASE j = i + 1
        BY <1>2, <1>4, <2>0, <3>0, <3>2 DEF WideKid
    <3>3. CASE j > i + 1
      <4>1. j - 1 \in 1 .. Len(kids) /\ j - 1 # i /\ j > d /\ ~(j < i) /\ j # i /\ j # i + 1
          BY <1>2, <2>0, <2>6, <3>3
      <4> QED
          BY <1>1, <1>4, <3>0, <4>1 DEF WideKid
    <3> QED
        BY <1>2, <3>1, <3>2, <3>3
  <2>8. ASSUME NEW j \in 1 .. n - 1 PROVE a.keys[j] = WideKey(keys, i, u, j)
    <3>0. j \in 1 .. Len(keys) + 1 /\ j \in Int /\ i \in Int
        BY <1>2, <2>6
    <3>1. /\ j < i => a.keys[j] = keys[j]
          /\ j = i => a.keys[j] = u.mid
          /\ j > i => a.keys[j] = keys[j - 1]
        BY <2>4, <3>0, Zenon DEF IsInsert
    <3> QED
        BY <1>4, <3>0, <3>1 DEF WideKey
  <2>9. (\A j \in 1 .. n : 0 + j = j) /\ \A j \in 1 .. n - 1 : 0 + j = j
      BY <1>2, <2>6
  <2> QED
      BY <2>2, <2>4, <2>5, <2>6, <2>7, <2>8, <2>9 DEF HasWide
<1> QED
    BY <1>3, <1>4

\* A page is split at a place inside it.
LEMMA SplitAtIs ==
  ASSUME NEW n \in Nat, n >= 3, NEW i \in 1 .. n + 1, NEW m, m = SplitAt(n, i)
  PROVE  m \in 1 .. n - 1
<1>1. n \div 2 \in Nat /\ 2 * (n \div 2) <= n /\ n <= 2 * (n \div 2) + 1
    OBVIOUS
<1> DEFINE h == n \div 2
<1>2. m = IF i > h + 1 THEN h + 1 ELSE h
    BY DEF SplitAt
<1> HIDE DEF h
<1>3. h \in Nat /\ 2 * h <= n /\ n <= 2 * h + 1
    BY <1>1 DEF h
<1> QED
    BY <1>2, <1>3

\* The two halves of a branch that is split: the left one has c children.
BranchHalves(a, T, pg, i, u, c) ==
  /\ c \in 2 .. Len(pg.keys) + 1
  /\ HasWide(a.left, FALSE, T, pg.kids, pg.keys, i, u, 0, c)
  /\ HasWide(a.right, FALSE, T, pg.kids, pg.keys, i, u, c, Len(pg.keys) + 2 - c)
  /\ a.mid = WideKey(pg.keys, i, u, c) /\ a.mid \in Nat

\* btree_branch_split: each child and key goes to one half, one key up.
LEMMA BranchSplitIs ==
  ASSUME NEW T, NEW pg, pg.keys \in Seq(Nat), pg.kids \in Seq(T), Len(pg.kids) = Len(pg.keys) + 1,
         Len(pg.keys) >= 3,
         NEW i \in 1 .. Len(pg.kids), NEW u, u.orig \in T, u.split # 0, u.split \in T, u.mid \in Nat,
         NEW a, a = BranchSplit(pg, i, u),
         NEW c, c = Len(a.left.kids)
  PROVE  BranchHalves(a, T, pg, i, u, c)
<1>1. PICK n : n = Len(pg.keys)
    BY Zenon
<1>2. PICK m : m = SplitAt(n, i)
    OBVIOUS
<1>3. n \in Nat /\ n >= 3 /\ Len(pg.kids) = n + 1 /\ i \in 1 .. n + 1
    BY <1>1
<1>4. m \in 1 .. n - 1
    BY <1>2, <1>3, SplitAtIs
<1>b. PICK m1 : m1 = m + 1
    OBVIOUS
<1>c. PICK n1 : n1 = n + 1
    OBVIOUS
<1>d. PICK m2 : m2 = m1 + 1
    OBVIOUS
<1>e. PICK z : z = 0
    OBVIOUS
<1>f. PICK o : o = 1
    OBVIOUS
<1>g. PICK q : q = n - m
    OBVIOUS
<1>n. PICK no : no = FALSE
    BY Zenon
<1>o. u.split = 0 \/ u.split \in T
    BY Zenon
<1>h. PICK r : r = n - m1
    OBVIOUS
<1>5. PICK lk : lk = SubSeq(pg.keys, o, m)
    BY Zenon
<1>6. PICK lc : lc = SubSeq(pg.kids, o, m1)
    BY Zenon
<1>7. PICK rk : rk = SubSeq(pg.keys, m2, n)
    BY Zenon
<1>8. PICK rc : rc = SubSeq(pg.kids, m2, n1)
    BY Zenon
<1>i. /\ o = z + 1 /\ m2 = m1 + 1 /\ m = m - z /\ m1 = m1 - z /\ q = n1 - m1 /\ r = n - m1
      /\ z \in 0 .. m /\ z \in 0 .. m1 /\ m1 \in 0 .. n1 /\ m1 \in 0 .. n
      /\ m \in 0 .. Len(pg.keys) /\ m1 \in 0 .. Len(pg.kids) /\ n \in 0 .. Len(pg.keys) /\ n1 \in 0 .. Len(pg.kids)
  <2>1. m1 = m + 1 /\ n1 = n + 1 /\ m2 = m1 + 1 /\ z = 0 /\ o = 1 /\ q = n - m /\ r = n - m1
      BY <1>b, <1>c, <1>d, <1>e, <1>f, <1>g, <1>h, Zenon
  <2>2. n \in Nat /\ n >= 3 /\ m \in 1 .. n - 1
      BY <1>3, <1>4
  <2>3. /\ o = z + 1 /\ m2 = m1 + 1 /\ m = m - z /\ m1 = m1 - z /\ q = n1 - m1 /\ r = n - m1
      BY ONLY <2>1, <2>2
  <2>4. /\ z \in 0 .. m /\ z \in 0 .. m1 /\ m1 \in 0 .. n1 /\ m1 \in 0 .. n
        /\ m \in 0 .. n /\ m1 \in 0 .. n1 /\ n \in 0 .. n /\ n1 \in 0 .. n1
      BY ONLY <2>1, <2>2
  <2>5. n = Len(pg.keys) /\ n1 = Len(pg.kids)
      BY <1>1, <1>3, <1>c, Zenon
  <2> QED
      BY <2>3, <2>4, <2>5, Zenon
<1>j. lk \in Seq(Nat) /\ IsPart(lk, pg.keys, z, m)
    BY <1>i, <1>5, PartIs, Zenon
<1>k. lc \in Seq(T) /\ IsPart(lc, pg.kids, z, m1)
    BY <1>i, <1>6, PartIs, Zenon
<1>l. rk \in Seq(Nat) /\ IsPart(rk, pg.keys, m1, r)
    BY <1>i, <1>7, PartIs, Zenon
<1>m. rc \in Seq(T) /\ IsPart(rc, pg.kids, m1, q)
    BY <1>i, <1>8, PartIs, Zenon
<1>9. lk \in Seq(Nat) /\ Len(lk) = m /\ \A j \in 1 .. m : lk[j] = pg.keys[j]
    BY <1>e, <1>4, <1>j DEF IsPart
<1>10. lc \in Seq(T) /\ Len(lc) = m + 1 /\ \A j \in 1 .. m + 1 : lc[j] = pg.kids[j]
    BY <1>e, <1>b, <1>4, <1>k DEF IsPart
<1>11. rk \in Seq(Nat) /\ Len(rk) = n - m - 1 /\ \A j \in 1 .. n - m - 1 : rk[j] = pg.keys[m + 1 + j]
  <2>1. r = n - m - 1
      BY <1>3, <1>4, <1>b, <1>h
  <2> QED
      BY <1>b, <1>l, <2>1 DEF IsPart
<1>12. rc \in Seq(T) /\ Len(rc) = n - m /\ \A j \in 1 .. n - m : rc[j] = pg.kids[m + 1 + j]
    BY <1>b, <1>g, <1>m DEF IsPart
<1>13. /\ a.left = BranchCopyUp(pg, 0, m, i, u) /\ a.right = BranchCopyUp(pg, m + 1, n, i, u)
       /\ a.mid = pg.keys[m + 1]
    BY <1>1, <1>2 DEF BranchSplit, Separator
<1>14. a.mid \in Nat
  <2>1. PICK keys : keys = pg.keys
      BY Zenon
  <2>2. PICK k : k = m + 1
      OBVIOUS
  <2>3. k \in 1 .. Len(keys)
      BY <1>1, <1>3, <1>4, <2>1, <2>2
  <2>4. a.mid = keys[k]
      BY <1>13, <2>1, <2>2, Zenon
  <2>5. keys \in Seq(Nat)
      BY <2>1, Zenon
  <2>6. keys[k] \in Nat
      BY ONLY <2>3, <2>5
  <2> QED
      BY <2>4, <2>6, Zenon
<1>15. CASE i <= m + 1
  <2>1. a.left = BranchWith(FALSE, lk, lc, i, u)
    <3>1. 0 + 1 = 1 /\ i - 0 = i /\ i - 1 >= 0 /\ i - 1 <= m
        BY <1>3, <1>4, <1>15
    <3> QED
        BY <1>5, <1>6, <1>b, <1>f, <1>13, <3>1, Zenon DEF BranchCopyUp
  <2>2. a.right = Branch(FALSE, rk, rc)
    <3>1. (m + 1) + 1 = m + 2 /\ ~(i - 1 >= m + 1)
        BY <1>3, <1>4, <1>15
    <3> QED
        BY <1>1, <1>7, <1>8, <1>b, <1>c, <1>d, <1>13, <3>1 DEF BranchCopyUp
  <2>3. PICK w : w = m + 2
      OBVIOUS
  <2>4. w = Len(lc) + Extra(u) /\ Len(lc) = Len(lk) + 1 /\ i \in 1 .. Len(lc)
      BY <1>3, <1>4, <1>9, <1>10, <1>15, <2>3 DEF Extra
  <2>a. HasWide(a.left, no, T, lc, lk, i, u, 0, w)
    <3>1. a.left = BranchWith(no, lk, lc, i, u)
        BY <1>n, <2>1, Zenon
    <3>2. lk \in Seq(Nat) /\ lc \in Seq(T)
        BY <1>9, <1>10
    <3> QED
        BY <2>4, <3>1, <3>2, BranchWithIs, SMT
  <2>5. /\ a.left.kind = "branch" /\ a.left.root = FALSE
        /\ a.left.keys \in Seq(Nat) /\ a.left.kids \in Seq(T) /\ Len(a.left.kids) = w /\ Len(a.left.keys) = w - 1
        /\ \A j \in 1 .. w : a.left.kids[j] = WideKid(lc, i, u, 0 + j)
        /\ \A j \in 1 .. w - 1 : a.left.keys[j] = WideKey(lk, i, u, 0 + j)
      BY <1>n, <2>a, Zenon DEF HasWide
  <2>6. c = w /\ c \in 2 .. n + 1 /\ c \in Int /\ Len(pg.keys) + 2 - c = n - m
    <3>1. c = w
        BY <2>5
    <3>2. n \in Nat /\ m \in 1 .. n - 1 /\ Len(pg.keys) = n
        BY <1>1, <1>3, <1>4
    <3> HIDE <2>5
    <3> QED
        BY <2>3, <3>1, <3>2
  <2>7. ASSUME NEW j \in 1 .. w PROVE a.left.kids[j] = WideKid(pg.kids, i, u, 0 + j)
    <3>1. 0 + j = j /\ j \in Int /\ i \in Int
        BY <1>3, <2>6
    <3>2. j < i => lc[j] = pg.kids[j]
      <4>1. j < i => j \in 1 .. m + 1
          BY <1>3, <1>4, <1>15, <2>3
      <4> QED
          BY <1>10, <4>1, Zenon
    <3>3. j > i + 1 => lc[j - 1] = pg.kids[j - 1]
      <4>1. j > i + 1 => j - 1 \in 1 .. m + 1
          BY <1>3, <1>4, <2>3
      <4> QED
          BY <1>10, <4>1, Zenon
    <3>4. a.left.kids[j] = WideKid(lc, i, u, j)
        BY <2>5, <3>1, Zenon
    <3> QED
        BY <3>1, <3>2, <3>3, <3>4 DEF WideKid
  <2>8. ASSUME NEW j \in 1 .. w - 1 PROVE a.left.keys[j] = WideKey(pg.keys, i, u, 0 + j)
    <3>1. 0 + j = j /\ j \in Int /\ i \in Int
        BY <1>3, <2>6
    <3>2. j < i => lk[j] = pg.keys[j]
      <4>1. j < i => j \in 1 .. m
          BY <1>3, <1>4, <1>15, <2>3
      <4> QED
          BY <1>9, <4>1, Zenon
    <3>3. j > i => lk[j - 1] = pg.keys[j - 1]
      <4>1. j > i => j - 1 \in 1 .. m
          BY <1>3, <1>4, <2>3
      <4> QED
          BY <1>9, <4>1, Zenon
    <3>4. a.left.keys[j] = WideKey(lk, i, u, j)
        BY <2>5, <3>1, Zenon
    <3> QED
        BY <3>1, <3>2, <3>3, <3>4 DEF WideKey
  <2>9. /\ a.right.kind = "branch" /\ a.right.root = FALSE /\ a.right.keys = rk /\ a.right.kids = rc
      BY <2>2 DEF Branch
  <2>10. ASSUME NEW j \in 1 .. n - m PROVE a.right.kids[j] = WideKid(pg.kids, i, u, c + j)
    <3>1. ~(c + j < i) /\ c + j # i /\ c + j # i + 1 /\ (c + j) - 1 = m + 1 + j
        BY <1>3, <1>4, <1>15, <2>3, <2>6
    <3> QED
        BY <1>12, <2>9, <3>1, Zenon DEF WideKid
  <2>11. ASSUME NEW j \in 1 .. n - m - 1 PROVE a.right.keys[j] = WideKey(pg.keys, i, u, c + j)
    <3>1. ~(c + j < i) /\ c + j # i /\ (c + j) - 1 = m + 1 + j
        BY <1>3, <1>4, <1>15, <2>3, <2>6
    <3> QED
        BY <1>11, <2>9, <3>1, Zenon DEF WideKey
  <2>12. a.mid = WideKey(pg.keys, i, u, c)
    <3>1. ~(c < i) /\ c # i /\ c - 1 = m + 1
        BY <1>3, <1>4, <1>15, <2>3, <2>6
    <3> QED
        BY <1>13, <3>1, Zenon DEF WideKey
  <2>13. HasWide(a.left, FALSE, T, pg.kids, pg.keys, i, u, 0, c)
      BY <2>5, <2>6, <2>7, <2>8 DEF HasWide
  <2>14. HasWide(a.right, FALSE, T, pg.kids, pg.keys, i, u, c, n - m)
      BY <1>11, <1>12, <2>9, <2>10, <2>11 DEF HasWide
  <2>15. /\ c \in 2 .. Len(pg.keys) + 1
         /\ HasWide(a.right, FALSE, T, pg.kids, pg.keys, i, u, c, Len(pg.keys) + 2 - c)
      BY <1>1, <2>6, <2>14, Zenon
  <2> QED
      BY <1>14, <2>12, <2>13, <2>15, Zenon DEF BranchHalves
<1>16. CASE i > m + 1
  <2>0. PICK d : d = i - (m + 1)
      OBVIOUS
  <2>1. a.left = Branch(FALSE, lk, lc)
    <3>1. 0 + 1 = 1 /\ ~(i - 1 <= m)
        BY <1>3, <1>4, <1>16
    <3> QED
        BY <1>5, <1>6, <1>b, <1>f, <1>13, <3>1 DEF BranchCopyUp
  <2>2. a.right = BranchWith(FALSE, rk, rc, d, u)
    <3>1. (m + 1) + 1 = m + 2 /\ i - 1 >= m + 1 /\ m + 1 # 0
        BY <1>3, <1>4, <1>16
    <3> QED
        BY <1>1, <1>7, <1>8, <1>b, <1>c, <1>d, <1>13, <2>0, <3>1 DEF BranchCopyUp
  <2>3. PICK w : w = n - m + 1
      OBVIOUS
  <2>4. w = Len(rc) + Extra(u) /\ Len(rc) = Len(rk) + 1 /\ d \in 1 .. Len(rc) /\ d \in Int
    <3>1. Len(rc) = n - m /\ Len(rk) = n - m - 1 /\ Extra(u) = 1
        BY <1>11, <1>12 DEF Extra
    <3>2. n \in Nat /\ m \in 1 .. n - 1 /\ i \in 1 .. n + 1
        BY <1>3, <1>4
    <3>3. d \in 1 .. n - m /\ d \in Int
        BY <1>16, <2>0, <3>2
    <3> QED
        BY <2>3, <3>1, <3>2, <3>3
  <2>a. HasWide(a.right, no, T, rc, rk, d, u, 0, w)
    <3>1. a.right = BranchWith(no, rk, rc, d, u)
        BY <1>n, <2>2, Zenon
    <3>2. rk \in Seq(Nat) /\ rc \in Seq(T)
        BY <1>11, <1>12
    <3> QED
        BY <2>4, <3>1, <3>2, BranchWithIs, SMT
  <2>5. /\ a.right.kind = "branch" /\ a.right.root = FALSE
        /\ a.right.keys \in Seq(Nat) /\ a.right.kids \in Seq(T)
        /\ Len(a.right.kids) = w /\ Len(a.right.keys) = w - 1
        /\ \A j \in 1 .. w : a.right.kids[j] = WideKid(rc, d, u, 0 + j)
        /\ \A j \in 1 .. w - 1 : a.right.keys[j] = WideKey(rk, d, u, 0 + j)
      BY <1>n, <2>a DEF HasWide
  <2>6. /\ a.left.kind = "branch" /\ a.left.root = FALSE /\ a.left.keys = lk /\ a.left.kids = lc
      BY <2>1 DEF Branch
  <2>7. c = m + 1 /\ c \in 2 .. n + 1 /\ c \in Int /\ Len(pg.keys) + 2 - c = w /\ m \in Int /\ n \in Int /\ i \in Int
    <3>1. c = m + 1
        BY <1>10, <2>6
    <3>2. n \in Nat /\ m \in 1 .. n - 1 /\ Len(pg.keys) = n /\ i \in Int
        BY <1>1, <1>3, <1>4
    <3> QED
        BY <2>3, <3>1, <3>2
  <2>8. ASSUME NEW j \in 1 .. c PROVE a.left.kids[j] = WideKid(pg.kids, i, u, 0 + j)
    <3>1. 0 + j = j /\ j < i /\ j \in 1 .. m + 1
        BY <1>3, <1>16, <2>7
    <3> QED
        BY <1>10, <2>6, <3>1 DEF WideKid
  <2>9. ASSUME NEW j \in 1 .. c - 1 PROVE a.left.keys[j] = WideKey(pg.keys, i, u, 0 + j)
    <3>1. 0 + j = j /\ j < i /\ j \in 1 .. m
        BY <1>3, <1>16, <2>7
    <3> QED
        BY <1>9, <2>6, <3>1 DEF WideKey
  <2>10. ASSUME NEW j \in 1 .. w PROVE a.right.kids[j] = WideKid(pg.kids, i, u, c + j)
    <3>1. j \in Int /\ 0 + j = j /\ (c + j < i <=> j < d) /\ (c + j = i <=> j = d) /\ (c + j = i + 1 <=> j = d + 1)
        BY <2>0, <2>7
    <3>2. j < d => rc[j] = pg.kids[c + j]
        BY <1>12, <2>3, <2>4, <2>7
    <3>3. ~(j < d) /\ j # d /\ j # d + 1 => rc[j - 1] = pg.kids[(c + j) - 1]
      <4> HAVE ~(j < d) /\ j # d /\ j # d + 1
      <4>1. j - 1 \in 1 .. n - m /\ (c + j) - 1 = m + 1 + (j - 1)
          BY <2>3, <2>4, <2>7
      <4> QED
          BY <1>12, <4>1, Zenon
    <3> QED
        BY <2>5, <3>1, <3>2, <3>3, Zenon DEF WideKid
  <2>11. ASSUME NEW j \in 1 .. w - 1 PROVE a.right.keys[j] = WideKey(pg.keys, i, u, c + j)
    <3>1. j \in Int /\ 0 + j = j /\ (c + j < i <=> j < d) /\ (c + j = i <=> j = d)
        BY <2>0, <2>7
    <3>2. j < d => rk[j] = pg.keys[c + j]
      <4>1. d \in 1 .. n - m
          BY <1>12, <2>4
      <4>2. j < d => j \in 1 .. n - m - 1
          BY <2>7, <4>1
      <4> QED
          BY <1>11, <2>7, <4>2
    <3>3. ~(j < d) /\ j # d => rk[j - 1] = pg.keys[(c + j) - 1]
      <4> HAVE ~(j < d) /\ j # d
      <4>1. j - 1 \in 1 .. n - m - 1 /\ (c + j) - 1 = m + 1 + (j - 1)
          BY <2>3, <2>4, <2>7
      <4> QED
          BY <1>11, <4>1, Zenon
    <3> QED
        BY <2>5, <3>1, <3>2, <3>3, Zenon DEF WideKey
  <2>12. a.mid = WideKey(pg.keys, i, u, c)
    <3>1. c < i /\ c = m + 1
        BY <1>16, <2>7
    <3> QED
        BY <1>13, <3>1, Zenon DEF WideKey
  <2>13. HasWide(a.left, FALSE, T, pg.kids, pg.keys, i, u, 0, c)
    <3>1. Len(lk) = c - 1 /\ Len(lc) = c
        BY <1>9, <1>10, <2>7
    <3> QED
        BY <1>9, <1>10, <2>6, <2>8, <2>9, <3>1 DEF HasWide
  <2>14. HasWide(a.right, FALSE, T, pg.kids, pg.keys, i, u, c, w)
      BY <2>5, <2>10, <2>11 DEF HasWide
  <2>15. c \in 2 .. Len(pg.keys) + 1 /\ w = Len(pg.keys) + 2 - c
      BY <1>1, <2>7
  <2> QED
      BY <1>14, <2>12, <2>13, <2>14, <2>15, Zenon DEF BranchHalves
<1> QED
  <2>1. i \in Int /\ m \in Int
      BY <1>3, <1>4
  <2>2. i <= m + 1 \/ i > m + 1
      BY <2>1
  <2> QED
      BY <1>15, <1>16, <2>2, Zenon

(* A leaf with a new item at place i: element j of the keys or the values. *)
WideItem(s, i, e, j) == IF j < i THEN s[j] ELSE IF j = i THEN e ELSE s[j - 1]

\* The new leaf a has these items, from item c + 1 on.
HasItems(a, flag, pg, i, key, val, c, n) ==
  /\ a.kind = "leaf" /\ a.root = flag
  /\ a.keys \in Seq(Nat) /\ a.vals \in Seq(Nat) /\ Len(a.keys) = n /\ Len(a.vals) = n
  /\ \A j \in 1 .. n : /\ a.keys[j] = WideItem(pg.keys, i, key, c + j)
                       /\ a.vals[j] = WideItem(pg.vals, i, val, c + j)

\* btree_leaf_add: the copy has all items, the new one in place.
LEMMA LeafWithIs ==
  ASSUME NEW pg, pg.keys \in Seq(Nat), pg.vals \in Seq(Nat), Len(pg.vals) = Len(pg.keys),
         NEW i \in 1 .. Len(pg.keys) + 1, NEW key \in Nat, NEW val \in Nat, NEW flag,
         NEW a, a = Leaf(flag, InsertAt(pg.keys, i, key), InsertAt(pg.vals, i, val)),
         NEW n, n = Len(pg.keys) + 1
  PROVE  HasItems(a, flag, pg, i, key, val, 0, n)
<1>1. /\ a.kind = "leaf" /\ a.root = flag
      /\ a.keys = InsertAt(pg.keys, i, key) /\ a.vals = InsertAt(pg.vals, i, val)
    BY DEF Leaf
<1>2. i \in 1 .. Len(pg.vals) + 1 /\ Len(pg.keys) \in Nat /\ i \in Nat
    OBVIOUS
<1>3. a.keys \in Seq(Nat) /\ IsInsert(a.keys, pg.keys, i, key)
    BY <1>1, InsertAtIs, Zenon
<1>4. a.vals \in Seq(Nat) /\ IsInsert(a.vals, pg.vals, i, val)
    BY <1>1, <1>2, InsertAtIs, Zenon
<1>5. Len(a.keys) = n /\ Len(a.vals) = n
    BY <1>3, <1>4 DEF IsInsert
<1>6. ASSUME NEW j \in 1 .. n
      PROVE  /\ a.keys[j] = WideItem(pg.keys, i, key, 0 + j)
             /\ a.vals[j] = WideItem(pg.vals, i, val, 0 + j)
  <2>1. j \in Int /\ 0 + j = j /\ j \in 1 .. Len(pg.keys) + 1 /\ j \in 1 .. Len(pg.vals) + 1
      BY <1>2
  <2>2. /\ j < i => a.keys[j] = pg.keys[j] /\ a.vals[j] = pg.vals[j]
        /\ j = i => a.keys[j] = key /\ a.vals[j] = val
        /\ j > i => a.keys[j] = pg.keys[j - 1] /\ a.vals[j] = pg.vals[j - 1]
      BY <1>3, <1>4, <2>1, Zenon DEF IsInsert
  <2> QED
      BY <1>2, <2>1, <2>2 DEF WideItem
<1> QED
    BY <1>1, <1>3, <1>4, <1>5, <1>6 DEF HasItems

\* btree_leaf_copy_in: whether the new item is in the part copied.
Inserted(from, to, i) == (from = 0 \/ i - 1 > from) /\ i - 1 <= to

\* The copy has n items of the leaf with its new item, those behind item c.
Copied(from, to, i, c, n) ==
  \/ Inserted(from, to, i) /\ i > from /\ c = from /\ n = to - from + 1
  \/ i > to + 1 /\ c = from /\ n = to - from
  \/ from # 0 /\ i <= from + 1 /\ c = from + 1 /\ n = to - from

\* btree_leaf_copy_in copies the items of its range, with the new one if it
\* falls there.
LEMMA LeafCopyInIs ==
  ASSUME NEW pg, pg.keys \in Seq(Nat), pg.vals \in Seq(Nat), Len(pg.vals) = Len(pg.keys),
         NEW to \in 0 .. Len(pg.keys), NEW from \in 0 .. to, NEW i \in Nat \ {0}, NEW key \in Nat, NEW val \in Nat,
         NEW a, a = LeafCopyIn(pg, from, to, i, key, val),
         NEW c, NEW n, Copied(from, to, i, c, n)
  PROVE  HasItems(a, FALSE, pg, i, key, val, c, n)
<1>1. PICK f : f = from + 1
    OBVIOUS
<1>2. PICK q : q = to - from
    OBVIOUS
<1>3. PICK d : d = i - from
    OBVIOUS
<1>4. /\ to \in 0 .. Len(pg.keys) /\ to \in 0 .. Len(pg.vals)
      /\ to \in Nat /\ from \in Nat /\ from <= to /\ i \in Nat /\ i >= 1 /\ d \in Int /\ q \in Nat
    BY <1>2, <1>3
<1>5. PICK ks : ks = SubSeq(pg.keys, f, to)
    BY Zenon
<1>6. PICK vs : vs = SubSeq(pg.vals, f, to)
    BY Zenon
<1>7. ks \in Seq(Nat) /\ IsPart(ks, pg.keys, from, q)
    BY <1>1, <1>2, <1>4, <1>5, PartIs, Zenon
<1>8. vs \in Seq(Nat) /\ IsPart(vs, pg.vals, from, q)
    BY <1>1, <1>2, <1>4, <1>6, PartIs, Zenon
<1>9. /\ Len(ks) = q /\ Len(vs) = q
      /\ \A j \in 1 .. q : ks[j] = pg.keys[from + j] /\ vs[j] = pg.vals[from + j]
    BY <1>7, <1>8 DEF IsPart
<1>10. a = IF Inserted(from, to, i) THEN Leaf(FALSE, InsertAt(ks, d, key), InsertAt(vs, d, val))
           ELSE Leaf(FALSE, ks, vs)
    BY <1>1, <1>3, <1>5, <1>6 DEF LeafCopyIn, Inserted
<1>11. CASE ~Inserted(from, to, i)
  <2>1. a.kind = "leaf" /\ a.root = FALSE /\ a.keys = ks /\ a.vals = vs
      BY <1>10, <1>11 DEF Leaf
  <2>2. /\ n = q
        /\ \/ i > to + 1 /\ c = from
           \/ from # 0 /\ i <= from + 1 /\ c = from + 1
      BY <1>2, <1>11 DEF Copied
  <2>3. ASSUME NEW j \in 1 .. n
        PROVE  /\ a.keys[j] = WideItem(pg.keys, i, key, c + j)
               /\ a.vals[j] = WideItem(pg.vals, i, val, c + j)
    <3>1. CASE i > to + 1 /\ c = from
      <4>0. PICK x : x = c + j
          OBVIOUS
      <4>b. x = from + j /\ j \in 1 .. q
          BY <1>2, <1>4, <2>2, <3>1, <4>0
      <4>c. x < i
          BY <1>2, <1>4, <3>1, <4>b
      <4>1. c + j < i /\ c + j = from + j
          BY <4>0, <4>b, <4>c, Zenon
      <4> QED
          BY <1>9, <2>1, <2>2, <4>1, Zenon DEF WideItem
    <3>2. CASE i <= from + 1 /\ c = from + 1
      <4>0. PICK x : x = c + j
          OBVIOUS
      <4>b. x = from + 1 + j /\ j \in 1 .. q
          BY <1>2, <1>4, <2>2, <3>2, <4>0
      <4>c. ~(x < i) /\ x # i /\ x - 1 = from + j
          BY <1>4, <3>2, <4>b
      <4>1. ~(c + j < i) /\ c + j # i /\ (c + j) - 1 = from + j
          BY <4>0, <4>c, Zenon
      <4> QED
          BY <1>9, <2>1, <2>2, <4>1 DEF WideItem
    <3> QED
        BY <2>2, <3>1, <3>2
  <2> QED
      BY <1>7, <1>8, <1>9, <2>1, <2>2, <2>3 DEF HasItems
<1>12. CASE Inserted(from, to, i)
  <2>1. /\ a.kind = "leaf" /\ a.root = FALSE
        /\ a.keys = InsertAt(ks, d, key) /\ a.vals = InsertAt(vs, d, val)
      BY <1>10, <1>12 DEF Leaf
  <2>2. n = q + 1 /\ c = from /\ i > from /\ i - 1 <= to
    <3>1. i - 1 <= to /\ (from = 0 \/ i - 1 > from)
        BY <1>12 DEF Inserted
    <3> QED
        BY <1>2, <1>4, <3>1 DEF Copied
  <2>3. d \in 1 .. q + 1
      BY <1>2, <1>3, <1>4, <2>2
  <2>4. d \in 1 .. Len(ks) + 1 /\ d \in 1 .. Len(vs) + 1
      BY <1>9, <2>3
  <2>5. a.keys \in Seq(Nat) /\ IsInsert(a.keys, ks, d, key)
      BY <1>7, <2>1, <2>4, InsertAtIs, Zenon
  <2>6. a.vals \in Seq(Nat) /\ IsInsert(a.vals, vs, d, val)
      BY <1>8, <2>1, <2>4, InsertAtIs, Zenon
  <2>7. /\ Len(a.keys) = n /\ Len(a.vals) = n
        /\ \A j \in 1 .. n : /\ j < d => a.keys[j] = ks[j] /\ a.vals[j] = vs[j]
                             /\ j = d => a.keys[j] = key /\ a.vals[j] = val
                             /\ j > d => a.keys[j] = ks[j - 1] /\ a.vals[j] = vs[j - 1]
      BY <1>9, <2>2, <2>5, <2>6, Zenon DEF IsInsert
  <2>8. ASSUME NEW j \in 1 .. n
        PROVE  /\ a.keys[j] = WideItem(pg.keys, i, key, c + j)
               /\ a.vals[j] = WideItem(pg.vals, i, val, c + j)
    <3>1. /\ j \in Int /\ (c + j < i <=> j < d) /\ (c + j = i <=> j = d) /\ c + j = from + j
          /\ from + (j - 1) = (c + j) - 1
        BY <1>3, <1>4, <2>2
    <3>2. CASE j < d
      <4>1. j \in 1 .. q
          BY <1>4, <2>3, <3>1, <3>2
      <4> QED
          BY <1>9, <2>7, <3>1, <3>2, <4>1, Zenon DEF WideItem
    <3>3. CASE j = d
      <4>1. a.keys[j] = key /\ a.vals[j] = val
          BY <2>7, <3>3, Zenon
      <4> QED
          BY <1>4, <3>1, <3>3, <4>1 DEF WideItem
    <3>4. CASE j > d
      <4>1. j - 1 \in 1 .. q /\ ~(j < d) /\ j # d
          BY <1>4, <2>2, <2>3, <3>1, <3>4
      <4>2. a.keys[j] = ks[j - 1] /\ a.vals[j] = vs[j - 1]
          BY <2>7, <3>4, Zenon
      <4> QED
          BY <1>9, <3>1, <4>1, <4>2, Zenon DEF WideItem
    <3> QED
        BY <1>4, <3>1, <3>2, <3>3, <3>4
  <2> QED
      BY <2>1, <2>5, <2>6, <2>7, <2>8 DEF HasItems
<1> QED
    BY <1>11, <1>12, Zenon

\* The place where a full leaf is split, and what each half then takes.
LEMMA Halving ==
  ASSUME NEW n \in Nat, n >= 3, NEW i \in 1 .. n + 1, NEW m \in 1 .. n - 1,
         NEW w, w = IF i <= m + 1 THEN m + 1 ELSE m,
         NEW v, v = n + 1 - w
  PROVE  w \in 1 .. n /\ Copied(0, m, i, 0, w) /\ Copied(m, n, i, w, v)
<1>1. CASE i <= m + 1
  <2>1. w = m + 1
      BY <1>1, Zenon
  <2>2. w \in 1 .. n /\ v = n - m
      BY <2>1
  <2>3. Copied(0, m, i, 0, w)
      BY <1>1, <2>1 DEF Copied, Inserted
  <2>4. Copied(m, n, i, w, v)
    <3>1. m # 0 /\ i <= m + 1 /\ w = m + 1 /\ v = n - m
        BY <1>1, <2>1, <2>2
    <3> QED
        BY <3>1, Zenon DEF Copied
  <2> QED
      BY <2>2, <2>3, <2>4
<1>2. CASE i > m + 1
  <2>1. w = m
      BY <1>2
  <2>2. w \in 1 .. n /\ v = n - m + 1
      BY <2>1
  <2>3. Copied(0, m, i, 0, w)
    <3>1. i > m + 1 /\ w = m - 0
        BY <1>2, <2>1
    <3> QED
        BY <3>1, Zenon DEF Copied
  <2>4. Copied(m, n, i, w, v)
    <3>1. i - 1 > m /\ i - 1 <= n /\ i > m
        BY <1>2
    <3> QED
        BY <2>1, <2>2, <3>1, Zenon DEF Copied, Inserted
  <2> QED
      BY <2>2, <2>3, <2>4
<1> QED
    BY <1>1, <1>2

\* The two halves of a leaf that is split: the left one has c items.
LeafHalves(a, pg, i, key, val, c) ==
  /\ c \in 1 .. Len(pg.keys) /\ i \in 1 .. Len(pg.keys) + 1
  /\ HasItems(a.left, FALSE, pg, i, key, val, 0, c)
  /\ HasItems(a.right, FALSE, pg, i, key, val, c, Len(pg.keys) + 1 - c)
  /\ a.mid = WideItem(pg.keys, i, key, c + 1) /\ a.mid \in Nat

\* btree_leaf_split: each item, the new one too, goes to one half.
LEMMA LeafSplitIs ==
  ASSUME NEW pg, pg.keys \in Seq(Nat), pg.vals \in Seq(Nat), Len(pg.vals) = Len(pg.keys),
         Len(pg.keys) >= 3,
         NEW key \in Nat, KeyGet(key) = key, NEW val \in Nat,
         NEW i, i = LeafFind(pg, key),
         NEW a, a = LeafSplit(pg, key, val),
         NEW c, c = Len(a.left.keys)
  PROVE  LeafHalves(a, pg, i, key, val, c)
<1>1. PICK n : n = Len(pg.keys)
    BY Zenon
<1>2. PICK m : m = SplitAt(n, i)
    OBVIOUS
<1>3. n \in Nat /\ n >= 3 /\ i \in 1 .. n + 1 /\ i \in Int
  <2>1. LeafFind(pg, key) \in 1 .. Len(pg.keys) + 1
      BY LeafFindIs, Zenon
  <2> QED
      BY <1>1, <2>1
<1>4. m \in 1 .. n - 1 /\ m \in Int
    BY <1>2, <1>3, SplitAtIs
<1>5. /\ a.left = LeafCopyIn(pg, 0, m, i, key, val) /\ a.right = LeafCopyIn(pg, m, n, i, key, val)
      /\ a.mid = pg.keys[m + 1]
    BY <1>1, <1>2 DEF LeafSplit, Separator
<1>6. a.mid \in Nat
  <2>1. PICK keys : keys = pg.keys
      BY Zenon
  <2>2. PICK k : k = m + 1
      OBVIOUS
  <2>3. k \in 1 .. Len(keys)
      BY <1>1, <1>3, <1>4, <2>1, <2>2
  <2>4. a.mid = keys[k]
      BY <1>5, <2>1, <2>2, Zenon
  <2>5. keys \in Seq(Nat)
      BY <2>1, Zenon
  <2>6. keys[k] \in Nat
      BY ONLY <2>3, <2>5
  <2> QED
      BY <2>4, <2>6, Zenon
<1>7. PICK z : z = 0
    OBVIOUS
<1>8. PICK w : w = IF i <= m + 1 THEN m + 1 ELSE m
    BY Zenon
<1>9. PICK v : v = n + 1 - w
    OBVIOUS
<1>10. /\ n \in 0 .. Len(pg.keys) /\ m \in 0 .. Len(pg.keys) /\ m \in 0 .. n /\ z \in 0 .. m /\ i \in Nat \ {0}
       /\ w \in 1 .. n /\ w \in Int
  <2>1. w \in 1 .. n
      BY <1>3, <1>4, <1>8, <1>9, Halving, Zenon
  <2>2. w \in 1 .. n /\ w \in Int
      BY <1>3, <2>1
  <2>3. n \in 0 .. Len(pg.keys)
      BY <1>1, <1>3
  <2>4. m \in 0 .. Len(pg.keys)
      BY <1>1, <1>3, <1>4
  <2>5. m \in 0 .. n
      BY <1>3, <1>4
  <2>6. z \in 0 .. m
      BY <1>3, <1>4, <1>7
  <2>7. i \in Nat \ {0}
      BY <1>3
  <2> QED
      BY <2>2, <2>3, <2>4, <2>5, <2>6, <2>7
<1>11. HasItems(a.left, FALSE, pg, i, key, val, z, w)
  <2>1. a.left = LeafCopyIn(pg, z, m, i, key, val)
      BY <1>5, <1>7
  <2>2. Copied(z, m, i, z, w)
      BY <1>3, <1>4, <1>7, <1>8, <1>9, Halving, Zenon
  <2> QED
      BY <1>10, <2>1, <2>2, LeafCopyInIs, Zenon
<1>12. HasItems(a.right, FALSE, pg, i, key, val, w, v)
  <2>1. Copied(m, n, i, w, v)
      BY <1>3, <1>4, <1>8, <1>9, Halving, Zenon
  <2> QED
      BY <1>5, <1>10, <2>1, LeafCopyInIs, Zenon
<1>13. c = w
    BY <1>11 DEF HasItems
<1>14. a.mid = WideItem(pg.keys, i, key, c + 1)
  <2>1. CASE i <= m + 1
    <3>1. ~(c + 1 < i) /\ c + 1 # i /\ (c + 1) - 1 = m + 1
        BY <1>3, <1>4, <1>8, <1>13, <2>1
    <3> QED
        BY <1>5, <3>1, Zenon DEF WideItem
  <2>2. CASE ~(i <= m + 1)
    <3>1. c + 1 < i /\ c + 1 = m + 1
        BY <1>3, <1>4, <1>8, <1>13, <2>2
    <3> QED
        BY <1>5, <3>1, Zenon DEF WideItem
  <2> QED
      BY <2>1, <2>2
<1>15. c \in 1 .. Len(pg.keys) /\ v = Len(pg.keys) + 1 - c /\ i \in 1 .. Len(pg.keys) + 1
    BY <1>1, <1>3, <1>9, <1>10, <1>13
<1>16. HasItems(a.left, FALSE, pg, i, key, val, 0, c)
    BY <1>7, <1>11, <1>13, Zenon
<1>17. HasItems(a.right, FALSE, pg, i, key, val, c, Len(pg.keys) + 1 - c)
    BY <1>12, <1>13, <1>15, Zenon
<1> QED
    BY <1>6, <1>14, <1>15, <1>16, <1>17, Zenon DEF LeafHalves

(* Pages of the tree replaced. *)

\* In store t the pages of N, at level l, stand where those of D did; children
\* of theirs are the pages of R and children the pages of D had.
Rewritten(s, g, t, h, D, N, R, l) ==
  /\ D \subseteq g.pages /\ N \cap g.pages = {} /\ h.pages = (g.pages \ D) \cup N
  /\ l \in Nat
  /\ \A p \in g.pages \ D :
       t.mem[p] = s.mem[p] /\ h.hole[p] = g.hole[p] /\ h.level[p] = g.level[p]
  /\ \A n \in N : /\ h.hole[n] = 0 /\ h.level[n] = l
                  /\ t.mem[n].kind = IF l = 0 THEN "leaf" ELSE "branch"
  /\ \A p \in Inner(s, g) : \A i \in Live(s, g, p) : s.mem[p].kids[i] \notin D
  /\ \A r \in R : r \in g.pages /\ r \notin D /\ g.hole[r] = 0 /\ l = g.level[r] + 1
  /\ \A d \in D : g.level[d] = l

\* What the new branches have for children.
Adopted(s, g, t, D, N, R) ==
  /\ \A n \in N : t.mem[n].kind = "branch" => \A j \in DOMAIN t.mem[n].kids :
       \/ t.mem[n].kids[j] \in R
       \/ \E d \in D : \E i \in Live(s, g, d) :
            d \in Inner(s, g) /\ t.mem[n].kids[j] = s.mem[d].kids[i]
  /\ \A m, n \in N : t.mem[m].kind = "branch" /\ t.mem[n].kind = "branch" =>
       \A i \in DOMAIN t.mem[m].kids, j \in DOMAIN t.mem[n].kids :
         t.mem[m].kids[i] = t.mem[n].kids[j] => m = n /\ i = j

\* Levels and parents of the tree are right again once pages have been replaced.
LEMMA Rewriting ==
  ASSUME NEW s, NEW g, NEW t, NEW h, NEW D, NEW N, NEW R, NEW l,
         Levelled(s, g), OneParent(s, g), Loose(s, g, R),
         Rewritten(s, g, t, h, D, N, R, l), Adopted(s, g, t, D, N, R)
  PROVE  Levelled(t, h) /\ OneParent(t, h) /\ Loose(t, h, N)
<1>1. /\ D \subseteq g.pages /\ \A n \in N : n \notin g.pages
      /\ \A p : p \in h.pages <=> (p \in g.pages /\ p \notin D) \/ p \in N
      /\ l \in Nat
    BY DEF Rewritten
<1>2. \A p \in g.pages : p \notin D =>
        t.mem[p] = s.mem[p] /\ h.hole[p] = g.hole[p] /\ h.level[p] = g.level[p]
    BY DEF Rewritten
<1>3. \A n \in N : /\ h.hole[n] = 0 /\ h.level[n] = l
                   /\ t.mem[n].kind = IF l = 0 THEN "leaf" ELSE "branch"
    BY DEF Rewritten
<1>4. \A p \in Inner(s, g) : \A i \in Live(s, g, p) : s.mem[p].kids[i] \notin D
    BY DEF Rewritten
<1>5. \A r \in R : r \in g.pages /\ r \notin D /\ g.hole[r] = 0 /\ l = g.level[r] + 1
    BY DEF Rewritten
<1>6. /\ \A p \in g.pages : /\ g.level[p] \in Nat /\ g.hole[p] \in Nat
                            /\ s.mem[p].kind = IF g.level[p] = 0 THEN "leaf" ELSE "branch"
      /\ \A p \in Inner(s, g) : \A i \in Live(s, g, p) :
           /\ s.mem[p].kids[i] \in g.pages
           /\ g.hole[s.mem[p].kids[i]] = 0
           /\ g.level[p] = g.level[s.mem[p].kids[i]] + 1
    BY DEF Levelled
<1>7. \A p \in Inner(t, h) :
        \/ p \in Inner(s, g) /\ p \notin D /\ p \notin N
        \/ p \in N /\ t.mem[p].kind = "branch"
    BY <1>1, <1>2 DEF Inner
<1>8. ASSUME NEW p \in Inner(s, g), p \notin D
      PROVE  t.mem[p] = s.mem[p] /\ Live(t, h, p) = Live(s, g, p)
  <2>1. p \in g.pages
      BY DEF Inner
  <2>2. t.mem[p] = s.mem[p] /\ h.hole[p] = g.hole[p]
      BY <1>2, <1>8, <2>1
  <2> QED
      BY <2>2, Zenon DEF Live
<1>9. ASSUME NEW n \in N, t.mem[n].kind = "branch", NEW j \in Live(t, h, n)
      PROVE  /\ j \in DOMAIN t.mem[n].kids
             /\ \/ t.mem[n].kids[j] \in R
                \/ \E d \in D : \E i \in Live(s, g, d) :
                     d \in Inner(s, g) /\ t.mem[n].kids[j] = s.mem[d].kids[i]
    BY <1>9 DEF Live, Adopted
<1>10. ASSUME NEW n \in N, t.mem[n].kind = "branch", NEW j \in Live(t, h, n)
       PROVE  /\ t.mem[n].kids[j] \in g.pages /\ t.mem[n].kids[j] \notin D
              /\ g.hole[t.mem[n].kids[j]] = 0 /\ l = g.level[t.mem[n].kids[j]] + 1
  <2>1. CASE t.mem[n].kids[j] \in R
      BY <1>5, <2>1
  <2>2. CASE \E d \in D : \E i \in Live(s, g, d) : d \in Inner(s, g) /\ t.mem[n].kids[j] = s.mem[d].kids[i]
    <3>1. PICK d \in D : \E i \in Live(s, g, d) : d \in Inner(s, g) /\ t.mem[n].kids[j] = s.mem[d].kids[i]
        BY <2>2
    <3>2. PICK i \in Live(s, g, d) : d \in Inner(s, g) /\ t.mem[n].kids[j] = s.mem[d].kids[i]
        BY <3>1
    <3>3. g.level[d] = l
        BY DEF Rewritten
    <3> QED
        BY <1>4, <1>6, <3>2, <3>3
  <2> QED
      BY <1>9, <1>10, <2>1, <2>2
<1>11. Levelled(t, h)
  <2>1. ASSUME NEW p \in h.pages
        PROVE  /\ h.level[p] \in Nat /\ h.hole[p] \in Nat
               /\ t.mem[p].kind = IF h.level[p] = 0 THEN "leaf" ELSE "branch"
    <3>1. CASE p \in N
        BY <1>1, <1>3, <3>1
    <3>2. CASE p \notin N
        BY <1>1, <1>2, <1>6, <3>2
    <3> QED
        BY <3>1, <3>2
  <2>2. ASSUME NEW p \in Inner(t, h), NEW i \in Live(t, h, p)
        PROVE  /\ t.mem[p].kids[i] \in h.pages
               /\ h.hole[t.mem[p].kids[i]] = 0
               /\ h.level[p] = h.level[t.mem[p].kids[i]] + 1
    <3>1. CASE p \in Inner(s, g) /\ p \notin D
      <4>1. t.mem[p] = s.mem[p] /\ i \in Live(s, g, p) /\ h.level[p] = g.level[p]
          BY <1>2, <1>8, <3>1 DEF Inner
      <4>2. PICK k : k = s.mem[p].kids[i]
          OBVIOUS
      <4>3. k \in g.pages /\ g.hole[k] = 0 /\ g.level[p] = g.level[k] + 1 /\ k \notin D
          BY <1>4, <1>6, <3>1, <4>1, <4>2, Zenon
      <4> QED
          BY <1>1, <1>2, <4>1, <4>2, <4>3
    <3>2. CASE p \in N /\ t.mem[p].kind = "branch"
      <4>1. PICK k : k = t.mem[p].kids[i]
          OBVIOUS
      <4>2. k \in g.pages /\ g.hole[k] = 0 /\ l = g.level[k] + 1 /\ k \notin D
          BY <1>10, <3>2, <4>1
      <4> QED
          BY <1>1, <1>2, <1>3, <3>2, <4>1, <4>2
    <3> QED
        BY <1>7, <3>1, <3>2
  <2> QED
      BY <2>1, <2>2 DEF Levelled
<1>12. OneParent(t, h)
  <2>1. SUFFICES ASSUME NEW p \in Inner(t, h), NEW q \in Inner(t, h),
                        NEW i \in Live(t, h, p), NEW j \in Live(t, h, q),
                        t.mem[p].kids[i] = t.mem[q].kids[j]
                 PROVE  p = q /\ i = j
      BY DEF OneParent
  <2>2. ASSUME NEW a \in Inner(s, g), a \notin D, NEW n \in N, t.mem[n].kind = "branch",
               NEW x \in Live(t, h, a), NEW y \in Live(t, h, n), t.mem[a].kids[x] = t.mem[n].kids[y]
        PROVE  FALSE
    <3>1. t.mem[a] = s.mem[a] /\ x \in Live(s, g, a)
        BY <1>8, <2>2
    <3>2. CASE t.mem[n].kids[y] \in R
      <4>1. s.mem[a].kids[x] \notin R
          BY <3>1 DEF Loose
      <4> QED
          BY <2>2, <3>1, <3>2, <4>1
    <3>3. CASE \E d \in D : \E z \in Live(s, g, d) : d \in Inner(s, g) /\ t.mem[n].kids[y] = s.mem[d].kids[z]
      <4>1. PICK d \in D : \E z \in Live(s, g, d) : d \in Inner(s, g) /\ t.mem[n].kids[y] = s.mem[d].kids[z]
          BY <3>3
      <4>2. PICK z \in Live(s, g, d) : d \in Inner(s, g) /\ t.mem[n].kids[y] = s.mem[d].kids[z]
          BY <4>1
      <4>3. a = d
          BY <2>2, <3>1, <4>2 DEF OneParent
      <4> QED
          BY <2>2, <4>3
    <3> QED
        BY <1>9, <2>2, <3>2, <3>3
  <2>3. CASE p \in Inner(s, g) /\ p \notin D /\ q \in Inner(s, g) /\ q \notin D
    <3>1. t.mem[p] = s.mem[p] /\ i \in Live(s, g, p) /\ t.mem[q] = s.mem[q] /\ j \in Live(s, g, q)
        BY <1>8, <2>3
    <3> QED
        BY <2>1, <2>3, <3>1 DEF OneParent
  <2>4. CASE p \in N /\ t.mem[p].kind = "branch" /\ q \in N /\ t.mem[q].kind = "branch"
    <3>1. i \in DOMAIN t.mem[p].kids /\ j \in DOMAIN t.mem[q].kids
        BY DEF Live
    <3> QED
        BY <2>1, <2>4, <3>1 DEF Adopted
  <2> QED
      BY <1>7, <2>1, <2>2, <2>3, <2>4
<1>13. Loose(t, h, N)
  <2>1. ASSUME NEW p \in Inner(t, h), NEW i \in Live(t, h, p)
        PROVE  t.mem[p].kids[i] \notin N
    <3>1. CASE p \in Inner(s, g) /\ p \notin D
      <4>1. t.mem[p] = s.mem[p] /\ i \in Live(s, g, p)
          BY <1>8, <3>1
      <4> QED
          BY <1>1, <1>6, <3>1, <4>1
    <3>2. CASE p \in N /\ t.mem[p].kind = "branch"
        BY <1>1, <1>10, <3>2
    <3> QED
        BY <1>7, <3>1, <3>2
  <2> QED
      BY <1>1, <1>3, <2>1 DEF Loose
<1> QED
    BY <1>11, <1>12, <1>13

(* Overflow pages replaced. *)

\* What the marked items of the new leaves refer to: a page of Z, or a page one
\* of the leaves they stand for referred to, none of W.
Refers(s, g, t, D, N, W, Z) ==
  /\ \A n \in N : t.mem[n].kind = "leaf" => \A j \in Marked(t, n) :
       \/ t.mem[n].vals[j] \in Z
       \/ \E d \in D : \E i \in Marked(s, d) :
            d \in Leaves(s, g) /\ t.mem[n].vals[j] = s.mem[d].vals[i] /\ s.mem[d].vals[i] \notin W
  /\ \A m, n \in N : t.mem[m].kind = "leaf" /\ t.mem[n].kind = "leaf" =>
       \A i \in Marked(t, m), j \in Marked(t, n) :
         t.mem[m].vals[i] = t.mem[n].vals[j] => m = n /\ i = j

\* The pages of Z have come, those of O have gone; the stacks that began with a
\* page of W begin with the page z.
Restacked(s, g, t, h, D, O, W, Z, z) ==
  /\ h.stacks = (g.stacks \ O) \cup Z
  /\ O \subseteq W /\ (\A o \in O : g.first[o] = o) /\ Z \subseteq {z}
  /\ W # {} => z \in Z
  /\ \A x \in g.stacks \ O : /\ t.mem[x] = s.mem[x]
                             /\ h.first[x] = IF g.first[x] \in W THEN z ELSE g.first[x]
  /\ \A p \in Leaves(s, g) \ D : \A i \in Marked(s, p) : s.mem[p].vals[i] \notin W
  /\ \A y \in Z : /\ y \notin g.stacks
                  /\ t.mem[y].kind = "stack" /\ h.first[y] = y
                  /\ t.mem[y].next # 0 => /\ t.mem[y].next \in h.stacks
                                          /\ h.first[t.mem[y].next] = y
                                          /\ t.mem[y].next # y

\* Each item's stack is its own again once leaves have been replaced.
LEMMA Restacking ==
  ASSUME NEW s, NEW g, NEW t, NEW h, NEW D, NEW N, NEW R, NEW l, NEW O, NEW W, NEW Z, NEW z,
         Stacked(s, g), Rewritten(s, g, t, h, D, N, R, l),
         Refers(s, g, t, D, N, W, Z), Restacked(s, g, t, h, D, O, W, Z, z)
  PROVE  Stacked(t, h)
<1>1. /\ \A p : p \in h.pages <=> (p \in g.pages /\ p \notin D) \/ p \in N
      /\ \A p \in g.pages : p \notin D => t.mem[p] = s.mem[p]
    BY DEF Rewritten
<1>2. /\ \A x : x \in h.stacks <=> (x \in g.stacks /\ x \notin O) \/ x \in Z
      /\ \A o \in O : o \in W /\ g.first[o] = o
      /\ \A y \in Z : y = z
      /\ W # {} => z \in Z
    BY DEF Restacked
<1>3. \A x \in g.stacks : x \notin O =>
        t.mem[x] = s.mem[x] /\ h.first[x] = IF g.first[x] \in W THEN z ELSE g.first[x]
    BY DEF Restacked
<1>4. \A p \in Leaves(s, g) : p \notin D => \A i \in Marked(s, p) : s.mem[p].vals[i] \notin W
    BY DEF Restacked
<1>5. \A y \in Z : /\ y \notin g.stacks
                   /\ t.mem[y].kind = "stack" /\ h.first[y] = y
                   /\ t.mem[y].next # 0 => /\ t.mem[y].next \in h.stacks
                                           /\ h.first[t.mem[y].next] = y
                                           /\ t.mem[y].next # y
    BY DEF Restacked
<1>6. \A p \in Leaves(s, g) : \A i \in Marked(s, p) :
        s.mem[p].vals[i] \in g.stacks /\ g.first[s.mem[p].vals[i]] = s.mem[p].vals[i]
    BY DEF Stacked
<1>7. \A p \in Leaves(t, h) :
        \/ p \in Leaves(s, g) /\ p \notin D
        \/ p \in N /\ t.mem[p].kind = "leaf"
    BY <1>1 DEF Leaves
<1>8. ASSUME NEW p \in Leaves(s, g), p \notin D
      PROVE  t.mem[p] = s.mem[p] /\ Marked(t, p) = Marked(s, p)
  <2>1. t.mem[p] = s.mem[p]
      BY <1>1, <1>8 DEF Leaves
  <2> QED
      BY <2>1, Zenon DEF Marked
<1>9. ASSUME NEW v \in g.stacks, g.first[v] = v, v \notin W
      PROVE  v \in h.stacks /\ h.first[v] = v
    BY <1>2, <1>3, <1>9
<1>10. ASSUME NEW p \in Leaves(t, h), NEW i \in Marked(t, p)
       PROVE  /\ t.mem[p].vals[i] \in h.stacks /\ h.first[t.mem[p].vals[i]] = t.mem[p].vals[i]
  <2>1. CASE p \in Leaves(s, g) /\ p \notin D
    <3>1. t.mem[p] = s.mem[p] /\ i \in Marked(s, p)
        BY <1>8, <2>1
    <3> QED
        BY <1>4, <1>6, <1>9, <2>1, <3>1
  <2>2. CASE p \in N /\ t.mem[p].kind = "leaf"
    <3>1. CASE t.mem[p].vals[i] \in Z
        BY <1>2, <1>5, <3>1
    <3>2. CASE t.mem[p].vals[i] \notin Z
      <4>1. PICK d \in D : \E j \in Marked(s, d) :
              d \in Leaves(s, g) /\ t.mem[p].vals[i] = s.mem[d].vals[j] /\ s.mem[d].vals[j] \notin W
          BY <2>2, <3>2 DEF Refers
      <4>2. PICK j \in Marked(s, d) :
              d \in Leaves(s, g) /\ t.mem[p].vals[i] = s.mem[d].vals[j] /\ s.mem[d].vals[j] \notin W
          BY <4>1
      <4> QED
          BY <1>6, <1>9, <4>2
    <3> QED
        BY <3>1, <3>2
  <2> QED
      BY <1>7, <2>1, <2>2
<1>11. ASSUME NEW p \in Leaves(t, h), NEW q \in Leaves(t, h), NEW i \in Marked(t, p), NEW j \in Marked(t, q),
              t.mem[p].vals[i] = t.mem[q].vals[j]
       PROVE  p = q /\ i = j
  <2>2. ASSUME NEW a \in Leaves(s, g), a \notin D, NEW n \in N, t.mem[n].kind = "leaf",
               NEW x \in Marked(t, a), NEW y \in Marked(t, n), t.mem[a].vals[x] = t.mem[n].vals[y]
        PROVE  FALSE
    <3>1. t.mem[a] = s.mem[a] /\ x \in Marked(s, a)
        BY <1>8, <2>2
    <3>2. CASE t.mem[n].vals[y] \in Z
      <4>1. s.mem[a].vals[x] \in g.stacks
          BY <1>6, <3>1
      <4> QED
          BY <1>5, <2>2, <3>1, <3>2, <4>1
    <3>3. CASE t.mem[n].vals[y] \notin Z
      <4>1. PICK d \in D : \E k \in Marked(s, d) :
              d \in Leaves(s, g) /\ t.mem[n].vals[y] = s.mem[d].vals[k] /\ s.mem[d].vals[k] \notin W
          BY <2>2, <3>3 DEF Refers
      <4>2. PICK k \in Marked(s, d) :
              d \in Leaves(s, g) /\ t.mem[n].vals[y] = s.mem[d].vals[k] /\ s.mem[d].vals[k] \notin W
          BY <4>1
      <4>3. a = d
          BY <2>2, <3>1, <4>2 DEF Stacked
      <4> QED
          BY <2>2, <4>3
    <3> QED
        BY <3>2, <3>3
  <2>3. CASE p \in Leaves(s, g) /\ p \notin D /\ q \in Leaves(s, g) /\ q \notin D
    <3>1. t.mem[p] = s.mem[p] /\ i \in Marked(s, p) /\ t.mem[q] = s.mem[q] /\ j \in Marked(s, q)
        BY <1>8, <2>3
    <3> QED
        BY <1>11, <2>3, <3>1 DEF Stacked
  <2>4. CASE p \in N /\ t.mem[p].kind = "leaf" /\ q \in N /\ t.mem[q].kind = "leaf"
      BY <1>11, <2>4 DEF Refers
  <2> QED
      BY <1>7, <1>11, <2>2, <2>3, <2>4
<1>12. ASSUME NEW x \in h.stacks
       PROVE  /\ t.mem[x].kind = "stack"
              /\ t.mem[x].next # 0 => /\ t.mem[x].next \in h.stacks
                                      /\ h.first[t.mem[x].next] = h.first[x]
                                      /\ t.mem[x].next # h.first[x]
  <2>1. CASE x \in Z
      BY <1>5, <2>1
  <2>2. CASE x \in g.stacks /\ x \notin O
    <3>1. t.mem[x] = s.mem[x] /\ h.first[x] = IF g.first[x] \in W THEN z ELSE g.first[x]
        BY <1>3, <2>2
    <3>2. PICK y : y = s.mem[x].next
        OBVIOUS
    <3>3. /\ s.mem[x].kind = "stack"
          /\ y # 0 => y \in g.stacks /\ g.first[y] = g.first[x] /\ y # g.first[x]
        BY <2>2, <3>2 DEF Stacked
    <3>4. y # 0 => y \notin O
        BY <1>2, <3>3
    <3>5. y # 0 => h.first[y] = IF g.first[x] \in W THEN z ELSE g.first[x]
        BY <1>3, <3>3, <3>4
    <3>6. y # 0 => y # h.first[x]
      <4>1. CASE g.first[x] \in W
        <5>1. z \notin g.stacks /\ h.first[x] = z
            BY <1>2, <1>5, <3>1, <4>1
        <5> QED
            BY <3>3, <5>1
      <4>2. CASE g.first[x] \notin W
          BY <3>1, <3>3, <4>2
      <4> QED
          BY <4>1, <4>2
    <3> QED
        BY <1>2, <3>1, <3>2, <3>3, <3>4, <3>5, <3>6
  <2> QED
      BY <1>2, <2>1, <2>2
<1> QED
    BY <1>10, <1>11, <1>12 DEF Stacked

(* What new leaves and branches hold of the page they stand for. *)

\* Leaf n has the items of pg and a new one at place i, from item at[n] + 1 on.
ItemsFrom(t, pg, i, key, val, N, at) ==
  /\ \A n \in N :
       /\ t.mem[n].kind = "leaf" /\ at[n] \in Nat
       /\ DOMAIN t.mem[n].keys = 1 .. Len(t.mem[n].keys)
       /\ \A j \in DOMAIN t.mem[n].keys :
            /\ at[n] + j \in 1 .. Len(pg.keys) + 1
            /\ t.mem[n].keys[j] = WideItem(pg.keys, i, key, at[n] + j)
            /\ t.mem[n].vals[j] = WideItem(pg.vals, i, val, at[n] + j)
  /\ \A m, n \in N : \A j \in DOMAIN t.mem[m].keys, k \in DOMAIN t.mem[n].keys :
       at[m] + j = at[n] + k => m = n /\ j = k

\* The copies of a leaf refer to the stacks the leaf referred to, each once.
LEMMA NewLeaves ==
  ASSUME NEW s, NEW g, NEW t, NEW d \in Leaves(s, g), NEW N, NEW at, NEW i, NEW key, NEW val,
         s.mem[d].keys \in Seq(Nat), i \in 1 .. Len(s.mem[d].keys) + 1, ~HasOverflow(key),
         Stacked(s, g), ItemsFrom(t, s.mem[d], i, key, val, N, at)
  PROVE  Refers(s, g, t, {d}, N, {}, {})
<1> DEFINE Old(w) == IF w < i THEN w ELSE w - 1
<1>1. PICK c : c = Len(s.mem[d].keys)
    BY Zenon
<1>2. c \in Nat /\ i \in 1 .. c + 1 /\ DOMAIN s.mem[d].keys = 1 .. c
    BY <1>1
<1>3. ASSUME NEW n \in N, NEW j \in Marked(t, n)
      PROVE  /\ j \in DOMAIN t.mem[n].keys
             /\ at[n] + j \in 1 .. c + 1 /\ at[n] + j # i
             /\ Old(at[n] + j) \in Marked(s, d)
             /\ t.mem[n].vals[j] = s.mem[d].vals[Old(at[n] + j)]
  <2>1. j \in DOMAIN t.mem[n].keys /\ HasOverflow(t.mem[n].keys[j])
      BY DEF Marked
  <2>2. PICK w : w = at[n] + j
      OBVIOUS
  <2>3. /\ w \in 1 .. c + 1
        /\ t.mem[n].keys[j] = WideItem(s.mem[d].keys, i, key, w)
        /\ t.mem[n].vals[j] = WideItem(s.mem[d].vals, i, val, w)
      BY <1>1, <2>1, <2>2 DEF ItemsFrom
  <2>4. w # i
    <3>1. w = i => WideItem(s.mem[d].keys, i, key, w) = key
        BY <1>2 DEF WideItem
    <3> QED
        BY <2>1, <2>3, <3>1
  <2>5. /\ WideItem(s.mem[d].keys, i, key, w) = s.mem[d].keys[Old(w)]
        /\ WideItem(s.mem[d].vals, i, val, w) = s.mem[d].vals[Old(w)]
      BY <2>4 DEF WideItem
  <2>6. Old(w) \in 1 .. c
      BY <1>2, <2>3, <2>4
  <2> HIDE DEF Old
  <2>7. Old(w) \in Marked(s, d)
      BY <1>2, <2>1, <2>3, <2>5, <2>6 DEF Marked
  <2> QED
      BY <2>1, <2>2, <2>3, <2>4, <2>5, <2>7
<1>4. ASSUME NEW n \in N, t.mem[n].kind = "leaf", NEW j \in Marked(t, n)
      PROVE  \E e \in {d} : \E k \in Marked(s, e) :
               e \in Leaves(s, g) /\ t.mem[n].vals[j] = s.mem[e].vals[k] /\ s.mem[e].vals[k] \notin {}
  <2> HIDE DEF Old
  <2> QED
      BY <1>3
<1>5. ASSUME NEW m \in N, NEW n \in N, NEW j \in Marked(t, m), NEW k \in Marked(t, n),
             t.mem[m].vals[j] = t.mem[n].vals[k]
      PROVE  m = n /\ j = k
  <2>1. PICK v : v = at[m] + j
      OBVIOUS
  <2>2. PICK w : w = at[n] + k
      OBVIOUS
  <2> HIDE DEF Old
  <2>3. /\ j \in DOMAIN t.mem[m].keys /\ v \in 1 .. c + 1 /\ v # i
        /\ Old(v) \in Marked(s, d) /\ t.mem[m].vals[j] = s.mem[d].vals[Old(v)]
      BY <1>3, <2>1
  <2>4. /\ k \in DOMAIN t.mem[n].keys /\ w \in 1 .. c + 1 /\ w # i
        /\ Old(w) \in Marked(s, d) /\ t.mem[n].vals[k] = s.mem[d].vals[Old(w)]
      BY <1>3, <2>2
  <2>5. Old(v) = Old(w)
    <3>1. \A a, b \in Marked(s, d) : s.mem[d].vals[a] = s.mem[d].vals[b] => a = b
        BY DEF Stacked
    <3>2. s.mem[d].vals[Old(v)] = s.mem[d].vals[Old(w)]
        BY <1>5, <2>3, <2>4, Zenon
    <3> QED
        BY <2>3, <2>4, <3>1, <3>2
  <2>6. v = w
    <3>1. v \in Int /\ w \in Int /\ i \in Int /\ v # i /\ w # i
        BY <1>2, <2>3, <2>4
    <3> QED
        BY <2>5, <3>1 DEF Old
  <2> QED
      BY <2>1, <2>2, <2>3, <2>4, <2>6 DEF ItemsFrom
<1> QED
    BY <1>4, <1>5 DEF Refers

\* Branch n has the children of pg with child i replaced, from child at[n] + 1 on.
KidsFrom(t, pg, i, u, N, at) ==
  /\ \A n \in N :
       /\ t.mem[n].kind = "branch" /\ at[n] \in Nat
       /\ \A j \in DOMAIN t.mem[n].kids :
            /\ at[n] + j \in 1 .. Len(pg.kids) + Extra(u)
            /\ t.mem[n].kids[j] = WideKid(pg.kids, i, u, at[n] + j)
  /\ \A m, n \in N : \A j \in DOMAIN t.mem[m].kids, k \in DOMAIN t.mem[n].kids :
       at[m] + j = at[n] + k => m = n /\ j = k

\* The copies of a branch have its children and the new ones, each once.
LEMMA NewBranches ==
  ASSUME NEW s, NEW g, NEW t, NEW d \in Inner(s, g), NEW N, NEW at, NEW i, NEW u, NEW R,
         NEW T, s.mem[d].kids \in Seq(T), i \in 1 .. Len(s.mem[d].kids), g.hole[d] = i,
         R = {u.orig, u.split} \ {0}, u.orig # 0, u.orig # u.split,
         OneParent(s, g), Loose(s, g, R), KidsFrom(t, s.mem[d], i, u, N, at)
  PROVE  Adopted(s, g, t, {d}, N, R)
<1> DEFINE Old(w) == IF w < i THEN w ELSE IF u.split = 0 THEN w ELSE w - 1
           Moved(w) == w = i \/ (u.split # 0 /\ w = i + 1)
           kid(w) == WideKid(s.mem[d].kids, i, u, w)
<1>1. PICK c : c = Len(s.mem[d].kids)
    BY Zenon
<1>2. c \in Nat /\ i \in 1 .. c /\ i \in Int /\ DOMAIN s.mem[d].kids = 1 .. c
    BY <1>1
<1>3. PICK e : e = Extra(u)
    OBVIOUS
<1>4. e = IF u.split = 0 THEN 0 ELSE 1
    BY <1>3 DEF Extra
<1>5. ASSUME NEW w \in 1 .. c + e, Moved(w)
      PROVE  /\ kid(w) \in R
             /\ w = i => kid(w) = u.orig
             /\ w # i => kid(w) = u.split
  <2>1. w = i => kid(w) = u.orig
      BY <1>2 DEF WideKid
  <2>2. w # i => u.split # 0 /\ kid(w) = u.split
      BY <1>2, <1>5 DEF WideKid
  <2> HIDE DEF kid
  <2> QED
      BY <2>1, <2>2
<1>6. ASSUME NEW w \in 1 .. c + e, ~Moved(w)
      PROVE  Old(w) \in Live(s, g, d) /\ kid(w) = s.mem[d].kids[Old(w)] /\ kid(w) \notin R
  <2>1. w \in Int /\ w # i /\ (u.split # 0 => w # i + 1)
      BY <1>2, <1>4, <1>6
  <2>2. Old(w) \in 1 .. c /\ Old(w) # i
    <3>1. CASE u.split = 0
        BY <1>2, <1>4, <2>1, <3>1
    <3>2. CASE u.split # 0
      <4>1. e = 1
          BY <1>4, <3>2
      <4> QED
          BY <1>2, <2>1, <3>2, <4>1
    <3> QED
        BY <3>1, <3>2
  <2>3. kid(w) = s.mem[d].kids[Old(w)]
      BY <2>1 DEF WideKid
  <2> HIDE DEF Old, kid
  <2>4. Old(w) \in Live(s, g, d)
      BY <1>2, <2>2 DEF Live
  <2> QED
      BY <2>3, <2>4 DEF Loose
<1>7. ASSUME NEW v \in 1 .. c + e, NEW w \in 1 .. c + e, kid(v) = kid(w)
      PROVE  v = w
  <2>1. CASE Moved(v) /\ Moved(w)
    <3>1. v \in Int /\ w \in Int /\ (v = i \/ v = i + 1) /\ (w = i \/ w = i + 1)
        BY <1>2, <1>4, <2>1
    <3> HIDE DEF kid
    <3>2. v = i <=> w = i
        BY <1>5, <1>7, <2>1
    <3> QED
        BY <1>2, <3>1, <3>2
  <2>2. CASE ~Moved(v) /\ ~Moved(w)
    <3>1. /\ v \in Int /\ w \in Int /\ v # i /\ w # i
          /\ u.split # 0 => v # i + 1 /\ w # i + 1
        BY <1>2, <1>4, <2>2
    <3> HIDE DEF kid, Moved
    <3>2. Old(v) = Old(w)
      <4> HIDE DEF Old
      <4> QED
          BY <1>6, <1>7, <2>2 DEF OneParent
    <3>3. CASE u.split = 0
        BY <3>2, <3>3
    <3>4. CASE u.split # 0
      <4>1. (v < i \/ v > i + 1) /\ (w < i \/ w > i + 1)
          BY <1>2, <3>1, <3>4
      <4> QED
          BY <1>2, <3>1, <3>2, <3>4, <4>1
    <3> QED
        BY <3>3, <3>4
  <2>3. CASE Moved(v) /\ ~Moved(w)
    <3> HIDE DEF kid, Moved
    <3> QED
        BY <1>5, <1>6, <1>7, <2>3
  <2>4. CASE ~Moved(v) /\ Moved(w)
    <3> HIDE DEF kid, Moved
    <3> QED
        BY <1>5, <1>6, <1>7, <2>4
  <2> QED
      BY <2>1, <2>2, <2>3, <2>4
<1> HIDE DEF kid, Moved, Old
<1>8. ASSUME NEW n \in N, NEW j \in DOMAIN t.mem[n].kids
      PROVE  at[n] + j \in 1 .. c + e /\ t.mem[n].kids[j] = kid(at[n] + j)
    BY <1>1, <1>3 DEF KidsFrom, kid
<1>9. ASSUME NEW n \in N, NEW j \in DOMAIN t.mem[n].kids
      PROVE  \/ t.mem[n].kids[j] \in R
             \/ \E d1 \in {d} : \E k \in Live(s, g, d1) :
                  d1 \in Inner(s, g) /\ t.mem[n].kids[j] = s.mem[d1].kids[k]
    BY <1>5, <1>6, <1>8
<1>10. ASSUME NEW m \in N, NEW n \in N, NEW j \in DOMAIN t.mem[m].kids, NEW k \in DOMAIN t.mem[n].kids,
              t.mem[m].kids[j] = t.mem[n].kids[k]
       PROVE  m = n /\ j = k
  <2>1. at[m] + j = at[n] + k
      BY <1>7, <1>8, <1>10
  <2> QED
      BY <2>1 DEF KidsFrom
<1> QED
    BY <1>9, <1>10 DEF Adopted

(* A page about to be replaced. *)

\* In a call that waits as w says, page d at level l is to be replaced, and the
\* pages of R go below what replaces it.
Half(s, g, d, w, R, l) ==
  /\ Tree(s, g) /\ Loose(s, g, R)
  /\ d \in g.pages /\ g.level[d] = l
  /\ \A p \in Inner(s, g) : \A i \in Live(s, g, p) : s.mem[p].kids[i] # d
  /\ \A r \in R : r # d /\ l = g.level[r] + 1
  /\ Flagged(s, g, IF w = <<>> THEN d ELSE w[Len(w)].page)
  /\ UpTo(g, l + Len(w))
  /\ w \in Seq([page : g.pages, child : Nat])
  /\ \A k \in DOMAIN w : /\ g.level[w[k].page] = l + k
                         /\ w[k].child \in DOMAIN s.mem[w[k].page].kids
                         /\ g.hole[w[k].page] = w[k].child
  /\ \A p \in g.pages : g.hole[p] # 0 => p = d \/ \E k \in DOMAIN w : w[k].page = p

\* The adds so far have room for one key more in the page with the root flag.
Roomy(s, g, d, w) ==
  LET r == IF w = <<>> THEN d ELSE w[Len(w)].page
  IN  Grown(g.level[r], Len(s.mem[r].keys)) + 1 <= adds

\* What Waits says of the calls that wait, in terms of their places.
LEMMA WaitsIs ==
  ASSUME NEW s, NEW g, NEW w, NEW p, NEW r, Waits(s, g, w, p, r)
  PROVE  /\ w \in Seq([page : g.pages, child : Nat])
         /\ Len(w) \in Nat /\ DOMAIN w = 1 .. Len(w) /\ (w = <<>> <=> Len(w) = 0)
         /\ \A k \in 1 .. Len(w) : /\ w[k].page \in g.pages /\ w[k].child \in Nat
                                   /\ g.level[w[k].page] = g.level[p] + k
                                   /\ w[k].child \in DOMAIN s.mem[w[k].page].kids
         /\ (w = <<>> => p = r) /\ (w # <<>> => w[Len(w)].page = r)
<1>1. w \in Seq([page : g.pages, child : Nat])
    BY DEF Waits
<1>2. Len(w) \in Nat /\ DOMAIN w = 1 .. Len(w) /\ (w = <<>> <=> Len(w) = 0)
    BY <1>1
<1>3. \A k \in 1 .. Len(w) : w[k].page \in g.pages /\ w[k].child \in Nat
  <2>1. PICK T : T = [page : g.pages, child : Nat]
      BY Zenon
  <2>2. w \in Seq(T)
      BY <1>1, <2>1
  <2>3. \A k \in 1 .. Len(w) : w[k] \in T
      BY <2>2
  <2> QED
      BY <2>1, <2>3
<1>4. \A k \in DOMAIN w : /\ g.level[w[k].page] = g.level[p] + k
                           /\ w[k].child \in DOMAIN s.mem[w[k].page].kids
    BY DEF Waits
<1>5. (w = <<>> => p = r) /\ (w # <<>> => w[Len(w)].page = r)
    BY DEF Waits
<1> QED
    BY <1>1, <1>2, <1>3, <1>4, <1>5

\* On the way down no child is being replaced; seen from the way back up, those
\* on the path are.
LEMMA Opening ==
  ASSUME NEW g, Descending(g)
  PROVE  \E h : /\ h.pages = g.pages /\ h.stacks = g.stacks /\ h.level = g.level /\ h.first = g.first
                /\ Half(st, h, cur, path, {}, g.level[cur])
                /\ Roomy(st, h, cur, path)
<1> DEFINE n == Len(path)
           On(p) == {k \in DOMAIN path : path[k].page = p}
           hole == [p \in g.pages |-> IF On(p) = {} THEN 0 ELSE path[CHOOSE k \in On(p) : TRUE].child]
           h == [pages |-> g.pages, stacks |-> g.stacks, hole |-> hole, level |-> g.level, first |-> g.first]
<1>1. /\ Whole(st, g, root) /\ cur \in g.pages /\ Waits(st, g, path, cur, root)
      /\ \A k \in DOMAIN path :
           st.mem[path[k].page].kids[path[k].child] = IF k = 1 THEN cur ELSE path[k - 1].page
      /\ Grown(g.level[root], Len(st.mem[root].keys)) + 1 <= adds
    BY DEF Descending
<1>2. /\ Tree(st, g) /\ Loose(st, g, {root}) /\ Flagged(st, g, root) /\ UpTo(g, g.level[root])
      /\ \A p \in g.pages : g.hole[p] = 0
    BY <1>1 DEF Whole
<1>3. /\ path \in Seq([page : g.pages, child : Nat])
      /\ n \in Nat /\ DOMAIN path = 1 .. n /\ (path = <<>> <=> n = 0)
      /\ \A k \in 1 .. n : /\ path[k].page \in g.pages /\ path[k].child \in Nat
                           /\ g.level[path[k].page] = g.level[cur] + k
                           /\ path[k].child \in DOMAIN st.mem[path[k].page].kids
      /\ (path = <<>> => cur = root) /\ (path # <<>> => path[n].page = root)
  <2>1. Waits(st, g, path, cur, root)
      BY <1>1
  <2> QED
      BY <2>1, WaitsIs, Zenon
<1>4. /\ Levelled(st, g) /\ OneParent(st, g) /\ Stacked(st, g) /\ Filled(st, g)
      /\ Owned(st, g.pages \cup g.stacks) /\ g.pages \cap g.stacks = {}
    BY <1>2 DEF Tree
<1>5. /\ h.pages = g.pages /\ h.stacks = g.stacks /\ h.level = g.level /\ h.first = g.first
      /\ h.hole = hole
    OBVIOUS
<1>6. \A p \in g.pages : g.level[p] \in Nat
    BY <1>4 DEF Levelled
<1>7. \A j, k \in 1 .. n : path[j].page = path[k].page => j = k
  <2>1. ASSUME NEW j \in 1 .. n, NEW k \in 1 .. n, path[j].page = path[k].page
        PROVE  j = k
    <3>1. g.level[cur] \in Nat /\ j \in Nat /\ k \in Nat
        BY <1>1, <1>3, <1>6
    <3>2. g.level[cur] + j = g.level[cur] + k
        BY <1>3, <2>1, Zenon
    <3> QED
        BY <3>1, <3>2
  <2> QED
      BY <2>1
<1>8. \A k \in 1 .. n : hole[path[k].page] = path[k].child
  <2> SUFFICES ASSUME NEW k \in 1 .. n PROVE hole[path[k].page] = path[k].child
      BY Zenon
  <2>1. On(path[k].page) = {k}
      BY <1>3, <1>7
  <2>2. (CHOOSE j \in {k} : TRUE) = k
      OBVIOUS
  <2>3. path[k].page \in g.pages
      BY <1>3
  <2> HIDE DEF On
  <2> QED
      BY <2>1, <2>2, <2>3, Zenon
<1>9. \A p \in g.pages : hole[p] \in Nat /\ (hole[p] # 0 => \E k \in 1 .. n : path[k].page = p)
  <2> SUFFICES ASSUME NEW p \in g.pages
               PROVE  hole[p] \in Nat /\ (hole[p] # 0 => \E k \in 1 .. n : path[k].page = p)
      BY Zenon
  <2>1. CASE \E k \in 1 .. n : path[k].page = p
    <3>1. PICK k \in 1 .. n : path[k].page = p
        BY <2>1
    <3>2. hole[p] = path[k].child /\ path[k].child \in Nat
        BY <1>3, <1>8, <3>1, Zenon
    <3> QED
        BY <2>1, <3>2
  <2>2. CASE ~ \E k \in 1 .. n : path[k].page = p
    <3>1. On(p) = {}
        BY <1>3, <2>2
    <3> HIDE DEF On
    <3>2. hole[p] = 0
        BY <3>1
    <3> QED
        BY <3>2
  <2> QED
      BY <2>1, <2>2
<1>10. Inner(st, h) = Inner(st, g) /\ Leaves(st, h) = Leaves(st, g)
    BY <1>5 DEF Inner, Leaves
<1> HIDE DEF hole, On, h
<1>11. \A p \in Inner(st, g) : \A i \in Live(st, h, p) : i \in Live(st, g, p) /\ i # hole[p]
  <2>1. ASSUME NEW p \in Inner(st, g), NEW i \in Live(st, h, p)
        PROVE  i \in Live(st, g, p) /\ i # hole[p]
    <3>1. p \in g.pages /\ st.mem[p].kind = "branch"
        BY DEF Inner
    <3>2. PageFits(st.mem[p], st.end) /\ StoreFits(st)
        BY <1>4, <3>1 DEF Owned, StoreFits
    <3>3. st.mem[p].kids \in Seq(1 .. st.end - 1)
        BY <3>1, <3>2 DEF PageFits
    <3>4. i \in DOMAIN st.mem[p].kids /\ i # hole[p]
        BY <1>5 DEF Live
    <3>5. i # 0
        BY <3>3, <3>4
    <3> QED
        BY <1>2, <3>1, <3>4, <3>5 DEF Live
  <2> QED
      BY <2>1
<1>12. ASSUME NEW p \in Inner(st, g), NEW i \in Live(st, h, p)
       PROVE  /\ st.mem[p].kids[i] # root
              /\ \A k \in 1 .. n : st.mem[p].kids[i] # IF k = 1 THEN cur ELSE path[k - 1].page
  <2>1. i \in Live(st, g, p) /\ i # hole[p]
      BY <1>11
  <2>2. st.mem[p].kids[i] # root
      BY <1>2, <2>1 DEF Loose
  <2>3. ASSUME NEW k \in 1 .. n, st.mem[p].kids[i] = IF k = 1 THEN cur ELSE path[k - 1].page
        PROVE  FALSE
    <3>1. PICK q : q = path[k].page
        OBVIOUS
    <3>2. PICK j : j = path[k].child
        OBVIOUS
    <3>3. q \in g.pages /\ j \in DOMAIN st.mem[q].kids /\ hole[q] = j
        BY <1>3, <1>8, <3>1, <3>2
    <3>4. st.mem[q].kids[j] = st.mem[p].kids[i]
        BY <1>1, <1>3, <2>3, <3>1, <3>2, Zenon
    <3>5. q \in Inner(st, g)
      <4>1. g.level[q] = g.level[cur] + k /\ g.level[cur] \in Nat /\ k \in Nat /\ k >= 1
          BY <1>1, <1>3, <1>6, <3>1
      <4>2. g.level[q] # 0
          BY <4>1
      <4> QED
          BY <1>4, <3>3, <4>2 DEF Levelled, Inner
    <3>6. j \in Live(st, g, q)
      <4>1. PageFits(st.mem[q], st.end)
          BY <1>4, <3>3 DEF Owned, StoreFits
      <4>2. st.mem[q].kids \in Seq(1 .. st.end - 1)
          BY <3>5, <4>1 DEF PageFits, Inner
      <4>3. j # 0
          BY <3>3, <4>2
      <4> QED
          BY <1>2, <3>3, <4>3 DEF Live
    <3>7. p = q /\ i = j
        BY <1>4, <2>1, <3>4, <3>5, <3>6 DEF OneParent
    <3> QED
        BY <2>1, <3>3, <3>7
  <2> QED
      BY <2>2, <2>3
<1>13. ASSUME NEW p \in Inner(st, g), NEW i \in Live(st, h, p)
       PROVE  st.mem[p].kids[i] # cur /\ \A k \in 1 .. n : st.mem[p].kids[i] # path[k].page
  <2>1. st.mem[p].kids[i] # cur
    <3>1. CASE n = 0
        BY <1>3, <1>12, <3>1
    <3>2. CASE n # 0
      <4>1. 1 \in 1 .. n
          BY <1>3, <3>2
      <4> QED
          BY <1>12, <4>1
    <3> QED
        BY <3>1, <3>2
  <2>2. ASSUME NEW k \in 1 .. n PROVE st.mem[p].kids[i] # path[k].page
    <3>1. CASE k = n
      <4>1. path # <<>>
          BY <1>3, <3>1
      <4> QED
          BY <1>3, <1>12, <3>1, <4>1
    <3>2. CASE k # n
      <4>1. n \in Nat /\ k \in Int /\ k >= 1 /\ k <= n
          BY <1>3
      <4>2. k + 1 \in 1 .. n /\ k + 1 # 1 /\ k + 1 - 1 = k
          BY <3>2, <4>1
      <4> QED
          BY <1>12, <4>2
    <3> QED
        BY <3>1, <3>2
  <2> QED
      BY <2>1, <2>2
<1>14. hole[cur] = 0
  <2>1. ASSUME NEW k \in 1 .. n, path[k].page = cur PROVE FALSE
    <3>1. g.level[cur] = g.level[cur] + k /\ g.level[cur] \in Nat /\ k \in Nat /\ k >= 1
        BY <1>1, <1>3, <1>6, <2>1
    <3> QED
        BY <3>1
  <2> QED
      BY <1>1, <1>9, <2>1
<1>15. Levelled(st, h)
  <2>1. \A p \in h.pages : /\ h.level[p] \in Nat /\ h.hole[p] \in Nat
                           /\ st.mem[p].kind = IF h.level[p] = 0 THEN "leaf" ELSE "branch"
      BY <1>4, <1>5, <1>9 DEF Levelled
  <2>2. ASSUME NEW p \in Inner(st, g), NEW i \in Live(st, h, p)
        PROVE  /\ st.mem[p].kids[i] \in g.pages
               /\ hole[st.mem[p].kids[i]] = 0
               /\ g.level[p] = g.level[st.mem[p].kids[i]] + 1
    <3>1. st.mem[p].kids[i] \in g.pages /\ g.level[p] = g.level[st.mem[p].kids[i]] + 1
        BY <1>4, <1>11 DEF Levelled
    <3>2. hole[st.mem[p].kids[i]] = 0
        BY <1>9, <1>13, <3>1
    <3> QED
        BY <3>1, <3>2
  <2> QED
      BY <1>5, <1>10, <2>1, <2>2 DEF Levelled
<1>16. OneParent(st, h)
    BY <1>4, <1>10, <1>11 DEF OneParent
<1>17. Stacked(st, h) /\ Filled(st, h)
    BY <1>4, <1>5, <1>10 DEF Stacked, Filled
<1>18. Tree(st, h)
    BY <1>4, <1>5, <1>15, <1>16, <1>17 DEF Tree
<1>19. Flagged(st, h, IF path = <<>> THEN cur ELSE path[Len(path)].page)
    BY <1>2, <1>3, <1>5 DEF Flagged
<1>20. UpTo(h, g.level[cur] + Len(path))
  <2>1. g.level[root] = g.level[cur] + n
    <3>1. CASE n = 0
        BY <1>1, <1>3, <1>6, <3>1
    <3>2. CASE n # 0
      <4>1. n \in 1 .. n
          BY <1>3, <3>2
      <4> QED
          BY <1>3, <3>2, <4>1
    <3> QED
        BY <3>1, <3>2
  <2> QED
      BY <1>2, <1>5, <2>1 DEF UpTo
<1>21. Loose(st, h, {})
    BY DEF Loose
<1>22. Half(st, h, cur, path, {}, g.level[cur])
  <2>1. path \in Seq([page : h.pages, child : Nat])
      BY <1>3, <1>5
  <2>2. \A k \in DOMAIN path : /\ h.level[path[k].page] = g.level[cur] + k
                               /\ path[k].child \in DOMAIN st.mem[path[k].page].kids
                               /\ h.hole[path[k].page] = path[k].child
      BY <1>3, <1>5, <1>8
  <2>3. \A p \in h.pages : h.hole[p] # 0 => p = cur \/ \E k \in DOMAIN path : path[k].page = p
      BY <1>3, <1>5, <1>9, Zenon
  <2>4. \A p \in Inner(st, h) : \A i \in Live(st, h, p) : st.mem[p].kids[i] # cur
      BY <1>10, <1>13
  <2>5. cur \in h.pages /\ h.level[cur] = g.level[cur]
      BY <1>1, <1>5
  <2> QED
      BY <1>18, <1>19, <1>20, <1>21, <2>1, <2>2, <2>3, <2>4, <2>5 DEF Half
<1>23. Roomy(st, h, cur, path)
    BY <1>1, <1>3, <1>5 DEF Roomy
<1> QED
    BY <1>5, <1>22, <1>23

\* The pages of D can be replaced by pages at level l with those of R below them.
Removable(s, g, D, R, l) ==
  /\ D \subseteq g.pages /\ l \in Nat
  /\ \A p \in Inner(s, g) : \A i \in Live(s, g, p) : s.mem[p].kids[i] \notin D
  /\ \A r \in R : r \in g.pages /\ r \notin D /\ g.hole[r] = 0 /\ l = g.level[r] + 1
  /\ \A d \in D : g.level[d] = l

\* Store t holds the new pages N, the pages kept and the overflow pages of x.
Placed(s, g, t, x, D, N, l) ==
  /\ N \cap g.pages = {}
  /\ Owned(t, ((g.pages \ D) \cup N) \cup x.stacks)
  /\ ((g.pages \ D) \cup N) \cap x.stacks = {}
  /\ \A q \in g.pages \ D : t.mem[q] = s.mem[q]
  /\ \A n \in N : /\ t.mem[n].kind = IF l = 0 THEN "leaf" ELSE "branch"
                  /\ t.mem[n].kind = "leaf" => t.mem[n].root \/ t.mem[n].keys # <<>>

\* What btree.c writes in place of pages leaves a tree, of which the new pages
\* are nobody's children yet.
LEMMA Rebuilding ==
  ASSUME NEW s, NEW g, NEW t, NEW x, NEW D, NEW N, NEW R, NEW l, NEW O, NEW W, NEW Z, NEW z,
         Tree(s, g), Loose(s, g, R), Removable(s, g, D, R, l), Placed(s, g, t, x, D, N, l),
         Adopted(s, g, t, D, N, R), Refers(s, g, t, D, N, W, Z), Restacked(s, g, t, x, D, O, W, Z, z)
  PROVE  \E h : /\ Tree(t, h) /\ Loose(t, h, N)
                /\ Rewritten(s, g, t, h, D, N, R, l) /\ h.stacks = x.stacks
<1> DEFINE pages == (g.pages \ D) \cup N
           hole == [p \in pages |-> IF p \in N THEN 0 ELSE g.hole[p]]
           level == [p \in pages |-> IF p \in N THEN l ELSE g.level[p]]
           h == [pages |-> pages, stacks |-> x.stacks, hole |-> hole, level |-> level, first |-> x.first]
<1>1. h.pages = pages /\ h.stacks = x.stacks /\ h.hole = hole /\ h.level = level /\ h.first = x.first
    OBVIOUS
<1>2. /\ \A n \in N : n \in pages /\ hole[n] = 0 /\ level[n] = l
      /\ \A p \in pages : p \notin N => hole[p] = g.hole[p] /\ level[p] = g.level[p]
    OBVIOUS
<1> HIDE DEF h, hole, level
<1>3. Rewritten(s, g, t, h, D, N, R, l)
  <2>1. D \subseteq g.pages /\ N \cap g.pages = {} /\ h.pages = (g.pages \ D) \cup N /\ l \in Nat
      BY <1>1 DEF Removable, Placed
  <2>2. \A p \in g.pages \ D : t.mem[p] = s.mem[p] /\ h.hole[p] = g.hole[p] /\ h.level[p] = g.level[p]
      BY <1>1, <1>2 DEF Placed
  <2>3. \A n \in N : /\ h.hole[n] = 0 /\ h.level[n] = l
                     /\ t.mem[n].kind = IF l = 0 THEN "leaf" ELSE "branch"
      BY <1>1, <1>2 DEF Placed
  <2>4. /\ \A p \in Inner(s, g) : \A i \in Live(s, g, p) : s.mem[p].kids[i] \notin D
        /\ \A r \in R : r \in g.pages /\ r \notin D /\ g.hole[r] = 0 /\ l = g.level[r] + 1
        /\ \A d \in D : g.level[d] = l
      BY DEF Removable
  <2> QED
      BY <2>1, <2>2, <2>3, <2>4 DEF Rewritten
<1>4. Levelled(s, g) /\ OneParent(s, g) /\ Stacked(s, g) /\ Filled(s, g)
    BY DEF Tree
<1>5. Levelled(t, h) /\ OneParent(t, h) /\ Loose(t, h, N)
    BY <1>3, <1>4, Rewriting
<1>6. Restacked(s, g, t, h, D, O, W, Z, z)
    BY <1>1 DEF Restacked
<1>7. Stacked(t, h)
    BY <1>3, <1>4, <1>6, Restacking
<1>8. Filled(t, h)
  <2>1. ASSUME NEW p \in Leaves(t, h) PROVE t.mem[p].root \/ t.mem[p].keys # <<>>
    <3>1. p \in pages /\ t.mem[p].kind = "leaf"
        BY <1>1 DEF Leaves
    <3>2. CASE p \in N
        BY <3>1, <3>2 DEF Placed
    <3>3. CASE p \notin N
      <4>1. p \in g.pages \ D
          BY <3>1, <3>3
      <4>2. t.mem[p] = s.mem[p]
          BY <4>1 DEF Placed
      <4> QED
          BY <1>4, <3>1, <4>1, <4>2 DEF Filled, Leaves
    <3> QED
        BY <3>2, <3>3
  <2> QED
      BY <2>1 DEF Filled
<1>9. Owned(t, h.pages \cup h.stacks) /\ h.pages \cap h.stacks = {}
    BY <1>1 DEF Placed
<1>10. Tree(t, h)
    BY <1>5, <1>7, <1>8, <1>9 DEF Tree
<1> QED
    BY <1>1, <1>3, <1>5, <1>10

\* The overflow pages stay as they are.
LEMMA SameStacks ==
  ASSUME NEW s, NEW g, NEW t, NEW D, \A x \in g.stacks : t.mem[x] = s.mem[x]
  PROVE  Restacked(s, g, t, g, D, {}, {}, {}, 0)
  BY DEF Restacked

\* A step of btree_recur_add hands a caller, one of w, the pages a and b.
Hands(t, w, a, b, mid) ==
  /\ st' = t /\ path' = w /\ cur' = 0
  /\ root' = root /\ call' = call /\ adds' = adds
  /\ up' = [orig |-> a, split |-> b, mid |-> mid]

\* Page a replaces d, or pages a and b do: the root flag goes with one page, and
\* the level needs as many adds as there were.
Flags(s, t, w, d, l, a, b) ==
  /\ b = 0 => t.mem[a].root = s.mem[d].root
  /\ b # 0 => ~t.mem[a].root /\ ~t.mem[b].root
  /\ w = <<>> /\ b = 0 => Grown(l, Len(t.mem[a].keys)) <= adds
  /\ w = <<>> /\ b # 0 => Grown(l + 1, 1) <= adds

\* What replaces page d is on its way up to the call that waits.
LEMMA Returning ==
  ASSUME NEW g, NEW d, NEW w, NEW R, NEW l, Half(st, g, d, w, R, l), Roomy(st, g, d, w),
         NEW h, NEW t, NEW N, Rewritten(st, g, t, h, {d}, N, R, l), Tree(t, h), Loose(t, h, N),
         NEW a \in Nat \ {0}, NEW b \in Nat, NEW mid \in Nat, a # b, N = {a, b} \ {0},
         Flags(st, t, w, d, l, a, b), Hands(t, w, a, b, mid), root # 0, call \in Inputs
  PROVE  Ascending(h)'
<1> USE DEF Flags, Hands
<1> DEFINE top == IF w # <<>> THEN w[Len(w)].page ELSE IF b = 0 THEN a ELSE 0
<1>1. up'.orig = a /\ up'.split = b /\ Ends' = N /\ Top' = top
    BY DEF Ends, Top
<1>2. /\ \A n \in N : n \notin g.pages /\ h.level[n] = l /\ h.hole[n] = 0
      /\ \A p : p \in h.pages <=> (p \in g.pages /\ p # d) \/ p \in N
      /\ \A p \in g.pages : p # d =>
           t.mem[p] = st.mem[p] /\ h.hole[p] = g.hole[p] /\ h.level[p] = g.level[p]
      /\ l \in Nat
    BY DEF Rewritten
<1>3. /\ d \in g.pages /\ g.level[d] = l
      /\ Flagged(st, g, IF w = <<>> THEN d ELSE w[Len(w)].page)
      /\ UpTo(g, l + Len(w)) /\ Tree(st, g)
    BY DEF Half
<1>4. /\ w \in Seq([page : g.pages, child : Nat])
      /\ Len(w) \in Nat /\ DOMAIN w = 1 .. Len(w) /\ (w = <<>> <=> Len(w) = 0)
  <2>1. w \in Seq([page : g.pages, child : Nat])
      BY DEF Half
  <2> QED
      BY <2>1
<1>5. \A k \in 1 .. Len(w) : /\ w[k].page \in g.pages /\ w[k].child \in Nat
                             /\ g.level[w[k].page] = l + k
                             /\ w[k].child \in DOMAIN st.mem[w[k].page].kids
                             /\ g.hole[w[k].page] = w[k].child
                             /\ w[k].page # d
  <2>1. PICK T : T = [page : g.pages, child : Nat]
      BY Zenon
  <2>2. w \in Seq(T)
      BY <1>4, <2>1
  <2>3. \A k \in 1 .. Len(w) : w[k] \in T
      BY <2>2
  <2>4. \A k \in 1 .. Len(w) : w[k].page \in g.pages /\ w[k].child \in Nat
      BY <2>1, <2>3
  <2>5. \A k \in 1 .. Len(w) : /\ g.level[w[k].page] = l + k
                               /\ w[k].child \in DOMAIN st.mem[w[k].page].kids
                               /\ g.hole[w[k].page] = w[k].child
      BY <1>4, Zenon DEF Half
  <2>6. \A k \in 1 .. Len(w) : w[k].page # d
    <3>1. ASSUME NEW k \in 1 .. Len(w), w[k].page = d PROVE FALSE
      <4>1. l = l + k /\ k \in Nat /\ k >= 1
          BY <1>3, <1>4, <2>5, <3>1
      <4> QED
          BY <1>2, <4>1
    <3> QED
        BY <3>1
  <2> QED
      BY <2>4, <2>5, <2>6
<1>6. a \in h.pages /\ (b # 0 => b \in h.pages) /\ h.level[a] = l /\ (b # 0 => h.level[b] = l)
    BY <1>2
<1>7. Flagged(t, h, top)
  <2>1. ASSUME NEW p \in h.pages PROVE t.mem[p].root <=> p = top
    <3>1. 0 \notin g.pages
        BY <1>3 DEF Tree, Owned
    <3>2. CASE w # <<>>
      <4>1. Len(w) \in 1 .. Len(w)
          BY <1>4, <3>2
      <4>2. top = w[Len(w)].page /\ top \in g.pages /\ top # d
          BY <1>5, <3>2, <4>1
      <4>3. \A q \in g.pages : st.mem[q].root <=> q = top
          BY <1>3, <3>2, <4>2 DEF Flagged
      <4> HIDE DEF top
      <4>4. CASE p \in N
        <5>1. ~t.mem[p].root
            BY <1>3, <4>2, <4>3, <4>4
        <5> QED
            BY <1>2, <4>2, <4>4, <5>1
      <4>5. CASE p \notin N
          BY <1>2, <4>3, <4>5
      <4> QED
          BY <4>4, <4>5
    <3>3. CASE w = <<>>
      <4>1. \A q \in g.pages : st.mem[q].root <=> q = d
          BY <1>3, <3>3 DEF Flagged
      <4>2. CASE p \in N
          BY <1>3, <3>3, <4>1, <4>2
      <4>3. CASE p \notin N
          BY <1>2, <3>1, <3>3, <4>1, <4>3
      <4> QED
          BY <4>2, <4>3
    <3> QED
        BY <3>2, <3>3
  <2> QED
      BY <2>1 DEF Flagged
<1>8. UpTo(h, h.level[a] + Len(w))
  <2>1. ASSUME NEW p \in h.pages PROVE h.level[p] <= l + Len(w)
    <3>1. CASE p \in N
        BY <1>2, <1>4, <3>1
    <3>2. CASE p \notin N
        BY <1>2, <1>3, <3>2, Zenon DEF UpTo
    <3> QED
        BY <3>1, <3>2
  <2> QED
      BY <1>6, <2>1 DEF UpTo
<1>9. w # <<>> => Waits(t, h, w, a, top)
  <2> SUFFICES ASSUME w # <<>> PROVE Waits(t, h, w, a, top)
      OBVIOUS
  <2>1. w \in Seq([page : h.pages, child : Nat])
    <3>1. \A k \in 1 .. Len(w) : w[k].page \in h.pages
        BY <1>2, <1>5, Zenon
    <3>2. PICK T : T = [page : g.pages, child : Nat]
        BY Zenon
    <3>3. w \in Seq(T)
        BY <1>4, <3>2
    <3>4. \A k \in 1 .. Len(w) : w[k] \in T
        BY <3>3
    <3>5. PICK V : V = [page : h.pages, child : Nat]
        BY Zenon
    <3>6. \A k \in 1 .. Len(w) : w[k] \in V
        BY <3>1, <3>2, <3>4, <3>5
    <3>7. w \in Seq(V)
        BY <3>3, <3>6
    <3> QED
        BY <3>5, <3>7
  <2>2. \A k \in DOMAIN w : /\ h.level[w[k].page] = h.level[a] + k
                            /\ w[k].child \in DOMAIN t.mem[w[k].page].kids
      BY <1>2, <1>4, <1>5, <1>6, Zenon
  <2> QED
      BY <2>1, <2>2 DEF Waits
<1>10. \A k \in DOMAIN w : h.hole[w[k].page] = w[k].child
    BY <1>2, <1>4, <1>5, Zenon
<1>11. \A p \in h.pages : h.hole[p] # 0 => \E k \in DOMAIN w : w[k].page = p
  <2>1. \A p \in g.pages : g.hole[p] # 0 => p = d \/ \E k \in DOMAIN w : w[k].page = p
      BY DEF Half
  <2> QED
      BY <1>2, <2>1
<1>12. /\ w # <<>> => Grown(h.level[top], Len(t.mem[top].keys)) + 1 <= adds
       /\ w = <<>> /\ b = 0 => Grown(h.level[top], Len(t.mem[top].keys)) <= adds
       /\ w = <<>> /\ b # 0 => Grown(h.level[a] + 1, 1) <= adds
  <2>1. ASSUME w # <<>> PROVE Grown(h.level[top], Len(t.mem[top].keys)) + 1 <= adds
    <3>1. Len(w) \in 1 .. Len(w)
        BY <1>4, <2>1
    <3>2. top = w[Len(w)].page /\ t.mem[top] = st.mem[top] /\ h.level[top] = g.level[top]
        BY <1>2, <1>5, <2>1, <3>1, Zenon
    <3>3. Grown(g.level[w[Len(w)].page], Len(st.mem[w[Len(w)].page].keys)) + 1 <= adds
        BY <2>1 DEF Roomy
    <3> HIDE DEF top
    <3> QED
        BY <3>2, <3>3
  <2> QED
      BY <1>6, <2>1
<1>13. up' \in [orig : Nat \ {0}, split : Nat, mid : Nat]
    OBVIOUS
<1> HIDE DEF top
<1>14. /\ Tree(st', h) /\ Loose(st', h, Ends') /\ Flagged(st', h, Top')
       /\ UpTo(h, h.level[up'.orig] + Len(path'))
       /\ up'.split # 0 => h.level[up'.split] = h.level[up'.orig]
       /\ path' # <<>> => Waits(st', h, path', up'.orig, Top')
    BY <1>1, <1>6, <1>7, <1>8, <1>9
<1>15. IF path' # <<>> THEN Grown(h.level[Top'], Len(st'.mem[Top'].keys)) + 1 <= adds'
       ELSE IF up'.split = 0 THEN Grown(h.level[Top'], Len(st'.mem[Top'].keys)) <= adds'
       ELSE Grown(h.level[up'.orig] + 1, 1) <= adds'
    BY <1>1, <1>12
<1> QED
    BY <1>1, <1>10, <1>11, <1>13, <1>14, <1>15 DEF Ascending

\* A call that waits for a child's replacement.
LEMMA AscendingHalf ==
  ASSUME NEW g, Ascending(g), path # <<>>, NEW d, d = Waiting.page, NEW w, w = Tail(path), NEW l, l = g.level[up.orig] + 1
  PROVE  /\ Half(st, g, d, w, Ends, l) /\ Roomy(st, g, d, w)
         /\ d \in Inner(st, g) /\ l \in Nat /\ l # 0
         /\ g.hole[d] = Waiting.child /\ Waiting.child \in DOMAIN st.mem[d].kids
         /\ up.orig \in Ends /\ up.orig \in Nat /\ up.orig # 0 /\ up.split \in Nat /\ up.mid \in Nat
<1> DEFINE n == Len(path)
<1>1. /\ Tree(st, g) /\ Loose(st, g, Ends) /\ Flagged(st, g, Top)
      /\ UpTo(g, g.level[up.orig] + Len(path))
      /\ up \in [orig : Nat \ {0}, split : Nat, mid : Nat] /\ up.orig # up.split
    BY DEF Ascending
<1>2. /\ up.split # 0 => g.level[up.split] = g.level[up.orig]
      /\ \A p \in g.pages : g.hole[p] # 0 => \E k \in DOMAIN path : path[k].page = p
    BY DEF Ascending
<1>3. Waits(st, g, path, up.orig, Top)
    BY DEF Ascending
<1>4. /\ path \in Seq([page : g.pages, child : Nat])
      /\ n \in Nat /\ DOMAIN path = 1 .. n /\ n # 0
      /\ \A k \in 1 .. n : /\ path[k].page \in g.pages /\ path[k].child \in Nat
                           /\ g.level[path[k].page] = g.level[up.orig] + k
                           /\ path[k].child \in DOMAIN st.mem[path[k].page].kids
      /\ path[n].page = Top
  <2>1. /\ path \in Seq([page : g.pages, child : Nat])
        /\ n \in Nat /\ DOMAIN path = 1 .. n /\ (path = <<>> <=> n = 0)
        /\ \A k \in 1 .. n : /\ path[k].page \in g.pages /\ path[k].child \in Nat
                             /\ g.level[path[k].page] = g.level[up.orig] + k
                             /\ path[k].child \in DOMAIN st.mem[path[k].page].kids
        /\ (path = <<>> => up.orig = Top) /\ (path # <<>> => path[n].page = Top)
      BY <1>3, WaitsIs, Zenon
  <2> QED
      BY <2>1
<1>5. \A k \in DOMAIN path : g.hole[path[k].page] = path[k].child
    BY DEF Ascending
<1>6. Levelled(st, g) /\ Owned(st, g.pages \cup g.stacks)
    BY <1>1 DEF Tree
<1>7. up.orig \in Ends /\ up.orig \in g.pages /\ g.level[up.orig] \in Nat
    BY <1>1, <1>6 DEF Ends, Loose, Levelled
<1>8. n >= 1 /\ 1 \in 1 .. n /\ n \in 1 .. n
    BY <1>4
<1>9. Waiting = path[1]
    BY <1>4 DEF Waiting
<1>10. d = path[1].page /\ g.level[d] = l /\ d \in g.pages /\ l \in Nat /\ l # 0
    BY <1>4, <1>7, <1>8, <1>9
<1>11. d \in Inner(st, g)
    BY <1>6, <1>10 DEF Levelled, Inner
<1>12. /\ w \in Seq([page : g.pages, child : Nat]) /\ Len(w) = n - 1
       /\ \A k \in 1 .. n - 1 : w[k] = path[k + 1]
       /\ DOMAIN w = 1 .. n - 1
  <2>1. PICK T : T = [page : g.pages, child : Nat]
      BY Zenon
  <2>2. path \in Seq(T) /\ path # <<>>
      BY <1>4, <2>1
  <2>3. w \in Seq(T) /\ Len(w) = Len(path) - 1 /\ \A k \in 1 .. Len(w) : w[k] = path[k + 1]
      BY <2>2
  <2> QED
      BY <2>1, <2>3
<1>13. g.hole[d] = Waiting.child /\ Waiting.child \in DOMAIN st.mem[d].kids
    BY <1>4, <1>5, <1>8, <1>9, <1>10, Zenon
<1>14. g.hole[d] # 0
  <2>1. PageFits(st.mem[d], st.end)
    <3>1. StoreFits(st) /\ d \in 1 .. st.end - 1
        BY <1>6, <1>10 DEF Owned, StoreFits
    <3> QED
        BY <3>1, Zenon DEF StoreFits
  <2>2. PICK kids, T : kids = st.mem[d].kids /\ T = 1 .. st.end - 1
      BY Zenon
  <2>3. kids \in Seq(T)
      BY <1>11, <2>1, <2>2 DEF PageFits, Inner
  <2>4. 0 \notin DOMAIN kids
      BY ONLY <2>3
  <2> QED
      BY <1>13, <2>2, <2>4, Zenon
<1>15. \A p \in Inner(st, g) : \A i \in Live(st, g, p) : st.mem[p].kids[i] # d
    BY <1>6, <1>14 DEF Levelled
<1>16. \A r \in Ends : r # d /\ l = g.level[r] + 1
  <2>1. \A r \in Ends : r # d
      BY <1>1, <1>14 DEF Loose
  <2>2. \A r \in Ends : g.level[r] = g.level[up.orig]
      BY <1>2 DEF Ends
  <2> QED
      BY <2>1, <2>2
<1>17. (IF w = <<>> THEN d ELSE w[Len(w)].page) = Top
  <2>1. CASE n = 1
    <3>1. w = <<>>
        BY <1>12, <2>1
    <3> QED
        BY <1>4, <1>10, <2>1, <3>1
  <2>2. CASE n # 1
    <3>1. PICK m : m = n - 1
        OBVIOUS
    <3>2. m \in 1 .. m /\ m + 1 = n
        BY <1>4, <1>8, <2>2, <3>1
    <3>3. Len(w) = m /\ w[m] = path[m + 1]
        BY <1>12, <3>1, <3>2
    <3>4. w # <<>>
        BY <1>12, <3>2, <3>3
    <3> QED
        BY <1>4, <3>2, <3>3, <3>4, Zenon
  <2> QED
      BY <2>1, <2>2
<1>18. UpTo(g, l + Len(w))
  <2>1. l + Len(w) = g.level[up.orig] + n
      BY <1>4, <1>7, <1>12
  <2> QED
      BY <1>1, <2>1
<1>19. \A k \in DOMAIN w : /\ g.level[w[k].page] = l + k
                           /\ w[k].child \in DOMAIN st.mem[w[k].page].kids
                           /\ g.hole[w[k].page] = w[k].child
  <2> SUFFICES ASSUME NEW k \in DOMAIN w
               PROVE  /\ g.level[w[k].page] = l + k
                      /\ w[k].child \in DOMAIN st.mem[w[k].page].kids
                      /\ g.hole[w[k].page] = w[k].child
      OBVIOUS
  <2>1. k \in 1 .. n - 1 /\ k + 1 \in 1 .. n /\ k \in Int
      BY <1>4, <1>8, <1>12
  <2>2. w[k] = path[k + 1]
      BY <1>12, <2>1
  <2>3. PICK j : j = k + 1
      OBVIOUS
  <2>4. w[k] = path[j] /\ j \in 1 .. n
      BY <2>1, <2>2, <2>3
  <2>5. g.level[w[k].page] = g.level[up.orig] + j
      BY <1>4, <2>4, Zenon
  <2>6. g.level[w[k].page] = l + k
    <3>1. PICK q : q = g.level[up.orig]
        OBVIOUS
    <3>2. q \in Nat /\ l = q + 1 /\ g.level[w[k].page] = q + j
        BY <1>7, <2>5, <3>1
    <3> QED
        BY <2>1, <2>3, <3>2
  <2> QED
      BY <1>4, <1>5, <2>4, <2>6, Zenon
<1>20. \A p \in g.pages : g.hole[p] # 0 => p = d \/ \E k \in DOMAIN w : w[k].page = p
  <2> SUFFICES ASSUME NEW p \in g.pages, g.hole[p] # 0, p # d
               PROVE  \E k \in DOMAIN w : w[k].page = p
      OBVIOUS
  <2>1. PICK j \in 1 .. n : path[j].page = p
      BY <1>2, <1>4
  <2>2. j # 1
      BY <1>10, <2>1
  <2>3. j \in Int /\ 2 <= j /\ j <= n
      BY <1>4, <2>2
  <2>4. j - 1 \in 1 .. n - 1 /\ j - 1 + 1 = j
      BY <1>4, <2>3
  <2>5. w[j - 1] = path[j]
      BY <1>12, <2>4
  <2> QED
      BY <1>12, <2>1, <2>4, <2>5, Zenon
<1>21. Half(st, g, d, w, Ends, l)
    BY <1>1, <1>10, <1>12, <1>15, <1>16, <1>17, <1>18, <1>19, <1>20, Zenon DEF Half
<1>22. Roomy(st, g, d, w)
  <2>1. Grown(g.level[Top], Len(st.mem[Top].keys)) + 1 <= adds
      BY DEF Ascending
  <2> QED
      BY <1>17, <2>1, Zenon DEF Roomy
<1> QED
    BY <1>1, <1>7, <1>10, <1>11, <1>13, <1>21, <1>22

\* What is known of a page that is to be replaced.
Known(s, g, d, R, l) ==
  /\ Removable(s, g, {d}, R, l) /\ Tree(s, g) /\ Loose(s, g, R)
  /\ d \in g.pages /\ l \in Nat /\ g.level[d] = l
  /\ Owned(s, g.pages \cup g.stacks) /\ StoreFits(s) /\ g.pages \cap g.stacks = {}
  /\ PageFits(s.mem[d], s.end)
  /\ (l = 0 => d \in Leaves(s, g)) /\ (l # 0 => d \in Inner(s, g))

\* The facts about that page each step uses.
LEMMA HalfKnown ==
  ASSUME NEW s, NEW g, NEW d, NEW w, NEW R, NEW l, Half(s, g, d, w, R, l)
  PROVE  Known(s, g, d, R, l)
<1>1. /\ Tree(s, g) /\ Loose(s, g, R) /\ d \in g.pages /\ g.level[d] = l
      /\ \A p \in Inner(s, g) : \A i \in Live(s, g, p) : s.mem[p].kids[i] # d
      /\ \A r \in R : r # d /\ l = g.level[r] + 1
    BY DEF Half
<1>2. Levelled(s, g) /\ Owned(s, g.pages \cup g.stacks) /\ g.pages \cap g.stacks = {}
    BY <1>1 DEF Tree
<1>3. l \in Nat /\ s.mem[d].kind = IF l = 0 THEN "leaf" ELSE "branch"
    BY <1>1, <1>2 DEF Levelled
<1>4. StoreFits(s) /\ PageFits(s.mem[d], s.end)
    BY <1>1, <1>2 DEF Owned, StoreFits
<1>5. Removable(s, g, {d}, R, l)
    BY <1>1, <1>3 DEF Removable, Loose
<1>6. (l = 0 => d \in Leaves(s, g)) /\ (l # 0 => d \in Inner(s, g))
    BY <1>1, <1>3 DEF Leaves, Inner
<1> QED
    BY <1>1, <1>2, <1>3, <1>4, <1>5, <1>6 DEF Known

\* Page d replaced by the pages of N, with the overflow pages left as they are.
LEMMA Replacing ==
  ASSUME NEW s, NEW g, NEW d, NEW w, NEW R, NEW l, Half(s, g, d, w, R, l), NEW t, NEW N,
         \A n \in N : n \notin g.pages \cup g.stacks,
         Owned(t, ((g.pages \cup g.stacks) \ {d}) \cup N),
         \A q \in g.pages \cup g.stacks : t.mem[q] = s.mem[q],
         \A n \in N : /\ t.mem[n].kind = IF l = 0 THEN "leaf" ELSE "branch"
                      /\ t.mem[n].kind = "leaf" => t.mem[n].keys # <<>>,
         Adopted(s, g, t, {d}, N, R), Refers(s, g, t, {d}, N, {}, {})
  PROVE  \E h : Tree(t, h) /\ Loose(t, h, N) /\ Rewritten(s, g, t, h, {d}, N, R, l)
<1>1. /\ Removable(s, g, {d}, R, l) /\ Tree(s, g) /\ Loose(s, g, R)
      /\ d \in g.pages /\ g.pages \cap g.stacks = {}
  <2>1. Known(s, g, d, R, l)
      BY HalfKnown, Zenon
  <2> QED
      BY <2>1 DEF Known
<1>2. Placed(s, g, t, g, {d}, N, l)
  <2>1. ((g.pages \ {d}) \cup N) \cup g.stacks = ((g.pages \cup g.stacks) \ {d}) \cup N
      BY <1>1
  <2>2. Owned(t, ((g.pages \ {d}) \cup N) \cup g.stacks)
      BY <2>1, Zenon
  <2>3. ((g.pages \ {d}) \cup N) \cap g.stacks = {} /\ N \cap g.pages = {}
      BY <1>1
  <2> QED
      BY <2>2, <2>3 DEF Placed
<1>3. Restacked(s, g, t, g, {d}, {}, {}, {}, 0)
    BY DEF Restacked
<1>4. \E h : /\ Tree(t, h) /\ Loose(t, h, N)
             /\ Rewritten(s, g, t, h, {d}, N, R, l) /\ h.stacks = g.stacks
    BY <1>1, <1>2, <1>3, Rebuilding
<1> QED
    BY <1>4

\* Leaves have no children.
LEMMA LeavesAdopt ==
  ASSUME NEW s, NEW g, NEW t, NEW D, NEW N, NEW R, \A n \in N : t.mem[n].kind = "leaf"
  PROVE  Adopted(s, g, t, D, N, R)
  BY DEF Adopted

\* Branches have no overflow pages.
LEMMA BranchesRefer ==
  ASSUME NEW s, NEW g, NEW t, NEW D, NEW N, NEW W, NEW Z, \A n \in N : t.mem[n].kind = "branch"
  PROVE  Refers(s, g, t, D, N, W, Z)
  BY DEF Refers

\* A new leaf with a number of items that fits.
LEMMA ItemsFit ==
  ASSUME NEW a, NEW flag, NEW pg, NEW i, NEW key, NEW val, NEW c, NEW n \in Nat,
         HasItems(a, flag, pg, i, key, val, c, n), n <= LeafCap, NEW e
  PROVE  /\ PageFits(a, e) /\ a.kind = "leaf" /\ a.root = flag
         /\ Len(a.keys) = n /\ (n # 0 => a.keys # <<>>)
  BY DEF HasItems, PageFits

\* A new branch with a number of children that fits.
LEMMA WideFits ==
  ASSUME NEW a, NEW flag, NEW e, NEW kids, NEW keys, NEW i, NEW u, NEW c, NEW n \in Nat, n >= 1,
         HasWide(a, flag, 1 .. e - 1, kids, keys, i, u, c, n), n <= BranchCap + 1
  PROVE  PageFits(a, e) /\ a.kind = "branch" /\ a.root = flag /\ Len(a.kids) = n /\ Len(a.keys) = n - 1
<1>1. /\ a.kind = "branch" /\ a.root = flag
      /\ a.keys \in Seq(Nat) /\ a.kids \in Seq(1 .. e - 1) /\ Len(a.kids) = n /\ Len(a.keys) = n - 1
    BY DEF HasWide
<1>2. n - 1 <= BranchCap /\ n = n - 1 + 1
    BY Sizes
<1> QED
    BY <1>1, <1>2 DEF PageFits

\* The clients' keys have no overflow bit.
LEMMA InputIs ==
  ASSUME call \in Inputs
  PROVE  call[1] \in Nat /\ call[2] \in Nat /\ ~HasOverflow(call[1]) /\ KeyGet(call[1]) = call[1]
<1>1. call \in (0 .. OverflowBit - 1) \X Nat
    BY BTreeAssumption
<1>2. call[1] \in 0 .. OverflowBit - 1 /\ call[2] \in Nat
    BY <1>1
<1>3. PICK k : k = call[1]
    OBVIOUS
<1>4. k \in Nat /\ k < OverflowBit /\ OverflowBit \in Nat
    BY <1>2, <1>3, Sizes
<1>5. ~(k >= OverflowBit) /\ k % OverflowBit = k
    BY <1>4
<1> QED
    BY <1>2, <1>3, <1>4, <1>5 DEF HasOverflow, KeyGet

\* btree_recur_add has reached a leaf.
LEMMA AtLeaf ==
  ASSUME NEW g, Descending(g), At.kind = "leaf"
  PROVE  \E h : /\ h.pages = g.pages /\ h.level = g.level
                /\ Half(st, h, cur, path, {}, 0) /\ Roomy(st, h, cur, path)
                /\ cur \in Leaves(st, h) /\ Stacked(st, h)
                /\ At.keys \in Seq(Nat) /\ At.vals \in Seq(Nat) /\ Len(At.vals) = Len(At.keys)
                /\ Len(At.keys) \in Nat /\ Len(At.keys) <= LeafCap
                /\ StoreFits(st) /\ Owned(st, h.pages \cup h.stacks) /\ cur \in h.pages
                /\ h.pages \cap h.stacks = {}
<1>1. PICK h : /\ h.pages = g.pages /\ h.level = g.level
               /\ Half(st, h, cur, path, {}, g.level[cur])
               /\ Roomy(st, h, cur, path)
    BY Opening, Zenon
<1>2. PICK l : l = g.level[cur]
    OBVIOUS
<1>3. Half(st, h, cur, path, {}, l)
    BY <1>1, <1>2
<1>4. /\ Tree(st, h) /\ cur \in h.pages
      /\ Owned(st, h.pages \cup h.stacks) /\ StoreFits(st) /\ h.pages \cap h.stacks = {}
      /\ PageFits(st.mem[cur], st.end)
      /\ (l = 0 => cur \in Leaves(st, h)) /\ (l # 0 => cur \in Inner(st, h))
  <2>1. Known(st, h, cur, {}, l)
      BY <1>3, HalfKnown, Zenon
  <2> QED
      BY <2>1 DEF Known
<1>5. l = 0 /\ cur \in Leaves(st, h)
    BY <1>4 DEF Inner, At
<1>6. At.keys \in Seq(Nat) /\ At.vals \in Seq(Nat) /\ Len(At.vals) = Len(At.keys) /\ Len(At.keys) <= LeafCap
    BY <1>4 DEF PageFits, At
<1>7. Stacked(st, h) /\ Len(At.keys) \in Nat
    BY <1>4, <1>6 DEF Tree
<1> QED
    BY <1>1, <1>3, <1>4, <1>5, <1>6, <1>7, Zenon

\* The leaf reached on the way down from tree g has become leaf p of tree h, with
\* the new item in its place.
LeafWritten(g, h) ==
  \E o, p :
    /\ o.pages = g.pages /\ o.level = g.level /\ Half(st, o, cur, path, {}, 0)
    /\ Rewritten(st, o, st', h, {cur}, {p}, {}, 0)
    /\ HasItems(st'.mem[p], At.root, At, Place, call[1], call[2], 0, Len(At.keys) + 1)
    /\ Hands(st', path, p, 0, call[1])

\* btree_leaf_add, the leaf having room.
LEMMA LeafAddFormed ==
  ASSUME NEW g, Descending(g), LeafAdd
  PROVE  \E h : Ascending(h)' /\ LeafWritten(g, h)
<1> DEFINE key == call[1]
           val == call[2]
           c == Leaf(At.root, InsertAt(At.keys, Place, key), InsertAt(At.vals, Place, val))
           n == NextPage(st)
<1>1. /\ At.kind = "leaf" /\ Len(At.keys) < LeafCap
      /\ st' = Replace(st, cur, c) /\ up' = [orig |-> n, split |-> 0, mid |-> key]
      /\ cur' = 0 /\ root' = root /\ adds' = adds /\ call' = call /\ path' = path
    BY DEF LeafAdd, GiveUp
<1>2. call \in Inputs /\ root # 0
    BY DEF Descending
<1>3. PICK h0 : /\ h0.pages = g.pages /\ h0.level = g.level
                /\ Half(st, h0, cur, path, {}, 0) /\ Roomy(st, h0, cur, path)
                /\ cur \in Leaves(st, h0) /\ Stacked(st, h0)
                /\ At.keys \in Seq(Nat) /\ At.vals \in Seq(Nat) /\ Len(At.vals) = Len(At.keys)
                /\ Len(At.keys) \in Nat /\ Len(At.keys) <= LeafCap
                /\ StoreFits(st) /\ Owned(st, h0.pages \cup h0.stacks) /\ cur \in h0.pages
                /\ h0.pages \cap h0.stacks = {}
    BY <1>1, AtLeaf, Zenon
<1>4. key \in Nat /\ val \in Nat /\ ~HasOverflow(key)
    BY <1>2, InputIs
<1>5. PICK i : i = Place
    OBVIOUS
<1>6. i \in 1 .. Len(At.keys) + 1
    BY <1>3, <1>4, <1>5, LeafFindIs DEF Place
<1>7. PICK m : m = Len(At.keys) + 1
    OBVIOUS
<1>8. m \in Nat /\ m # 0 /\ m <= LeafCap
    BY <1>1, <1>3, <1>7, Sizes
<1>9. PICK a : a = c
    OBVIOUS
<1>10. PICK k, v : k = key /\ v = val
    OBVIOUS
<1>11. HasItems(a, At.root, At, i, k, v, 0, m)
  <2>1. a = Leaf(At.root, InsertAt(At.keys, i, k), InsertAt(At.vals, i, v))
      BY <1>5, <1>9, <1>10
  <2>2. k \in Nat /\ v \in Nat
      BY <1>4, <1>10
  <2> HIDE DEF c, n, key, val
  <2> QED
      BY <1>3, <1>6, <1>7, <2>1, <2>2, LeafWithIs, Zenon
<1>12. PageFits(a, st.end) /\ a.kind = "leaf" /\ a.root = At.root /\ Len(a.keys) = m /\ a.keys # <<>>
    BY <1>8, <1>11, ItemsFit
<1>13. PICK t, p : t = st' /\ p = n
    OBVIOUS
<1>14. PICK H : H = h0.pages \cup h0.stacks
    BY Zenon
<1>15. /\ Owned(t, (H \ {cur}) \cup {p})
       /\ p \notin H /\ t.mem[p] = a
       /\ \A q \in H : t.mem[q] = st.mem[q]
       /\ p \in 2 .. t.end - 1
  <2>1. Owned(st, H) /\ cur \in H /\ t = Replace(st, cur, a) /\ p = NextPage(st)
      BY <1>1, <1>3, <1>9, <1>13, <1>14
  <2> QED
    <3>1. PageFits(a, st.end)
        BY <1>12
    <3>2. Swapped(st, t, H, cur, a, p)
        BY <2>1, <3>1, ReplaceOwned, Zenon
    <3> QED
        BY <3>2 DEF Swapped
<1> HIDE DEF c, n, key, val
<1>16. Refers(st, h0, t, {cur}, {p}, {}, {})
  <2>1. PICK at : at = [x \in {p} |-> 0]
      BY Zenon
  <2>2. ItemsFrom(t, At, i, k, v, {p}, at)
    <3>1. /\ a.kind = "leaf" /\ a.keys \in Seq(Nat) /\ Len(a.keys) = m
          /\ \A j \in 1 .. m : /\ a.keys[j] = WideItem(At.keys, i, k, 0 + j)
                               /\ a.vals[j] = WideItem(At.vals, i, v, 0 + j)
        BY <1>11 DEF HasItems
    <3>2. DOMAIN a.keys = 1 .. m
        BY <3>1
    <3>3. \A j \in 1 .. m : 0 + j = j /\ j \in 1 .. Len(At.keys) + 1
        BY <1>7
    <3>4. t.mem[p] = a /\ at[p] = 0
        BY <1>15, <2>1
    <3> QED
        BY <3>1, <3>2, <3>3, <3>4 DEF ItemsFrom
  <2>3. ~HasOverflow(k)
      BY <1>4, <1>10
  <2>4. PICK pg : pg = st.mem[cur]
      OBVIOUS
  <2>5. st.mem[cur].keys \in Seq(Nat) /\ i \in 1 .. Len(st.mem[cur].keys) + 1 /\ ItemsFrom(t, st.mem[cur], i, k, v, {p}, at)
      BY <1>3, <1>6, <2>2 DEF At
  <2> QED
      BY <1>3, <2>3, <2>5, NewLeaves, Zenon
<1>17. Adopted(st, h0, t, {cur}, {p}, {})
    BY <1>12, <1>15, LeavesAdopt
<1>18. PICK h : Tree(t, h) /\ Loose(t, h, {p}) /\ Rewritten(st, h0, t, h, {cur}, {p}, {}, 0)
  <2>1. /\ \A x \in {p} : x \notin h0.pages \cup h0.stacks
        /\ Owned(t, ((h0.pages \cup h0.stacks) \ {cur}) \cup {p})
        /\ \A q \in h0.pages \cup h0.stacks : t.mem[q] = st.mem[q]
      BY <1>14, <1>15
  <2>2. \A x \in {p} : /\ t.mem[x].kind = IF 0 = 0 THEN "leaf" ELSE "branch"
                       /\ t.mem[x].kind = "leaf" => t.mem[x].keys # <<>>
      BY <1>12, <1>15
  <2> QED
      BY <1>3, <1>16, <1>17, <2>1, <2>2, Replacing, Zenon
<1>19. path = <<>> => Grown(0, Len(t.mem[p].keys)) <= adds
  <2> SUFFICES ASSUME path = <<>> PROVE Grown(0, m) <= adds
      BY <1>12, <1>15
  <2>1. Grown(h0.level[cur], Len(st.mem[cur].keys)) + 1 <= adds /\ h0.level[cur] = 0
      BY <1>3 DEF Roomy, Half
  <2> QED
      BY <1>3, <1>7, <2>1 DEF Grown, At
<1>20. /\ p \in Nat \ {0} /\ k \in Nat /\ p # 0 /\ {p} = {p, 0} \ {0}
       /\ t.mem[p].root = st.mem[cur].root
       /\ up' = [orig |-> p, split |-> 0, mid |-> k]
    BY <1>1, <1>4, <1>10, <1>12, <1>13, <1>15 DEF At, key, n
<1>21. PICK b : b = 0
    OBVIOUS
<1>22. /\ b \in Nat /\ p # b /\ {p} = {p, b} \ {0}
       /\ Flags(st, t, path, cur, 0, p, b) /\ Hands(t, path, p, b, k)
    BY <1>1, <1>13, <1>19, <1>20, <1>21 DEF Flags, Hands
<1>23. Ascending(h)'
  <2>1. /\ Half(st, h0, cur, path, {}, 0) /\ Roomy(st, h0, cur, path)
        /\ Rewritten(st, h0, t, h, {cur}, {p}, {}, 0) /\ Tree(t, h) /\ Loose(t, h, {p})
        /\ p \in Nat \ {0} /\ b \in Nat /\ k \in Nat /\ p # b /\ {p} = {p, b} \ {0}
        /\ Flags(st, t, path, cur, 0, p, b) /\ Hands(t, path, p, b, k)
        /\ root # 0 /\ call \in Inputs
      BY <1>2, <1>3, <1>18, <1>20, <1>22, Zenon
  <2> QED
      BY <2>1, Returning
<1>24. LeafWritten(g, h)
  <2>1. Rewritten(st, h0, st', h, {cur}, {p}, {}, 0) /\ Hands(st', path, p, 0, call[1])
      BY <1>10, <1>13, <1>18, <1>21, <1>22 DEF key
  <2>2. HasItems(st'.mem[p], At.root, At, Place, call[1], call[2], 0, Len(At.keys) + 1)
    <3>1. k = call[1] /\ v = call[2] /\ t.mem[p] = a /\ st' = t
        BY <1>10, <1>13, <1>15 DEF key, val
    <3> QED
        BY <1>5, <1>7, <1>11, <3>1, Zenon
  <2> QED
      BY <1>3, <2>1, <2>2, Zenon DEF LeafWritten
<1> QED
    BY <1>23, <1>24

\* Two pages in place of page d: the two halves of a split.
Halved(s, t, H, d, a, b, p, q) ==
  /\ Owned(t, (H \ {d}) \cup {p, q})
  /\ p \notin H /\ q \notin H /\ p # q
  /\ t.mem[p] = a /\ t.mem[q] = b
  /\ \A x \in H : t.mem[x] = s.mem[x]
  /\ s.end <= t.end /\ s.end \in Nat /\ t.end \in Nat
  /\ p \in 2 .. t.end - 1 /\ q \in 2 .. t.end - 1

\* Both halves are written, then the page split is freed.
LEMMA SplitOwned ==
  ASSUME NEW s, NEW H, Owned(s, H), NEW d \in H, NEW a, NEW b, PageFits(a, s.end), PageFits(b, s.end),
         NEW u, u = PutNew(s, a), NEW p, p = NextPage(s), NEW q, q = NextPage(u),
         NEW t, t = Release(PutNew(u, b), d)
  PROVE  Halved(s, t, H, d, a, b, p, q)
<1>1. Taken(s, u, H, p, a)
    BY PutNewOwned
<1>2. /\ Owned(u, H \cup {p}) /\ p \notin H /\ u.mem[p] = a
      /\ \A x \in H : u.mem[x] = s.mem[x]
      /\ s.end <= u.end /\ s.end \in Nat /\ u.end \in Nat
      /\ p \in 2 .. u.end - 1
    BY <1>1 DEF Taken
<1>3. PageFits(b, u.end)
    BY <1>2, PageFitsMore
<1>4. PICK v : v = PutNew(u, b)
    OBVIOUS
<1>5. PICK K : K = H \cup {p}
    BY Zenon
<1>6. Taken(u, v, K, q, b)
    BY <1>2, <1>3, <1>4, <1>5, PutNewOwned
<1>7. /\ Owned(v, K \cup {q}) /\ q \notin K /\ v.mem[q] = b
      /\ \A x \in K : v.mem[x] = u.mem[x]
      /\ u.end <= v.end /\ v.end \in Nat
      /\ q \in 2 .. v.end - 1
    BY <1>6 DEF Taken
<1>8. PICK L : L = K \cup {q}
    BY Zenon
<1>9. Given(v, t, L, d)
    BY <1>4, <1>5, <1>7, <1>8, ReleaseOwned
<1>10. Owned(t, L \ {d}) /\ t.mem = v.mem /\ t.end = v.end
    BY <1>9 DEF Given
<1>11. L \ {d} = (H \ {d}) \cup {p, q}
    BY <1>2, <1>5, <1>7, <1>8
<1>12. /\ p \notin H /\ q \notin H /\ p # q
       /\ t.mem[p] = a /\ t.mem[q] = b
       /\ \A x \in H : t.mem[x] = s.mem[x]
    BY <1>2, <1>5, <1>7, <1>10
<1>13. /\ s.end <= t.end /\ s.end \in Nat /\ t.end \in Nat
       /\ p \in 2 .. t.end - 1 /\ q \in 2 .. t.end - 1
    BY <1>2, <1>7, <1>10
<1>14. Owned(t, (H \ {d}) \cup {p, q})
    BY <1>10, <1>11
<1> QED
    BY <1>12, <1>13, <1>14 DEF Halved

\* The two halves of a leaf have its items and the new one, each once.
LEMMA TwoLeaves ==
  ASSUME NEW t, NEW pg, NEW i, NEW key, NEW val, NEW p, NEW q, p # q, Len(pg.keys) \in Nat,
         NEW c \in Nat, NEW n \in Nat, c + n = Len(pg.keys) + 1,
         HasItems(t.mem[p], FALSE, pg, i, key, val, 0, c), HasItems(t.mem[q], FALSE, pg, i, key, val, c, n)
  PROVE  \E at : ItemsFrom(t, pg, i, key, val, {p, q}, at)
<1>1. PICK at : at = [x \in {p, q} |-> IF x = p THEN 0 ELSE c]
    BY Zenon
<1>2. at[p] = 0 /\ at[q] = c
    BY <1>1
<1>3. PICK m : m = Len(pg.keys) + 1
    OBVIOUS
<1>4. /\ t.mem[p].kind = "leaf" /\ t.mem[p].keys \in Seq(Nat) /\ Len(t.mem[p].keys) = c
      /\ \A j \in 1 .. c : /\ t.mem[p].keys[j] = WideItem(pg.keys, i, key, 0 + j)
                           /\ t.mem[p].vals[j] = WideItem(pg.vals, i, val, 0 + j)
    BY Zenon DEF HasItems
<1>5. /\ t.mem[q].kind = "leaf" /\ t.mem[q].keys \in Seq(Nat) /\ Len(t.mem[q].keys) = n
      /\ \A j \in 1 .. n : /\ t.mem[q].keys[j] = WideItem(pg.keys, i, key, c + j)
                           /\ t.mem[q].vals[j] = WideItem(pg.vals, i, val, c + j)
    BY DEF HasItems
<1>6. DOMAIN t.mem[p].keys = 1 .. c /\ DOMAIN t.mem[q].keys = 1 .. n
    BY <1>4, <1>5
<1>7. /\ m = c + n /\ \A j \in 1 .. c : 0 + j \in 1 .. m
      /\ \A j \in 1 .. n : c + j \in 1 .. m
    BY <1>3
<1>8. \A x \in {p, q} :
        /\ t.mem[x].kind = "leaf" /\ at[x] \in Nat
        /\ DOMAIN t.mem[x].keys = 1 .. Len(t.mem[x].keys)
        /\ \A j \in DOMAIN t.mem[x].keys :
             /\ at[x] + j \in 1 .. Len(pg.keys) + 1
             /\ t.mem[x].keys[j] = WideItem(pg.keys, i, key, at[x] + j)
             /\ t.mem[x].vals[j] = WideItem(pg.vals, i, val, at[x] + j)
  <2>1. /\ t.mem[p].kind = "leaf" /\ at[p] \in Nat
        /\ DOMAIN t.mem[p].keys = 1 .. Len(t.mem[p].keys)
        /\ \A j \in DOMAIN t.mem[p].keys :
             /\ at[p] + j \in 1 .. Len(pg.keys) + 1
             /\ t.mem[p].keys[j] = WideItem(pg.keys, i, key, at[p] + j)
             /\ t.mem[p].vals[j] = WideItem(pg.vals, i, val, at[p] + j)
      BY <1>2, <1>3, <1>4, <1>6, <1>7
  <2>2. /\ t.mem[q].kind = "leaf" /\ at[q] \in Nat
        /\ DOMAIN t.mem[q].keys = 1 .. Len(t.mem[q].keys)
        /\ \A j \in DOMAIN t.mem[q].keys :
             /\ at[q] + j \in 1 .. Len(pg.keys) + 1
             /\ t.mem[q].keys[j] = WideItem(pg.keys, i, key, at[q] + j)
             /\ t.mem[q].vals[j] = WideItem(pg.vals, i, val, at[q] + j)
      BY <1>2, <1>3, <1>5, <1>6, <1>7, Zenon
  <2> QED
      BY <2>1, <2>2, Zenon
<1>9. \A x, y \in {p, q} : \A j \in DOMAIN t.mem[x].keys, k \in DOMAIN t.mem[y].keys :
        at[x] + j = at[y] + k => x = y /\ j = k
  <2>1. \A j \in 1 .. c, k \in 1 .. n : 0 + j # c + k
      OBVIOUS
  <2>2. \A j, k \in 1 .. c : 0 + j = 0 + k => j = k
      OBVIOUS
  <2>3. \A j, k \in 1 .. n : c + j = c + k => j = k
      OBVIOUS
  <2> QED
      BY <1>2, <1>6, <2>1, <2>2, <2>3
<1> QED
    BY <1>8, <1>9, Zenon DEF ItemsFrom

\* The leaf has become leaves p and q, the first c of its items and the new one in p.
LeafHalved(g, h) ==
  \E o, p, q, c, mid :
    /\ o.pages = g.pages /\ o.level = g.level /\ Half(st, o, cur, path, {}, 0)
    /\ p # q /\ q # 0 /\ Rewritten(st, o, st', h, {cur}, {p, q}, {}, 0)
    /\ c \in 1 .. Len(At.keys)
    /\ HasItems(st'.mem[p], FALSE, At, Place, call[1], call[2], 0, c)
    /\ HasItems(st'.mem[q], FALSE, At, Place, call[1], call[2], c, Len(At.keys) + 1 - c)
    /\ mid = WideItem(At.keys, Place, call[1], c + 1)
    /\ Hands(st', path, p, q, mid)

\* btree_leaf_split, the leaf being full.
LEMMA LeafSplitFormed ==
  ASSUME NEW g, Descending(g), LeafSplitUp
  PROVE  \E h : Ascending(h)' /\ LeafHalved(g, h)
<1>1. PICK s2 : s2 = LeafSplit(At, call[1], call[2])
    OBVIOUS
<1>2. PICK u : u = PutNew(st, s2.left)
    OBVIOUS
<1>3. PICK p, q : p = NextPage(st) /\ q = NextPage(u)
    OBVIOUS
<1>4. PICK t : t = st'
    OBVIOUS
<1>5. /\ At.kind = "leaf" /\ Len(At.keys) >= LeafCap
      /\ t = Release(PutNew(u, s2.right), cur) /\ up' = [orig |-> p, split |-> q, mid |-> s2.mid]
      /\ cur' = 0 /\ root' = root /\ adds' = adds /\ call' = call /\ path' = path
    BY <1>1, <1>2, <1>3, <1>4 DEF LeafSplitUp, GiveUp
<1>6. call \in Inputs /\ root # 0
    BY DEF Descending
<1>7. PICK h0 : /\ h0.pages = g.pages /\ h0.level = g.level
                /\ Half(st, h0, cur, path, {}, 0) /\ Roomy(st, h0, cur, path)
                /\ cur \in Leaves(st, h0) /\ Stacked(st, h0)
                /\ At.keys \in Seq(Nat) /\ At.vals \in Seq(Nat) /\ Len(At.vals) = Len(At.keys)
                /\ Len(At.keys) \in Nat /\ Len(At.keys) <= LeafCap
                /\ StoreFits(st) /\ Owned(st, h0.pages \cup h0.stacks) /\ cur \in h0.pages
                /\ h0.pages \cap h0.stacks = {}
    BY <1>5, AtLeaf, Zenon
<1>8. PICK k, v, i, m : k = call[1] /\ v = call[2] /\ i = LeafFind(At, k) /\ m = Len(At.keys)
    BY Zenon
<1>9. k \in Nat /\ v \in Nat /\ ~HasOverflow(k) /\ KeyGet(k) = k
    BY <1>6, <1>8, InputIs
<1>10. m \in Nat /\ m = LeafCap /\ m >= 3
    BY <1>5, <1>7, <1>8, Sizes
<1>11. PICK c : c = Len(s2.left.keys)
    BY Zenon
<1>12. /\ c \in 1 .. m /\ i \in 1 .. m + 1
       /\ HasItems(s2.left, FALSE, At, i, k, v, 0, c)
       /\ HasItems(s2.right, FALSE, At, i, k, v, c, m + 1 - c)
       /\ s2.mid \in Nat /\ s2.mid = WideItem(At.keys, i, k, c + 1)
  <2>1. PICK pg : pg = At
      OBVIOUS
  <2>2. /\ pg.keys \in Seq(Nat) /\ pg.vals \in Seq(Nat) /\ Len(pg.vals) = Len(pg.keys)
        /\ Len(pg.keys) >= 3 /\ i = LeafFind(pg, k) /\ s2 = LeafSplit(pg, k, v) /\ c = Len(s2.left.keys)
      BY <1>1, <1>7, <1>8, <1>10, <1>11, <2>1, Zenon
  <2>3. LeafHalves(s2, pg, i, k, v, c)
      BY <1>9, <2>2, LeafSplitIs, Zenon
  <2> QED
      BY <1>8, <2>1, <2>3, Zenon DEF LeafHalves
<1>13. PICK n : n = m + 1 - c
    OBVIOUS
<1>14. c \in Nat /\ c # 0 /\ c <= LeafCap /\ n \in Nat /\ n # 0 /\ n <= LeafCap /\ c + n = m + 1
    BY <1>10, <1>12, <1>13
<1>15. PICK a, b : a = s2.left /\ b = s2.right
    OBVIOUS
<1>16. HasItems(a, FALSE, At, i, k, v, 0, c) /\ HasItems(b, FALSE, At, i, k, v, c, n)
    BY <1>12, <1>13, <1>15, Zenon
<1>17. PageFits(a, st.end) /\ a.kind = "leaf" /\ ~a.root /\ a.keys # <<>>
    BY <1>14, <1>16, ItemsFit, Zenon
<1>18. PageFits(b, st.end) /\ b.kind = "leaf" /\ ~b.root /\ b.keys # <<>>
    BY <1>14, <1>16, ItemsFit, Zenon
<1>19. PICK H : H = h0.pages \cup h0.stacks
    BY Zenon
<1>20. Halved(st, t, H, cur, a, b, p, q)
  <2>1. Owned(st, H) /\ cur \in H
      BY <1>7, <1>19
  <2>2. u = PutNew(st, a) /\ t = Release(PutNew(u, b), cur)
      BY <1>2, <1>5, <1>15
  <2> QED
      BY <1>3, <1>17, <1>18, <2>1, <2>2, SplitOwned
<1>21. /\ Owned(t, (H \ {cur}) \cup {p, q})
       /\ p \notin H /\ q \notin H /\ p # q
       /\ t.mem[p] = a /\ t.mem[q] = b
       /\ \A x \in H : t.mem[x] = st.mem[x]
       /\ t.end \in Nat /\ p \in 2 .. t.end - 1 /\ q \in 2 .. t.end - 1
    BY <1>20 DEF Halved
<1>22. Refers(st, h0, t, {cur}, {p, q}, {}, {})
  <2>1. \E at : ItemsFrom(t, At, i, k, v, {p, q}, at)
      BY <1>7, <1>8, <1>14, <1>16, <1>21, TwoLeaves, Zenon
  <2>2. PICK at : ItemsFrom(t, st.mem[cur], i, k, v, {p, q}, at)
      BY <2>1 DEF At
  <2>3. st.mem[cur].keys \in Seq(Nat) /\ i \in 1 .. Len(st.mem[cur].keys) + 1
      BY <1>7, <1>8, <1>12 DEF At
  <2> QED
      BY <1>7, <1>9, <2>2, <2>3, NewLeaves, Zenon
<1>23. Adopted(st, h0, t, {cur}, {p, q}, {})
    BY <1>17, <1>18, <1>21, LeavesAdopt
<1>24. PICK h : Tree(t, h) /\ Loose(t, h, {p, q}) /\ Rewritten(st, h0, t, h, {cur}, {p, q}, {}, 0)
  <2>1. /\ \A x \in {p, q} : x \notin h0.pages \cup h0.stacks
        /\ Owned(t, ((h0.pages \cup h0.stacks) \ {cur}) \cup {p, q})
        /\ \A x \in h0.pages \cup h0.stacks : t.mem[x] = st.mem[x]
      BY <1>19, <1>21
  <2>2. \A x \in {p, q} : /\ t.mem[x].kind = IF 0 = 0 THEN "leaf" ELSE "branch"
                          /\ t.mem[x].kind = "leaf" => t.mem[x].keys # <<>>
      BY <1>17, <1>18, <1>21
  <2> QED
      BY <1>7, <1>22, <1>23, <2>1, <2>2, Replacing, Zenon
<1>25. path = <<>> => Grown(0 + 1, 1) <= adds
  <2> SUFFICES ASSUME path = <<>> PROVE Grown(0 + 1, 1) <= adds
      OBVIOUS
  <2>1. Grown(h0.level[cur], Len(st.mem[cur].keys)) + 1 <= adds /\ h0.level[cur] = 0
      BY <1>7 DEF Roomy, Half
  <2>2. m + 1 <= adds
      BY <1>8, <2>1 DEF Grown, At
  <2>3. Grown(0 + 1, 1) = LeafCap + BranchCap * 0 + 1
      BY DEF Grown
  <2> QED
      BY <1>10, <2>2, <2>3, Sizes
<1>26. /\ p \in Nat \ {0} /\ q \in Nat /\ p # q /\ {p, q} = {p, q} \ {0}
       /\ Flags(st, t, path, cur, 0, p, q) /\ Hands(t, path, p, q, s2.mid)
       /\ s2.mid \in Nat
  <2>1. p \in Nat \ {0} /\ q \in Nat /\ q # 0 /\ p # q
      BY <1>21
  <2>2. ~t.mem[p].root /\ ~t.mem[q].root
      BY <1>17, <1>18, <1>21
  <2>3. Flags(st, t, path, cur, 0, p, q)
      BY <1>25, <2>1, <2>2 DEF Flags
  <2>4. Hands(t, path, p, q, s2.mid)
      BY <1>4, <1>5 DEF Hands
  <2> QED
      BY <1>12, <2>1, <2>3, <2>4
<1>27. Ascending(h)'
  <2>1. PICK mid : mid = s2.mid
      OBVIOUS
  <2>2. /\ Half(st, h0, cur, path, {}, 0) /\ Roomy(st, h0, cur, path)
        /\ Rewritten(st, h0, t, h, {cur}, {p, q}, {}, 0) /\ Tree(t, h) /\ Loose(t, h, {p, q})
        /\ p \in Nat \ {0} /\ q \in Nat /\ mid \in Nat /\ p # q /\ {p, q} = {p, q} \ {0}
        /\ Flags(st, t, path, cur, 0, p, q) /\ Hands(t, path, p, q, mid)
        /\ root # 0 /\ call \in Inputs
      BY <1>6, <1>7, <1>24, <1>26, <2>1, Zenon
  <2> QED
      BY <2>2, Returning
<1>28. LeafHalved(g, h)
  <2>1. k = call[1] /\ v = call[2] /\ i = Place /\ t.mem[p] = a /\ t.mem[q] = b /\ st' = t /\ q # 0
      BY <1>4, <1>8, <1>21 DEF Place
  <2>2. /\ HasItems(st'.mem[p], FALSE, At, Place, call[1], call[2], 0, c)
        /\ HasItems(st'.mem[q], FALSE, At, Place, call[1], call[2], c, Len(At.keys) + 1 - c)
      BY <1>8, <1>13, <1>16, <2>1, Zenon
  <2>3. c \in 1 .. Len(At.keys) /\ s2.mid = WideItem(At.keys, Place, call[1], c + 1)
      BY <1>8, <1>12, <2>1, Zenon
  <2>4. Rewritten(st, h0, st', h, {cur}, {p, q}, {}, 0) /\ Hands(st', path, p, q, s2.mid)
      BY <1>24, <1>26, <2>1, Zenon
  <2> QED
      BY <1>7, <1>26, <2>1, <2>2, <2>3, <2>4, Zenon DEF LeafHalved
<1> QED
    BY <1>27, <1>28

\* btree_recur_add returns to a branch whose child has been replaced.
LEMMA AtBranch ==
  ASSUME NEW g, Ascending(g), path # <<>>, NEW d, d = Waiting.page, NEW w, w = Tail(path)
  PROVE  \E l \in Nat \ {0} :
           /\ Half(st, g, d, w, Ends, l) /\ Roomy(st, g, d, w)
           /\ d \in Inner(st, g) /\ g.hole[d] = Waiting.child /\ Waiting.child \in 1 .. Len(Parent.kids)
           /\ Parent = st.mem[d]
           /\ Parent.keys \in Seq(Nat) /\ Parent.kids \in Seq(1 .. st.end - 1)
           /\ Len(Parent.kids) = Len(Parent.keys) + 1 /\ Len(Parent.keys) <= BranchCap
           /\ Len(Parent.keys) \in Nat /\ Len(Parent.kids) \in Nat
           /\ Owned(st, g.pages \cup g.stacks) /\ d \in g.pages /\ OneParent(st, g) /\ Loose(st, g, Ends)
           /\ up.orig \in 1 .. st.end - 1 /\ (up.split = 0 \/ up.split \in 1 .. st.end - 1)
           /\ up.orig # 0 /\ up.orig # up.split /\ up.mid \in Nat
<1>1. PICK l : l = g.level[up.orig] + 1
    OBVIOUS
<1>2. /\ Half(st, g, d, w, Ends, l) /\ Roomy(st, g, d, w)
      /\ d \in Inner(st, g) /\ l \in Nat /\ l # 0
      /\ g.hole[d] = Waiting.child /\ Waiting.child \in DOMAIN st.mem[d].kids
      /\ up.orig \in Ends /\ up.orig \in Nat /\ up.orig # 0 /\ up.split \in Nat /\ up.mid \in Nat
    BY <1>1, AscendingHalf, Zenon
<1>3. Known(st, g, d, Ends, l)
    BY <1>2, HalfKnown
<1>4. /\ Tree(st, g) /\ Loose(st, g, Ends) /\ d \in g.pages
      /\ Owned(st, g.pages \cup g.stacks) /\ StoreFits(st)
      /\ PageFits(st.mem[d], st.end)
    BY <1>3 DEF Known
<1>5. st.mem[d].kind = "branch"
    BY <1>2 DEF Inner
<1>6. /\ st.mem[d].keys \in Seq(Nat) /\ st.mem[d].kids \in Seq(1 .. st.end - 1)
      /\ Len(st.mem[d].kids) = Len(st.mem[d].keys) + 1 /\ Len(st.mem[d].keys) <= BranchCap
    BY <1>4, <1>5 DEF PageFits
<1>7. Waiting.child \in 1 .. Len(st.mem[d].kids)
    BY <1>2, <1>6
<1>8. Parent = st.mem[d]
    BY DEF Parent
<1>9. OneParent(st, g)
    BY <1>4 DEF Tree
<1>10. st.end \in Nat /\ g.pages \subseteq 2 .. st.end - 1
    BY <1>4 DEF Owned, StoreFits
<1>11. \A r \in Ends : r \in 1 .. st.end - 1
    BY <1>4, <1>10 DEF Loose
<1>12. up.orig \in 1 .. st.end - 1 /\ (up.split = 0 \/ up.split \in 1 .. st.end - 1)
    BY <1>2, <1>11 DEF Ends
<1>13. up.orig # up.split
    BY DEF Ascending
<1>14. Len(Parent.keys) \in Nat /\ Len(Parent.kids) \in Nat
  <2>1. PICK keys, kids : keys = Parent.keys /\ kids = Parent.kids
      BY Zenon
  <2>2. PICK T : T = 1 .. st.end - 1
      OBVIOUS
  <2>3. keys \in Seq(Nat) /\ kids \in Seq(T)
      BY <1>6, <1>8, <2>1, <2>2, Zenon
  <2>4. Len(keys) \in Nat
      BY ONLY <2>3
  <2>5. Len(kids) \in Nat
      BY ONLY <2>3
  <2> QED
      BY <2>1, <2>4, <2>5, Zenon
<1> QED
    BY <1>2, <1>4, <1>6, <1>7, <1>8, <1>9, <1>12, <1>13, <1>14

\* The branch that waited has become branch p, with its child replaced as up says.
BranchWritten(g, h) ==
  \E p, l :
    /\ l \in Nat \ {0} /\ Half(st, g, Waiting.page, Tail(path), Ends, l)
    /\ Rewritten(st, g, st', h, {Waiting.page}, {p}, Ends, l)
    /\ HasWide(st'.mem[p], Parent.root, 1 .. st.end - 1, Parent.kids, Parent.keys, Waiting.child, up,
               0, Len(Parent.kids) + Extra(up))
    /\ Hands(st', Tail(path), p, 0, up.mid)

\* btree_branch_add, the branch having room.
LEMMA BranchAddFormed ==
  ASSUME NEW g, Ascending(g), adds \in Nat, BranchAdd
  PROVE  \E h : Ascending(h)' /\ BranchWritten(g, h)
<1>1. PICK d, w, i, pg : d = Waiting.page /\ w = Tail(path) /\ i = Waiting.child /\ pg = st.mem[d]
    BY Zenon
<1>2. PICK u : u = up
    OBVIOUS
<1>3. PICK p, t : p = NextPage(st) /\ t = st'
    OBVIOUS
<1>4. PICK a : a = BranchWith(pg.root, pg.keys, pg.kids, i, u)
    OBVIOUS
<1>5. /\ path # <<>> /\ (u.split = 0 \/ Len(pg.keys) < BranchCap)
      /\ t = Replace(st, d, a) /\ up' = [orig |-> p, split |-> 0, mid |-> u.mid]
      /\ cur' = cur /\ root' = root /\ adds' = adds /\ call' = call /\ path' = w
    BY <1>1, <1>2, <1>3, <1>4 DEF BranchAdd, GiveUp, Parent, BranchHasRoom
<1>6. PICK T : T = 1 .. st.end - 1
    OBVIOUS
<1>7. path # <<>>
    BY DEF BranchAdd
<1>8. PICK l \in Nat \ {0} :
           /\ Half(st, g, d, w, Ends, l) /\ Roomy(st, g, d, w)
           /\ d \in Inner(st, g) /\ g.hole[d] = i /\ i \in 1 .. Len(pg.kids)
           /\ pg.keys \in Seq(Nat) /\ pg.kids \in Seq(T)
           /\ Len(pg.kids) = Len(pg.keys) + 1 /\ Len(pg.keys) <= BranchCap
           /\ Len(pg.keys) \in Nat /\ Len(pg.kids) \in Nat
           /\ Owned(st, g.pages \cup g.stacks) /\ d \in g.pages /\ OneParent(st, g) /\ Loose(st, g, Ends)
           /\ u.orig \in T /\ (u.split = 0 \/ u.split \in T)
           /\ u.orig # 0 /\ u.orig # u.split /\ u.mid \in Nat
    BY <1>1, <1>2, <1>6, <1>7, AtBranch, Zenon DEF Parent
<1>9. PICK n : n = Len(pg.kids) + Extra(u)
    OBVIOUS
<1>10. /\ n \in Nat /\ n >= 1 /\ n <= BranchCap + 1 /\ Len(pg.kids) \in Nat
       /\ n - 1 <= Len(pg.keys) + 1
  <2>1. Extra(u) = 0 \/ (Extra(u) = 1 /\ u.split # 0)
      BY DEF Extra
  <2>2. PICK m : m = Len(pg.keys)
      BY Zenon
  <2>3. m \in Nat /\ Len(pg.kids) = m + 1 /\ m <= BranchCap /\ (u.split = 0 \/ m < BranchCap)
      BY <1>5, <1>8, <2>2
  <2> QED
      BY <1>9, <2>1, <2>2, <2>3, Sizes
<1>11. HasWide(a, pg.root, T, pg.kids, pg.keys, i, u, 0, n)
    BY <1>4, <1>8, <1>9, BranchWithIs, Zenon
<1>12. PageFits(a, st.end) /\ a.kind = "branch" /\ a.root = pg.root /\ Len(a.kids) = n /\ Len(a.keys) = n - 1
    BY <1>6, <1>10, <1>11, WideFits
<1>13. PICK H : H = g.pages \cup g.stacks
    BY Zenon
<1>14. Swapped(st, t, H, d, a, p)
  <2>1. Owned(st, H) /\ d \in H
      BY <1>8, <1>13
  <2> QED
      BY <1>3, <1>5, <1>12, <2>1, ReplaceOwned, Zenon
<1>15. /\ Owned(t, (H \ {d}) \cup {p})
       /\ p \notin H /\ t.mem[p] = a
       /\ \A q \in H : t.mem[q] = st.mem[q]
       /\ p \in 2 .. t.end - 1 /\ t.end \in Nat
    BY <1>14 DEF Swapped
<1>16. PICK at : at = [x \in {p} |-> 0]
    BY Zenon
<1>17. KidsFrom(t, pg, i, u, {p}, at)
  <2>1. /\ a.kids \in Seq(T) /\ Len(a.kids) = n
        /\ \A j \in 1 .. n : a.kids[j] = WideKid(pg.kids, i, u, 0 + j)
      BY <1>11 DEF HasWide
  <2>2. DOMAIN a.kids = 1 .. n
      BY <1>10, <2>1
  <2>3. \A j \in 1 .. n : 0 + j = j /\ j \in 1 .. Len(pg.kids) + Extra(u)
      BY <1>9, <1>10
  <2>4. t.mem[p] = a /\ at[p] = 0
      BY <1>15, <1>16
  <2>5. /\ t.mem[p].kind = "branch" /\ at[p] \in Nat
        /\ \A j \in DOMAIN t.mem[p].kids :
             /\ at[p] + j \in 1 .. Len(pg.kids) + Extra(u)
             /\ t.mem[p].kids[j] = WideKid(pg.kids, i, u, at[p] + j)
      BY <1>12, <2>1, <2>2, <2>3, <2>4
  <2>6. \A j, k \in DOMAIN t.mem[p].kids : at[p] + j = at[p] + k => j = k
    <3>1. DOMAIN t.mem[p].kids = 1 .. n
        BY <2>2, <2>4
    <3>2. \A j, k \in 1 .. n : 0 + j = 0 + k => j = k
        BY <2>3
    <3> QED
        BY <2>4, <3>1, <3>2
  <2> QED
      BY <2>5, <2>6 DEF KidsFrom
<1>18. PICK R : R = Ends
    OBVIOUS
<1>19. Adopted(st, g, t, {d}, {p}, R)
  <2>1. R = {u.orig, u.split} \ {0}
      BY <1>2, <1>18 DEF Ends
  <2>2. st.mem[d].kids \in Seq(T) /\ i \in 1 .. Len(st.mem[d].kids) /\ KidsFrom(t, st.mem[d], i, u, {p}, at)
      BY <1>1, <1>8, <1>17
  <2> QED
      BY <1>8, <1>18, <2>1, <2>2, NewBranches, Zenon
<1>20. Refers(st, g, t, {d}, {p}, {}, {})
    BY <1>12, <1>15, BranchesRefer
<1>21. PICK h : Tree(t, h) /\ Loose(t, h, {p}) /\ Rewritten(st, g, t, h, {d}, {p}, R, l)
  <2>1. /\ \A x \in {p} : x \notin g.pages \cup g.stacks
        /\ Owned(t, ((g.pages \cup g.stacks) \ {d}) \cup {p})
        /\ \A x \in g.pages \cup g.stacks : t.mem[x] = st.mem[x]
      BY <1>13, <1>15
  <2>2. \A x \in {p} : /\ t.mem[x].kind = IF l = 0 THEN "leaf" ELSE "branch"
                       /\ t.mem[x].kind = "leaf" => t.mem[x].keys # <<>>
      BY <1>8, <1>12, <1>15
  <2> QED
      BY <1>8, <1>18, <1>19, <1>20, <2>1, <2>2, Replacing, Zenon
<1>22. Flags(st, t, w, d, l, p, 0)
  <2>1. t.mem[p].root = st.mem[d].root
      BY <1>1, <1>12, <1>15
  <2>2. w = <<>> => Grown(l, Len(t.mem[p].keys)) <= adds
    <3> SUFFICES ASSUME w = <<>> PROVE Grown(l, Len(t.mem[p].keys)) <= adds
        OBVIOUS
    <3>1. Grown(g.level[d], Len(pg.keys)) + 1 <= adds /\ g.level[d] = l
        BY <1>1, <1>8 DEF Roomy, Half
    <3>2. PICK k : k = LeafCap + BranchCap * (l - 1)
        OBVIOUS
    <3>3. PICK a1, b1 : a1 = Len(pg.keys) /\ b1 = n - 1
        OBVIOUS
    <3>4. /\ Grown(l, Len(pg.keys)) = k + (IF a1 = 0 THEN 1 ELSE a1)
          /\ Grown(l, Len(t.mem[p].keys)) = k + (IF b1 = 0 THEN 1 ELSE b1)
      <4>1. l # 0 /\ Len(t.mem[p].keys) = b1
          BY <1>12, <1>15, <3>3
      <4> QED
          BY <3>2, <3>3, <4>1, Zenon DEF Grown
    <3>5. k \in Int
      <4>1. l - 1 \in Int
          OBVIOUS
      <4> QED
          BY <3>2, <4>1, Sizes
    <3>6. adds \in Int
        OBVIOUS
    <3>7. a1 \in Nat /\ b1 \in Nat /\ b1 <= a1 + 1
        BY <1>8, <1>10, <3>3
    <3> QED
        BY <3>1, <3>4, <3>5, <3>6, <3>7
  <2> QED
      BY <2>1, <2>2 DEF Flags
<1>23. Hands(t, w, p, 0, u.mid)
    BY <1>3, <1>5 DEF Hands, Ascending
<1>24. PICK b, mid : b = 0 /\ mid = u.mid
    OBVIOUS
<1>25. /\ Half(st, g, d, w, R, l) /\ Roomy(st, g, d, w)
       /\ Rewritten(st, g, t, h, {d}, {p}, R, l) /\ Tree(t, h) /\ Loose(t, h, {p})
       /\ p \in Nat \ {0} /\ b \in Nat /\ mid \in Nat /\ p # b /\ {p} = {p, b} \ {0}
       /\ Flags(st, t, w, d, l, p, b) /\ Hands(t, w, p, b, mid)
       /\ root # 0 /\ call \in Inputs
  <2>1. p \in Nat \ {0} /\ b \in Nat /\ mid \in Nat /\ p # b /\ {p} = {p, b} \ {0}
      BY <1>8, <1>15, <1>24
  <2>2. root # 0 /\ call \in Inputs
      BY DEF Ascending
  <2> QED
      BY <1>8, <1>18, <1>21, <1>22, <1>23, <1>24, <2>1, <2>2
<1>26. Ascending(h)'
    BY <1>25, Returning
<1>27. BranchWritten(g, h)
  <2>1. /\ d = Waiting.page /\ w = Tail(path) /\ i = Waiting.child /\ pg = Parent /\ u = up
        /\ T = 1 .. st.end - 1 /\ t = st' /\ t.mem[p] = a /\ R = Ends
      BY <1>1, <1>2, <1>3, <1>6, <1>15, <1>18 DEF Parent
  <2>2. HasWide(st'.mem[p], Parent.root, 1 .. st.end - 1, Parent.kids, Parent.keys, Waiting.child, up,
                0, Len(Parent.kids) + Extra(up))
      BY <1>9, <1>11, <2>1, Zenon
  <2>3. /\ Half(st, g, Waiting.page, Tail(path), Ends, l)
        /\ Rewritten(st, g, st', h, {Waiting.page}, {p}, Ends, l)
        /\ Hands(st', Tail(path), p, 0, up.mid)
      BY <1>21, <1>8, <1>23, <2>1, Zenon
  <2> QED
      BY <2>2, <2>3, Zenon DEF BranchWritten
<1> QED
    BY <1>26, <1>27

\* The two halves of a branch have its children and the new ones, each once.
LEMMA TwoBranches ==
  ASSUME NEW t, NEW pg, NEW i, NEW u, NEW T, NEW p, NEW q, p # q, Len(pg.kids) \in Nat,
         NEW c \in Nat, NEW n \in Nat, c + n = Len(pg.kids) + Extra(u),
         HasWide(t.mem[p], FALSE, T, pg.kids, pg.keys, i, u, 0, c),
         HasWide(t.mem[q], FALSE, T, pg.kids, pg.keys, i, u, c, n)
  PROVE  \E at : KidsFrom(t, pg, i, u, {p, q}, at)
<1>1. PICK at : at = [x \in {p, q} |-> IF x = p THEN 0 ELSE c]
    BY Zenon
<1>2. at[p] = 0 /\ at[q] = c
    BY <1>1
<1>3. PICK m : m = Len(pg.kids) + Extra(u)
    OBVIOUS
<1>4. /\ t.mem[p].kind = "branch" /\ t.mem[p].kids \in Seq(T) /\ Len(t.mem[p].kids) = c
      /\ \A j \in 1 .. c : t.mem[p].kids[j] = WideKid(pg.kids, i, u, 0 + j)
    BY Zenon DEF HasWide
<1>5. /\ t.mem[q].kind = "branch" /\ t.mem[q].kids \in Seq(T) /\ Len(t.mem[q].kids) = n
      /\ \A j \in 1 .. n : t.mem[q].kids[j] = WideKid(pg.kids, i, u, c + j)
    BY DEF HasWide
<1>6. DOMAIN t.mem[p].kids = 1 .. c /\ DOMAIN t.mem[q].kids = 1 .. n
    BY <1>4, <1>5
<1>7. /\ \A j \in 1 .. c : 0 + j \in 1 .. m
      /\ \A j \in 1 .. n : c + j \in 1 .. m
  <2>1. m = c + n
      BY <1>3
  <2> QED
      BY <2>1
<1>8. /\ t.mem[p].kind = "branch" /\ at[p] \in Nat
      /\ \A j \in DOMAIN t.mem[p].kids :
           /\ at[p] + j \in 1 .. Len(pg.kids) + Extra(u)
           /\ t.mem[p].kids[j] = WideKid(pg.kids, i, u, at[p] + j)
    BY <1>2, <1>3, <1>4, <1>6, <1>7
<1>9. /\ t.mem[q].kind = "branch" /\ at[q] \in Nat
      /\ \A j \in DOMAIN t.mem[q].kids :
           /\ at[q] + j \in 1 .. Len(pg.kids) + Extra(u)
           /\ t.mem[q].kids[j] = WideKid(pg.kids, i, u, at[q] + j)
    BY <1>2, <1>3, <1>5, <1>6, <1>7
<1>10. \A x, y \in {p, q} : \A j \in DOMAIN t.mem[x].kids, k \in DOMAIN t.mem[y].kids :
         at[x] + j = at[y] + k => x = y /\ j = k
  <2>1. \A j \in 1 .. c, k \in 1 .. n : 0 + j # c + k
      OBVIOUS
  <2>2. \A j, k \in 1 .. c : 0 + j = 0 + k => j = k
      OBVIOUS
  <2>3. \A j, k \in 1 .. n : c + j = c + k => j = k
      OBVIOUS
  <2> QED
      BY <1>2, <1>6, <2>1, <2>2, <2>3
<1> QED
    BY <1>8, <1>9, <1>10 DEF KidsFrom

\* The branch has become branches p and q, the first c of its children in p.
BranchHalved(g, h) ==
  \E p, q, c, mid, l :
    /\ l \in Nat \ {0} /\ Half(st, g, Waiting.page, Tail(path), Ends, l)
    /\ p # q /\ q # 0 /\ up.split # 0 /\ Rewritten(st, g, st', h, {Waiting.page}, {p, q}, Ends, l)
    /\ c \in 2 .. Len(Parent.keys) + 1
    /\ HasWide(st'.mem[p], FALSE, 1 .. st.end - 1, Parent.kids, Parent.keys, Waiting.child, up, 0, c)
    /\ HasWide(st'.mem[q], FALSE, 1 .. st.end - 1, Parent.kids, Parent.keys, Waiting.child, up,
               c, Len(Parent.keys) + 2 - c)
    /\ mid = WideKey(Parent.keys, Waiting.child, up, c)
    /\ Hands(st', Tail(path), p, q, mid)

\* btree_branch_split, the branch being full.
LEMMA BranchSplitFormed ==
  ASSUME NEW g, Ascending(g), adds \in Nat, BranchSplitUp
  PROVE  \E h : Ascending(h)' /\ BranchHalved(g, h)
<1>1. PICK d, w, i, pg : d = Waiting.page /\ w = Tail(path) /\ i = Waiting.child /\ pg = st.mem[d]
    BY Zenon
<1>2. PICK o : o = up
    OBVIOUS
<1>3. PICK s2 : s2 = BranchSplit(pg, i, o)
    OBVIOUS
<1>4. PICK a, b : a = s2.left /\ b = s2.right
    OBVIOUS
<1>5. PICK u : u = PutNew(st, a)
    OBVIOUS
<1>6. PICK p, q, t : p = NextPage(st) /\ q = NextPage(u) /\ t = st'
    OBVIOUS
<1>7. /\ path # <<>> /\ o.split # 0 /\ ~(Len(pg.keys) < BranchCap)
      /\ t = Release(PutNew(u, b), d) /\ up' = [orig |-> p, split |-> q, mid |-> s2.mid]
      /\ cur' = cur /\ root' = root /\ adds' = adds /\ call' = call /\ path' = w
    BY <1>1, <1>2, <1>3, <1>4, <1>5, <1>6 DEF BranchSplitUp, GiveUp, Parent, BranchHasRoom
<1>8. PICK T : T = 1 .. st.end - 1
    OBVIOUS
<1>9. PICK l \in Nat \ {0} :
           /\ Half(st, g, d, w, Ends, l) /\ Roomy(st, g, d, w)
           /\ d \in Inner(st, g) /\ g.hole[d] = i /\ i \in 1 .. Len(pg.kids)
           /\ pg.keys \in Seq(Nat) /\ pg.kids \in Seq(T)
           /\ Len(pg.kids) = Len(pg.keys) + 1 /\ Len(pg.keys) <= BranchCap
           /\ Len(pg.keys) \in Nat /\ Len(pg.kids) \in Nat
           /\ Owned(st, g.pages \cup g.stacks) /\ d \in g.pages /\ OneParent(st, g) /\ Loose(st, g, Ends)
           /\ o.orig \in T /\ (o.split = 0 \/ o.split \in T)
           /\ o.orig # 0 /\ o.orig # o.split /\ o.mid \in Nat
    BY <1>1, <1>2, <1>7, <1>8, AtBranch, Zenon DEF Parent
<1>10. PICK m, c : m = Len(pg.keys) /\ c = Len(a.kids)
    BY Zenon
<1>11. m \in Nat /\ m = BranchCap /\ m >= 3 /\ Len(pg.kids) = m + 1
    BY <1>7, <1>9, <1>10, Sizes
<1>12. /\ c \in 2 .. m + 1
       /\ HasWide(a, FALSE, T, pg.kids, pg.keys, i, o, 0, c)
       /\ HasWide(b, FALSE, T, pg.kids, pg.keys, i, o, c, m + 2 - c)
       /\ s2.mid \in Nat /\ s2.mid = WideKey(pg.keys, i, o, c)
  <2>1. Len(pg.keys) >= 3 /\ o.split \in T /\ c = Len(s2.left.kids)
      BY <1>4, <1>7, <1>9, <1>10, <1>11
  <2>2. BranchHalves(s2, T, pg, i, o, c)
      BY <1>3, <1>7, <1>9, <2>1, BranchSplitIs, Zenon
  <2> QED
      BY <1>4, <1>10, <2>2, Zenon DEF BranchHalves
<1>13. PICK n : n = m + 2 - c
    OBVIOUS
<1>14. /\ c \in Nat /\ c >= 1 /\ c <= BranchCap + 1 /\ n \in Nat /\ n >= 1 /\ n <= BranchCap + 1
       /\ c + n = m + 2
    BY <1>11, <1>12, <1>13
<1>15. HasWide(b, FALSE, T, pg.kids, pg.keys, i, o, c, n)
    BY <1>12, <1>13, Zenon
<1>16. PageFits(a, st.end) /\ a.kind = "branch" /\ ~a.root
  <2>1. HasWide(a, FALSE, 1 .. st.end - 1, pg.kids, pg.keys, i, o, 0, c)
      BY <1>8, <1>12, Zenon
  <2> QED
      BY <1>14, <2>1, WideFits, Zenon
<1>17. PageFits(b, st.end) /\ b.kind = "branch" /\ ~b.root
  <2>1. HasWide(b, FALSE, 1 .. st.end - 1, pg.kids, pg.keys, i, o, c, n)
      BY <1>8, <1>15, Zenon
  <2> QED
      BY <1>14, <2>1, WideFits, Zenon
<1>18. PICK H : H = g.pages \cup g.stacks
    BY Zenon
<1>19. Halved(st, t, H, d, a, b, p, q)
  <2>1. Owned(st, H) /\ d \in H
      BY <1>9, <1>18
  <2> QED
      BY <1>5, <1>6, <1>7, <1>16, <1>17, <2>1, SplitOwned
<1>20. /\ Owned(t, (H \ {d}) \cup {p, q})
       /\ p \notin H /\ q \notin H /\ p # q
       /\ t.mem[p] = a /\ t.mem[q] = b
       /\ \A x \in H : t.mem[x] = st.mem[x]
       /\ t.end \in Nat /\ p \in 2 .. t.end - 1 /\ q \in 2 .. t.end - 1
    BY <1>19 DEF Halved
<1>21. PICK R : R = Ends
    OBVIOUS
<1>22. Adopted(st, g, t, {d}, {p, q}, R)
  <2>1. c + n = Len(pg.kids) + Extra(o)
      BY <1>7, <1>11, <1>14 DEF Extra
  <2>2. \E at : KidsFrom(t, pg, i, o, {p, q}, at)
      BY <1>9, <1>12, <1>14, <1>15, <1>20, <2>1, TwoBranches, Zenon
  <2>3. PICK at : KidsFrom(t, st.mem[d], i, o, {p, q}, at)
      BY <1>1, <2>2
  <2>4. R = {o.orig, o.split} \ {0}
      BY <1>2, <1>21 DEF Ends
  <2>5. st.mem[d].kids \in Seq(T) /\ i \in 1 .. Len(st.mem[d].kids)
      BY <1>1, <1>9
  <2> QED
      BY <1>9, <1>21, <2>3, <2>4, <2>5, NewBranches, Zenon
<1>23. Refers(st, g, t, {d}, {p, q}, {}, {})
    BY <1>16, <1>17, <1>20, BranchesRefer
<1>24. PICK h : Tree(t, h) /\ Loose(t, h, {p, q}) /\ Rewritten(st, g, t, h, {d}, {p, q}, R, l)
  <2>1. /\ \A x \in {p, q} : x \notin g.pages \cup g.stacks
        /\ Owned(t, ((g.pages \cup g.stacks) \ {d}) \cup {p, q})
        /\ \A x \in g.pages \cup g.stacks : t.mem[x] = st.mem[x]
      BY <1>18, <1>20
  <2>2. \A x \in {p, q} : /\ t.mem[x].kind = IF l = 0 THEN "leaf" ELSE "branch"
                          /\ t.mem[x].kind = "leaf" => t.mem[x].keys # <<>>
      BY <1>9, <1>16, <1>17, <1>20
  <2> QED
      BY <1>9, <1>21, <1>22, <1>23, <2>1, <2>2, Replacing, Zenon
<1>25. w = <<>> => Grown(l + 1, 1) <= adds
  <2> SUFFICES ASSUME w = <<>> PROVE Grown(l + 1, 1) <= adds
      OBVIOUS
  <2>1. Grown(g.level[d], Len(pg.keys)) + 1 <= adds /\ g.level[d] = l
      BY <1>1, <1>9 DEF Roomy, Half
  <2>2. PICK k : k = l - 1
      OBVIOUS
  <2>3. k \in Nat /\ l = k + 1 /\ l + 1 # 0 /\ (l + 1) - 1 = k + 1
    <3>1. l \in Nat /\ l >= 1
        OBVIOUS
    <3> QED
        BY <2>2, <3>1
  <2>4. Grown(l, Len(pg.keys)) = LeafCap + BranchCap * k + BranchCap /\ Grown(l + 1, 1) = LeafCap + BranchCap * (k + 1) + 1
      BY <1>9, <1>10, <1>11, <2>2, <2>3 DEF Grown
  <2>5. PICK f : f = BranchCap * k
      OBVIOUS
  <2>6. f \in Int /\ BranchCap * (k + 1) = f + BranchCap
      BY <2>3, <2>5, Sizes
  <2> QED
      BY <2>1, <2>4, <2>5, <2>6, Sizes
<1>26. /\ p \in Nat \ {0} /\ q \in Nat /\ p # q /\ {p, q} = {p, q} \ {0}
       /\ Flags(st, t, w, d, l, p, q) /\ Hands(t, w, p, q, s2.mid)
  <2>1. p \in Nat \ {0} /\ q \in Nat /\ q # 0 /\ p # q
      BY <1>20
  <2>2. ~t.mem[p].root /\ ~t.mem[q].root
      BY <1>16, <1>17, <1>20
  <2>3. Flags(st, t, w, d, l, p, q)
      BY <1>25, <2>1, <2>2 DEF Flags
  <2>4. Hands(t, w, p, q, s2.mid)
      BY <1>6, <1>7 DEF Hands, Ascending
  <2> QED
      BY <2>1, <2>3, <2>4
<1>27. Ascending(h)'
  <2>1. PICK mid : mid = s2.mid
      OBVIOUS
  <2>2. root # 0 /\ call \in Inputs
      BY DEF Ascending
  <2>3. /\ Half(st, g, d, w, R, l) /\ Roomy(st, g, d, w)
        /\ Rewritten(st, g, t, h, {d}, {p, q}, R, l) /\ Tree(t, h) /\ Loose(t, h, {p, q})
        /\ p \in Nat \ {0} /\ q \in Nat /\ mid \in Nat /\ p # q /\ {p, q} = {p, q} \ {0}
        /\ Flags(st, t, w, d, l, p, q) /\ Hands(t, w, p, q, mid)
        /\ root # 0 /\ call \in Inputs
      BY <1>9, <1>12, <1>21, <1>24, <1>26, <2>1, <2>2, Zenon
  <2> QED
      BY <2>3, Returning
<1>28. BranchHalved(g, h)
  <2>1. /\ d = Waiting.page /\ w = Tail(path) /\ i = Waiting.child /\ pg = Parent /\ o = up /\ m = Len(Parent.keys)
        /\ T = 1 .. st.end - 1 /\ t = st' /\ t.mem[p] = a /\ t.mem[q] = b /\ R = Ends /\ q # 0
      BY <1>1, <1>2, <1>6, <1>8, <1>10, <1>20, <1>21 DEF Parent
  <2>2. /\ HasWide(st'.mem[p], FALSE, 1 .. st.end - 1, Parent.kids, Parent.keys, Waiting.child, up, 0, c)
        /\ HasWide(st'.mem[q], FALSE, 1 .. st.end - 1, Parent.kids, Parent.keys, Waiting.child, up,
                   c, Len(Parent.keys) + 2 - c)
        /\ c \in 2 .. Len(Parent.keys) + 1 /\ s2.mid = WideKey(Parent.keys, Waiting.child, up, c)
      BY <1>12, <2>1, Zenon
  <2>3. /\ Half(st, g, Waiting.page, Tail(path), Ends, l)
        /\ Rewritten(st, g, st', h, {Waiting.page}, {p, q}, Ends, l)
        /\ Hands(st', Tail(path), p, q, s2.mid) /\ up.split # 0 /\ p # q
      BY <1>7, <1>9, <1>24, <1>26, <2>1, Zenon
  <2> QED
      BY <2>1, <2>2, <2>3, Zenon DEF BranchHalved
<1> QED
    BY <1>27, <1>28

(* btree_leaf_add_dup. *)

\* Store t has, in page z, the values of overflow page p and one more: z stands
\* for p, or in front of it when p is full.
Pushed(s, t, H, p, val, z) ==
  /\ z \notin H /\ z \in 2 .. t.end - 1
  /\ \A q \in H : t.mem[q] = s.mem[q]
  /\ s.end <= t.end /\ s.end \in Nat /\ t.end \in Nat
  /\ \/ Owned(t, H \cup {z}) /\ t.mem[z] = Stack(<<val>>, p) /\ Len(s.mem[p].vals) = StackCap
     \/ /\ Owned(t, (H \ {p}) \cup {z}) /\ Len(s.mem[p].vals) # StackCap
        /\ t.mem[z] = Stack(Append(s.mem[p].vals, val), s.mem[p].next)

\* bstack_add: the stack begins with a page nobody used.
LEMMA StackAddOwned ==
  ASSUME NEW s, NEW H, Owned(s, H), NEW p \in H, s.mem[p].kind = "stack", NEW val \in Nat,
         NEW t, t = StackAdd(s, p, val), NEW z, z = NextPage(s)
  PROVE  Pushed(s, t, H, p, val, z)
<1>1. PICK pg : pg = s.mem[p]
    OBVIOUS
<1>2. /\ StoreFits(s) /\ s.end \in Nat /\ p \in 2 .. s.end - 1 /\ PageFits(pg, s.end)
    BY <1>1 DEF Owned, StoreFits
<1>3. pg.vals \in Seq(Nat) /\ Len(pg.vals) <= StackCap /\ pg.next \in 0 .. s.end - 1
    BY <1>1, <1>2 DEF PageFits
<1>4. CASE Len(pg.vals) = StackCap
  <2>1. PICK c : c = Stack(<<val>>, p)
      OBVIOUS
  <2>2. t = PutNew(s, c)
      BY <1>1, <1>4, <2>1 DEF StackAdd
  <2>3. PageFits(c, s.end)
    <3>1. <<val>> \in Seq(Nat) /\ Len(<<val>>) = 1 /\ p \in 0 .. s.end - 1
        BY <1>2
    <3>2. c.kind = "stack" /\ c.vals = <<val>> /\ c.next = p
        BY <2>1 DEF Stack
    <3> QED
        BY <3>1, <3>2, Sizes DEF PageFits
  <2>4. Taken(s, t, H, z, c)
      BY <2>2, <2>3, PutNewOwned, Zenon
  <2> QED
      BY <1>1, <1>4, <2>1, <2>4 DEF Taken, Pushed
<1>5. CASE Len(pg.vals) # StackCap
  <2>1. PICK c : c = Stack(Append(pg.vals, val), pg.next)
      OBVIOUS
  <2>2. t = Replace(s, p, c)
      BY <1>1, <1>5, <2>1 DEF StackAdd, Replace
  <2>3. PageFits(c, s.end)
    <3>1. Append(pg.vals, val) \in Seq(Nat) /\ Len(Append(pg.vals, val)) = Len(pg.vals) + 1 /\ Len(pg.vals) \in Nat
        BY <1>3
    <3>2. c.kind = "stack" /\ c.vals = Append(pg.vals, val) /\ c.next = pg.next
        BY <2>1 DEF Stack
    <3>3. Len(pg.vals) + 1 <= StackCap
        BY <1>3, <1>5, <3>1, Sizes
    <3> QED
        BY <1>3, <3>1, <3>2, <3>3 DEF PageFits
  <2>4. Swapped(s, t, H, p, c, z)
      BY <2>2, <2>3, ReplaceOwned, Zenon
  <2> QED
      BY <1>1, <1>5, <2>1, <2>4 DEF Swapped, Pushed
<1> QED
    BY <1>4, <1>5

\* The stack of an item's values in store a, page z its first; the overflow
\* pages are now those of x.
Stored2(s, g, a, x, d, O, W, z) ==
  /\ Restacked(s, g, a, x, {d}, O, W, {z}, z)
  /\ Owned(a, g.pages \cup x.stacks) /\ z \notin g.pages \cup g.stacks
  /\ \A q \in g.pages : a.mem[q] = s.mem[q]
  /\ s.end <= a.end /\ s.end \in Nat /\ a.end \in Nat
  /\ z \in 2 .. a.end - 1

\* The item has its stack already: it begins with page p.
LEMMA StackGrows ==
  ASSUME NEW s, NEW g, Tree(s, g), NEW d \in Leaves(s, g), NEW i \in Marked(s, d),
         NEW p, p = s.mem[d].vals[i], NEW val \in Nat,
         NEW a, a = StackAdd(s, p, val), NEW z, z = NextPage(s)
  PROVE  \E x, O : Stored2(s, g, a, x, d, O, {p}, z)
<1>1. /\ Owned(s, g.pages \cup g.stacks) /\ g.pages \cap g.stacks = {} /\ Stacked(s, g)
    BY Zenon DEF Tree
<1>2. /\ p \in g.stacks /\ g.first[p] = p /\ s.mem[p].kind = "stack"
      /\ s.mem[p].next # 0 => /\ s.mem[p].next \in g.stacks
                              /\ g.first[s.mem[p].next] = p
                              /\ s.mem[p].next # p
  <2>0. \A q \in Leaves(s, g) : \A j \in Marked(s, q) :
          s.mem[q].vals[j] \in g.stacks /\ g.first[s.mem[q].vals[j]] = s.mem[q].vals[j]
      BY <1>1, Zenon DEF Stacked
  <2>1. p \in g.stacks /\ g.first[p] = p
      BY <2>0
  <2>2. /\ s.mem[p].kind = "stack"
        /\ s.mem[p].next # 0 => /\ s.mem[p].next \in g.stacks
                                /\ g.first[s.mem[p].next] = g.first[p]
                                /\ s.mem[p].next # g.first[p]
      BY <1>1, <2>1, Zenon DEF Stacked
  <2> QED
      BY <2>1, <2>2, Zenon
<1>3. PICK H : H = g.pages \cup g.stacks
    BY Zenon
<1>4. Pushed(s, a, H, p, val, z)
    BY <1>1, <1>2, <1>3, StackAddOwned
<1>5. PICK O : O = IF Len(s.mem[p].vals) = StackCap THEN {} ELSE {p}
    BY Zenon
<1>6. /\ O \subseteq {p} /\ z \notin H /\ z \in 2 .. a.end - 1
      /\ \A q \in H : a.mem[q] = s.mem[q]
      /\ s.end <= a.end /\ s.end \in Nat /\ a.end \in Nat
    BY <1>4, <1>5, Zenon DEF Pushed
<1>7. Owned(a, (H \ O) \cup {z})
  <2>1. H \ {} = H
      BY Zenon
  <2> QED
      BY <1>4, <1>5, <2>1, Zenon DEF Pushed
<1>8. /\ a.mem[z].kind = "stack"
      /\ O = {} => a.mem[z].next = p
      /\ O # {} => a.mem[z].next = s.mem[p].next /\ O = {p}
  <2>1. \A vals, next : Stack(vals, next).kind = "stack" /\ Stack(vals, next).next = next
      BY DEF Stack
  <2>2. CASE Len(s.mem[p].vals) = StackCap
    <3>1. a.mem[z] = Stack(<<val>>, p) /\ O = {}
        BY <1>4, <1>5, <2>2 DEF Pushed
    <3> QED
        BY <2>1, <3>1
  <2>3. CASE Len(s.mem[p].vals) # StackCap
    <3>1. a.mem[z] = Stack(Append(s.mem[p].vals, val), s.mem[p].next) /\ O = {p}
        BY <1>4, <1>5, <2>3, Zenon DEF Pushed
    <3>2. a.mem[z].kind = "stack" /\ a.mem[z].next = s.mem[p].next
      <4>1. PICK c, v, n : c = Stack(v, n) /\ v = Append(s.mem[p].vals, val) /\ n = s.mem[p].next
          BY Zenon
      <4>2. c.kind = "stack" /\ c.next = n
          BY <4>1, Zenon DEF Stack
      <4>3. a.mem[z] = c
          BY <3>1, <4>1, Zenon
      <4> QED
          BY <4>1, <4>2, <4>3, Zenon
    <3>3. O # {}
        BY <3>1, Zenon
    <3> QED
        BY <3>1, <3>2, <3>3, Zenon
  <2> QED
      BY <2>2, <2>3
<1>9. PICK S : S = (g.stacks \ O) \cup {z}
    BY Zenon
<1>10. PICK first : first = [y \in S |-> IF y = z THEN z ELSE IF g.first[y] = p THEN z ELSE g.first[y]]
    BY Zenon
<1>11. PICK x : x = [stacks |-> S, first |-> first]
    BY Zenon
<1>12. x.stacks = S /\ x.first = first
    BY <1>11, Zenon
<1>13. /\ first[z] = z
       /\ \A y \in g.stacks \ O : first[y] = IF g.first[y] \in {p} THEN z ELSE g.first[y]
    BY <1>3, <1>6, <1>9, <1>10
<1>14. \A q \in Leaves(s, g) \ {d} : \A j \in Marked(s, q) : s.mem[q].vals[j] \notin {p}
    BY <1>1 DEF Stacked
<1>15. a.mem[z].next # 0 => /\ a.mem[z].next \in S /\ first[a.mem[z].next] = z /\ a.mem[z].next # z
  <2>1. CASE O = {}
    <3>1. a.mem[z].next = p /\ p \in g.stacks \ O /\ p # z
        BY <1>2, <1>3, <1>6, <1>8, <2>1
    <3> QED
        BY <1>2, <1>9, <1>13, <3>1, Zenon
  <2>2. CASE O # {}
    <3> SUFFICES ASSUME a.mem[z].next # 0
                 PROVE  a.mem[z].next \in S /\ first[a.mem[z].next] = z /\ a.mem[z].next # z
        BY Zenon
    <3>1. PICK q : q = a.mem[z].next
        BY Zenon
    <3>2. q = s.mem[p].next /\ O = {p} /\ q # 0
        BY <1>8, <2>2, <3>1, Zenon
    <3>3. q \in g.stacks /\ g.first[q] = p /\ q # p
        BY <1>2, <3>2
    <3>4. q \in g.stacks \ O /\ q # z
        BY <1>3, <1>6, <3>2, <3>3, Zenon
    <3> QED
        BY <1>9, <1>13, <3>1, <3>3, <3>4, Zenon
  <2> QED
      BY <2>1, <2>2, Zenon
<1>16. Restacked(s, g, a, x, {d}, O, {p}, {z}, z)
  <2>1. \A y \in g.stacks \ O : a.mem[y] = s.mem[y]
      BY <1>3, <1>6, Zenon
  <2>2. \A o \in O : g.first[o] = o
      BY <1>2, <1>6
  <2>3. z \notin g.stacks
      BY <1>3, <1>6, Zenon
  <2> QED
      BY <1>6, <1>8, <1>9, <1>12, <1>13, <1>14, <1>15, <2>1, <2>2, <2>3, Zenon DEF Restacked
<1>17. (H \ O) \cup {z} = g.pages \cup S
    BY <1>1, <1>2, <1>3, <1>6, <1>9
<1> QED
    BY <1>3, <1>6, <1>7, <1>12, <1>16, <1>17, Zenon DEF Stored2

\* The item has no stack yet: it is made of an empty page, with both values.
LEMMA StackBegins ==
  ASSUME NEW s, NEW g, Tree(s, g), NEW d, NEW old \in Nat, NEW val \in Nat,
         NEW created, created = PutNew(s, Stack(<<>>, 0)), NEW e, e = NextPage(s),
         NEW before, before = StackAdd(created, e, old), NEW f, f = NextPage(created),
         NEW a, a = StackAdd(before, f, val), NEW z, z = NextPage(before)
  PROVE  \E x : Stored2(s, g, a, x, d, {}, {}, z)
<1>1. /\ Owned(s, g.pages \cup g.stacks) /\ g.pages \cap g.stacks = {}
    BY DEF Tree
<1>2. PICK H, c : H = g.pages \cup g.stacks /\ c = Stack(<<>>, 0)
    BY Zenon
<1>3. PageFits(c, s.end)
  <2>1. s.end \in Nat /\ s.end >= 2
      BY <1>1 DEF Owned, StoreFits
  <2>2. <<>> \in Seq(Nat) /\ Len(<<>>) = 0 /\ 0 \in 0 .. s.end - 1
      BY <2>1
  <2> QED
      BY <1>2, <2>2, Sizes DEF PageFits, Stack
<1>4. Taken(s, created, H, e, c)
    BY <1>1, <1>2, <1>3, PutNewOwned
<1>5. /\ Owned(created, H \cup {e}) /\ e \notin H /\ created.mem[e] = c
      /\ \A q \in H : created.mem[q] = s.mem[q]
      /\ s.end <= created.end /\ s.end \in Nat /\ created.end \in Nat
    BY <1>4 DEF Taken
<1>6. c.kind = "stack" /\ c.vals = <<>> /\ c.next = 0
    BY <1>2 DEF Stack
<1>7. PICK K : K = H \cup {e}
    BY Zenon
<1>8. Pushed(created, before, K, e, old, f)
    BY <1>5, <1>6, <1>7, StackAddOwned
<1>9. /\ f \notin K /\ Owned(before, (K \ {e}) \cup {f})
      /\ before.mem[f] = Stack(Append(<<>>, old), 0)
      /\ \A q \in K : before.mem[q] = created.mem[q]
      /\ created.end <= before.end /\ before.end \in Nat
  <2>1. Len(<<>>) # StackCap
      BY Sizes
  <2> QED
      BY <1>5, <1>6, <1>8, <2>1, Zenon DEF Pushed
<1>10. PICK L : L = H \cup {f}
    BY Zenon
<1>11. Owned(before, L) /\ f \in L /\ f \notin H
  <2>1. (K \ {e}) \cup {f} = L
      BY <1>5, <1>7, <1>10
  <2> QED
      BY <1>7, <1>9, <1>10, <2>1, Zenon
<1>12. /\ before.mem[f].kind = "stack" /\ before.mem[f].vals = <<old>> /\ before.mem[f].next = 0
    BY <1>9 DEF Stack
<1>13. Pushed(before, a, L, f, val, z)
    BY <1>11, <1>12, StackAddOwned
<1>14. /\ z \notin L /\ Owned(a, (L \ {f}) \cup {z}) /\ z \in 2 .. a.end - 1
       /\ a.mem[z].kind = "stack" /\ a.mem[z].next = 0
       /\ \A q \in L : a.mem[q] = before.mem[q]
       /\ before.end <= a.end /\ a.end \in Nat
  <2>1. Len(before.mem[f].vals) # StackCap
    <3>1. PICK v : v = before.mem[f].vals
        BY Zenon
    <3>2. v = <<old>>
        BY <1>12, <3>1, Zenon
    <3>3. Len(v) = 1
        BY ONLY <3>2
    <3> QED
        BY <3>1, <3>3, Sizes
  <2>2. /\ z \notin L /\ Owned(a, (L \ {f}) \cup {z}) /\ z \in 2 .. a.end - 1
        /\ a.mem[z] = Stack(Append(before.mem[f].vals, val), before.mem[f].next)
        /\ \A q \in L : a.mem[q] = before.mem[q]
        /\ before.end <= a.end /\ a.end \in Nat
      BY <1>13, <2>1, Zenon DEF Pushed
  <2>3. \A vals, next : Stack(vals, next).kind = "stack" /\ Stack(vals, next).next = next
      BY DEF Stack
  <2>4. a.mem[z].kind = "stack" /\ a.mem[z].next = 0
    <3>1. PICK vals, next : vals = Append(before.mem[f].vals, val) /\ next = before.mem[f].next
        BY Zenon
    <3>2. PICK b : b = Stack(vals, next)
        BY Zenon
    <3>3. a.mem[z] = b /\ next = 0
        BY <1>12, <2>2, <3>1, <3>2, Zenon
    <3>4. b.kind = "stack" /\ b.next = next
        BY <2>3, <3>2, Zenon
    <3> QED
        BY <3>3, <3>4, Zenon
  <2> QED
      BY <2>2, <2>4, Zenon
<1>15. Owned(a, H \cup {z})
  <2>1. (L \ {f}) \cup {z} = H \cup {z}
      BY <1>10, <1>11
  <2> QED
      BY <1>14, <2>1, Zenon
<1>16. \A q \in H : a.mem[q] = s.mem[q]
    BY <1>5, <1>7, <1>9, <1>10, <1>14
<1>17. z \notin H /\ s.end <= a.end /\ s.end \in Nat /\ a.end \in Nat
    BY <1>5, <1>9, <1>10, <1>14
<1>18. PICK S : S = (g.stacks \ {}) \cup {z}
    BY Zenon
<1>19. PICK first : first = [y \in S |-> IF y = z THEN z ELSE g.first[y]]
    BY Zenon
<1>20. PICK x : x = [stacks |-> S, first |-> first]
    BY Zenon
<1>21. x.stacks = S /\ x.first = first /\ first[z] = z /\ \A y \in g.stacks \ {} : first[y] = g.first[y]
    BY <1>2, <1>17, <1>18, <1>19, <1>20
<1>22. Restacked(s, g, a, x, {d}, {}, {}, {z}, z)
  <2>1. z \notin g.stacks /\ \A y \in g.stacks \ {} : a.mem[y] = s.mem[y]
      BY <1>2, <1>16, <1>17
  <2> QED
      BY <1>14, <1>18, <1>21, <2>1 DEF Restacked
<1>23. H \cup {z} = g.pages \cup S
    BY <1>2, <1>18
<1> QED
    BY <1>2, <1>14, <1>15, <1>16, <1>17, <1>21, <1>22, <1>23, Zenon DEF Stored2

\* What a store's memory is elsewhere does not matter to the overflow pages.
LEMMA RestackedSame ==
  ASSUME NEW s, NEW g, NEW a, NEW t, NEW x, NEW D, NEW O, NEW W, NEW z,
         Restacked(s, g, a, x, D, O, W, {z}, z), \A q \in x.stacks : t.mem[q] = a.mem[q]
  PROVE  Restacked(s, g, t, x, D, O, W, {z}, z)
<1>1. \A q \in g.stacks \ O : t.mem[q] = a.mem[q]
    BY DEF Restacked
<1>2. z \in x.stacks
    BY DEF Restacked
<1>3. t.mem[z] = a.mem[z]
    BY <1>2
<1> QED
    BY <1>1, <1>3 DEF Restacked

\* Leaf n stands for leaf d; its item i has stack z, and all else is as in d.
Marks(s, t, d, n, i, z) ==
  /\ t.mem[n].kind = "leaf"
  /\ DOMAIN t.mem[n].keys = DOMAIN s.mem[d].keys
  /\ \A j \in DOMAIN s.mem[d].keys \ {i} : /\ t.mem[n].keys[j] = s.mem[d].keys[j]
                                           /\ t.mem[n].vals[j] = s.mem[d].vals[j]
  /\ t.mem[n].vals[i] = z

\* The copy refers to the stacks the leaf referred to, but for its item's, which
\* is now z.
LEMMA MarkedRefers ==
  ASSUME NEW s, NEW g, NEW t, NEW d \in Leaves(s, g), NEW n, NEW i \in DOMAIN s.mem[d].keys, NEW z, NEW W,
         Stacked(s, g), Marks(s, t, d, n, i, z), z \notin g.stacks,
         i \in Marked(s, d) => W = {s.mem[d].vals[i]}, i \notin Marked(s, d) => W = {}
  PROVE  Refers(s, g, t, {d}, {n}, W, {z})
<1>1. \A j \in Marked(t, n) : j # i => j \in Marked(s, d) /\ t.mem[n].vals[j] = s.mem[d].vals[j]
    BY DEF Marked, Marks
<1>2. t.mem[n].vals[i] = z
    BY DEF Marks
<1>3. \A j \in Marked(s, d) : j # i => s.mem[d].vals[j] \notin W
    BY DEF Stacked
<1>4. \A j \in Marked(s, d) : s.mem[d].vals[j] # z
    BY DEF Stacked
<1>5. \A j \in Marked(t, n) :
        \/ t.mem[n].vals[j] \in {z}
        \/ \E i2 \in Marked(s, d) : t.mem[n].vals[j] = s.mem[d].vals[i2] /\ s.mem[d].vals[i2] \notin W
    BY <1>1, <1>2, <1>3
<1>6. \A j, k \in Marked(t, n) : t.mem[n].vals[j] = t.mem[n].vals[k] => j = k
  <2> SUFFICES ASSUME NEW j \in Marked(t, n), NEW k \in Marked(t, n), t.mem[n].vals[j] = t.mem[n].vals[k]
               PROVE  j = k
      OBVIOUS
  <2>1. CASE j = i \/ k = i
      BY <1>1, <1>2, <1>4, <2>1
  <2>2. CASE j # i /\ k # i
      BY <1>1, <2>2 DEF Stacked
  <2> QED
      BY <2>1, <2>2
<1> QED
    BY <1>5, <1>6 DEF Refers

\* btree_leaf_add_dup, the key being there already.
LEMMA LeafAddDupFormed ==
  ASSUME NEW g, Descending(g), adds \in Nat, LeafAddDup
  PROVE  \E h : Ascending(h)'
<1>1. PICK i, raw, old, val : i = Place /\ raw = At.keys[i] /\ old = At.vals[i] /\ val = call[2]
    OBVIOUS
<1>2. PICK created, e : created = PutNew(st, Stack(<<>>, 0)) /\ e = NextPage(st)
    OBVIOUS
<1>3. PICK before : before = IF HasOverflow(raw) THEN st ELSE StackAdd(created, e, old)
    OBVIOUS
<1>4. PICK stack : stack = IF HasOverflow(raw) THEN old ELSE NextPage(created)
    OBVIOUS
<1>5. PICK added : added = StackAdd(before, stack, val)
    OBVIOUS
<1>6. PICK z, n : z = NextPage(before) /\ n = NextPage(added)
    OBVIOUS
<1>7. PICK c : c = Leaf(At.root, ReplaceAt(At.keys, i, SetOverflow(raw)), ReplaceAt(At.vals, i, z))
    OBVIOUS
<1>8. PICK t : t = st'
    OBVIOUS
<1>9. /\ At.kind = "leaf" /\ LeafHas(At, call[1])
      /\ t = Replace(added, cur, c) /\ up' = [orig |-> n, split |-> 0, mid |-> call[1]]
      /\ cur' = 0 /\ root' = root /\ adds' = adds /\ call' = call /\ path' = path
    BY <1>1, <1>2, <1>3, <1>4, <1>5, <1>6, <1>7, <1>8 DEF LeafAddDup, GiveUp
<1>10. call \in Inputs /\ root # 0
    BY DEF Descending
<1>11. PICK h0 : /\ Half(st, h0, cur, path, {}, 0) /\ Roomy(st, h0, cur, path)
                 /\ cur \in Leaves(st, h0) /\ Stacked(st, h0)
                 /\ At.keys \in Seq(Nat) /\ At.vals \in Seq(Nat) /\ Len(At.vals) = Len(At.keys)
                 /\ Len(At.keys) \in Nat /\ Len(At.keys) <= LeafCap
                 /\ StoreFits(st) /\ Owned(st, h0.pages \cup h0.stacks) /\ cur \in h0.pages
                 /\ h0.pages \cap h0.stacks = {}
    BY <1>9, AtLeaf, Zenon
<1>12. PICK m : m = Len(At.keys)
    BY Zenon
<1>13. call[1] \in Nat /\ val \in Nat
    BY <1>1, <1>10, InputIs
<1>14. i \in 1 .. m /\ DOMAIN At.keys = 1 .. m /\ DOMAIN At.vals = 1 .. m /\ raw \in Nat /\ old \in Nat
  <2>1. i \in 1 .. Len(At.keys) + 1 /\ i = LeafFind(At, call[1])
      BY <1>1, <1>11, <1>13, LeafFindIs DEF Place
  <2>2. i <= Len(At.keys)
      BY <1>9, <2>1 DEF LeafHas
  <2>3. i \in 1 .. m
      BY <1>11, <1>12, <2>1, <2>2
  <2>4. PICK keys, vals : keys = At.keys /\ vals = At.vals
      BY Zenon
  <2>5. keys \in Seq(Nat) /\ vals \in Seq(Nat) /\ Len(keys) = m /\ Len(vals) = m
      BY <1>11, <1>12, <2>4, Zenon
  <2>6. DOMAIN keys = 1 .. m /\ DOMAIN vals = 1 .. m
      BY ONLY <2>5
  <2>7. keys[i] \in Nat /\ vals[i] \in Nat
      BY ONLY <2>3, <2>5
  <2>8. raw = keys[i] /\ old = vals[i]
      BY <1>1, <2>4, Zenon
  <2> QED
      BY <2>3, <2>4, <2>6, <2>7, <2>8, Zenon
<1>15. Tree(st, h0)
    BY <1>11 DEF Half
<1>16. PICK W : W = IF HasOverflow(raw) THEN {old} ELSE {}
    BY Zenon
<1>17. i \in Marked(st, cur) <=> HasOverflow(raw)
    BY <1>1, <1>12, <1>14 DEF Marked, At
<1>18. \E x, O : Stored2(st, h0, added, x, cur, O, W, z)
  <2>1. CASE HasOverflow(raw)
    <3>1. old = st.mem[cur].vals[i] /\ i \in Marked(st, cur)
        BY <1>1, <1>17, <2>1 DEF At
    <3>2. added = StackAdd(st, old, val) /\ z = NextPage(st) /\ W = {old}
        BY <1>3, <1>4, <1>5, <1>6, <1>16, <2>1
    <3> QED
        BY <1>11, <1>13, <1>15, <3>1, <3>2, StackGrows, Zenon
  <2>2. CASE ~HasOverflow(raw)
    <3>1. before = StackAdd(created, e, old) /\ stack = NextPage(created) /\ W = {}
        BY <1>3, <1>4, <1>16, <2>2
    <3>2. \E x : Stored2(st, h0, added, x, cur, {}, {}, z)
        BY <1>2, <1>5, <1>6, <1>13, <1>14, <1>15, <3>1, StackBegins, Zenon
    <3> QED
        BY <3>1, <3>2
  <2> QED
      BY <2>1, <2>2
<1>19. PICK x, O : Stored2(st, h0, added, x, cur, O, W, z)
    BY <1>18
<1>20. /\ Restacked(st, h0, added, x, {cur}, O, W, {z}, z)
       /\ Owned(added, h0.pages \cup x.stacks) /\ z \notin h0.pages \cup h0.stacks
       /\ \A q \in h0.pages : added.mem[q] = st.mem[q]
       /\ z \in 2 .. added.end - 1 /\ added.end \in Nat
    BY <1>19 DEF Stored2
<1>21. /\ c.kind = "leaf" /\ c.root = At.root
       /\ c.keys \in Seq(Nat) /\ c.vals \in Seq(Nat) /\ Len(c.keys) = m /\ Len(c.vals) = m
       /\ \A j \in 1 .. m \ {i} : c.keys[j] = At.keys[j] /\ c.vals[j] = At.vals[j]
       /\ c.vals[i] = z
  <2>1. PICK k : k = SetOverflow(raw)
      OBVIOUS
  <2>2. k \in Nat
      BY <1>14, <2>1, Sizes DEF SetOverflow
  <2>3. z \in Nat
      BY <1>20
  <2>4. PICK keys, vals : keys = At.keys /\ vals = At.vals
      BY Zenon
  <2>5. /\ c.keys = [keys EXCEPT ![i] = k] /\ c.vals = [vals EXCEPT ![i] = z]
        /\ c.kind = "leaf" /\ c.root = At.root
      BY <1>7, <2>1, <2>4 DEF Leaf, ReplaceAt
  <2>6. keys \in Seq(Nat) /\ vals \in Seq(Nat) /\ Len(keys) = m /\ Len(vals) = m /\ i \in 1 .. m
      BY <1>11, <1>12, <1>14, <2>4, Zenon
  <2>7. PICK ks, vs : ks = [keys EXCEPT ![i] = k] /\ vs = [vals EXCEPT ![i] = z]
      BY Zenon
  <2>8. /\ ks \in Seq(Nat) /\ Len(ks) = m
        /\ \A j \in 1 .. m \ {i} : ks[j] = keys[j]
      BY ONLY <2>2, <2>6, <2>7
  <2>9. /\ vs \in Seq(Nat) /\ Len(vs) = m /\ vs[i] = z
        /\ \A j \in 1 .. m \ {i} : vs[j] = vals[j]
      BY ONLY <2>3, <2>6, <2>7
  <2>10. c.keys = ks /\ c.vals = vs
      BY <2>5, <2>7, Zenon
  <2> QED
      BY <2>4, <2>5, <2>8, <2>9, <2>10, Zenon
<1>22. PageFits(c, added.end)
    BY <1>11, <1>12, <1>21 DEF PageFits
<1>23. PICK K : K = h0.pages \cup x.stacks
    BY Zenon
<1>24. Swapped(added, t, K, cur, c, n)
  <2>1. Owned(added, K) /\ cur \in K
      BY <1>11, <1>20, <1>23
  <2> QED
      BY <1>6, <1>9, <1>22, <2>1, ReplaceOwned, Zenon
<1>25. /\ Owned(t, (K \ {cur}) \cup {n})
       /\ n \notin K /\ t.mem[n] = c
       /\ \A q \in K : t.mem[q] = added.mem[q]
       /\ t.end \in Nat /\ n \in 2 .. t.end - 1
    BY <1>24 DEF Swapped
<1>26. Restacked(st, h0, t, x, {cur}, O, W, {z}, z)
    BY <1>20, <1>23, <1>25, RestackedSame
<1>27. x.stacks \subseteq h0.stacks \cup {z}
    BY <1>20 DEF Restacked
<1>28. Placed(st, h0, t, x, {cur}, {n}, 0)
  <2>1. {n} \cap h0.pages = {}
      BY <1>23, <1>25
  <2>2. h0.pages \cap x.stacks = {}
      BY <1>11, <1>20, <1>27
  <2>3. ((h0.pages \ {cur}) \cup {n}) \cap x.stacks = {}
      BY <1>23, <1>25, <2>2
  <2>4. (K \ {cur}) \cup {n} = ((h0.pages \ {cur}) \cup {n}) \cup x.stacks
      BY <1>11, <1>23, <2>2
  <2>5. Owned(t, ((h0.pages \ {cur}) \cup {n}) \cup x.stacks)
      BY <1>25, <2>4, Zenon
  <2>6. \A q \in h0.pages \ {cur} : t.mem[q] = st.mem[q]
      BY <1>20, <1>23, <1>25
  <2>7. c.keys # <<>>
      BY <1>14, <1>21
  <2>8. \A q \in {n} : /\ t.mem[q].kind = IF 0 = 0 THEN "leaf" ELSE "branch"
                       /\ t.mem[q].kind = "leaf" => t.mem[q].root \/ t.mem[q].keys # <<>>
      BY <1>21, <1>25, <2>7
  <2> QED
      BY <2>1, <2>3, <2>5, <2>6, <2>8 DEF Placed
<1>29. Refers(st, h0, t, {cur}, {n}, W, {z})
  <2>1. Marks(st, t, cur, n, i, z)
    <3>1. DOMAIN c.keys = 1 .. m /\ DOMAIN st.mem[cur].keys = 1 .. m
        BY <1>14, <1>21, <1>12, <1>11 DEF At
    <3> QED
        BY <1>21, <1>25, <3>1 DEF Marks, At
  <2>2. i \in DOMAIN st.mem[cur].keys /\ z \notin h0.stacks
      BY <1>14, <1>20 DEF At
  <2>3. /\ i \in Marked(st, cur) => W = {st.mem[cur].vals[i]}
        /\ i \notin Marked(st, cur) => W = {}
      BY <1>1, <1>16, <1>17 DEF At
  <2> QED
      BY <1>11, <2>1, <2>2, <2>3, MarkedRefers
<1>30. Adopted(st, h0, t, {cur}, {n}, {})
    BY <1>21, <1>25, LeavesAdopt, Zenon
<1>31. PICK h : Tree(t, h) /\ Loose(t, h, {n}) /\ Rewritten(st, h0, t, h, {cur}, {n}, {}, 0)
  <2>1. Known(st, h0, cur, {}, 0)
      BY <1>11, HalfKnown
  <2>2. Removable(st, h0, {cur}, {}, 0) /\ Loose(st, h0, {})
      BY <2>1 DEF Known
  <2> QED
      BY <1>15, <1>26, <1>28, <1>29, <1>30, <2>2, Rebuilding, Zenon
<1>32. PICK b, mid : b = 0 /\ mid = call[1]
    OBVIOUS
<1>33. path = <<>> => Grown(0, Len(t.mem[n].keys)) <= adds
  <2> SUFFICES ASSUME path = <<>> PROVE Grown(0, m) <= adds
      BY <1>21, <1>25
  <2>1. Grown(h0.level[cur], Len(st.mem[cur].keys)) + 1 <= adds /\ h0.level[cur] = 0
      BY <1>11 DEF Roomy, Half
  <2>2. m + 1 <= adds
      BY <1>12, <2>1 DEF Grown, At
  <2>3. m \in Nat
      BY <1>11, <1>12
  <2> QED
      BY <2>2, <2>3 DEF Grown
<1>34. /\ b \in Nat /\ n # b /\ {n} = {n, b} \ {0} /\ n \in Nat \ {0} /\ mid \in Nat
       /\ Flags(st, t, path, cur, 0, n, b) /\ Hands(t, path, n, b, mid)
  <2>1. n \in Nat \ {0} /\ n # b /\ {n} = {n, b} \ {0} /\ b \in Nat /\ mid \in Nat
      BY <1>13, <1>25, <1>32
  <2>2. t.mem[n].root = st.mem[cur].root
      BY <1>21, <1>25 DEF At
  <2>3. Flags(st, t, path, cur, 0, n, b)
      BY <1>32, <1>33, <2>2 DEF Flags
  <2>4. Hands(t, path, n, b, mid)
      BY <1>8, <1>9, <1>32 DEF Hands
  <2> QED
      BY <2>1, <2>3, <2>4
<1>35. Ascending(h)'
  <2>1. /\ Half(st, h0, cur, path, {}, 0) /\ Roomy(st, h0, cur, path)
        /\ Rewritten(st, h0, t, h, {cur}, {n}, {}, 0) /\ Tree(t, h) /\ Loose(t, h, {n})
        /\ n \in Nat \ {0} /\ b \in Nat /\ mid \in Nat /\ n # b /\ {n} = {n, b} \ {0}
        /\ Flags(st, t, path, cur, 0, n, b) /\ Hands(t, path, n, b, mid)
        /\ root # 0 /\ call \in Inputs
      BY <1>10, <1>11, <1>31, <1>34
  <2> QED
      BY <2>1, Returning
<1> QED
    BY <1>35

(* The other steps of btree_create and btree_add. *)

\* A number of adds.
LEMMA GrownIs ==
  ASSUME NEW l \in Nat, NEW n \in Nat
  PROVE  Grown(l, n) \in Nat
<1>1. CASE l = 0
    BY <1>1 DEF Grown
<1>2. CASE l # 0
  <2>1. PICK k : k = l - 1
      OBVIOUS
  <2>2. k \in Nat /\ BranchCap * k \in Nat
      BY <1>2, <2>1, Sizes
  <2>3. PICK e, f : e = (IF n = 0 THEN 1 ELSE n) /\ f = BranchCap * k
      OBVIOUS
  <2>4. e \in Nat /\ f \in Nat
      BY <2>2, <2>3
  <2>5. Grown(l, n) = LeafCap + f + e
      BY <1>2, <2>1, <2>3, Zenon DEF Grown
  <2> QED
      BY <2>4, <2>5, Sizes
<1> QED
    BY <1>1, <1>2

\* The new tree is an empty leaf.
LEMMA CreateFormed ==
  ASSUME NEW g, Idle(g), adds \in Nat, Create
  PROVE  \E h : Idle(h)' /\ h.pages = {root'} /\ st'.mem[root'] = EmptyRoot
<1>1. PICK t, r : t = st' /\ r = NextPage(st)
    OBVIOUS
<1>2. PICK c : c = EmptyRoot
    OBVIOUS
<1>3. /\ root = 0 /\ t = PutNew(st, c) /\ root' = r /\ adds' = adds
      /\ path' = path /\ cur' = cur /\ up' = up /\ call' = call
    BY <1>1, <1>2 DEF Create
<1>4. /\ path = <<>> /\ cur = 0 /\ up = NoUp /\ call = NoCall /\ StoreFits(st)
    BY <1>3 DEF Idle
<1>5. c.kind = "leaf" /\ c.root = TRUE /\ c.keys = <<>> /\ c.vals = <<>>
    BY <1>2 DEF EmptyRoot, Leaf
<1>6. PageFits(c, st.end)
    BY <1>5, Sizes DEF PageFits
<1>7. Owned(st, {})
    BY <1>4 DEF Owned
<1>8. Taken(st, t, {}, r, c)
    BY <1>1, <1>3, <1>6, <1>7, PutNewOwned, Zenon
<1>9. /\ Owned(t, {r}) /\ t.mem[r] = c /\ r \in 2 .. t.end - 1 /\ t.end \in Nat
  <2>1. {} \cup {r} = {r}
      OBVIOUS
  <2> QED
      BY <1>8, <2>1 DEF Taken
<1>10. PICK none : none = [x \in {r} |-> 0]
    BY Zenon
<1>11. PICK h : h = [pages |-> {r}, stacks |-> {}, hole |-> none, level |-> none, first |-> none]
    BY Zenon
<1>12. h.pages = {r} /\ h.stacks = {} /\ h.hole[r] = 0 /\ h.level[r] = 0
    BY <1>10, <1>11
<1>13. Leaves(t, h) = {r} /\ Inner(t, h) = {} /\ Marked(t, r) = {}
    BY <1>5, <1>9, <1>12 DEF Leaves, Inner, Marked
<1>14. Tree(t, h)
  <2>1. Owned(t, h.pages \cup h.stacks)
    <3>1. h.pages \cup h.stacks = {r}
        BY <1>12
    <3> QED
        BY <1>9, <3>1, Zenon
  <2>2. Levelled(t, h)
      BY <1>5, <1>9, <1>12, <1>13 DEF Levelled
  <2>3. OneParent(t, h)
      BY <1>13 DEF OneParent
  <2>4. Stacked(t, h)
      BY <1>12, <1>13 DEF Stacked
  <2>5. Filled(t, h)
      BY <1>5, <1>9, <1>13 DEF Filled
  <2> QED
      BY <1>12, <2>1, <2>2, <2>3, <2>4, <2>5 DEF Tree
<1>15. Whole(t, h, r)
  <2>1. Loose(t, h, {r})
      BY <1>12, <1>13 DEF Loose
  <2>2. Flagged(t, h, r)
      BY <1>5, <1>9, <1>12 DEF Flagged
  <2>3. UpTo(h, h.level[r])
      BY <1>12 DEF UpTo
  <2> QED
      BY <1>12, <1>14, <2>1, <2>2, <2>3 DEF Whole
<1>16. Grown(h.level[r], Len(t.mem[r].keys)) <= adds
  <2>1. h.level[r] = 0 /\ Len(t.mem[r].keys) = 0
      BY <1>5, <1>9, <1>12
  <2> QED
      BY <2>1 DEF Grown
<1>17. r # 0
    BY <1>9
<1>18. Idle(h)'
    BY <1>1, <1>3, <1>4, <1>15, <1>16, <1>17 DEF Idle
<1> QED
    BY <1>1, <1>2, <1>3, <1>9, <1>12, <1>18

\* Tree h is tree g, or it has a new root r above the two halves of g's root.
RootWritten(g, h) ==
  \/ up.split = 0 /\ h = g /\ st' = st /\ root' = up.orig
  \/ /\ up.split # 0
     /\ Rewritten(st, g, st', h, {}, {root'}, Ends, g.level[up.orig] + 1)
     /\ st'.mem[root'].kind = "branch" /\ st'.mem[root'].keys = <<up.mid>>
     /\ st'.mem[root'].kids = <<up.orig, up.split>>

\* btree_add returns: with the page that replaces the root, or with a new root
\* above the two halves of the old one.
LEMMA EndAddFormed ==
  ASSUME NEW g, Ascending(g), adds \in Nat, EndAdd
  PROVE  \E h : Idle(h)' /\ RootWritten(g, h)
<1>1. PICK o, s, l : o = up.orig /\ s = up.split /\ l = g.level[o]
    OBVIOUS
<1>2. /\ path = <<>> /\ cur = 0 /\ cur' = 0 /\ path' = <<>> /\ call' = NoCall /\ up' = NoUp /\ adds' = adds
    BY DEF EndAdd, Ascending
<1>3. /\ o \in Nat \ {0} /\ s \in Nat /\ o # s /\ up.mid \in Nat
    BY <1>1 DEF Ascending
<1>4. DOMAIN path = {} /\ Len(path) = 0
    BY <1>2
<1>5. /\ Tree(st, g) /\ Loose(st, g, Ends) /\ Flagged(st, g, IF s = 0 THEN o ELSE 0)
      /\ UpTo(g, l + 0) /\ \A p \in g.pages : g.hole[p] = 0
    BY <1>1, <1>2, <1>4 DEF Ascending, Top
<1>6. Ends = {o, s} \ {0} /\ o \in Ends
    BY <1>1, <1>3 DEF Ends
<1>7. o \in g.pages /\ l \in Nat
    BY <1>1, <1>5, <1>6 DEF Loose, Tree, Levelled
<1>8. UpTo(g, l)
  <2>1. l + 0 = l
      BY <1>7
  <2> QED
      BY <1>5, <2>1
<1>9. CASE s = 0
  <2>1. Ends = {o}
      BY <1>3, <1>6, <1>9
  <2>2. Whole(st, g, o)
      BY <1>1, <1>5, <1>8, <1>9, <2>1 DEF Whole
  <2>3. Grown(g.level[o], Len(st.mem[o].keys)) <= adds
      BY <1>1, <1>2, <1>9 DEF Ascending, Top
  <2>4. st' = st /\ root' = o
      BY <1>1, <1>9 DEF EndAdd
  <2>5. Idle(g)'
      BY <1>2, <1>3, <2>2, <2>3, <2>4 DEF Idle
  <2>6. RootWritten(g, g)
      BY <1>1, <1>9, <2>4 DEF RootWritten
  <2> QED
      BY <2>5, <2>6
<1>10. CASE s # 0
  <2>1. PICK t, r, c : t = st' /\ r = NextPage(st) /\ c = Branch(TRUE, <<up.mid>>, <<o, s>>)
      BY Zenon
  <2>2. t = PutNew(st, c) /\ root' = r
      BY <1>1, <1>10, <2>1 DEF EndAdd
  <2>3. PICK n : n = l + 1
      OBVIOUS
  <2>4. n \in Nat /\ n # 0 /\ n > l
      BY <1>7, <2>3
  <2>5. PICK R : R = {o, s}
      BY Zenon
  <2>6. Ends = R
      BY <1>3, <1>6, <1>10, <2>5
  <2>7. /\ s \in g.pages /\ g.level[s] = l
      BY <1>1, <1>5, <1>10, <2>5, <2>6 DEF Loose, Ascending
  <2>8. Owned(st, g.pages \cup g.stacks) /\ g.pages \cap g.stacks = {}
      BY <1>5 DEF Tree
  <2>9. o \in 1 .. st.end - 1 /\ s \in 1 .. st.end - 1
      BY <1>7, <2>7, <2>8 DEF Owned, StoreFits
  <2>10. /\ c.kind = "branch" /\ c.root = TRUE /\ c.keys = <<up.mid>> /\ c.kids = <<o, s>>
      BY <2>1 DEF Branch
  <2>11. PageFits(c, st.end)
    <3>1. PICK mid : mid = up.mid
        OBVIOUS
    <3>2. <<mid>> \in Seq(Nat) /\ Len(<<mid>>) = 1 /\ <<o, s>> \in Seq(1 .. st.end - 1) /\ Len(<<o, s>>) = 2
        BY <1>3, <2>9, <3>1
    <3> QED
        BY <2>10, <3>1, <3>2, Sizes DEF PageFits
  <2>12. PICK H : H = g.pages \cup g.stacks
      BY Zenon
  <2>13. Taken(st, t, H, r, c)
      BY <2>1, <2>2, <2>8, <2>11, <2>12, PutNewOwned, Zenon
  <2>14. /\ Owned(t, H \cup {r}) /\ r \notin H /\ t.mem[r] = c
         /\ \A q \in H : t.mem[q] = st.mem[q]
         /\ r \in 2 .. t.end - 1 /\ t.end \in Nat
      BY <2>13 DEF Taken
  <2>15. Loose(st, g, R)
      BY <1>5, <2>6
  <2>16. Removable(st, g, {}, R, n)
    <3>1. \A x \in R : x \in g.pages /\ g.hole[x] = 0 /\ n = g.level[x] + 1
        BY <1>1, <1>5, <1>7, <2>3, <2>5, <2>7
    <3> QED
        BY <2>4, <3>1 DEF Removable
  <2>17. Placed(st, g, t, g, {}, {r}, n)
    <3>1. ((g.pages \ {}) \cup {r}) \cup g.stacks = H \cup {r}
        BY <2>12
    <3>2. Owned(t, ((g.pages \ {}) \cup {r}) \cup g.stacks)
        BY <2>14, <3>1, Zenon
    <3>3. /\ {r} \cap g.pages = {} /\ ((g.pages \ {}) \cup {r}) \cap g.stacks = {}
          /\ \A q \in g.pages \ {} : t.mem[q] = st.mem[q]
        BY <2>8, <2>12, <2>14
    <3>4. \A x \in {r} : /\ t.mem[x].kind = IF n = 0 THEN "leaf" ELSE "branch"
                         /\ t.mem[x].kind = "leaf" => t.mem[x].root \/ t.mem[x].keys # <<>>
        BY <2>4, <2>10, <2>14
    <3> QED
        BY <3>2, <3>3, <3>4 DEF Placed
  <2>18. Adopted(st, g, t, {}, {r}, R)
    <3>1. PICK kids : kids = <<o, s>>
        BY Zenon
    <3>2. DOMAIN kids = 1 .. 2 /\ kids[1] = o /\ kids[2] = s
        BY <3>1
    <3>3. \A i \in DOMAIN kids : kids[i] \in R
        BY <2>5, <3>2
    <3>4. \A i, j \in DOMAIN kids : kids[i] = kids[j] => i = j
        BY <1>3, <3>2
    <3>5. t.mem[r].kids = kids
        BY <2>10, <2>14, <3>1
    <3> QED
        BY <3>3, <3>4, <3>5 DEF Adopted
  <2>19. Refers(st, g, t, {}, {r}, {}, {})
      BY <2>10, <2>14, BranchesRefer
  <2>20. Restacked(st, g, t, g, {}, {}, {}, {}, 0)
      BY <2>12, <2>14, SameStacks
  <2>21. PICK h : Tree(t, h) /\ Loose(t, h, {r}) /\ Rewritten(st, g, t, h, {}, {r}, R, n)
      BY <1>5, <2>15, <2>16, <2>17, <2>18, <2>19, <2>20, Rebuilding, Zenon
  <2>22. /\ h.pages = g.pages \cup {r} /\ h.level[r] = n /\ h.hole[r] = 0
         /\ \A p \in g.pages : t.mem[p] = st.mem[p] /\ h.hole[p] = g.hole[p] /\ h.level[p] = g.level[p]
      BY <2>21 DEF Rewritten
  <2>23. Flagged(t, h, r)
    <3>1. \A p \in g.pages : p # 0 /\ p # r
        BY <2>8, <2>12, <2>14 DEF Owned
    <3>2. \A p \in g.pages : ~t.mem[p].root
        BY <1>5, <1>10, <2>22, <3>1 DEF Flagged
    <3> QED
        BY <2>10, <2>14, <2>22, <3>1, <3>2 DEF Flagged
  <2>24. UpTo(h, n)
    <3>1. \A p \in g.pages : g.level[p] <= l /\ g.level[p] \in Nat
        BY <1>5, <1>8 DEF UpTo, Tree, Levelled
    <3>2. \A p \in g.pages : h.level[p] <= n
        BY <1>7, <2>3, <2>22, <3>1
    <3> QED
        BY <2>4, <2>22, <3>2 DEF UpTo
  <2>25. \A p \in h.pages : h.hole[p] = 0
      BY <1>5, <2>22
  <2>26. Whole(t, h, r)
      BY <2>21, <2>22, <2>23, <2>24, <2>25 DEF Whole
  <2>27. Grown(h.level[r], Len(t.mem[r].keys)) <= adds
    <3>1. Grown(l + 1, 1) <= adds
        BY <1>1, <1>2, <1>10 DEF Ascending
    <3>2. Len(t.mem[r].keys) = 1
      <4>1. PICK mid : mid = up.mid
          OBVIOUS
      <4>2. Len(<<mid>>) = 1
          OBVIOUS
      <4> QED
          BY <2>10, <2>14, <4>1, <4>2, Zenon
    <3> QED
        BY <2>3, <2>22, <3>1, <3>2
  <2>28. r # 0
      BY <2>14
  <2>29. Idle(h)'
      BY <1>2, <2>1, <2>2, <2>26, <2>27, <2>28, Zenon DEF Idle
  <2>30. RootWritten(g, h)
    <3>1. up.orig = o /\ up.split = s /\ root' = r /\ st' = t /\ Ends = R /\ g.level[up.orig] + 1 = n
        BY <1>1, <2>1, <2>2, <2>3, <2>6
    <3>2. Rewritten(st, g, st', h, {}, {root'}, Ends, g.level[up.orig] + 1)
        BY <2>21, <3>1, Zenon
    <3>3. /\ st'.mem[root'].kind = "branch" /\ st'.mem[root'].keys = <<up.mid>>
          /\ st'.mem[root'].kids = <<up.orig, up.split>>
        BY <2>10, <2>14, <3>1, Zenon
    <3> QED
        BY <1>10, <3>1, <3>2, <3>3, Zenon DEF RootWritten
  <2> QED
      BY <2>29, <2>30
<1> QED
    BY <1>9, <1>10

\* btree_add begins at the root of a whole tree.
LEMMA BeginAddFormed ==
  ASSUME NEW g, Idle(g), adds \in Nat, NEW in \in Inputs, BeginAdd(in)
  PROVE  Descending(g)'
<1>1. /\ root # 0 /\ adds' = adds + 1 /\ call' = in /\ cur' = root
      /\ st' = st /\ root' = root /\ path' = path /\ up' = up
    BY DEF BeginAdd
<1>2. /\ path = <<>> /\ up = NoUp /\ Whole(st, g, root)
      /\ Grown(g.level[root], Len(st.mem[root].keys)) <= adds
    BY <1>1 DEF Idle
<1>3. root \in g.pages /\ g.level[root] \in Nat
    BY <1>2 DEF Whole, Loose, Tree, Levelled
<1>4. Len(st.mem[root].keys) \in Nat
  <2>1. PageFits(st.mem[root], st.end) /\ st.mem[root].kind \in {"leaf", "branch"}
      BY <1>2, <1>3 DEF Whole, Tree, Owned, StoreFits, Levelled
  <2> QED
      BY <2>1 DEF PageFits
<1>5. PICK k : k = Grown(g.level[root], Len(st.mem[root].keys))
    OBVIOUS
<1>6. k \in Nat /\ k <= adds
    BY <1>2, <1>3, <1>4, <1>5, GrownIs, Zenon
<1>7. k + 1 <= adds + 1
    BY <1>6
<1>8. Waits(st, g, <<>>, root, root)
    BY DEF Waits
<1>9. Waits(st, g, path, root, root) /\ DOMAIN path = {}
    BY <1>2, <1>8
<1> QED
    BY <1>1, <1>2, <1>3, <1>5, <1>7, <1>9 DEF Descending

\* btree_recur_add calls itself for the child its key belongs below.
LEMMA DescendFormed ==
  ASSUME NEW g, Descending(g), Descend
  PROVE  Descending(g)'
<1>1. PICK i, e : i = BranchFind(At, call[1]) /\ e = [page |-> cur, child |-> i]
    BY Zenon
<1>2. PICK k : k = At.kids[i]
    OBVIOUS
<1>3. PICK w : w = <<e>> \o path
    BY Zenon
<1>4. /\ At.kind = "branch" /\ path' = w /\ cur' = k
      /\ st' = st /\ root' = root /\ adds' = adds /\ call' = call /\ up' = up
    BY <1>1, <1>2, <1>3 DEF Descend
<1>5. /\ root # 0 /\ call \in Inputs /\ up = NoUp
      /\ Whole(st, g, root) /\ cur \in g.pages
      /\ Waits(st, g, path, cur, root)
      /\ \A j \in DOMAIN path :
           st.mem[path[j].page].kids[path[j].child] = IF j = 1 THEN cur ELSE path[j - 1].page
      /\ Grown(g.level[root], Len(st.mem[root].keys)) + 1 <= adds
    BY DEF Descending
<1>6. /\ Levelled(st, g) /\ PageFits(st.mem[cur], st.end) /\ \A p \in g.pages : g.hole[p] = 0
    BY <1>5 DEF Whole, Tree, Owned, StoreFits
<1>7. call[1] \in Nat
    BY <1>5, InputIs
<1>8. At.keys \in Seq(Nat) /\ Len(At.kids) = Len(At.keys) + 1 /\ At.kids \in Seq(1 .. st.end - 1)
    BY <1>4, <1>6 DEF PageFits, At
<1>9. i \in DOMAIN At.kids /\ i \in Nat
  <2>1. i \in 1 .. Len(At.keys) + 1
      BY <1>1, <1>7, <1>8, BranchFindIs, Zenon
  <2> QED
      BY <1>8, <2>1
<1>10. cur \in Inner(st, g) /\ i \in Live(st, g, cur)
  <2>1. g.hole[cur] = 0 /\ i # 0
      BY <1>5, <1>6, <1>8, <1>9
  <2> QED
      BY <1>4, <1>5, <1>9, <2>1 DEF Inner, Live, At
<1>11. k \in g.pages /\ g.level[cur] = g.level[k] + 1 /\ g.level[k] \in Nat /\ g.level[cur] \in Nat
    BY <1>2, <1>5, <1>6, <1>10 DEF Levelled, At
<1>12. /\ path \in Seq([page : g.pages, child : Nat])
       /\ Len(path) \in Nat /\ DOMAIN path = 1 .. Len(path) /\ (path = <<>> <=> Len(path) = 0)
       /\ \A j \in 1 .. Len(path) : /\ path[j].page \in g.pages /\ path[j].child \in Nat
                                    /\ g.level[path[j].page] = g.level[cur] + j
                                    /\ path[j].child \in DOMAIN st.mem[path[j].page].kids
       /\ (path = <<>> => cur = root) /\ (path # <<>> => path[Len(path)].page = root)
  <2>1. Waits(st, g, path, cur, root)
      BY <1>5
  <2> QED
      BY <2>1, WaitsIs, Zenon
<1>13. PICK m, T : m = Len(path) /\ T = [page : g.pages, child : Nat]
    BY Zenon
<1>14. /\ w \in Seq(T) /\ Len(w) = m + 1
       /\ \A j \in 1 .. m + 1 : w[j] = IF j = 1 THEN e ELSE path[j - 1]
  <2>1. e \in T
      BY <1>1, <1>5, <1>9, <1>13
  <2>2. path \in Seq(T)
      BY <1>12, <1>13
  <2> QED
      BY <1>3, <1>13, <2>1, <2>2, InFrontProperties
<1>15. m \in Nat /\ DOMAIN w = 1 .. m + 1
    BY <1>12, <1>13, <1>14
<1>16. w[1] = e /\ \A j \in 2 .. m + 1 : w[j] = path[j - 1] /\ j - 1 \in 1 .. m
  <2>1. 1 \in 1 .. m + 1
      BY <1>15
  <2>2. \A j \in 2 .. m + 1 : j \in 1 .. m + 1 /\ j # 1 /\ j - 1 \in 1 .. m
      BY <1>15
  <2> QED
      BY <1>14, <2>1, <2>2
<1>17. e.page = cur /\ e.child = i
    BY <1>1
<1>18. \A j \in 1 .. m + 1 : /\ g.level[w[j].page] = g.level[k] + j
                             /\ w[j].child \in DOMAIN st.mem[w[j].page].kids
  <2>1. /\ g.level[w[1].page] = g.level[k] + 1
        /\ w[1].child \in DOMAIN st.mem[w[1].page].kids
      BY <1>9, <1>11, <1>16, <1>17 DEF At
  <2>2. ASSUME NEW j \in 2 .. m + 1
        PROVE  /\ g.level[w[j].page] = g.level[k] + j
               /\ w[j].child \in DOMAIN st.mem[w[j].page].kids
    <3>1. PICK b : b = j - 1
        OBVIOUS
    <3>2. b \in 1 .. m /\ w[j] = path[b]
        BY <1>16, <3>1
    <3>3. /\ g.level[path[b].page] = g.level[cur] + b
          /\ path[b].child \in DOMAIN st.mem[path[b].page].kids
        BY <1>12, <1>13, <3>2
    <3>4. g.level[cur] + b = g.level[k] + j
        BY <1>11, <3>1
    <3> QED
        BY <3>2, <3>3, <3>4
  <2>3. \A j \in 1 .. m + 1 : j = 1 \/ j \in 2 .. m + 1
      BY <1>15
  <2> QED
      BY <2>1, <2>2, <2>3
<1>19. Waits(st, g, w, k, root)
  <2>1. w # <<>> /\ w[Len(w)].page = root
    <3>1. CASE m = 0
        BY <1>12, <1>13, <1>14, <1>16, <1>17, <3>1
    <3>2. CASE m # 0
      <4>1. m + 1 \in 2 .. m + 1 /\ (m + 1) - 1 = m
          BY <1>15, <3>2
      <4>2. w[m + 1] = path[m]
          BY <1>16, <4>1
      <4>3. path # <<>>
          BY <1>12, <1>13, <3>2
      <4> QED
          BY <1>12, <1>13, <1>14, <1>15, <4>2, <4>3
    <3> QED
        BY <3>1, <3>2
  <2> QED
      BY <1>13, <1>14, <1>15, <1>18, <2>1 DEF Waits
<1>20. \A j \in DOMAIN w : st.mem[w[j].page].kids[w[j].child] = IF j = 1 THEN k ELSE w[j - 1].page
  <2>1. st.mem[w[1].page].kids[w[1].child] = k
      BY <1>2, <1>16, <1>17 DEF At
  <2>2. ASSUME NEW j \in 2 .. m + 1
        PROVE  st.mem[w[j].page].kids[w[j].child] = w[j - 1].page
    <3>1. PICK b : b = j - 1
        OBVIOUS
    <3>2. b \in 1 .. m /\ w[j] = path[b]
        BY <1>16, <3>1
    <3>3. st.mem[path[b].page].kids[path[b].child] = IF b = 1 THEN cur ELSE path[b - 1].page
        BY <1>5, <1>12, <1>13, <3>2, Zenon
    <3>4. w[b].page = IF b = 1 THEN cur ELSE path[b - 1].page
      <4>1. CASE b = 1
          BY <1>16, <1>17, <4>1
      <4>2. CASE b # 1
        <5>1. b \in 2 .. m + 1
            BY <1>15, <3>2, <4>2
        <5> QED
            BY <1>16, <4>2, <5>1
      <4> QED
          BY <4>1, <4>2
    <3> QED
        BY <3>1, <3>2, <3>3, <3>4
  <2>3. \A j \in 1 .. m + 1 : j = 1 \/ (j # 1 /\ j \in 2 .. m + 1)
      BY <1>15
  <2> QED
      BY <1>15, <2>1, <2>2, <2>3
<1> QED
    BY <1>4, <1>5, <1>11, <1>19, <1>20 DEF Descending

(* btree_destroy. *)

\* What goes from element to element of V, starting with v, in n steps of G.
Steps(G, n, V) == \A d \in 1 .. n : \A x \in V : G[d][x] \in V
\* F is the sequence of these elements.
Iterates(F, G, n, V, v) ==
  F \in [0 .. n -> V] /\ F[0] = v /\ \A d \in 1 .. n : F[d] = G[d][F[d - 1]]

\* A function defined by recursion over the numbers up to n exists.
LEMMA IteratesExist ==
  ASSUME NEW n \in Nat, NEW V, NEW v \in V, NEW G, Steps(G, n, V)
  PROVE  \E F : Iterates(F, G, n, V, v)
<1> USE DEF Steps, Iterates
<1> DEFINE Good(m) == \E F \in [0 .. m -> V] : F[0] = v /\ \A d \in 1 .. m : F[d] = G[d][F[d - 1]]
           Bad == {m \in 0 .. n : ~Good(m)}
<1>1. SUFFICES ASSUME Bad # {} PROVE FALSE
    <2>1. n \in 0 .. n
        OBVIOUS
    <2>2. Bad = {} => Good(n)
      <3> HIDE DEF Good
      <3> QED
          BY <2>1, Zenon
    <2> QED
        BY <2>2, Zenon
<1>2. Bad \in SUBSET Nat
    OBVIOUS
<1>3. PICK m \in Bad : \A k \in Bad : m <= k
    BY <1>1, <1>2, NatMin, Zenon
<1>4. m \in 0 .. n /\ ~Good(m)
    BY <1>3, Zenon
<1>5. CASE m = 0
  <2>1. PICK F : F = [d \in 0 .. m |-> v]
      BY Zenon
  <2>2. F \in [0 .. m -> V] /\ F[0] = v /\ \A d \in 1 .. m : FALSE
      BY <1>5, <2>1
  <2>3. Good(m)
      BY <2>2, Zenon
  <2> QED
      BY <1>4, <2>3
<1>6. CASE m # 0
  <2>1. PICK k : k = m - 1
      OBVIOUS
  <2>2. k \in 0 .. n /\ k < m /\ m = k + 1 /\ m \in 1 .. n
      BY <1>4, <1>6, <2>1
  <2>3. k \notin Bad
    <3> HIDE DEF Bad
    <3> QED
        BY <1>3, <2>2
  <2>4. Good(k)
      BY <2>2, <2>3
  <2>5. PICK F \in [0 .. k -> V] : F[0] = v /\ \A d \in 1 .. k : F[d] = G[d][F[d - 1]]
      BY <2>4, Zenon
  <2>6. PICK y : y = G[m][F[k]]
      OBVIOUS
  <2>7. y \in V
      BY <2>2, <2>5, <2>6
  <2>8. PICK E : E = [d \in 0 .. m |-> IF d = m THEN y ELSE F[d]]
      BY Zenon
  <2>9. \A d \in 0 .. k : E[d] = F[d]
      BY <2>2, <2>8
  <2>10. E \in [0 .. m -> V]
    <3>1. \A d \in 0 .. m : d # m => d \in 0 .. k
        BY <2>2
    <3> QED
        BY <2>5, <2>7, <2>8, <3>1
  <2>11. E[0] = v
      BY <2>2, <2>5, <2>9
  <2>12. ASSUME NEW d \in 1 .. m PROVE E[d] = G[d][E[d - 1]]
    <3>1. CASE d = m
      <4>1. d - 1 = k /\ k \in 0 .. k /\ m \in 0 .. m
          BY <2>1, <2>2, <3>1
      <4> QED
          BY <2>6, <2>8, <2>9, <3>1, <4>1
    <3>2. CASE d # m
      <4>1. d \in 1 .. k /\ d \in 0 .. k /\ d - 1 \in 0 .. k
          BY <2>2, <3>2
      <4> QED
          BY <2>5, <2>9, <4>1
    <3> QED
        BY <3>1, <3>2
  <2>13. Good(m)
      BY <2>10, <2>11, <2>12
  <2> QED
      BY <1>4, <2>13, Zenon
<1> QED
    BY <1>5, <1>6

\* The function FlattenSeq is made of.
Flattens(f, ss, n, T) ==
  /\ f \in [1 .. n -> Seq(T)]
  /\ f[1] = ss[1] /\ \A i \in 2 .. n : f[i] = f[i - 1] \o ss[i]
  /\ FlattenSeq(ss) = f[n]

\* FlattenSeq is the last of them.
LEMMA FlattenSteps ==
  ASSUME NEW T, NEW ss \in Seq(Seq(T)), NEW n, n = Len(ss), n # 0
  PROVE  \E f : Flattens(f, ss, n, T)
<1>1. n \in Nat /\ n >= 1 /\ \A i \in 1 .. n : ss[i] \in Seq(T)
    OBVIOUS
<1>2. PICK k, V : k = n - 1 /\ V = Seq(T)
    OBVIOUS
<1>3. k \in Nat /\ n = k + 1 /\ 1 \in 1 .. n
    BY <1>1, <1>2
<1>4. PICK v : v = ss[1]
    OBVIOUS
<1>5. v \in V
    BY <1>1, <1>2, <1>3, <1>4
<1>6. PICK G : G = [d \in 1 .. k |-> [x \in V |-> x \o ss[d + 1]]]
    BY Zenon
<1>7. Steps(G, k, V)
  <2>1. \A d \in 1 .. k : ss[d + 1] \in Seq(T)
      BY <1>1, <1>3
  <2>2. \A x, y \in Seq(T) : x \o y \in Seq(T)
      OBVIOUS
  <2> QED
      BY <1>2, <1>6, <2>1, <2>2 DEF Steps
<1>8. PICK E : Iterates(E, G, k, V, v)
    BY <1>3, <1>5, <1>7, IteratesExist
<1>a. E \in [0 .. k -> V] /\ E[0] = v /\ \A d \in 1 .. k : E[d] = G[d][E[d - 1]]
    BY <1>8 DEF Iterates
<1>9. PICK f : f = [i \in 1 .. n |-> E[i - 1]]
    BY Zenon
<1>10. f \in [1 .. n -> Seq(T)]
  <2>1. \A i \in 1 .. n : i - 1 \in 0 .. k
      BY <1>3
  <2> QED
      BY <1>2, <1>a, <1>9, <2>1
<1>11. f[1] = ss[1]
  <2>1. 1 - 1 = 0
      OBVIOUS
  <2> QED
      BY <1>3, <1>4, <1>a, <1>9, <2>1
<1>12. ASSUME NEW i \in 2 .. n PROVE f[i] = f[i - 1] \o ss[i]
  <2>1. PICK d : d = i - 1
      OBVIOUS
  <2>2. d \in 1 .. k /\ d + 1 = i /\ d \in 1 .. n /\ i \in 1 .. n /\ d - 1 \in 0 .. k
      BY <1>3, <2>1
  <2>3. f[i] = E[d] /\ f[d] = E[d - 1]
      BY <1>9, <2>1, <2>2
  <2>4. E[d] = E[d - 1] \o ss[d + 1]
    <3>1. E[d] = G[d][E[d - 1]] /\ E[d - 1] \in V
        BY <1>a, <2>2, Zenon
    <3> QED
        BY <1>6, <2>2, <3>1, Zenon
  <2> QED
      BY <2>1, <2>2, <2>3, <2>4, Zenon
<1>13. PICK h : h = [i \in 1 .. n |-> IF i = 1 THEN ss[i] ELSE f[i - 1] \o ss[i]]
    BY Zenon
<1>14. f = h
  <2>1. \A i \in 1 .. n : f[i] = h[i]
    <3>1. \A i \in 1 .. n : i = 1 \/ i \in 2 .. n
        BY <1>1
    <3> QED
        BY <1>11, <1>12, <1>13, <3>1, Zenon
  <2> QED
      BY <1>9, <1>13, <2>1, Zenon
<1> DEFINE Flat == CHOOSE x : x = [i \in 1 .. Len(ss) |-> IF i = 1 THEN ss[i] ELSE x[i - 1] \o ss[i]]
<1>15. \E x : x = [i \in 1 .. Len(ss) |-> IF i = 1 THEN ss[i] ELSE x[i - 1] \o ss[i]]
    BY <1>13, <1>14, Zenon
<1>16. Flat = [i \in 1 .. Len(ss) |-> IF i = 1 THEN ss[i] ELSE Flat[i - 1] \o ss[i]]
    BY <1>15, Zenon
<1>17. FlattenSeq(ss) = Flat[Len(ss)]
    BY DEF FlattenSeq
<1>18. n \in 1 .. n
    BY <1>1
<1> HIDE DEF Flat
<1>19. \A i \in 1 .. n : Flat[i] = IF i = 1 THEN ss[i] ELSE Flat[i - 1] \o ss[i]
    BY <1>16, Zenon
<1>20. \A i \in 1 .. n : f[i] = IF i = 1 THEN ss[i] ELSE f[i - 1] \o ss[i]
    BY <1>13, <1>14, Zenon
<1>21. \A i \in 1 .. n : Flat[i] = f[i]
  <2> DEFINE Bad == {i \in 1 .. n : Flat[i] # f[i]}
  <2>1. SUFFICES ASSUME Bad # {} PROVE FALSE
      BY Zenon
  <2>2. Bad \in SUBSET Nat
      OBVIOUS
  <2>3. PICK i \in Bad : \A j \in Bad : i <= j
      BY <2>1, <2>2, NatMin, Zenon
  <2>4. i \in 1 .. n /\ Flat[i] # f[i]
      BY <2>3
  <2>5. i # 1
      BY <1>19, <1>20, <2>4
  <2>6. PICK j : j = i - 1
      OBVIOUS
  <2>7. j \in 1 .. n /\ j < i
      BY <1>1, <2>4, <2>5, <2>6
  <2>8. j \notin Bad
    <3>1. ~(i <= j)
        BY <2>4, <2>7
    <3> HIDE DEF Bad
    <3> QED
        BY <2>3, <3>1
  <2>9. Flat[j] = f[j]
      BY <2>7, <2>8
  <2> QED
      BY <1>19, <1>20, <2>4, <2>5, <2>6, <2>9
<1>22. FlattenSeq(ss) = f[n]
    BY <1>17, <1>18, <1>21
<1> QED
    BY <1>10, <1>11, <1>12, <1>22, Zenon DEF Flattens

\* One sequence behind another.
Joined(u, s, t) ==
  /\ Range(u) = Range(s) \cup Range(t)
  /\ IsInjective(s) /\ IsInjective(t) /\ Range(s) \cap Range(t) = {} => IsInjective(u)

\* What concatenation keeps.
LEMMA ConcatIs ==
  ASSUME NEW T, NEW s \in Seq(T), NEW t \in Seq(T), NEW u, u = s \o t
  PROVE  u \in Seq(T) /\ Joined(u, s, t)
<1>1. PICK m, n : m = Len(s) /\ n = Len(t)
    BY Zenon
<1>2. /\ m \in Nat /\ n \in Nat /\ DOMAIN s = 1 .. m /\ DOMAIN t = 1 .. n
    BY <1>1
<1>3. /\ u \in Seq(T) /\ Len(u) = m + n
      /\ \A k \in 1 .. m + n : u[k] = IF k <= m THEN s[k] ELSE t[k - m]
    BY <1>1, ConcatProperties
<1>4. DOMAIN u = 1 .. m + n
    BY <1>3
<1>5. \A k \in 1 .. m : k \in 1 .. m + n /\ u[k] = s[k]
    BY <1>2, <1>3
<1>6. \A k \in 1 .. n : m + k \in 1 .. m + n /\ u[m + k] = t[k]
  <2>1. \A k \in 1 .. n : m + k \in 1 .. m + n /\ ~(m + k <= m) /\ (m + k) - m = k
      BY <1>2
  <2> QED
      BY <1>3, <2>1
<1>7. \A k \in 1 .. m + n : k \in 1 .. m \/ (k - m \in 1 .. n /\ m + (k - m) = k)
    BY <1>2
<1>8. Range(u) = Range(s) \cup Range(t)
  <2>1. \A k \in 1 .. m + n : (\E j \in 1 .. m : u[k] = s[j]) \/ (\E j \in 1 .. n : u[k] = t[j])
    <3> TAKE k \in 1 .. m + n
    <3>1. CASE k \in 1 .. m
        BY <1>5, <3>1, Zenon
    <3>2. CASE k - m \in 1 .. n /\ m + (k - m) = k
      <4>1. PICK j : j = k - m
          OBVIOUS
      <4> QED
          BY <1>6, <3>2, <4>1, Zenon
    <3> QED
        BY <1>7, <3>1, <3>2, Zenon
  <2>2. \A y : y \in Range(u) <=> \E k \in 1 .. m + n : y = u[k]
      BY <1>4, Zenon DEF Range
  <2>3. \A y : y \in Range(s) <=> \E k \in 1 .. m : y = s[k]
      BY <1>2, Zenon DEF Range
  <2>4. \A y : y \in Range(t) <=> \E k \in 1 .. n : y = t[k]
      BY <1>2, Zenon DEF Range
  <2>5. ASSUME NEW y \in Range(u) PROVE y \in Range(s) \/ y \in Range(t)
    <3>1. PICK k \in 1 .. m + n : y = u[k]
        BY <2>2, Zenon
    <3> QED
        BY <2>1, <2>3, <2>4, <3>1, Zenon
  <2>6. ASSUME NEW y \in Range(s) PROVE y \in Range(u)
    <3>1. PICK k \in 1 .. m : y = s[k]
        BY <2>3
    <3> QED
        BY <1>5, <2>2, <3>1, Zenon
  <2>7. ASSUME NEW y \in Range(t) PROVE y \in Range(u)
    <3>1. PICK k \in 1 .. n : y = t[k]
        BY <2>4
    <3>2. y = u[m + k] /\ m + k \in 1 .. m + n
        BY <1>6, <3>1, Zenon
    <3> QED
        BY <2>2, <3>2, Zenon
  <2> QED
      BY <2>5, <2>6, <2>7
<1>9. ASSUME IsInjective(s), IsInjective(t), Range(s) \cap Range(t) = {}
      PROVE  IsInjective(u)
  <2>1. \A i, j \in 1 .. m : s[i] = s[j] => i = j
      BY <1>2, <1>9, Zenon DEF IsInjective
  <2>2. \A i, j \in 1 .. n : t[i] = t[j] => i = j
      BY <1>2, <1>9, Zenon DEF IsInjective
  <2>3. \A i \in 1 .. m, j \in 1 .. n : s[i] # t[j]
      BY <1>2, <1>9, Zenon DEF Range
  <2> SUFFICES ASSUME NEW i \in 1 .. m + n, NEW j \in 1 .. m + n, u[i] = u[j] PROVE i = j
      BY <1>4, Zenon DEF IsInjective
  <2>4. PICK a, b : a = i - m /\ b = j - m
      OBVIOUS
  <2>5. i \in 1 .. m \/ (a \in 1 .. n /\ m + a = i)
      BY <1>7, <2>4
  <2>6. j \in 1 .. m \/ (b \in 1 .. n /\ m + b = j)
      BY <1>7, <2>4
  <2>7. CASE i \in 1 .. m /\ j \in 1 .. m
      BY <1>5, <2>1, <2>7, Zenon
  <2>8. CASE i \in 1 .. m /\ b \in 1 .. n /\ m + b = j
      BY <1>5, <1>6, <2>3, <2>8, Zenon
  <2>9. CASE j \in 1 .. m /\ a \in 1 .. n /\ m + a = i
      BY <1>5, <1>6, <2>3, <2>9, Zenon
  <2>10. CASE a \in 1 .. n /\ m + a = i /\ b \in 1 .. n /\ m + b = j
      BY <1>6, <2>2, <2>10, Zenon
  <2> QED
      BY <2>5, <2>6, <2>7, <2>8, <2>9, <2>10
<1> QED
    BY <1>3, <1>8, <1>9 DEF Joined

\* All of a sequence of sequences, one behind the other.
Flattened(u, ss) ==
  /\ \A y \in Range(u) : \E i \in DOMAIN ss : y \in Range(ss[i])
  /\ (\A i \in DOMAIN ss : IsInjective(ss[i])) /\
     (\A i, j \in DOMAIN ss : i # j => Range(ss[i]) \cap Range(ss[j]) = {}) => IsInjective(u)

\* What FlattenSeq keeps.
LEMMA FlattenIs ==
  ASSUME NEW T, NEW ss \in Seq(Seq(T)), NEW u, u = FlattenSeq(ss)
  PROVE  u \in Seq(T) /\ Flattened(u, ss)
<1>1. PICK n : n = Len(ss)
    OBVIOUS
<1>2. n \in Nat /\ DOMAIN ss = 1 .. n /\ \A i \in 1 .. n : ss[i] \in Seq(T)
    BY <1>1
<1>3. CASE n = 0
  <2>1. ss = <<>>
    <3>1. PICK Q : Q = Seq(T)
        OBVIOUS
    <3>2. ss \in Seq(Q)
        BY <3>1
    <3> QED
        BY <1>1, <1>3, <3>2, EmptySeq, Zenon
  <2>2. u = <<>>
      BY <1>1, <1>3, <2>1 DEF FlattenSeq
  <2> QED
      BY <2>2 DEF Range, IsInjective, Flattened
<1>4. CASE n # 0
  <2>0. PICK f : Flattens(f, ss, n, T)
      BY <1>1, <1>4, FlattenSteps, Zenon
  <2>1. /\ f \in [1 .. n -> Seq(T)]
        /\ f[1] = ss[1] /\ \A i \in 2 .. n : f[i] = f[i - 1] \o ss[i]
        /\ FlattenSeq(ss) = f[n]
      BY <2>0, Zenon DEF Flattens
  <2> DEFINE Apart == /\ \A i \in 1 .. n : IsInjective(ss[i])
                      /\ \A i, j \in 1 .. n : i # j => Range(ss[i]) \cap Range(ss[j]) = {}
             Good(m) == /\ \A y \in Range(f[m]) : \E i \in 1 .. m : y \in Range(ss[i])
                        /\ Apart => IsInjective(f[m])
             Bad == {m \in 1 .. n : ~Good(m)}
  <2>2. Bad = {}
    <3>1. SUFFICES ASSUME Bad # {} PROVE FALSE
        BY Zenon
    <3>2. Bad \in SUBSET Nat
        OBVIOUS
    <3>3. PICK m \in Bad : \A j \in Bad : m <= j
        BY <3>1, <3>2, NatMin, Zenon
    <3>4. m \in 1 .. n /\ ~Good(m)
        BY <3>3, Zenon
    <3>5. m # 1
      <4>1. Good(1)
        <5>1. 1 \in 1 .. 1 /\ 1 \in 1 .. n
            BY <1>2, <1>4
        <5> QED
            BY <2>1, <5>1
      <4> QED
          BY <3>4, <4>1, Zenon
    <3>6. PICK k : k = m - 1
        OBVIOUS
    <3>7. k \in 1 .. n /\ k < m /\ m \in 2 .. n /\ \A i \in 1 .. k : i \in 1 .. m /\ i \in 1 .. n /\ i # m
        BY <1>2, <3>4, <3>5, <3>6
    <3>8. Good(k)
      <4>1. ~(m <= k)
          BY <3>4, <3>7
      <4>2. k \notin Bad
        <5> HIDE DEF Bad
        <5> QED
            BY <3>3, <4>1
      <4> QED
          BY <3>7, <4>2, Zenon
    <3>9. f[m] = f[k] \o ss[m] /\ f[k] \in Seq(T) /\ ss[m] \in Seq(T)
        BY <1>2, <2>1, <3>4, <3>6, <3>7, Zenon
    <3>10. /\ Range(f[m]) = Range(f[k]) \cup Range(ss[m])
           /\ IsInjective(f[k]) /\ IsInjective(ss[m]) /\ Range(f[k]) \cap Range(ss[m]) = {} => IsInjective(f[m])
      <4>1. PICK a, b, c : a = f[k] /\ b = ss[m] /\ c = f[m]
          OBVIOUS
      <4>2. a \in Seq(T) /\ b \in Seq(T) /\ c = a \o b
          BY <3>9, <4>1
      <4>3. Joined(c, a, b)
          BY <4>2, ConcatIs, Zenon
      <4> QED
          BY <4>1, <4>3 DEF Joined
    <3>11. \A y \in Range(f[m]) : \E i \in 1 .. m : y \in Range(ss[i])
      <4>1. m \in 1 .. m
          BY <3>7
      <4> QED
          BY <3>7, <3>8, <3>10, <4>1
    <3>12. Apart => IsInjective(f[m])
      <4> HAVE Apart
      <4>1. IsInjective(f[k]) /\ IsInjective(ss[m])
          BY <3>4, <3>8, Zenon
      <4>2. Range(f[k]) \cap Range(ss[m]) = {}
          BY <3>4, <3>7, <3>8, Zenon
      <4> QED
          BY <3>10, <4>1, <4>2
    <3> QED
        BY <3>4, <3>11, <3>12, Zenon
  <2>3. n \in 1 .. n
      BY <1>2, <1>4
  <2>4. Good(n)
      BY <2>2, <2>3, Zenon
  <2>5. u = f[n] /\ u \in Seq(T)
      BY <2>1, <2>3
  <2> QED
      BY <1>2, <2>4, <2>5, Zenon DEF Flattened
<1> QED
    BY <1>3, <1>4

\* What btree_destroy frees for each page, x being what it frees for the pages
\* one level below.
Freeing(s, x) ==
  [p \in DOMAIN s.mem |->
     IF s.mem[p].kind # "branch" THEN <<p>>
     ELSE FlattenSeq([i \in DOMAIN s.mem[p].kids |-> x[s.mem[p].kids[i]]]) \o <<p>>]

\* The function Freed is made of.
Frees(F, s, n) ==
  /\ F \in [0 .. n -> [DOMAIN s.mem -> Seq(DOMAIN s.mem)]]
  /\ F[0] = [p \in DOMAIN s.mem |-> <<p>>]
  /\ \A d \in 1 .. n : F[d] = Freeing(s, F[d - 1])

\* Only pages of the store are freed.
LEMMA FreeingIs ==
  ASSUME NEW s, StoreFits(s), NEW x \in [DOMAIN s.mem -> Seq(DOMAIN s.mem)]
  PROVE  Freeing(s, x) \in [DOMAIN s.mem -> Seq(DOMAIN s.mem)]
<1>1. PICK P : P = DOMAIN s.mem
    OBVIOUS
<1>2. P = 1 .. s.end - 1 /\ \A p \in P : PageFits(s.mem[p], s.end)
    BY <1>1 DEF StoreFits
<1>3. ASSUME NEW p \in P PROVE Freeing(s, x)[p] \in Seq(P)
  <2>1. CASE s.mem[p].kind # "branch"
    <3>1. Freeing(s, x)[p] = <<p>>
        BY <1>1, <2>1 DEF Freeing
    <3> QED
        BY <3>1
  <2>2. CASE s.mem[p].kind = "branch"
    <3>1. s.mem[p].kids \in Seq(P)
        BY <1>2, <2>2 DEF PageFits
    <3>2. PICK n, kids : n = Len(kids) /\ kids = s.mem[p].kids
        BY Zenon
    <3>3. n \in Nat /\ DOMAIN kids = 1 .. n /\ \A i \in 1 .. n : kids[i] \in P
        BY <3>1, <3>2
    <3>4. PICK ss : ss = [i \in DOMAIN kids |-> x[kids[i]]]
        BY Zenon
    <3>5. \A i \in 1 .. n : x[kids[i]] \in Seq(P)
        BY <1>1, <3>3
    <3>6. PICK Q : Q = Seq(P)
        OBVIOUS
    <3>7. ss \in Seq(Q)
        BY <3>3, <3>4, <3>5, <3>6
    <3>8. FlattenSeq(ss) \in Seq(P)
        BY <3>6, <3>7, FlattenIs
    <3>9. Freeing(s, x)[p] = FlattenSeq(ss) \o <<p>>
        BY <1>1, <2>2, <3>2, <3>4, Zenon DEF Freeing
    <3>10. <<p>> \in Seq(P)
        OBVIOUS
    <3> QED
        BY <3>8, <3>9, <3>10
  <2> QED
      BY <2>1, <2>2
<1>4. PICK y : y = Freeing(s, x)
    OBVIOUS
<1>5. DOMAIN y = P /\ y = [p \in P |-> y[p]]
    BY <1>1, <1>4 DEF Freeing
<1> QED
    BY <1>1, <1>3, <1>4, <1>5, Zenon

\* Freed(n) is the last of n steps of Freeing.
LEMMA FreedSteps ==
  ASSUME StoreFits(st), NEW n \in Nat
  PROVE  \E F : Frees(F, st, n) /\ Freed(n) = F[n]
<1>1. PICK P, V, v : P = DOMAIN st.mem /\ V = [P -> Seq(P)] /\ v = [p \in P |-> <<p>>]
    BY Zenon
<1>2. v \in V
  <2>1. \A p \in P : <<p>> \in Seq(P)
      OBVIOUS
  <2> QED
      BY <1>1, <2>1
<1>3. PICK G : G = [d \in 1 .. n |-> [x \in V |-> Freeing(st, x)]]
    BY Zenon
<1>4. \A x \in V : Freeing(st, x) \in V
    BY <1>1, FreeingIs
<1>5. Steps(G, n, V)
    BY <1>3, <1>4 DEF Steps
<1>6. PICK F : Iterates(F, G, n, V, v)
    BY <1>2, <1>5, IteratesExist
<1>7. F \in [0 .. n -> V] /\ F[0] = v /\ \A d \in 1 .. n : F[d] = G[d][F[d - 1]]
    BY <1>6 DEF Iterates
<1>8. ASSUME NEW d \in 1 .. n PROVE F[d] = Freeing(st, F[d - 1])
  <2>1. d - 1 \in 0 .. n
      OBVIOUS
  <2>2. F[d - 1] \in V
      BY <1>7, <2>1
  <2> QED
      BY <1>3, <1>7, <2>2
<1>9. Frees(F, st, n)
    BY <1>1, <1>7, <1>8 DEF Frees
<1> DEFINE Row1(x, d) ==
             [p \in DOMAIN st.mem |->
                IF d = 0 \/ st.mem[p].kind # "branch" THEN <<p>>
                ELSE FlattenSeq([i \in DOMAIN st.mem[p].kids |-> x[d - 1][st.mem[p].kids[i]]]) \o <<p>>]
           All == CHOOSE x : x = [d \in 0 .. n |-> Row1(x, d)]
<1>10. Freed(n) = All[n]
    BY DEF Freed
<1>11. \A d \in 0 .. n : F[d] = Row1(F, d)
  <2>1. F[0] = Row1(F, 0)
      BY <1>1, <1>7
  <2>2. ASSUME NEW d \in 1 .. n PROVE F[d] = Row1(F, d)
    <3>1. d # 0
        OBVIOUS
    <3> QED
        BY <1>8, <3>1, Zenon DEF Freeing
  <2>3. \A d \in 0 .. n : d = 0 \/ d \in 1 .. n
      OBVIOUS
  <2> QED
      BY <2>1, <2>2, <2>3, Zenon
<1>12. F = [d \in 0 .. n |-> Row1(F, d)]
    BY <1>7, <1>11, Zenon
<1>13. All = [d \in 0 .. n |-> Row1(All, d)]
    BY <1>12, Zenon
<1> HIDE DEF All
<1>14. \A d \in 0 .. n : All[d] = Row1(All, d)
    BY <1>13, Zenon
<1>15. \A d \in 0 .. n : All[d] = F[d]
  <2> DEFINE Bad == {d \in 0 .. n : All[d] # F[d]}
  <2>1. SUFFICES ASSUME Bad # {} PROVE FALSE
      OBVIOUS
  <2>2. Bad \in SUBSET Nat
      OBVIOUS
  <2>3. PICK d \in Bad : \A j \in Bad : d <= j
      BY <2>1, <2>2, NatMin, Zenon
  <2>4. d \in 0 .. n /\ All[d] # F[d]
      BY <2>3
  <2>5. CASE d = 0
    <3>1. Row1(All, d) = Row1(F, d)
        BY <2>5
    <3> HIDE DEF Row1
    <3> QED
        BY <1>11, <1>14, <2>4, <3>1
  <2>6. CASE d # 0
    <3>1. PICK j : j = d - 1
        OBVIOUS
    <3>2. j \in 0 .. n /\ ~(d <= j)
        BY <2>4, <2>6, <3>1
    <3>3. All[j] = F[j]
      <4>1. j \notin Bad
        <5> HIDE DEF Bad
        <5> QED
            BY <2>3, <3>2
      <4> QED
          BY <3>2, <4>1
    <3>4. Row1(All, d) = Row1(F, d)
        BY <3>1, <3>3
    <3> HIDE DEF Row1
    <3> QED
        BY <1>11, <1>14, <2>4, <3>4
  <2> QED
      BY <2>5, <2>6
<1>16. n \in 0 .. n
    OBVIOUS
<1> QED
    BY <1>9, <1>10, <1>15, <1>16

\* What is freed for the pages of a tree: each page of it below, and once.
Freeable(s, g, x) ==
  /\ \A p \in g.pages : /\ x[p] \in Seq(g.pages) /\ IsInjective(x[p])
                        /\ \A y \in Range(x[p]) : y = p \/ g.level[y] < g.level[p]
  /\ \A p, q \in g.pages : p # q /\ g.level[p] = g.level[q] => Range(x[p]) \cap Range(x[q]) = {}

\* If nothing is freed twice one level below, nothing is freed twice here.
LEMMA FreeingApart ==
  ASSUME NEW s, NEW g, StoreFits(s), g.pages \subseteq DOMAIN s.mem, Levelled(s, g), OneParent(s, g),
         \A p \in g.pages : g.hole[p] = 0, NEW x, Freeable(s, g, x), NEW z, z = Freeing(s, x)
  PROVE  Freeable(s, g, z)
<1>1. PICK P : P = g.pages
    OBVIOUS
<1>2. /\ \A p \in P : /\ x[p] \in Seq(P) /\ IsInjective(x[p])
                      /\ \A y \in Range(x[p]) : y = p \/ g.level[y] < g.level[p]
      /\ \A p, q \in P : p # q /\ g.level[p] = g.level[q] => Range(x[p]) \cap Range(x[q]) = {}
    BY <1>1, Zenon DEF Freeable
<1>3. \A p \in P : g.level[p] \in Nat
    BY <1>1 DEF Levelled
<1> DEFINE Branches == {p \in P : s.mem[p].kind = "branch"}
           ss(p) == [i \in DOMAIN s.mem[p].kids |-> x[s.mem[p].kids[i]]]
<1>4. \A p \in P : p \notin Branches => z[p] = <<p>>
    BY <1>1, Zenon DEF Freeing
<1>5. \A p \in Branches : z[p] = FlattenSeq(ss(p)) \o <<p>>
    BY <1>1, Zenon DEF Freeing
<1>6. \A p \in Branches : \A i \in DOMAIN s.mem[p].kids :
        s.mem[p].kids[i] \in P /\ g.level[p] = g.level[s.mem[p].kids[i]] + 1
  <2>1. \A p \in Branches : \A i \in DOMAIN s.mem[p].kids : i # 0
    <3> SUFFICES ASSUME NEW p \in Branches, NEW i \in DOMAIN s.mem[p].kids PROVE i # 0
        OBVIOUS
    <3>1. PageFits(s.mem[p], s.end)
        BY <1>1 DEF StoreFits
    <3>2. s.mem[p].kids \in Seq(1 .. s.end - 1)
        BY <3>1 DEF PageFits
    <3> QED
        BY <3>2
  <2>2. \A p \in Branches : p \in Inner(s, g) /\ \A i \in DOMAIN s.mem[p].kids : i \in Live(s, g, p)
      BY <1>1, <2>1 DEF Inner, Live
  <2> QED
      BY <1>1, <2>2 DEF Levelled
<1>7. \A p, q \in Branches : \A i \in DOMAIN s.mem[p].kids, j \in DOMAIN s.mem[q].kids :
        s.mem[p].kids[i] = s.mem[q].kids[j] => p = q /\ i = j
  <2>1. \A p \in Branches : \A i \in DOMAIN s.mem[p].kids : i # 0
    <3> SUFFICES ASSUME NEW p \in Branches, NEW i \in DOMAIN s.mem[p].kids PROVE i # 0
        OBVIOUS
    <3>1. PageFits(s.mem[p], s.end)
        BY <1>1 DEF StoreFits
    <3>2. s.mem[p].kids \in Seq(1 .. s.end - 1)
        BY <3>1 DEF PageFits
    <3> QED
        BY <3>2
  <2>2. \A p \in Branches : p \in Inner(s, g) /\ \A i \in DOMAIN s.mem[p].kids : i \in Live(s, g, p)
      BY <1>1, <2>1 DEF Inner, Live
  <2> QED
      BY <2>2 DEF OneParent
<1>8. ASSUME NEW p \in Branches
      PROVE  /\ ss(p) \in Seq(Seq(P))
             /\ \A i \in DOMAIN ss(p) : IsInjective(ss(p)[i])
             /\ \A i, j \in DOMAIN ss(p) : i # j => Range(ss(p)[i]) \cap Range(ss(p)[j]) = {}
  <2>1. PICK kids : kids = s.mem[p].kids
      OBVIOUS
  <2>2. PageFits(s.mem[p], s.end)
      BY <1>1 DEF StoreFits
  <2>3. kids \in Seq(1 .. s.end - 1)
      BY <2>1, <2>2 DEF PageFits
  <2>4. PICK n : n = Len(kids)
      BY Zenon
  <2>5. n \in Nat /\ DOMAIN kids = 1 .. n
      BY <2>3, <2>4
  <2>6. \A i \in 1 .. n : kids[i] \in P /\ g.level[p] = g.level[kids[i]] + 1
      BY <1>6, <2>1, <2>5
  <2>7. \A i, j \in 1 .. n : kids[i] = kids[j] => i = j
      BY <1>7, <2>1, <2>5
  <2>8. PICK r : r = ss(p)
      BY Zenon
  <2>9. r = [i \in 1 .. n |-> x[kids[i]]]
      BY <2>1, <2>5, <2>8
  <2>10. PICK Q : Q = Seq(P)
      OBVIOUS
  <2>11. \A i \in 1 .. n : x[kids[i]] \in Q
      BY <1>2, <2>6, <2>10
  <2>12. r \in Seq(Q)
      BY <2>5, <2>9, <2>11
  <2>13. \A i \in 1 .. n : IsInjective(r[i])
      BY <1>2, <2>6, <2>9
  <2>14. \A i, j \in 1 .. n : i # j => Range(r[i]) \cap Range(r[j]) = {}
    <3> SUFFICES ASSUME NEW i \in 1 .. n, NEW j \in 1 .. n, i # j PROVE Range(r[i]) \cap Range(r[j]) = {}
        OBVIOUS
    <3>1. PICK a, b : a = kids[i] /\ b = kids[j]
        OBVIOUS
    <3>2. a \in P /\ b \in P /\ g.level[p] = g.level[a] + 1 /\ g.level[p] = g.level[b] + 1 /\ a # b
        BY <2>6, <2>7, <3>1
    <3>3. g.level[a] = g.level[b]
        BY <1>3, <3>2
    <3> QED
        BY <1>2, <2>9, <3>1, <3>2, <3>3, Zenon
  <2>15. DOMAIN r = 1 .. n
      BY <2>9
  <2> HIDE DEF ss
  <2> QED
      BY <2>8, <2>10, <2>12, <2>13, <2>14, <2>15
<1>9. ASSUME NEW p \in Branches, NEW y \in Range(FlattenSeq(ss(p)))
      PROVE  \E i \in DOMAIN s.mem[p].kids : y \in Range(x[s.mem[p].kids[i]])
  <2>1. PICK r, u, Q : r = ss(p) /\ u = FlattenSeq(r) /\ Q = Seq(P)
      OBVIOUS
  <2>2. r \in Seq(Seq(P)) /\ y \in Range(u)
      BY <1>8, <1>9, <2>1
  <2>3. \E i \in DOMAIN r : y \in Range(r[i])
    <3>1. Flattened(u, r)
        BY <2>1, <2>2, FlattenIs, Zenon
    <3> QED
        BY <2>2, <3>1 DEF Flattened
  <2> QED
      BY <2>1, <2>3
<1>10. ASSUME NEW p \in Branches
       PROVE  FlattenSeq(ss(p)) \in Seq(P) /\ IsInjective(FlattenSeq(ss(p)))
  <2>1. PICK r, u : r = ss(p) /\ u = FlattenSeq(r)
      BY Zenon
  <2>2. /\ r \in Seq(Seq(P))
        /\ \A i \in DOMAIN r : IsInjective(r[i])
        /\ \A i, j \in DOMAIN r : i # j => Range(r[i]) \cap Range(r[j]) = {}
    <3> HIDE DEF ss
    <3> QED
        BY <1>8, <2>1
  <2>3. u \in Seq(P) /\ IsInjective(u)
    <3>1. u \in Seq(P) /\ Flattened(u, r)
        BY <2>1, <2>2, FlattenIs, Zenon
    <3> QED
        BY <2>2, <3>1 DEF Flattened
  <2> QED
      BY <2>1, <2>3
<1> HIDE DEF ss
<1>11. ASSUME NEW p \in Branches, NEW y \in Range(FlattenSeq(ss(p)))
       PROVE  y \in P /\ g.level[y] < g.level[p]
  <2>1. PICK i \in DOMAIN s.mem[p].kids : y \in Range(x[s.mem[p].kids[i]])
      BY <1>9
  <2>2. PICK k : k = s.mem[p].kids[i]
      OBVIOUS
  <2>3. k \in P /\ g.level[p] = g.level[k] + 1 /\ y \in Range(x[k])
      BY <1>6, <2>1, <2>2
  <2>4. x[k] \in Seq(P) /\ (y = k \/ g.level[y] < g.level[k])
      BY <1>2, <2>3
  <2>5. y \in P
      BY <2>3, <2>4 DEF Range
  <2> QED
      BY <1>3, <2>3, <2>4, <2>5
<1>12. \A p : <<p>> = [i \in 1 .. 1 |-> p] /\ Range(<<p>>) = {p} /\ IsInjective(<<p>>)
    BY DEF Range, IsInjective
<1>13. ASSUME NEW p \in P
       PROVE  /\ z[p] \in Seq(P) /\ IsInjective(z[p])
              /\ \A y \in Range(z[p]) : y = p \/ g.level[y] < g.level[p]
  <2>1. CASE p \notin Branches
    <3>1. z[p] = <<p>> /\ <<p>> \in Seq(P)
        BY <1>4, <2>1
    <3> QED
        BY <1>12, <3>1
  <2>2. CASE p \in Branches
    <3>1. PICK u, o, t : u = FlattenSeq(ss(p)) /\ o = <<p>> /\ t = z[p]
        BY Zenon
    <3>2. u \in Seq(P) /\ IsInjective(u) /\ o \in Seq(P) /\ t = u \o o
      <4>1. u \in Seq(P) /\ IsInjective(u)
          BY <1>10, <2>2, <3>1, Zenon
      <4>2. o \in Seq(P)
          BY ONLY <3>1, <1>13
      <4>3. t = u \o o
          BY <1>5, <2>2, <3>1, Zenon
      <4> QED
          BY <4>1, <4>2, <4>3, Zenon
    <3>3. t \in Seq(P) /\ Joined(t, u, o)
        BY <3>2, ConcatIs, Zenon
    <3>4. \A y \in Range(u) : g.level[y] < g.level[p]
        BY <1>11, <2>2, <3>1
    <3>5. p \notin Range(u) /\ Range(o) = {p} /\ IsInjective(o)
        BY <1>3, <1>12, <3>1, <3>4
    <3> QED
        BY <3>1, <3>2, <3>3, <3>4, <3>5 DEF Joined
  <2> QED
      BY <2>1, <2>2
<1>14. ASSUME NEW p \in P, NEW q \in P, p # q, g.level[p] = g.level[q], NEW y \in Range(z[p]), y \in Range(z[q])
       PROVE  FALSE
  <2>1. y # p
      BY <1>3, <1>13, <1>14
  <2>2. y # q
      BY <1>3, <1>13, <1>14
  <2>3. ASSUME NEW r \in P, y # r, y \in Range(z[r])
        PROVE  \E i \in DOMAIN s.mem[r].kids : r \in Branches /\ y \in Range(x[s.mem[r].kids[i]])
    <3>1. r \in Branches
      <4> SUFFICES ASSUME r \notin Branches PROVE FALSE
          OBVIOUS
      <4>1. z[r] = <<r>>
          BY <1>4, <2>3
      <4>2. Range(<<r>>) = {r}
          BY <1>12
      <4> QED
          BY <2>3, <4>1, <4>2
    <3>2. PICK u, o, t : u = FlattenSeq(ss(r)) /\ o = <<r>> /\ t = z[r]
        BY Zenon
    <3>3. u \in Seq(P) /\ o \in Seq(P) /\ t = u \o o
      <4>1. u \in Seq(P)
          BY <1>10, <3>1, <3>2, Zenon
      <4>2. r \in P
          BY <3>1
      <4>3. o \in Seq(P)
          BY ONLY <3>2, <4>2
      <4>4. t = u \o o
          BY <1>5, <3>1, <3>2, Zenon
      <4> QED
          BY <4>1, <4>3, <4>4, Zenon
    <3>4. Joined(t, u, o)
        BY <3>3, ConcatIs, Zenon
    <3>5. y \in Range(u)
        BY <1>12, <2>3, <3>2, <3>4 DEF Joined
    <3> QED
        BY <1>9, <3>1, <3>2, <3>5
  <2>4. PICK i \in DOMAIN s.mem[p].kids : p \in Branches /\ y \in Range(x[s.mem[p].kids[i]])
      BY <2>1, <2>3
  <2>5. PICK j \in DOMAIN s.mem[q].kids : q \in Branches /\ y \in Range(x[s.mem[q].kids[j]])
      BY <1>14, <2>2, <2>3
  <2>6. PICK a, b : a = s.mem[p].kids[i] /\ b = s.mem[q].kids[j]
      BY Zenon
  <2>7. a \in P /\ b \in P /\ g.level[p] = g.level[a] + 1 /\ g.level[q] = g.level[b] + 1 /\ a # b
      BY <1>6, <1>7, <1>14, <2>4, <2>5, <2>6
  <2>8. g.level[a] = g.level[b]
    <3>1. PICK la, lb, lp : la = g.level[a] /\ lb = g.level[b] /\ lp = g.level[p]
        BY Zenon
    <3>2. la \in Nat /\ lb \in Nat /\ lp = la + 1 /\ lp = lb + 1
        BY <1>3, <1>14, <2>7, <3>1, Zenon
    <3>3. la = lb
        BY <3>2
    <3> QED
        BY <3>1, <3>3
  <2> QED
      BY <1>2, <2>4, <2>5, <2>6, <2>7, <2>8, Zenon
<1>15. \A p, q \in P : p # q /\ g.level[p] = g.level[q] => Range(z[p]) \cap Range(z[q]) = {}
    BY <1>14
<1> QED
    BY <1>1, <1>13, <1>15, Zenon DEF Freeable

\* btree_destroy frees pages of the tree only, and none twice.
LEMMA FreedIs ==
  ASSUME NEW g, Tree(st, g), \A p \in g.pages : g.hole[p] = 0, NEW n \in Nat
  PROVE  Freeable(st, g, Freed(n))
<1>1. /\ StoreFits(st) /\ g.pages \subseteq DOMAIN st.mem /\ Levelled(st, g) /\ OneParent(st, g)
  <2>1. StoreFits(st) /\ g.pages \subseteq 2 .. st.end - 1
      BY DEF Tree, Owned
  <2>2. st.end \in Nat /\ DOMAIN st.mem = 1 .. st.end - 1
      BY <2>1 DEF StoreFits
  <2> QED
      BY <2>1, <2>2 DEF Tree
<1>2. PICK F : Frees(F, st, n) /\ Freed(n) = F[n]
    BY <1>1, FreedSteps
<1>3. F[0] = [p \in DOMAIN st.mem |-> <<p>>] /\ \A d \in 1 .. n : F[d] = Freeing(st, F[d - 1])
    BY <1>2 DEF Frees
<1> DEFINE Bad == {d \in 0 .. n : ~Freeable(st, g, F[d])}
<1>4. Bad = {}
  <2>1. SUFFICES ASSUME Bad # {} PROVE FALSE
      OBVIOUS
  <2>2. Bad \in SUBSET Nat
      OBVIOUS
  <2>3. PICK d \in Bad : \A j \in Bad : d <= j
      BY <2>1, <2>2, NatMin, Zenon
  <2>4. d \in 0 .. n /\ ~Freeable(st, g, F[d])
      BY <2>3
  <2>5. d # 0
    <3>1. PICK P, x : P = g.pages /\ x = F[0]
        OBVIOUS
    <3>2. \A p \in P : x[p] = <<p>>
        BY <1>1, <1>3, <3>1
    <3>3. \A p \in P : <<p>> \in Seq(P)
        OBVIOUS
    <3>4. \A p : <<p>> = [i \in 1 .. 1 |-> p] /\ Range(<<p>>) = {p} /\ IsInjective(<<p>>)
        BY DEF Range, IsInjective
    <3>5. \A p \in P : x[p] \in Seq(P) /\ IsInjective(x[p]) /\ Range(x[p]) = {p}
        BY <3>2, <3>3, <3>4, Zenon
    <3>6. \A p, q \in P : p # q => Range(x[p]) \cap Range(x[q]) = {}
        BY <3>5, Zenon
    <3>7. \A p \in P : \A y \in Range(x[p]) : y = p
        BY <3>5, Zenon
    <3>8. Freeable(st, g, x)
        BY <3>1, <3>5, <3>6, <3>7, Zenon DEF Freeable
    <3> QED
        BY <2>4, <3>1, <3>8
  <2>6. PICK j : j = d - 1
      OBVIOUS
  <2>7. j \in 0 .. n /\ ~(d <= j) /\ d \in 1 .. n
      BY <2>4, <2>5, <2>6
  <2>8. Freeable(st, g, F[j])
    <3>1. j \notin Bad
      <4> HIDE DEF Bad
      <4> QED
          BY <2>3, <2>7
    <3> QED
        BY <2>7, <3>1
  <2>9. F[d] = Freeing(st, F[j])
      BY <1>3, <2>6, <2>7
  <2>10. Freeable(st, g, F[d])
      BY <1>1, <2>8, <2>9, FreeingApart
  <2> QED
      BY <2>4, <2>10
<1>5. n \in 0 .. n
    OBVIOUS
<1> QED
    BY <1>2, <1>4, <1>5

\* The number of rows Below looks at.
LEMMA DepthIs == MaxDepth \in Nat
<1>1. LeafCap \in Nat /\ MaxAdds \in Nat /\ BranchCap \in Nat /\ BranchCap >= 3
    BY Sizes
<1>2. CASE MaxAdds <= LeafCap
    BY <1>2 DEF MaxDepth
<1>3. CASE ~(MaxAdds <= LeafCap)
  <2>1. PICK a, b : a = MaxAdds - LeafCap - 1 /\ b = BranchCap
      OBVIOUS
  <2>2. a \in Nat /\ b \in Nat /\ b > 0
      BY <1>1, <1>3, <2>1
  <2>3. a \div b \in Nat
      BY <2>2
  <2> QED
      BY <1>3, <2>1, <2>3 DEF MaxDepth
<1> QED
    BY <1>2, <1>3

\* Pages of the tree can be given back in any order.
LEMMA GiveBack ==
  ASSUME NEW s, NEW H, Owned(s, H), NEW u \in Seq(H), IsInjective(u),
         NEW t, t = [mem |-> s.mem, end |-> s.end, free |-> Reverse(u) \o s.free]
  PROVE  StoreFits(t)
<1>1. /\ s.end \in Nat /\ s.end >= 2 /\ DOMAIN s.mem = 1 .. s.end - 1
      /\ \A p \in 1 .. s.end - 1 : PageFits(s.mem[p], s.end)
      /\ s.free \in Seq(2 .. s.end - 1) /\ IsInjective(s.free)
      /\ H \subseteq 2 .. s.end - 1 /\ \A p \in H : p \notin Range(s.free)
    BY DEF Owned, StoreFits
<1>2. PICK r, n, T : r = Reverse(u) /\ n = Len(u) /\ T = 2 .. s.end - 1
    OBVIOUS
<1>3. n \in Nat /\ DOMAIN u = 1 .. n /\ \A i \in 1 .. n : u[i] \in H
    BY <1>2
<1>4. r = [i \in 1 .. n |-> u[(n - i) + 1]]
    BY <1>2 DEF Reverse
<1>5. \A i \in 1 .. n : (n - i) + 1 \in 1 .. n
    BY <1>3
<1>6. r \in Seq(T) /\ DOMAIN r = 1 .. n /\ \A i \in 1 .. n : r[i] \in H
  <2>1. \A i \in 1 .. n : r[i] \in H /\ r[i] \in T
      BY <1>1, <1>2, <1>3, <1>4, <1>5, Zenon
  <2> QED
      BY <1>3, <1>4, <2>1
<1>7. IsInjective(r)
  <2> SUFFICES ASSUME NEW i \in 1 .. n, NEW j \in 1 .. n, r[i] = r[j] PROVE i = j
      BY <1>6 DEF IsInjective
  <2>1. PICK a, b : a = (n - i) + 1 /\ b = (n - j) + 1
      OBVIOUS
  <2>2. a \in 1 .. n /\ b \in 1 .. n /\ u[a] = u[b]
      BY <1>4, <1>5, <2>1, Zenon
  <2>3. a = b
      BY <1>3, <2>2, Zenon DEF IsInjective
  <2> QED
      BY <1>3, <2>1, <2>3
<1>8. Range(r) \cap Range(s.free) = {}
    BY <1>1, <1>6 DEF Range
<1>9. PICK f, w : f = s.free /\ w = r \o f
    BY Zenon
<1>10. w \in Seq(T) /\ IsInjective(w)
  <2>1. f \in Seq(T) /\ IsInjective(f) /\ Range(r) \cap Range(f) = {}
      BY <1>1, <1>2, <1>8, <1>9
  <2>2. w \in Seq(T) /\ Joined(w, r, f)
      BY <1>6, <1>9, <2>1, ConcatIs, Zenon
  <2> QED
      BY <1>7, <2>1, <2>2 DEF Joined
<1>11. t.mem = s.mem /\ t.end = s.end /\ t.free = w /\ t = [mem |-> t.mem, end |-> t.end, free |-> t.free]
    BY <1>2, <1>9, Zenon
<1> QED
    BY <1>1, <1>2, <1>10, <1>11, Zenon DEF StoreFits

\* btree_destroy leaves no tree, and a store whose free list has no page twice.
LEMMA DestroyFormed ==
  ASSUME NEW g, Idle(g), Destroy
  PROVE  (\E h : Idle(h)') /\ st'.end = st.end
<1>1. PICK u : u = Freed(MaxDepth)[root]
    OBVIOUS
<1>2. /\ root # 0 /\ st' = [st EXCEPT !.free = Reverse(u) \o @] /\ root' = 0
      /\ cur' = cur /\ path' = path /\ up' = up /\ call' = call
    BY <1>1 DEF Destroy
<1>3. /\ path = <<>> /\ cur = 0 /\ up = NoUp /\ call = NoCall /\ Whole(st, g, root)
    BY <1>2 DEF Idle
<1>4. /\ Tree(st, g) /\ root \in g.pages /\ \A p \in g.pages : g.hole[p] = 0
    BY <1>3 DEF Whole, Loose
<1>5. Owned(st, g.pages \cup g.stacks)
    BY <1>4 DEF Tree
<1>6. u \in Seq(g.pages) /\ IsInjective(u)
    BY <1>1, <1>4, DepthIs, FreedIs DEF Freeable
<1>7. st = [mem |-> st.mem, end |-> st.end, free |-> st.free]
    BY <1>5 DEF Owned, StoreFits
<1>8. st' = [mem |-> st.mem, end |-> st.end, free |-> Reverse(u) \o st.free]
    BY <1>2, <1>7, Zenon
<1>9. PICK H, t : H = g.pages \cup g.stacks /\ t = st'
    BY Zenon
<1>10. u \in Seq(H)
    BY <1>6, <1>9
<1>11. StoreFits(t)
    BY <1>5, <1>6, <1>8, <1>9, <1>10, GiveBack, Zenon
<1>12. PICK h : h = [pages |-> {}, stacks |-> {}]
    BY Zenon
<1>13. Idle(h)'
    BY <1>2, <1>3, <1>9, <1>11, <1>12 DEF Idle
<1>14. st'.end = st.end
    BY <1>8
<1> QED
    BY <1>13, <1>14

(* The counters, the client's root and the page a lookup has reached. *)

\* The file never shrinks.
Lengthens(s, t) == s.end \in Nat => t.end \in Nat /\ s.end <= t.end

\* store_alloc may make the file longer.
LEMMA PutNewEnd ==
  ASSUME NEW s, NEW c, NEW t, t = PutNew(s, c)
  PROVE  Lengthens(s, t)
    BY DEF PutNew, Lengthens

\* Freeing the page that was copied keeps the length.
LEMMA ReleaseEnd ==
  ASSUME NEW s, NEW c, NEW p, NEW t, t = Release(PutNew(s, c), p)
  PROVE  Lengthens(s, t)
<1>1. PICK m, e, f : PutNew(s, c) = [mem |-> m, end |-> e, free |-> f]
    BY Zenon DEF PutNew
<1>2. t = [[mem |-> m, end |-> e, free |-> f] EXCEPT !.free = <<p>> \o @]
    BY <1>1 DEF Release
<1>3. t = [mem |-> m, end |-> e, free |-> <<p>> \o f]
    BY <1>2, Zenon
<1>4. t.end = e /\ PutNew(s, c).end = e
    BY <1>1, <1>3
<1>5. PICK u : u = PutNew(s, c)
    OBVIOUS
<1>6. Lengthens(s, u)
    BY <1>5, PutNewEnd
<1> QED
    BY <1>4, <1>5, <1>6 DEF Lengthens

\* bstack_add allocates one page at most.
LEMMA StackAddEnd ==
  ASSUME NEW s, NEW p, NEW val, NEW t, t = StackAdd(s, p, val)
  PROVE  Lengthens(s, t)
<1>1. CASE Len(s.mem[p].vals) = StackCap
  <2>1. PICK c : c = Stack(<<val>>, p)
      OBVIOUS
  <2>2. t = PutNew(s, c)
      BY <1>1, <2>1 DEF StackAdd
  <2> QED
      BY <2>2, PutNewEnd
<1>2. CASE Len(s.mem[p].vals) # StackCap
  <2>1. PICK c : c = Stack(Append(s.mem[p].vals, val), s.mem[p].next)
      OBVIOUS
  <2>2. t = Release(PutNew(s, c), p)
      BY <1>2, <2>1 DEF StackAdd
  <2> QED
      BY <2>2, ReleaseEnd
<1> QED
    BY <1>1, <1>2

\* The steps that write pages, but for those of btree_create and btree_add's end.
Writes == LeafAdd \/ LeafAddDup \/ LeafSplitUp \/ BranchAdd \/ BranchSplitUp

\* These steps lengthen the file at most, and leave the client's state alone.
LEMMA WritesEnd ==
  ASSUME Writes
  PROVE  /\ Lengthens(st, st')
         /\ root' = root /\ trees' = trees /\ adds' = adds /\ find' = find
<1>1. CASE LeafAdd
  <2>1. PICK c : st' = Replace(st, cur, c) /\ root' = root /\ trees' = trees /\ adds' = adds /\ find' = find
      BY <1>1 DEF LeafAdd
  <2>2. PICK t : t = st'
      OBVIOUS
  <2>3. t = Release(PutNew(st, c), cur)
      BY <2>1, <2>2 DEF Replace
  <2>4. Lengthens(st, t)
      BY <2>3, ReleaseEnd
  <2> QED
      BY <2>1, <2>2, <2>4
<1>2. CASE LeafAddDup
  <2>1. root' = root /\ trees' = trees /\ adds' = adds /\ find' = find
      BY <1>2 DEF LeafAddDup
  <2>2. PICK created, before, stack, added, c, x :
          /\ created = PutNew(st, Stack(<<>>, 0))
          /\ before = IF HasOverflow(At.keys[Place]) THEN st
                      ELSE StackAdd(created, NextPage(st), At.vals[Place])
          /\ added = StackAdd(before, stack, call[2])
          /\ st' = Replace(added, cur, c)
      BY <1>2 DEF LeafAddDup
  <2>3. Lengthens(st, created)
      BY <2>2, PutNewEnd
  <2>4. PICK f, old, d : f = NextPage(st) /\ old = At.vals[Place] /\ d = StackAdd(created, f, old)
      OBVIOUS
  <2>5. Lengthens(created, d)
      BY <2>4, StackAddEnd
  <2>6. before = st \/ before = d
      BY <2>2, <2>4
  <2>7. PICK val : val = call[2]
      OBVIOUS
  <2>8. added = StackAdd(before, stack, val)
      BY <2>2, <2>7
  <2>9. Lengthens(before, added)
      BY <2>8, StackAddEnd
  <2>10. PICK t : t = st'
      OBVIOUS
  <2>11. t = Release(PutNew(added, c), cur)
      BY <2>2, <2>10 DEF Replace
  <2>12. Lengthens(added, t)
      BY <2>11, ReleaseEnd
  <2>13. Lengthens(st, t)
      BY <2>3, <2>5, <2>6, <2>9, <2>12 DEF Lengthens
  <2> QED
      BY <2>1, <2>10, <2>13
<1>3. ASSUME NEW a, NEW b, NEW p, st' = Release(PutNew(PutNew(st, a), b), p)
      PROVE  Lengthens(st, st')
  <2>1. PICK u, t : u = PutNew(st, a) /\ t = st'
      OBVIOUS
  <2>2. t = Release(PutNew(u, b), p)
      BY <1>3, <2>1
  <2>3. Lengthens(st, u)
      BY <2>1, PutNewEnd
  <2>4. Lengthens(u, t)
      BY <2>2, ReleaseEnd
  <2> QED
      BY <2>1, <2>3, <2>4 DEF Lengthens
<1>4. CASE LeafSplitUp
  <2>1. root' = root /\ trees' = trees /\ adds' = adds /\ find' = find
      BY <1>4 DEF LeafSplitUp
  <2>2. PICK a, b : st' = Release(PutNew(PutNew(st, a), b), cur)
      BY <1>4 DEF LeafSplitUp
  <2> QED
      BY <1>3, <2>1, <2>2
<1>5. CASE BranchAdd
  <2>1. PICK c, p : st' = Replace(st, p, c) /\ root' = root /\ trees' = trees /\ adds' = adds /\ find' = find
      BY <1>5 DEF BranchAdd
  <2>2. PICK t : t = st'
      OBVIOUS
  <2>3. t = Release(PutNew(st, c), p)
      BY <2>1, <2>2 DEF Replace
  <2>4. Lengthens(st, t)
      BY <2>3, ReleaseEnd
  <2> QED
      BY <2>1, <2>2, <2>4
<1>6. CASE BranchSplitUp
  <2>1. root' = root /\ trees' = trees /\ adds' = adds /\ find' = find
      BY <1>6 DEF BranchSplitUp
  <2>2. PICK a, b, p : st' = Release(PutNew(PutNew(st, a), b), p)
      BY <1>6 DEF BranchSplitUp
  <2> QED
      BY <1>3, <2>1, <2>2
<1> QED
    BY <1>1, <1>2, <1>4, <1>5, <1>6 DEF Writes

\* A store as a call leaves it, and the root in it.
LEMMA FormedStore ==
  ASSUME NEW g, Formed(g)
  PROVE  /\ StoreFits(st)
         /\ pc # "ascend" => root \in 0 .. st.end - 1
<1>1. CASE pc = "idle" /\ Idle(g)
  <2>1. CASE root = 0
      BY <1>1, <2>1 DEF Idle, StoreFits
  <2>2. CASE root # 0
    <3>1. Whole(st, g, root)
        BY <1>1, <2>2 DEF Idle
    <3>2. Owned(st, g.pages \cup g.stacks) /\ root \in g.pages
        BY <3>1 DEF Whole, Tree, Loose
    <3> QED
        BY <3>2 DEF Owned, StoreFits
  <2> QED
      BY <2>1, <2>2
<1>2. CASE pc = "descend" /\ Descending(g)
  <2>1. Whole(st, g, root)
      BY <1>2 DEF Descending
  <2>2. Owned(st, g.pages \cup g.stacks) /\ root \in g.pages
      BY <2>1 DEF Whole, Tree, Loose
  <2> QED
      BY <2>2 DEF Owned, StoreFits
<1>3. CASE pc = "ascend" /\ Ascending(g)
  <2>1. Owned(st, g.pages \cup g.stacks)
      BY <1>3 DEF Ascending, Tree
  <2> QED
      BY <1>3, <2>1 DEF Owned
<1> QED
    BY <1>1, <1>2, <1>3 DEF Formed

\* A lookup stays on a page of the store.
LEMMA FindStays ==
  ASSUME Counted, st.end \in Nat, Lengthens(st, st'), find' = find
  PROVE  find' \in [key : FindKeys \cup {0}, page : 0 .. st'.end - 1, had : BOOLEAN]
<1>1. PICK m, n : m = st.end /\ n = st'.end
    OBVIOUS
<1>2. m \in Nat /\ n \in Nat /\ m <= n
    BY <1>1 DEF Lengthens
<1>3. find \in [key : FindKeys \cup {0}, page : 0 .. m - 1, had : BOOLEAN]
    BY <1>1 DEF Counted
<1>4. find \in [key : FindKeys \cup {0}, page : 0 .. n - 1, had : BOOLEAN]
    BY <1>2, <1>3
<1> QED
    BY <1>1, <1>4

\* btree_find goes from a page of the store to another one.
LEMMA FindDescendCounted ==
  ASSUME Counted, StoreFits(st), FindDescend
  PROVE  find' \in [key : FindKeys \cup {0}, page : 0 .. st.end - 1, had : BOOLEAN]
<1>1. PICK pg, i, n : pg = st.mem[find.page] /\ i = BranchFind(pg, find.key) /\ n = st.end
    OBVIOUS
<1>2. find.page # 0 /\ pg.kind = "branch" /\ find' = [find EXCEPT !.page = pg.kids[i]]
    BY <1>1 DEF FindDescend
<1>3. /\ find \in [key : FindKeys \cup {0}, page : 0 .. n - 1, had : BOOLEAN]
      /\ n \in Nat
    BY <1>1 DEF Counted, StoreFits
<1>4. find.page \in 1 .. n - 1 /\ find.key \in Nat
    BY <1>2, <1>3, BTreeAssumption
<1>5. PageFits(pg, n)
    BY <1>1, <1>4 DEF StoreFits
<1>6. pg.keys \in Seq(Nat) /\ pg.kids \in Seq(1 .. n - 1) /\ Len(pg.kids) = Len(pg.keys) + 1
    BY <1>2, <1>5 DEF PageFits
<1>7. PICK key : key = find.key
    OBVIOUS
<1>8. i \in 1 .. Len(pg.keys) + 1
    BY <1>1, <1>4, <1>6, <1>7, BranchFindIs, Zenon
<1>9. pg.kids[i] \in 1 .. n - 1
  <2>1. PICK kids, T : kids = pg.kids /\ T = 1 .. n - 1
      OBVIOUS
  <2>2. kids \in Seq(T) /\ i \in 1 .. Len(kids)
      BY <1>6, <1>8, <2>1
  <2>3. kids[i] \in T
      BY <2>2
  <2> QED
      BY <2>1, <2>3
<1>10. pg.kids[i] \in 0 .. n - 1
    BY <1>3, <1>9
<1> QED
    BY <1>1, <1>2, <1>3, <1>10

(* The invariant. *)

\* The inductive invariant: the pages form what the place in the call demands,
\* for some levels, places being replaced and stacks.
IInv == Counted /\ \E g : Formed(g)

\* What a step that leaves the tree alone keeps.
LEMMA FormedSame ==
  ASSUME NEW g, Formed(g), st' = st, root' = root, adds' = adds, pc' = pc, call' = call,
         cur' = cur, path' = path, up' = up
  PROVE  Formed(g)'
<1>1. CASE pc = "idle" /\ Idle(g)
  <2>1. Idle(g)'
      BY <1>1 DEF Idle
  <2> QED
      BY <1>1, <2>1 DEF Formed
<1>2. CASE pc = "descend" /\ Descending(g)
  <2>1. Descending(g)'
      BY <1>2 DEF Descending
  <2> QED
      BY <1>2, <2>1 DEF Formed
<1>3. CASE pc = "ascend" /\ Ascending(g)
  <2>1. Ends' = Ends /\ Top' = Top
      BY DEF Ends, Top
  <2>2. Ascending(g)'
      BY <1>3, <2>1 DEF Ascending
  <2> QED
      BY <1>3, <2>2 DEF Formed
<1> QED
    BY <1>1, <1>2, <1>3 DEF Formed

\* At the start there is no tree.
LEMMA IInvInit ==
  ASSUME Init
  PROVE  IInv
<1>1. PICK g : g = [pages |-> {}, stacks |-> {}]
    BY Zenon
<1>2. /\ root = 0 /\ trees = 0 /\ adds = 0 /\ pc = "idle" /\ call = NoCall /\ cur = 0 /\ path = <<>>
      /\ up = NoUp /\ find = NoFind
    BY DEF Init
<1>3. st = [mem |-> [p \in {1} |-> EmptyRoot], end |-> 2, free |-> <<>>]
    BY DEF Init
<1>4. PageFits(EmptyRoot, 2)
    BY Sizes DEF PageFits, EmptyRoot, Leaf
<1>5. StoreFits(st)
  <2>1. PICK s : s = st
      OBVIOUS
  <2>2. s.mem = [p \in {1} |-> EmptyRoot] /\ s.end = 2 /\ s.free = <<>>
      BY <1>3, <2>1
  <2>3. s = [mem |-> s.mem, end |-> s.end, free |-> s.free]
      BY <1>3, <2>1, <2>2
  <2>4. DOMAIN s.mem = 1 .. 1 /\ \A p \in 1 .. 1 : s.mem[p] = EmptyRoot
      BY <2>2
  <2>5. <<>> \in Seq(2 .. 1) /\ IsInjective(<<>>)
      BY DEF IsInjective
  <2> QED
      BY <1>4, <2>1, <2>2, <2>3, <2>4, <2>5 DEF StoreFits
<1>6. Idle(g)
    BY <1>1, <1>2, <1>5 DEF Idle
<1>7. Counted
    BY <1>2, <1>3, Sizes DEF Counted, NoFind
<1> QED
    BY <1>2, <1>6, <1>7 DEF IInv, Formed

\* What the client gets is a page of the store.
LEMMA IdleRoot ==
  ASSUME NEW g, Idle(g)'
  PROVE  root' \in 0 .. st'.end - 1
<1>1. CASE root' = 0
  <2>1. StoreFits(st')
      BY <1>1 DEF Idle
  <2> QED
      BY <1>1, <2>1 DEF StoreFits
<1>2. CASE root' # 0
  <2>1. Whole(st', g, root')
      BY <1>2 DEF Idle
  <2>2. Owned(st', g.pages \cup g.stacks) /\ root' \in g.pages
      BY <2>1 DEF Whole, Tree, Loose
  <2> QED
      BY <2>2 DEF Owned, StoreFits
<1> QED
    BY <1>1, <1>2

\* btree_create keeps the invariant.
LEMMA CreateStep ==
  ASSUME IInv, Create
  PROVE  IInv'
<1>1. PICK g : Counted /\ Formed(g)
    BY DEF IInv
<1>2. /\ pc = "idle" /\ root = 0 /\ trees < MaxTrees /\ trees' = trees + 1
      /\ adds' = adds /\ pc' = pc /\ find' = find
    BY DEF Create
<1>3. Idle(g) /\ StoreFits(st)
    BY <1>1, <1>2, FormedStore DEF Formed
<1>4. adds \in Nat
    BY <1>1, Sizes DEF Counted
<1>5. PICK h : Idle(h)'
    BY <1>3, <1>4, CreateFormed
<1>6. Formed(h)'
    BY <1>2, <1>5 DEF Formed
<1>7. root' \in 0 .. st'.end - 1
    BY <1>5, IdleRoot
<1>8. find' \in [key : FindKeys \cup {0}, page : 0 .. st'.end - 1, had : BOOLEAN]
  <2>1. PICK t : t = st'
      OBVIOUS
  <2>2. t = PutNew(st, EmptyRoot)
      BY <2>1 DEF Create
  <2>3. Lengthens(st, t)
      BY <2>2, PutNewEnd
  <2>4. st.end \in Nat /\ Lengthens(st, st')
      BY <1>3, <2>1, <2>3 DEF StoreFits
  <2> QED
      BY <1>1, <1>2, <2>4, FindStays
<1>9. trees' \in 0 .. MaxTrees /\ adds' \in 0 .. MaxAdds
    BY <1>1, <1>2, Sizes DEF Counted
<1> QED
    BY <1>6, <1>7, <1>8, <1>9 DEF IInv, Counted

\* btree_destroy keeps it.
LEMMA DestroyStep ==
  ASSUME IInv, Destroy
  PROVE  IInv'
<1>1. PICK g : Counted /\ Formed(g)
    BY DEF IInv
<1>2. /\ pc = "idle" /\ root' = 0 /\ trees' = trees /\ adds' = adds /\ pc' = pc /\ find' = find
    BY DEF Destroy
<1>3. Idle(g)
    BY <1>1, <1>2 DEF Formed
<1>4. PICK h : Idle(h)' /\ st'.end = st.end
    BY <1>3, DestroyFormed
<1>5. Formed(h)'
    BY <1>2, <1>4 DEF Formed
<1>6. st.end \in Nat /\ st.end >= 2
    BY <1>1, FormedStore DEF StoreFits
<1>7. Counted'
    BY <1>1, <1>2, <1>4, <1>6 DEF Counted
<1> QED
    BY <1>5, <1>7 DEF IInv

\* The end of btree_add keeps it.
LEMMA EndAddStep ==
  ASSUME IInv, EndAdd
  PROVE  IInv'
<1>1. PICK g : Counted /\ Formed(g)
    BY DEF IInv
<1>2. pc = "ascend" /\ pc' = "idle" /\ trees' = trees /\ adds' = adds /\ find' = find
    BY DEF EndAdd
<1>3. Ascending(g) /\ StoreFits(st)
    BY <1>1, <1>2, FormedStore DEF Formed
<1>4. adds \in Nat
    BY <1>1, Sizes DEF Counted
<1>5. PICK h : Idle(h)'
    BY <1>3, <1>4, EndAddFormed
<1>6. Formed(h)'
    BY <1>2, <1>5 DEF Formed
<1>7. root' \in 0 .. st'.end - 1
    BY <1>5, IdleRoot
<1>8. Lengthens(st, st')
  <2>1. CASE up.split = 0
    <3>1. st' = st
        BY <2>1 DEF EndAdd
    <3> QED
        BY <3>1 DEF Lengthens
  <2>2. CASE up.split # 0
    <3>1. PICK c, t : st' = PutNew(st, c) /\ t = st'
        BY <2>2, Zenon DEF EndAdd
    <3>2. Lengthens(st, t)
        BY <3>1, PutNewEnd
    <3> QED
        BY <3>1, <3>2
  <2> QED
      BY <2>1, <2>2
<1>9. st.end \in Nat
    BY <1>3 DEF StoreFits
<1>10. find' \in [key : FindKeys \cup {0}, page : 0 .. st'.end - 1, had : BOOLEAN]
    BY <1>1, <1>2, <1>8, <1>9, FindStays
<1>11. trees' \in 0 .. MaxTrees /\ adds' \in 0 .. MaxAdds
    BY <1>1, <1>2 DEF Counted
<1> QED
    BY <1>6, <1>7, <1>10, <1>11 DEF IInv, Counted

\* The beginning of btree_add keeps it.
LEMMA BeginAddStep ==
  ASSUME IInv, NEW in \in Inputs, BeginAdd(in)
  PROVE  IInv'
<1>1. PICK g : Counted /\ Formed(g)
    BY DEF IInv
<1>2. /\ pc = "idle" /\ adds < MaxAdds /\ adds' = adds + 1 /\ pc' = "descend"
      /\ st' = st /\ root' = root /\ trees' = trees /\ find' = find
    BY DEF BeginAdd
<1>3. Idle(g)
    BY <1>1, <1>2 DEF Formed
<1>4. adds \in Nat
    BY <1>1, Sizes DEF Counted
<1>5. Descending(g)'
    BY <1>3, <1>4, BeginAddFormed
<1>6. Formed(g)'
    BY <1>2, <1>5 DEF Formed
<1>7. Counted'
    BY <1>1, <1>2, <1>4, Sizes DEF Counted
<1> QED
    BY <1>6, <1>7 DEF IInv

\* A call of btree_recur_add keeps it.
LEMMA DescendStep ==
  ASSUME IInv, Descend
  PROVE  IInv'
<1>1. PICK g : Counted /\ Formed(g)
    BY DEF IInv
<1>2. /\ pc = "descend" /\ st' = st /\ root' = root /\ trees' = trees /\ adds' = adds /\ pc' = pc
      /\ find' = find
    BY DEF Descend
<1>3. Descending(g)
    BY <1>1, <1>2 DEF Formed
<1>4. Descending(g)'
    BY <1>3, DescendFormed
<1>5. Formed(g)'
    BY <1>2, <1>4 DEF Formed
<1>6. Counted'
    BY <1>1, <1>2 DEF Counted
<1> QED
    BY <1>5, <1>6 DEF IInv

\* Every step of btree_add that writes pages.
LEMMA WritesStep ==
  ASSUME IInv, Writes
  PROVE  IInv'
<1>1. PICK g : Counted /\ Formed(g)
    BY DEF IInv
<1>2. adds \in Nat
    BY <1>1, Sizes DEF Counted
<1>3. /\ Lengthens(st, st')
      /\ root' = root /\ trees' = trees /\ adds' = adds /\ find' = find
    BY WritesEnd
<1>4. pc' = "ascend" /\ \E h : Ascending(h)'
  <2>1. CASE LeafAdd
    <3>1. pc = "descend" /\ pc' = "ascend"
        BY <2>1 DEF LeafAdd, GiveUp
    <3>2. Descending(g)
        BY <1>1, <3>1 DEF Formed
    <3> QED
        BY <2>1, <3>1, <3>2, LeafAddFormed
  <2>2. CASE LeafAddDup
    <3>1. pc = "descend" /\ pc' = "ascend"
        BY <2>2 DEF LeafAddDup, GiveUp
    <3>2. Descending(g)
        BY <1>1, <3>1 DEF Formed
    <3> QED
        BY <1>2, <2>2, <3>1, <3>2, LeafAddDupFormed
  <2>3. CASE LeafSplitUp
    <3>1. pc = "descend" /\ pc' = "ascend"
        BY <2>3 DEF LeafSplitUp, GiveUp
    <3>2. Descending(g)
        BY <1>1, <3>1 DEF Formed
    <3> QED
        BY <2>3, <3>1, <3>2, LeafSplitFormed
  <2>4. CASE BranchAdd
    <3>1. pc = "ascend" /\ pc' = "ascend"
        BY <2>4 DEF BranchAdd, GiveUp
    <3>2. Ascending(g)
        BY <1>1, <3>1 DEF Formed
    <3> QED
        BY <1>2, <2>4, <3>1, <3>2, BranchAddFormed
  <2>5. CASE BranchSplitUp
    <3>1. pc = "ascend" /\ pc' = "ascend"
        BY <2>5 DEF BranchSplitUp, GiveUp
    <3>2. Ascending(g)
        BY <1>1, <3>1 DEF Formed
    <3> QED
        BY <1>2, <2>5, <3>1, <3>2, BranchSplitFormed
  <2> QED
      BY <2>1, <2>2, <2>3, <2>4, <2>5 DEF Writes
<1>5. PICK h : Formed(h)'
    BY <1>4 DEF Formed
<1>6. StoreFits(st) /\ st.end \in Nat
    BY <1>1, FormedStore DEF StoreFits
<1>7. find' \in [key : FindKeys \cup {0}, page : 0 .. st'.end - 1, had : BOOLEAN]
    BY <1>1, <1>3, <1>6, FindStays
<1>8. root' \in 0 .. st'.end - 1
    BY <1>1, <1>3, <1>6 DEF Counted, Lengthens
<1>9. trees' \in 0 .. MaxTrees /\ adds' \in 0 .. MaxAdds
    BY <1>1, <1>3 DEF Counted
<1> QED
    BY <1>5, <1>7, <1>8, <1>9 DEF IInv, Counted

\* A lookup changes nothing but its own place.
LEMMA FindStep ==
  ASSUME IInv, (\E key \in FindKeys : FindBegin(key)) \/ FindDescend \/ FindEnd
  PROVE  IInv'
<1>1. PICK g : Counted /\ Formed(g)
    BY DEF IInv
<1>2. /\ st' = st /\ root' = root /\ trees' = trees /\ adds' = adds /\ pc' = pc /\ call' = call
      /\ cur' = cur /\ path' = path /\ up' = up
    BY DEF FindBegin, FindDescend, FindEnd
<1>3. Formed(g)'
    BY <1>1, <1>2, FormedSame
<1>4. StoreFits(st) /\ st.end \in Nat /\ st.end >= 2
    BY <1>1, FormedStore DEF StoreFits
<1>5. find' \in [key : FindKeys \cup {0}, page : 0 .. st.end - 1, had : BOOLEAN]
  <2>1. ASSUME NEW key \in FindKeys, FindBegin(key)
        PROVE  find' \in [key : FindKeys \cup {0}, page : 0 .. st.end - 1, had : BOOLEAN]
    <3>1. PICK b : b = (key \in KeysBelow({root}))
        OBVIOUS
    <3>2. b \in BOOLEAN
        BY <3>1
    <3>3. find' = [key |-> key, page |-> root, had |-> b]
        BY <2>1, <3>1 DEF FindBegin
    <3>4. root \in 0 .. st.end - 1
        BY <1>1 DEF Counted
    <3> QED
        BY <3>2, <3>3, <3>4
  <2>2. CASE FindDescend
      BY <1>1, <1>4, <2>2, FindDescendCounted
  <2>3. CASE FindEnd
      BY <1>4, <2>3 DEF FindEnd, NoFind
  <2> QED
      BY <2>1, <2>2, <2>3
<1>6. Counted'
    BY <1>1, <1>2, <1>5 DEF Counted
<1> QED
    BY <1>3, <1>6 DEF IInv

\* Every step keeps the invariant.
LEMMA IInvStep ==
  ASSUME IInv, [Next]_vars
  PROVE  IInv'
<1>1. CASE Create
    BY <1>1, CreateStep
<1>2. CASE Destroy
    BY <1>2, DestroyStep
<1>3. CASE \E in \in Inputs : BeginAdd(in)
    BY <1>3, BeginAddStep
<1>4. CASE Descend
    BY <1>4, DescendStep
<1>5. CASE LeafAdd \/ LeafAddDup \/ LeafSplitUp \/ BranchAdd \/ BranchSplitUp
    BY <1>5, WritesStep DEF Writes
<1>6. CASE EndAdd
    BY <1>6, EndAddStep
<1>7. CASE (\E key \in FindKeys : FindBegin(key)) \/ FindDescend \/ FindEnd
    BY <1>7, FindStep
<1>8. CASE UNCHANGED vars
  <2>1. PICK g : Counted /\ Formed(g)
      BY DEF IInv
  <2>2. /\ st' = st /\ root' = root /\ trees' = trees /\ adds' = adds /\ pc' = pc /\ call' = call
        /\ cur' = cur /\ path' = path /\ up' = up /\ find' = find
      BY <1>8 DEF vars
  <2>3. Formed(g)'
      BY <2>1, <2>2, FormedSame
  <2>4. Counted'
      BY <2>1, <2>2 DEF Counted
  <2> QED
      BY <2>3, <2>4 DEF IInv
<1> QED
    BY <1>1, <1>2, <1>3, <1>4, <1>5, <1>6, <1>7, <1>8 DEF Next

\* The invariant holds in every state a client can bring the tree to.
THEOREM InvariantHolds == Spec => []IInv
<1>1. Init => IInv
    BY IInvInit
<1>2. IInv /\ [Next]_vars => IInv'
    BY IInvStep
<1> QED
    BY <1>1, <1>2, PTL DEF Spec

(* The pages below a set of pages, level by level. *)

\* One level further down.
Lower(s, x) == UNION {Kids(s.mem[p]) : p \in x}

\* The pages there are pages of the store.
LEMMA LowerIs ==
  ASSUME NEW s, StoreFits(s), NEW x \in SUBSET DOMAIN s.mem
  PROVE  Lower(s, x) \in SUBSET DOMAIN s.mem
<1>1. PICK P : P = DOMAIN s.mem
    OBVIOUS
<1>2. P = 1 .. s.end - 1 /\ \A p \in P : PageFits(s.mem[p], s.end)
    BY <1>1 DEF StoreFits
<1>3. ASSUME NEW p \in P PROVE Kids(s.mem[p]) \subseteq P
  <2>1. CASE s.mem[p].kind = "branch"
    <3>1. PICK kids : kids = s.mem[p].kids
        OBVIOUS
    <3>2. kids \in Seq(P)
        BY <1>2, <2>1, <3>1 DEF PageFits
    <3>3. Range(kids) \subseteq P
        BY <3>2 DEF Range
    <3> QED
        BY <2>1, <3>1, <3>3 DEF Kids
  <2>2. CASE s.mem[p].kind # "branch"
      BY <2>2 DEF Kids
  <2> QED
      BY <2>1, <2>2
<1> QED
    BY <1>1, <1>3 DEF Lower

\* The function Row is.
Rows(F, s, S, n) ==
  /\ F \in [0 .. n -> SUBSET DOMAIN s.mem] /\ F[0] = S
  /\ \A d \in 1 .. n : F[d] = Lower(s, F[d - 1])

\* Row is the sequence of the rows, each the children of the one before.
LEMMA RowSteps ==
  ASSUME StoreFits(st), NEW n \in Nat, NEW S \in SUBSET DOMAIN st.mem
  PROVE  \E F : Rows(F, st, S, n) /\ Row(S, n) = F
<1>1. PICK V : V = SUBSET DOMAIN st.mem
    BY Zenon
<1>2. S \in V
    BY <1>1
<1>3. PICK G : G = [d \in 1 .. n |-> [x \in V |-> Lower(st, x)]]
    BY Zenon
<1>4. \A x \in V : Lower(st, x) \in V
    BY <1>1, LowerIs
<1>5. Steps(G, n, V)
    BY <1>3, <1>4 DEF Steps
<1>6. PICK F : Iterates(F, G, n, V, S)
    BY <1>2, <1>5, IteratesExist
<1>7. F \in [0 .. n -> V] /\ F[0] = S /\ \A d \in 1 .. n : F[d] = G[d][F[d - 1]]
    BY <1>6 DEF Iterates
<1>8. ASSUME NEW d \in 1 .. n PROVE F[d] = Lower(st, F[d - 1])
  <2>1. d - 1 \in 0 .. n
      OBVIOUS
  <2>2. F[d - 1] \in V
      BY <1>7, <2>1
  <2> QED
      BY <1>3, <1>7, <2>2
<1>9. Rows(F, st, S, n)
    BY <1>1, <1>7, <1>8 DEF Rows
<1> DEFINE Next1(x, d) == IF d = 0 THEN S ELSE UNION {Kids(st.mem[p]) : p \in x[d - 1]}
           All == CHOOSE x : x = [d \in 0 .. n |-> Next1(x, d)]
<1>10. Row(S, n) = All
    BY DEF Row
<1>11. \A d \in 0 .. n : F[d] = Next1(F, d)
  <2>1. F[0] = Next1(F, 0)
      BY <1>7
  <2>2. ASSUME NEW d \in 1 .. n PROVE F[d] = Next1(F, d)
    <3>1. d # 0
        OBVIOUS
    <3> QED
        BY <1>8, <3>1 DEF Lower
  <2>3. \A d \in 0 .. n : d = 0 \/ d \in 1 .. n
      OBVIOUS
  <2> QED
      BY <2>1, <2>2, <2>3, Zenon
<1>12. F = [d \in 0 .. n |-> Next1(F, d)]
    BY <1>7, <1>11
<1>13. All = [d \in 0 .. n |-> Next1(All, d)]
    BY <1>12, Zenon
<1> HIDE DEF All
<1>14. DOMAIN All = 0 .. n /\ \A d \in 0 .. n : All[d] = Next1(All, d)
    BY <1>13, Zenon
<1>15. \A d \in 0 .. n : All[d] = F[d]
  <2> DEFINE Bad == {d \in 0 .. n : All[d] # F[d]}
  <2>1. SUFFICES ASSUME Bad # {} PROVE FALSE
      OBVIOUS
  <2>2. Bad \in SUBSET Nat
      OBVIOUS
  <2>3. PICK d \in Bad : \A j \in Bad : d <= j
      BY <2>1, <2>2, NatMin, Zenon
  <2>4. d \in 0 .. n /\ All[d] # F[d]
      BY <2>3
  <2>5. CASE d = 0
    <3>1. Next1(All, d) = Next1(F, d)
        BY <2>5
    <3> HIDE DEF Next1
    <3> QED
        BY <1>11, <1>14, <2>4, <3>1
  <2>6. CASE d # 0
    <3>1. PICK j : j = d - 1
        OBVIOUS
    <3>2. j \in 0 .. n /\ ~(d <= j)
        BY <2>4, <2>6, <3>1
    <3>3. All[j] = F[j]
      <4>1. j \notin Bad
        <5> HIDE DEF Bad
        <5> QED
            BY <2>3, <3>2
      <4> QED
          BY <3>2, <4>1
    <3>4. Next1(All, d) = Next1(F, d)
        BY <3>1, <3>3
    <3> HIDE DEF Next1
    <3> QED
        BY <1>11, <1>14, <2>4, <3>4
  <2> QED
      BY <2>5, <2>6
<1>16. All = F
    BY <1>7, <1>13, <1>15
<1> QED
    BY <1>9, <1>10, <1>16

\* Pages of a tree that are all in place.
Settled(g) == {p \in g.pages : g.hole[p] = 0}

\* Below such a page there are only such pages, each a level further down.
LEMMA LowerSettled ==
  ASSUME NEW s, NEW g, Tree(s, g), NEW x, x \subseteq Settled(g)
  PROVE  /\ Lower(s, x) \subseteq Settled(g)
         /\ \A q \in Lower(s, x) : \E p \in x : g.level[p] = g.level[q] + 1
<1>1. StoreFits(s) /\ g.pages \subseteq 1 .. s.end - 1 /\ Levelled(s, g)
    BY DEF Tree, Owned, StoreFits
<1>2. ASSUME NEW q \in Lower(s, x)
      PROVE  q \in Settled(g) /\ \E p \in x : g.level[p] = g.level[q] + 1
  <2>1. PICK p \in x : q \in Kids(s.mem[p])
      BY DEF Lower
  <2>2. p \in g.pages /\ g.hole[p] = 0 /\ s.mem[p].kind = "branch" /\ q \in Range(s.mem[p].kids)
      BY <2>1 DEF Settled, Kids
  <2>3. PICK kids : kids = s.mem[p].kids
      OBVIOUS
  <2>4. kids \in Seq(1 .. s.end - 1)
      BY <1>1, <2>2, <2>3, Zenon DEF StoreFits, PageFits
  <2>5. PICK i \in DOMAIN kids : q = kids[i]
      BY <2>2, <2>3 DEF Range
  <2>6. i # 0
      BY <2>4, <2>5
  <2>7. p \in Inner(s, g) /\ i \in Live(s, g, p)
      BY <2>2, <2>3, <2>5, <2>6 DEF Inner, Live
  <2>8. s.mem[p].kids[i] \in g.pages /\ g.hole[s.mem[p].kids[i]] = 0
        /\ g.level[p] = g.level[s.mem[p].kids[i]] + 1
      BY <1>1, <2>7 DEF Levelled
  <2> QED
      BY <2>3, <2>5, <2>8 DEF Settled
<1> QED
    BY <1>2

\* The rows below pages in place have only such pages.
LEMMA RowSettled ==
  ASSUME NEW g, Tree(st, g), NEW S, S \subseteq Settled(g), NEW n \in Nat
  PROVE  /\ DOMAIN Row(S, n) = 0 .. n
         /\ \A d \in 0 .. n : Row(S, n)[d] \subseteq Settled(g)
<1>1. StoreFits(st) /\ Settled(g) \subseteq DOMAIN st.mem
    BY DEF Tree, Owned, StoreFits, Settled
<1>2. PICK F : Rows(F, st, S, n) /\ Row(S, n) = F
    BY <1>1, RowSteps
<1>3. /\ DOMAIN F = 0 .. n /\ F[0] = S
      /\ \A d \in 1 .. n : F[d] = Lower(st, F[d - 1])
    BY <1>2 DEF Rows
<1> DEFINE Bad == {d \in 0 .. n : ~(F[d] \subseteq Settled(g))}
<1>4. Bad = {}
  <2>1. SUFFICES ASSUME Bad # {} PROVE FALSE
      OBVIOUS
  <2>2. Bad \in SUBSET Nat
      OBVIOUS
  <2>3. PICK d \in Bad : \A j \in Bad : d <= j
      BY <2>1, <2>2, NatMin, Zenon
  <2>4. d \in 0 .. n /\ ~(F[d] \subseteq Settled(g))
      BY <2>3
  <2>5. d # 0
      BY <1>3, <2>4
  <2>6. PICK j : j = d - 1
      OBVIOUS
  <2>7. j \in 0 .. n /\ ~(d <= j) /\ d \in 1 .. n
      BY <2>4, <2>5, <2>6
  <2>8. F[j] \subseteq Settled(g)
    <3>1. j \notin Bad
      <4> HIDE DEF Bad
      <4> QED
          BY <2>3, <2>7
    <3> QED
        BY <2>7, <3>1
  <2>9. F[d] = Lower(st, F[j])
      BY <1>3, <2>6, <2>7
  <2>10. F[d] \subseteq Settled(g)
      BY <2>8, <2>9, LowerSettled
  <2> QED
      BY <2>4, <2>10
<1> QED
    BY <1>2, <1>3, <1>4

\* So has Below.
LEMMA BelowSettled ==
  ASSUME NEW g, Tree(st, g), NEW S, S \subseteq Settled(g)
  PROVE  Below(S) \subseteq Settled(g)
<1>1. PICK n, F : n = MaxDepth /\ F = Row(S, n)
    OBVIOUS
<1>2. n \in Nat
    BY <1>1, DepthIs
<1>3. DOMAIN F = 0 .. n /\ \A d \in 0 .. n : F[d] \subseteq Settled(g)
    BY <1>1, <1>2, RowSettled
<1>4. Below(S) = UNION Range(F)
    BY <1>1 DEF Below
<1> QED
    BY <1>3, <1>4 DEF Range

\* In one row below the root, all pages are on the same level.
LEMMA RowLevel ==
  ASSUME NEW g, Tree(st, g), NEW r \in Settled(g), NEW n \in Nat, NEW d \in 0 .. n,
         NEW p \in Row({r}, n)[d]
  PROVE  p \in Settled(g) /\ g.level[p] + d = g.level[r]
<1>1. StoreFits(st) /\ Settled(g) \subseteq DOMAIN st.mem /\ Levelled(st, g)
    BY DEF Tree, Owned, StoreFits, Settled
<1>2. {r} \subseteq Settled(g)
    OBVIOUS
<1>3. PICK S : S = {r}
    OBVIOUS
<1>4. S \in SUBSET DOMAIN st.mem
    BY <1>1, <1>2, <1>3
<1>5. PICK F : Rows(F, st, S, n) /\ Row(S, n) = F
    BY <1>1, <1>4, RowSteps
<1>6. /\ DOMAIN F = 0 .. n /\ F[0] = {r}
      /\ \A k \in 1 .. n : F[k] = Lower(st, F[k - 1])
    BY <1>3, <1>5 DEF Rows
<1>7. \A k \in 0 .. n : F[k] \subseteq Settled(g)
    BY <1>2, <1>3, <1>5, RowSettled
<1>8. \A q \in Settled(g) : g.level[q] \in Nat
    BY <1>1 DEF Levelled, Settled
<1> DEFINE Bad == {k \in 0 .. n : \E q \in F[k] : g.level[q] + k # g.level[r]}
<1>9. Bad = {}
  <2>1. SUFFICES ASSUME Bad # {} PROVE FALSE
      OBVIOUS
  <2>2. Bad \in SUBSET Nat
      OBVIOUS
  <2>3. PICK k \in Bad : \A j \in Bad : k <= j
      BY <2>1, <2>2, NatMin, Zenon
  <2>4. k \in 0 .. n /\ \E q \in F[k] : g.level[q] + k # g.level[r]
      BY <2>3
  <2>5. k # 0
      BY <1>6, <1>8, <2>4
  <2>6. PICK j : j = k - 1
      OBVIOUS
  <2>7. j \in 0 .. n /\ ~(k <= j) /\ k \in 1 .. n
      BY <2>4, <2>5, <2>6
  <2>8. \A q \in F[j] : g.level[q] + j = g.level[r]
    <3>1. j \notin Bad
      <4> HIDE DEF Bad
      <4> QED
          BY <2>3, <2>7
    <3> QED
        BY <2>7, <3>1
  <2>9. F[k] = Lower(st, F[j]) /\ F[j] \subseteq Settled(g)
      BY <1>6, <1>7, <2>6, <2>7
  <2>10. ASSUME NEW q \in F[k] PROVE g.level[q] + k = g.level[r]
    <3>1. PICK x \in F[j] : g.level[x] = g.level[q] + 1
        BY <2>9, LowerSettled
    <3>2. PICK a, b, c : a = g.level[x] /\ b = g.level[q] /\ c = g.level[r]
        BY Zenon
    <3>3. a \in Nat /\ b \in Nat /\ c \in Nat
        BY <1>7, <1>8, <2>7, <3>2
    <3>4. a = b + 1 /\ a + j = c
        BY <2>8, <3>1, <3>2
    <3>5. b + k = c
        BY <2>6, <2>7, <3>3, <3>4
    <3> QED
        BY <3>2, <3>5
  <2> QED
      BY <2>4, <2>10
<1> QED
    BY <1>3, <1>5, <1>7, <1>9

(* The overflow pages of an item. *)

\* One page further along.
Behind(s, x) == {s.mem[q].next : q \in {y \in x : s.mem[y].kind = "stack"}} \ {0}

\* The pages there are pages of the store.
LEMMA BehindIs ==
  ASSUME NEW s, StoreFits(s), NEW x \in SUBSET DOMAIN s.mem
  PROVE  Behind(s, x) \in SUBSET DOMAIN s.mem
<1>1. PICK P : P = DOMAIN s.mem
    OBVIOUS
<1>2. P = 1 .. s.end - 1 /\ \A p \in P : PageFits(s.mem[p], s.end)
    BY <1>1 DEF StoreFits
<1>3. ASSUME NEW p \in P, s.mem[p].kind = "stack", s.mem[p].next # 0 PROVE s.mem[p].next \in P
  <2>1. s.mem[p].next \in 0 .. s.end - 1
      BY <1>2, <1>3 DEF PageFits
  <2> QED
      BY <1>2, <1>3, <2>1
<1> QED
    BY <1>1, <1>3 DEF Behind

\* The function Chain is made of, from page p on.
Links(F, s, p, n) ==
  /\ F \in [0 .. n -> SUBSET DOMAIN s.mem] /\ F[0] = {p}
  /\ \A d \in 1 .. n : F[d] = Behind(s, F[d - 1])

\* Chain is the union of these sets.
LEMMA ChainSteps ==
  ASSUME StoreFits(st), NEW p \in DOMAIN st.mem
  PROVE  \E F : Links(F, st, p, MaxAdds) /\ Chain(p) = UNION Range(F)
<1> DEFINE n == MaxAdds
<1>0. n \in Nat
    BY Sizes
<1> HIDE DEF n
<1>1. PICK V, S : V = SUBSET DOMAIN st.mem /\ S = {p}
    BY Zenon
<1>2. S \in V
    BY <1>1
<1>3. PICK G : G = [d \in 1 .. n |-> [x \in V |-> Behind(st, x)]]
    BY Zenon
<1>4. \A x \in V : Behind(st, x) \in V
    BY <1>1, BehindIs
<1>5. Steps(G, n, V)
    BY <1>3, <1>4 DEF Steps
<1>6. PICK F : Iterates(F, G, n, V, S)
    BY <1>0, <1>2, <1>5, IteratesExist
<1>7. F \in [0 .. n -> V] /\ F[0] = S /\ \A d \in 1 .. n : F[d] = G[d][F[d - 1]]
    BY <1>6 DEF Iterates
<1>8. ASSUME NEW d \in 1 .. n PROVE F[d] = Behind(st, F[d - 1])
  <2>1. d - 1 \in 0 .. n
      BY <1>0
  <2>2. F[d - 1] \in V
      BY <1>7, <2>1
  <2> QED
      BY <1>3, <1>7, <2>2
<1>9. Links(F, st, p, n)
    BY <1>1, <1>7, <1>8 DEF Links
<1> DEFINE Next1(x, d) ==
             IF d = 0 THEN {p}
             ELSE {st.mem[q].next : q \in {y \in x[d - 1] : st.mem[y].kind = "stack"}} \ {0}
           All == CHOOSE x : x = [d \in 0 .. n |-> Next1(x, d)]
<1>10. Chain(p) = UNION Range(All)
    BY DEF Chain, n
<1>11. \A d \in 0 .. n : F[d] = Next1(F, d)
  <2>1. F[0] = Next1(F, 0)
      BY <1>1, <1>7
  <2>2. ASSUME NEW d \in 1 .. n PROVE F[d] = Next1(F, d)
    <3>1. d # 0
        OBVIOUS
    <3> QED
        BY <1>8, <3>1 DEF Behind
  <2>3. \A d \in 0 .. n : d = 0 \/ d \in 1 .. n
      BY <1>0
  <2> QED
      BY <2>1, <2>2, <2>3, Zenon
<1>12. F = [d \in 0 .. n |-> Next1(F, d)]
    BY <1>7, <1>11
<1>13. All = [d \in 0 .. n |-> Next1(All, d)]
    BY <1>12, Zenon
<1> HIDE DEF All
<1>14. DOMAIN All = 0 .. n /\ \A d \in 0 .. n : All[d] = Next1(All, d)
    BY <1>13, Zenon
<1>15. \A d \in 0 .. n : All[d] = F[d]
  <2> DEFINE Bad == {d \in 0 .. n : All[d] # F[d]}
  <2>1. SUFFICES ASSUME Bad # {} PROVE FALSE
      OBVIOUS
  <2>2. Bad \in SUBSET Nat
      BY <1>0
  <2>3. PICK d \in Bad : \A j \in Bad : d <= j
      BY <2>1, <2>2, NatMin, Zenon
  <2>4. d \in 0 .. n /\ All[d] # F[d]
      BY <2>3
  <2>5. CASE d = 0
    <3>1. Next1(All, d) = Next1(F, d)
        BY <2>5
    <3> HIDE DEF Next1
    <3> QED
        BY <1>11, <1>14, <2>4, <3>1
  <2>6. CASE d # 0
    <3>1. PICK j : j = d - 1
        OBVIOUS
    <3>2. j \in 0 .. n /\ ~(d <= j)
        BY <1>0, <2>4, <2>6, <3>1
    <3>3. All[j] = F[j]
      <4>1. j \notin Bad
        <5> HIDE DEF Bad
        <5> QED
            BY <2>3, <3>2
      <4> QED
          BY <3>2, <4>1
    <3>4. Next1(All, d) = Next1(F, d)
        BY <3>1, <3>3
    <3> HIDE DEF Next1
    <3> QED
        BY <1>11, <1>14, <2>4, <3>4
  <2> QED
      BY <2>5, <2>6
<1>16. All = F
    BY <1>7, <1>13, <1>15
<1> QED
    BY <1>9, <1>10, <1>16 DEF n

\* The pages of an item's stack all have the same first page.
LEMMA ChainWithin ==
  ASSUME NEW g, Tree(st, g), NEW z \in g.stacks, g.first[z] = z
  PROVE  Chain(z) \subseteq {x \in g.stacks : g.first[x] = z}
<1>1. StoreFits(st) /\ g.stacks \subseteq DOMAIN st.mem /\ Stacked(st, g) /\ MaxAdds \in Nat
    BY Sizes DEF Tree, Owned, StoreFits
<1>2. PICK F : Links(F, st, z, MaxAdds) /\ Chain(z) = UNION Range(F)
    BY <1>1, ChainSteps
<1>3. PICK n, X : n = MaxAdds /\ X = {x \in g.stacks : g.first[x] = z}
    BY Zenon
<1>4. /\ DOMAIN F = 0 .. n /\ F[0] = {z} /\ n \in Nat
      /\ \A d \in 1 .. n : F[d] = Behind(st, F[d - 1])
    BY <1>1, <1>2, <1>3 DEF Links
<1>5. ASSUME NEW x, x \subseteq X PROVE Behind(st, x) \subseteq X
  <2> SUFFICES ASSUME NEW y \in Behind(st, x) PROVE y \in X
      OBVIOUS
  <2>1. PICK q \in x : y = st.mem[q].next /\ y # 0
      BY DEF Behind
  <2>2. q \in g.stacks /\ g.first[q] = z
      BY <1>3, <1>5, <2>1
  <2>3. st.mem[q].next \in g.stacks /\ g.first[st.mem[q].next] = g.first[q]
      BY <1>1, <2>1, <2>2 DEF Stacked
  <2> QED
      BY <1>3, <2>1, <2>2, <2>3
<1> DEFINE Bad == {d \in 0 .. n : ~(F[d] \subseteq X)}
<1>6. Bad = {}
  <2>1. SUFFICES ASSUME Bad # {} PROVE FALSE
      OBVIOUS
  <2>2. Bad \in SUBSET Nat
      OBVIOUS
  <2>3. PICK d \in Bad : \A j \in Bad : d <= j
      BY <2>1, <2>2, NatMin, Zenon
  <2>4. d \in 0 .. n /\ ~(F[d] \subseteq X)
      BY <2>3
  <2>5. d # 0
      BY <1>3, <1>4, <2>4
  <2>6. PICK j : j = d - 1
      OBVIOUS
  <2>7. j \in 0 .. n /\ ~(d <= j) /\ d \in 1 .. n
      BY <1>4, <2>4, <2>5, <2>6
  <2>8. F[j] \subseteq X
    <3>1. j \notin Bad
      <4> HIDE DEF Bad
      <4> QED
          BY <2>3, <2>7
    <3> QED
        BY <2>7, <3>1
  <2>9. F[d] = Behind(st, F[j])
      BY <1>4, <2>6, <2>7
  <2> QED
      BY <1>5, <2>4, <2>8, <2>9
<1>7. \A d \in 0 .. n : F[d] \subseteq X
    BY <1>6
<1> QED
    BY <1>2, <1>3, <1>4, <1>7 DEF Range

\* The overflow pages of a leaf's items: only pages of stacks the leaf refers to.
LEMMA OverflowsWithin ==
  ASSUME NEW g, Tree(st, g), NEW p \in g.pages, NEW x \in Overflows(st.mem[p])
  PROVE  /\ x \in g.stacks /\ p \in Leaves(st, g)
         /\ \E i \in Marked(st, p) : g.first[x] = st.mem[p].vals[i]
<1>1. Stacked(st, g) /\ StoreFits(st) /\ g.pages \subseteq 1 .. st.end - 1
    BY DEF Tree, Owned, StoreFits
<1>2. PICK pg : pg = st.mem[p]
    OBVIOUS
<1>3. PICK z \in Range(Stacks(pg)) : x \in Chain(z)
    BY <1>2 DEF Overflows
<1>4. pg.kind = "leaf"
  <2> SUFFICES ASSUME pg.kind # "leaf" PROVE FALSE
      OBVIOUS
  <2>1. Stacks(pg) = <<>>
      BY DEF Stacks
  <2> QED
      BY <1>3, <2>1 DEF Range
<1>5. pg.keys \in Seq(Nat)
    BY <1>1, <1>2, <1>4 DEF StoreFits, PageFits
<1>6. Stacks(pg) = [i \in {j \in 1 .. Len(pg.keys) : HasOverflow(pg.keys[j])} |-> pg.vals[i]]
    BY <1>4 DEF Stacks
<1>7. PICK i \in DOMAIN pg.keys : HasOverflow(pg.keys[i]) /\ z = pg.vals[i]
    BY <1>3, <1>5, <1>6 DEF Range
<1>8. p \in Leaves(st, g) /\ i \in Marked(st, p)
    BY <1>2, <1>4, <1>7 DEF Leaves, Marked
<1>9. z \in g.stacks /\ g.first[z] = z
    BY <1>1, <1>2, <1>7, <1>8 DEF Stacked
<1>10. x \in g.stacks /\ g.first[x] = z
    BY <1>3, <1>9, ChainWithin
<1> QED
    BY <1>2, <1>7, <1>8, <1>10

(* What the invariant says of each state. *)

\* The branches that wait.
LEMMA WaitingPages ==
  ASSUME NEW g, Tree(st, g), NEW w, NEW p \in g.pages, NEW r, Waits(st, g, w, p, r)
  PROVE  /\ w \in Seq([page : 1 .. st.end - 1, child : 1 .. BranchCap + 1])
         /\ \A k \in DOMAIN w : w[k].page \in Inner(st, g) /\ w[k].child \in DOMAIN st.mem[w[k].page].kids
<1>1. StoreFits(st) /\ g.pages \subseteq 1 .. st.end - 1 /\ Levelled(st, g)
    BY DEF Tree, Owned, StoreFits
<1>2. PICK R : R = [page : g.pages, child : Nat]
    BY Zenon
<1>3. w \in Seq(R)
    BY <1>2 DEF Waits
<1>4. ASSUME NEW k \in DOMAIN w
      PROVE  /\ w[k] \in [page : 1 .. st.end - 1, child : 1 .. BranchCap + 1]
             /\ w[k].page \in Inner(st, g) /\ w[k].child \in DOMAIN st.mem[w[k].page].kids
  <2>1. PICK f, d, kids : f = w[k] /\ d = f.page /\ kids = st.mem[d].kids
      OBVIOUS
  <2>2. f \in R
      BY <1>3, <2>1
  <2>3. d \in g.pages /\ f = [page |-> d, child |-> f.child]
      BY <1>2, <2>1, <2>2
  <2>4. g.level[d] = g.level[p] + k /\ f.child \in DOMAIN kids
      BY <2>1 DEF Waits
  <2>5. k \in Nat \ {0}
      BY <1>3
  <2>6. PICK a, b : a = g.level[d] /\ b = g.level[p]
      OBVIOUS
  <2>7. a \in Nat /\ b \in Nat
      BY <1>1, <2>3, <2>6 DEF Levelled
  <2>8. a # 0
      BY <2>4, <2>5, <2>6, <2>7
  <2>9. st.mem[d].kind = "branch"
      BY <1>1, <2>3, <2>6, <2>8 DEF Levelled
  <2>10. PageFits(st.mem[d], st.end)
      BY <1>1, <2>3 DEF StoreFits
  <2>11. kids \in Seq(1 .. st.end - 1) /\ Len(kids) <= BranchCap + 1
    <3>1. PICK keys, m, c : keys = st.mem[d].keys /\ m = Len(keys) /\ c = BranchCap
        BY Zenon
    <3>2. kids \in Seq(1 .. st.end - 1) /\ keys \in Seq(Nat) /\ Len(kids) = m + 1 /\ m <= c
        BY <2>1, <2>9, <2>10, <3>1 DEF PageFits
    <3>3. m \in Nat /\ c \in Nat
        BY Sizes, <3>1, <3>2
    <3> QED
        BY <3>1, <3>2, <3>3
  <2>12. f.child \in 1 .. BranchCap + 1
    <3>1. PICK n, c : n = Len(kids) /\ c = BranchCap + 1
        BY Zenon
    <3>2. n \in Nat /\ DOMAIN kids = 1 .. n /\ c \in Nat /\ n <= c
        BY Sizes, <2>11, <3>1
    <3> QED
        BY <2>4, <3>1, <3>2
  <2>13. d \in 1 .. st.end - 1
      BY <1>1, <2>3
  <2>14. f \in [page : 1 .. st.end - 1, child : 1 .. BranchCap + 1]
      BY <2>3, <2>12, <2>13
  <2> QED
      BY <2>1, <2>3, <2>4, <2>9, <2>14 DEF Inner
<1>5. w \in Seq([page : 1 .. st.end - 1, child : 1 .. BranchCap + 1])
  <2>1. PICK T : T = [page : 1 .. st.end - 1, child : 1 .. BranchCap + 1]
      BY Zenon
  <2>2. \A k \in DOMAIN w : w[k] \in T
      BY <1>4, <2>1
  <2>3. w \in Seq(T)
    <3>1. PICK n : n = Len(w)
        BY Zenon
    <3>2. n \in Nat /\ DOMAIN w = 1 .. n /\ w = [k \in 1 .. n |-> w[k]]
        BY <1>3, <3>1
    <3> QED
        BY <2>2, <3>2
  <2> QED
      BY <2>1, <2>3
<1> QED
    BY <1>4, <1>5

\* A page that fits has the type of a page.
LEMMA PageFitsOK ==
  ASSUME NEW pg, PageFits(pg, st.end)
  PROVE  PageOK(pg)
<1>1. CASE pg.kind = "leaf"
  <2>1. pg.keys \in Seq(Nat) /\ pg.vals \in Seq(Nat) /\ Len(pg.vals) = Len(pg.keys)
      BY <1>1 DEF PageFits
  <2>2. "leaf" # "branch" /\ "leaf" # "stack"
      OBVIOUS
  <2> QED
      BY <1>1, <2>1, <2>2, Zenon DEF PageOK
<1>2. CASE pg.kind = "branch"
  <2>1. pg.keys \in Seq(Nat) /\ pg.kids \in Seq(1 .. st.end - 1) /\ Len(pg.kids) = Len(pg.keys) + 1
      BY <1>2 DEF PageFits
  <2>2. "branch" # "leaf" /\ "branch" # "stack"
      OBVIOUS
  <2> QED
      BY <1>2, <2>1, <2>2, Zenon DEF PageOK
<1>3. CASE pg.kind = "stack"
  <2>1. pg.vals \in Seq(Nat) /\ pg.next \in 0 .. st.end - 1 /\ Len(pg.vals) <= StackCap
      BY <1>3 DEF PageFits
  <2>2. "stack" # "leaf" /\ "stack" # "branch"
      OBVIOUS
  <2> QED
      BY <1>3, <2>1, <2>2, Zenon DEF PageOK
<1> QED
    BY <1>1, <1>2, <1>3 DEF PageFits

\* The invariant gives the types.
LEMMA InvariantTypes ==
  ASSUME IInv
  PROVE  TypeOK
<1>1. PICK g : Counted /\ Formed(g)
    BY DEF IInv
<1>2. StoreFits(st)
    BY <1>1, FormedStore
<1>3. st.end \in Nat /\ st.end >= 2
    BY <1>2 DEF StoreFits
<1>4. DOMAIN st.mem = 1 .. st.end - 1 /\ \A p \in DOMAIN st.mem : PageOK(st.mem[p])
    BY <1>2, PageFitsOK DEF StoreFits
<1>5. st.free \in Seq(1 .. st.end - 1)
  <2>1. PICK f, n, e : f = st.free /\ n = Len(f) /\ e = st.end
      BY Zenon
  <2>2. f \in Seq(2 .. e - 1) /\ e \in Nat
      BY <1>2, <2>1 DEF StoreFits
  <2>3. n \in Nat /\ f = [k \in 1 .. n |-> f[k]] /\ \A k \in 1 .. n : f[k] \in 2 .. e - 1
    <3>1. PICK T : T = 2 .. e - 1
        OBVIOUS
    <3>2. f \in Seq(T) /\ n = Len(f)
        BY <2>1, <2>2, <3>1, Zenon
    <3>3. n \in Nat /\ f = [k \in 1 .. n |-> f[k]] /\ \A k \in 1 .. n : f[k] \in T
        BY ONLY <3>2
    <3> QED
        BY <3>1, <3>3, Zenon
  <2>4. \A k \in 1 .. n : f[k] \in 1 .. e - 1
      BY <2>2, <2>3
  <2>5. f \in Seq(1 .. e - 1)
    <3>1. PICK T : T = 1 .. e - 1
        OBVIOUS
    <3>2. \A k \in 1 .. n : f[k] \in T
        BY <2>4, <3>1
    <3>3. f \in Seq(T)
        BY <2>3, <3>2
    <3> QED
        BY <3>1, <3>3
  <2> QED
      BY <2>1, <2>5
<1>6. /\ cur \in 0 .. st.end - 1 /\ pc \in {"idle", "descend", "ascend"} /\ call \in Inputs \cup {NoCall}
      /\ path \in Seq([page : 1 .. st.end - 1, child : 1 .. BranchCap + 1])
      /\ up \in [orig : 0 .. st.end - 1, split : 0 .. st.end - 1, mid : Nat]
  <2>1. NoUp \in [orig : 0 .. st.end - 1, split : 0 .. st.end - 1, mid : Nat]
      BY <1>3 DEF NoUp
  <2>2. CASE pc = "idle" /\ Idle(g)
    <3>1. path = <<>> /\ cur = 0 /\ up = NoUp /\ call = NoCall
        BY <2>2 DEF Idle
    <3> QED
        BY <1>3, <2>1, <2>2, <3>1
  <2>3. CASE pc = "descend" /\ Descending(g)
    <3>1. /\ Tree(st, g) /\ cur \in g.pages /\ Waits(st, g, path, cur, root)
          /\ up = NoUp /\ call \in Inputs
        BY <2>3 DEF Descending, Whole
    <3>2. cur \in 0 .. st.end - 1
        BY <3>1 DEF Tree, Owned
    <3>3. path \in Seq([page : 1 .. st.end - 1, child : 1 .. BranchCap + 1])
        BY <3>1, WaitingPages, Zenon
    <3> QED
        BY <2>1, <2>3, <3>1, <3>2, <3>3
  <2>4. CASE pc = "ascend" /\ Ascending(g)
    <3>1. /\ Tree(st, g) /\ cur = 0 /\ call \in Inputs /\ Loose(st, g, Ends)
          /\ up \in [orig : Nat \ {0}, split : Nat, mid : Nat]
          /\ path # <<>> => Waits(st, g, path, up.orig, Top)
        BY <2>4 DEF Ascending
    <3>2. PICK o, s, m : o = up.orig /\ s = up.split /\ m = up.mid
        OBVIOUS
    <3>3. up = [orig |-> o, split |-> s, mid |-> m] /\ o \in Nat /\ o # 0 /\ s \in Nat /\ m \in Nat
        BY <3>1, <3>2
    <3>4. o \in g.pages /\ (s # 0 => s \in g.pages)
        BY <3>1, <3>2, <3>3 DEF Loose, Ends
    <3>5. g.pages \subseteq 2 .. st.end - 1
        BY <3>1 DEF Tree, Owned
    <3>6. up \in [orig : 0 .. st.end - 1, split : 0 .. st.end - 1, mid : Nat]
        BY <1>3, <3>3, <3>4, <3>5
    <3>7. path \in Seq([page : 1 .. st.end - 1, child : 1 .. BranchCap + 1])
      <4>1. CASE path = <<>>
          BY <4>1
      <4>2. CASE path # <<>>
          BY <3>1, <3>2, <3>4, <4>2, WaitingPages, Zenon
      <4> QED
          BY <4>1, <4>2
    <3> QED
        BY <1>3, <2>4, <3>1, <3>6, <3>7
  <2> QED
      BY <1>1, <2>2, <2>3, <2>4 DEF Formed
<1> QED
    BY <1>1, <1>4, <1>5, <1>6 DEF TypeOK, Counted

\* The invariant gives the tree's shape.
LEMMA InvariantShape ==
  ASSUME IInv
  PROVE  Shape
<1> SUFFICES ASSUME pc = "idle", root # 0
             PROVE  LET row == Row({root}, MaxDepth)
                    IN  /\ \A d \in DOMAIN row : \A p, q \in row[d] : st.mem[p].kind = st.mem[q].kind
                        /\ \A p \in UNION Range(row) :
                             LET pg == st.mem[p]
                             IN  /\ pg.root <=> p = root
                                 /\ Len(pg.keys) <= IF pg.kind = "leaf" THEN LeafCap ELSE BranchCap
                                 /\ pg.kind = "leaf" /\ p # root => pg.keys # <<>>
    BY Zenon DEF Shape
<1>1. PICK g : Formed(g)
    BY DEF IInv
<1>2. Whole(st, g, root)
    BY <1>1 DEF Formed, Idle
<1>3. Tree(st, g) /\ Loose(st, g, {root}) /\ Flagged(st, g, root) /\ root \in Settled(g)
    BY <1>2 DEF Whole, Loose, Settled
<1>4. PICK n, row : n = MaxDepth /\ row = Row({root}, n)
    OBVIOUS
<1>5. n \in Nat
    BY <1>4, DepthIs
<1>6. DOMAIN row = 0 .. n /\ \A d \in 0 .. n : row[d] \subseteq Settled(g)
  <2>1. PICK S : S = {root}
      BY Zenon
  <2>2. S \subseteq Settled(g) /\ row = Row(S, n)
      BY <1>3, <1>4, <2>1
  <2> QED
      BY <1>3, <1>5, <2>2, RowSettled, Zenon
<1>7. Levelled(st, g) /\ StoreFits(st) /\ g.pages \subseteq 1 .. st.end - 1 /\ Filled(st, g)
    BY <1>3 DEF Tree, Owned, StoreFits
<1>8. ASSUME NEW d \in DOMAIN row, NEW p \in row[d], NEW q \in row[d]
      PROVE  st.mem[p].kind = st.mem[q].kind
  <2>1. /\ p \in Settled(g) /\ g.level[p] + d = g.level[root]
        /\ q \in Settled(g) /\ g.level[q] + d = g.level[root]
      BY <1>3, <1>4, <1>5, <1>6, <1>8, RowLevel
  <2>2. PICK a, b, c : a = g.level[p] /\ b = g.level[q] /\ c = g.level[root]
      OBVIOUS
  <2>3. a \in Nat /\ b \in Nat /\ c \in Nat
      BY <1>3, <1>7, <2>1, <2>2 DEF Levelled, Settled
  <2>a. d \in Nat /\ a + d = c /\ b + d = c
    <3>1. d \in 0 .. n
        BY <1>6, <1>8, Zenon
    <3>2. d \in Nat
        BY ONLY <1>5, <3>1
    <3> QED
        BY <2>1, <2>2, <3>2, Zenon
  <2>4. a = b
      BY ONLY <2>3, <2>a
  <2>5. p \in g.pages /\ q \in g.pages
      BY <2>1 DEF Settled
  <2> QED
      BY <1>7, <2>2, <2>4, <2>5, Zenon DEF Levelled
<1>9. ASSUME NEW p \in UNION Range(row)
      PROVE  /\ st.mem[p].root <=> p = root
             /\ Len(st.mem[p].keys) <= IF st.mem[p].kind = "leaf" THEN LeafCap ELSE BranchCap
             /\ st.mem[p].kind = "leaf" /\ p # root => st.mem[p].keys # <<>>
  <2>1. p \in g.pages
      BY <1>6 DEF Range, Settled
  <2>2. st.mem[p].root <=> p = root
      BY <1>3, <2>1 DEF Flagged
  <2>3. PageFits(st.mem[p], st.end)
      BY <1>7, <2>1 DEF StoreFits
  <2>4. st.mem[p].kind \in {"leaf", "branch"}
      BY <1>7, <2>1 DEF Levelled
  <2>5. Len(st.mem[p].keys) <= IF st.mem[p].kind = "leaf" THEN LeafCap ELSE BranchCap
      BY <2>3, <2>4 DEF PageFits
  <2>6. st.mem[p].kind = "leaf" /\ p # root => st.mem[p].keys # <<>>
      BY <1>7, <2>1, <2>2 DEF Filled, Leaves
  <2> QED
      BY <2>2, <2>5, <2>6
<1> DEFINE Even(r) == \A d \in DOMAIN r : \A p, q \in r[d] : st.mem[p].kind = st.mem[q].kind
           Fine(r) == \A p \in UNION Range(r) :
                        LET pg == st.mem[p]
                        IN  /\ pg.root <=> p = root
                            /\ Len(pg.keys) <= IF pg.kind = "leaf" THEN LeafCap ELSE BranchCap
                            /\ pg.kind = "leaf" /\ p # root => pg.keys # <<>>
<1>10. Even(row)
    BY <1>8, Zenon
<1>11. Fine(row)
    BY <1>9, Zenon
<1> HIDE DEF Even, Fine
<1>12. Even(Row({root}, MaxDepth)) /\ Fine(Row({root}, MaxDepth))
    BY <1>4, <1>10, <1>11, Zenon
<1> USE DEF Even, Fine
<1> QED
    BY <1>12, Zenon

\* In a branch that is all in place every child is part of the tree.
LEMMA SettledKids ==
  ASSUME NEW g, Tree(st, g), NEW p \in Settled(g), st.mem[p].kind = "branch"
  PROVE  p \in Inner(st, g) /\ Live(st, g, p) = DOMAIN st.mem[p].kids
<1>1. StoreFits(st) /\ g.pages \subseteq 1 .. st.end - 1
    BY DEF Tree, Owned, StoreFits
<1>2. PICK kids : kids = st.mem[p].kids
    OBVIOUS
<1>3. p \in g.pages /\ g.hole[p] = 0
    BY DEF Settled
<1>4. kids \in Seq(1 .. st.end - 1)
    BY <1>1, <1>2, <1>3 DEF StoreFits, PageFits
<1>5. \A i \in DOMAIN kids : i # 0
    BY <1>4
<1> QED
    BY <1>2, <1>3, <1>5 DEF Inner, Live

\* The parts the pages form are whole, and nothing else in them refers to
\* their roots.
Parts(g) ==
  /\ Tree(st, g) /\ Forest \subseteq Settled(g)
  /\ \A p \in Settled(g) : Forest \cap Kids(st.mem[p]) = {}
  /\ \A f \in Range(path) : f.page \in g.pages

\* A whole tree is one part.
LEMMA WholeParts ==
  ASSUME NEW g, Whole(st, g, root), Forest = {root}, \A f \in Range(path) : f.page \in g.pages
  PROVE  Parts(g)
<1>1. Tree(st, g) /\ Loose(st, g, {root})
    BY DEF Whole
<1>2. root \in Settled(g)
    BY <1>1 DEF Loose, Settled
<1>3. ASSUME NEW p \in Settled(g) PROVE root \notin Kids(st.mem[p])
  <2>1. CASE st.mem[p].kind # "branch"
      BY <2>1 DEF Kids
  <2>2. CASE st.mem[p].kind = "branch"
    <3>1. p \in Inner(st, g) /\ Live(st, g, p) = DOMAIN st.mem[p].kids
        BY <1>1, <2>2, SettledKids
    <3>2. \A i \in DOMAIN st.mem[p].kids : st.mem[p].kids[i] # root
        BY <1>1, <3>1 DEF Loose
    <3> QED
        BY <2>2, <3>2 DEF Kids, Range
  <2> QED
      BY <2>1, <2>2
<1> QED
    BY <1>1, <1>2, <1>3 DEF Parts

\* On the way up the parts are the pages handed up and the children, in place,
\* of the branches that wait.
LEMMA AscendingParts ==
  ASSUME NEW g, Ascending(g), pc = "ascend"
  PROVE  Parts(g)
<1>1. /\ Tree(st, g) /\ root # 0 /\ Loose(st, g, Ends)
      /\ up \in [orig : Nat \ {0}, split : Nat, mid : Nat]
      /\ path # <<>> => Waits(st, g, path, up.orig, Top)
      /\ \A k \in DOMAIN path : g.hole[path[k].page] = path[k].child
    BY DEF Ascending
<1>2. Levelled(st, g) /\ OneParent(st, g)
    BY <1>1 DEF Tree
<1>3. up.orig \in g.pages
    BY <1>1 DEF Loose, Ends
<1>4. \A k \in DOMAIN path : /\ path[k].page \in Inner(st, g)
                             /\ path[k].child \in DOMAIN st.mem[path[k].page].kids
  <2>1. CASE path = <<>>
      BY <2>1
  <2>2. CASE path # <<>>
    <3>1. PICK o, w, r : o = up.orig /\ w = path /\ r = Top
        OBVIOUS
    <3>2. Waits(st, g, w, o, r) /\ o \in g.pages
        BY <1>1, <1>3, <2>2, <3>1
    <3>3. \A k \in DOMAIN w : w[k].page \in Inner(st, g) /\ w[k].child \in DOMAIN st.mem[w[k].page].kids
        BY <1>1, <3>2, WaitingPages, Zenon
    <3> QED
        BY <3>1, <3>3
  <2> QED
      BY <2>1, <2>2
<1>5. ASSUME NEW d \in Inner(st, g) PROVE \A i \in DOMAIN st.mem[d].kids : i # 0
  <2>1. StoreFits(st) /\ d \in 1 .. st.end - 1 /\ st.mem[d].kind = "branch"
      BY <1>1 DEF Tree, Owned, StoreFits, Inner
  <2>2. st.mem[d].kids \in Seq(1 .. st.end - 1)
      BY <2>1, Zenon DEF StoreFits, PageFits
  <2> QED
      BY <2>2
\* A root is one of the ends or a child of a branch that waits.
<1>6. ASSUME NEW x \in Forest
      PROVE  \/ x \in Ends
             \/ \E k \in DOMAIN path : \E i \in Live(st, g, path[k].page) :
                  x = st.mem[path[k].page].kids[i]
  <2>1. x \in Ends \/ \E f \in Range(path) : \E i \in DOMAIN st.mem[f.page].kids \ {f.child} :
                         x = st.mem[f.page].kids[i]
      BY <1>1 DEF Forest, Ends
  <2>2. ASSUME NEW f \in Range(path), NEW i \in DOMAIN st.mem[f.page].kids \ {f.child},
               x = st.mem[f.page].kids[i]
        PROVE  \E k \in DOMAIN path : \E j \in Live(st, g, path[k].page) : x = st.mem[path[k].page].kids[j]
    <3>1. PICK k \in DOMAIN path : path[k] = f
        BY DEF Range
    <3>2. i \in Live(st, g, f.page)
        BY <1>1, <3>1 DEF Live
    <3> QED
        BY <2>2, <3>1, <3>2
  <2> QED
      BY <2>1, <2>2
<1>7. ASSUME NEW x \in Forest, NEW p \in Settled(g)
      PROVE  x \in Settled(g) /\ x \notin Kids(st.mem[p])
  <2>1. ASSUME x \in Kids(st.mem[p])
        PROVE  p \in Inner(st, g) /\ g.hole[p] = 0 /\ \E j \in Live(st, g, p) : x = st.mem[p].kids[j]
    <3>1. st.mem[p].kind = "branch" /\ x \in Range(st.mem[p].kids)
        BY <2>1 DEF Kids
    <3>2. p \in Inner(st, g) /\ Live(st, g, p) = DOMAIN st.mem[p].kids
        BY <1>1, <3>1, SettledKids
    <3> QED
        BY <3>1, <3>2 DEF Range, Settled
  <2>2. CASE x \in Ends
    <3>1. x \in Settled(g)
        BY <1>1, <2>2 DEF Loose, Settled
    <3>2. x \notin Kids(st.mem[p])
        BY <1>1, <2>1, <2>2 DEF Loose
    <3> QED
        BY <3>1, <3>2
  <2>3. CASE x \notin Ends
    <3>1. PICK k \in DOMAIN path : \E i \in Live(st, g, path[k].page) : x = st.mem[path[k].page].kids[i]
        BY <1>6, <2>3
    <3>2. PICK d, c : d = path[k].page /\ c = path[k].child
        OBVIOUS
    <3>3. PICK i \in Live(st, g, d) : x = st.mem[d].kids[i]
        BY <3>1, <3>2
    <3>4. d \in Inner(st, g) /\ c \in DOMAIN st.mem[d].kids /\ g.hole[d] = c
        BY <1>1, <1>4, <3>2
    <3>5. x \in Settled(g)
        BY <1>2, <3>3, <3>4 DEF Levelled, Settled
    <3>6. c # 0
        BY <1>5, <3>4
    <3>7. ASSUME x \in Kids(st.mem[p]) PROVE FALSE
      <4>1. PICK j \in Live(st, g, p) : x = st.mem[p].kids[j]
          BY <2>1, <3>7
      <4>2. p \in Inner(st, g) /\ g.hole[p] = 0
          BY <2>1, <3>7
      <4>3. p = d
          BY <1>2, <3>3, <3>4, <4>1, <4>2, Zenon DEF OneParent
      <4> QED
          BY <3>4, <3>6, <4>2, <4>3
    <3> QED
        BY <3>5, <3>7
  <2> QED
      BY <2>2, <2>3
<1>8. up.orig \in Settled(g)
    BY <1>1 DEF Loose, Ends, Settled
<1>9. Forest \subseteq Settled(g) /\ \A p \in Settled(g) : Forest \cap Kids(st.mem[p]) = {}
    BY <1>7, <1>8
<1>10. \A f \in Range(path) : f.page \in g.pages
    BY <1>4 DEF Range, Inner
<1> QED
    BY <1>1, <1>9, <1>10 DEF Parts

\* The parts, wherever the call is.
LEMMA FormedParts ==
  ASSUME NEW g, Formed(g)
  PROVE  Parts(g)
<1>1. CASE pc = "idle" /\ Idle(g) /\ root = 0
  <2>1. g.pages = {} /\ g.stacks = {} /\ StoreFits(st) /\ path = <<>>
      BY <1>1 DEF Idle
  <2>2. Tree(st, g)
      BY <2>1 DEF Tree, Owned, Levelled, OneParent, Stacked, Filled, Inner, Leaves
  <2>3. Forest = {}
      BY <1>1 DEF Forest
  <2>4. \A f \in Range(path) : FALSE
      BY <2>1 DEF Range
  <2> QED
      BY <2>2, <2>3, <2>4 DEF Parts
<1>2. CASE pc = "idle" /\ Idle(g) /\ root # 0
  <2>1. Whole(st, g, root) /\ path = <<>>
      BY <1>2 DEF Idle
  <2>2. Forest = {root}
      BY <1>2 DEF Forest
  <2>3. \A f \in Range(path) : FALSE
      BY <2>1 DEF Range
  <2> QED
      BY <2>1, <2>2, <2>3, WholeParts
<1>3. CASE pc = "descend" /\ Descending(g)
  <2>1. root # 0 /\ Whole(st, g, root) /\ cur \in g.pages /\ Waits(st, g, path, cur, root)
      BY <1>3 DEF Descending
  <2>2. Forest = {root}
      BY <1>3, <2>1 DEF Forest
  <2>3. \A k \in DOMAIN path : path[k].page \in Inner(st, g)
      BY <2>1, WaitingPages DEF Whole
  <2>4. \A f \in Range(path) : f.page \in g.pages
      BY <2>3 DEF Range, Inner
  <2> QED
      BY <2>1, <2>2, <2>4, WholeParts
<1>4. CASE pc = "ascend" /\ Ascending(g)
    BY <1>4, AscendingParts
<1> QED
    BY <1>1, <1>2, <1>3, <1>4 DEF Formed

\* No page of a tree, of a stack or of the free list is another one's too.
LEMMA InvariantApart ==
  ASSUME IInv
  PROVE  PagesApart
<1>1. PICK g : Formed(g)
    BY DEF IInv
<1>2. Parts(g)
    BY <1>1, FormedParts
<1>3. Tree(st, g) /\ Forest \subseteq Settled(g)
    BY <1>2 DEF Parts
<1>4. PICK tree, roots : tree = Below(roots) /\ roots = Forest
    OBVIOUS
<1>5. tree \subseteq Settled(g)
    BY <1>3, <1>4, BelowSettled
<1>6. tree \subseteq g.pages
    BY <1>5 DEF Settled
<1>7. /\ StoreFits(st) /\ Owned(st, g.pages \cup g.stacks) /\ g.pages \cap g.stacks = {}
      /\ Stacked(st, g) /\ OneParent(st, g)
    BY <1>3 DEF Tree, Owned
<1>8. \A p \in tree : Overflows(st.mem[p]) \subseteq g.stacks
    BY <1>3, <1>6, OverflowsWithin
<1>9. Held \subseteq g.pages \cup g.stacks
  <2> DEFINE B == UNION {Overflows(st.mem[p]) : p \in tree}
             C == {f.page : f \in Range(path)}
  <2>1. Held = tree \cup B \cup C
      BY <1>4 DEF Held
  <2>3. \A x \in B : \E p \in tree : x \in Overflows(st.mem[p])
      OBVIOUS
  <2>4. \A x \in C : \E f \in Range(path) : x = f.page
      OBVIOUS
  <2> HIDE DEF B, C
  <2>2. ASSUME NEW x \in Held PROVE x \in g.pages \cup g.stacks
    <3>1. \/ x \in tree
          \/ \E p \in tree : x \in Overflows(st.mem[p])
          \/ \E f \in Range(path) : x = f.page
      <4>1. x \in tree \/ x \in B \/ x \in C
          BY <2>1, <2>2
      <4> QED
          BY <2>3, <2>4, <4>1
    <3>2. \A f \in Range(path) : f.page \in g.pages
        BY <1>2 DEF Parts
    <3> QED
        BY <1>6, <1>8, <3>1, <3>2
  <2> QED
      BY <2>2
<1>10. IsInjective(st.free) /\ Range(st.free) \cap (Held \cup {1}) = {} /\ 1 \notin Held
  <2>1. g.pages \cup g.stacks \subseteq 2 .. st.end - 1 /\ \A p \in g.pages \cup g.stacks : p \notin Range(st.free)
      BY <1>7 DEF Owned
  <2>2. IsInjective(st.free) /\ st.free \in Seq(2 .. st.end - 1)
      BY <1>7 DEF StoreFits
  <2>3. 1 \notin Range(st.free)
    <3>1. PICK f, T : f = st.free /\ T = 2 .. st.end - 1
        OBVIOUS
    <3>2. f \in Seq(T) /\ 1 \notin T
        BY <2>2, <3>1
    <3>3. \A k \in DOMAIN f : f[k] # 1
        BY <3>2
    <3> QED
        BY <3>1, <3>3 DEF Range
  <2> QED
      BY <1>9, <2>1, <2>2, <2>3
<1>11. ASSUME NEW p \in tree, st.mem[p].kind = "branch"
       PROVE  IsInjective(st.mem[p].kids) /\ Forest \cap Kids(st.mem[p]) = {}
  <2>1. p \in Inner(st, g) /\ Live(st, g, p) = DOMAIN st.mem[p].kids
      BY <1>3, <1>5, <1>11, SettledKids
  <2>2. \A i, j \in DOMAIN st.mem[p].kids : st.mem[p].kids[i] = st.mem[p].kids[j] => i = j
      BY <1>7, <2>1 DEF OneParent
  <2> QED
      BY <1>2, <1>5, <2>2 DEF IsInjective, Parts
<1>12. ASSUME NEW p \in tree, st.mem[p].kind = "branch", NEW q \in tree, st.mem[q].kind = "branch", p # q
       PROVE  Kids(st.mem[p]) \cap Kids(st.mem[q]) = {}
  <2>1. /\ p \in Inner(st, g) /\ Live(st, g, p) = DOMAIN st.mem[p].kids
        /\ q \in Inner(st, g) /\ Live(st, g, q) = DOMAIN st.mem[q].kids
      BY <1>3, <1>5, <1>12, SettledKids
  <2>2. \A i \in DOMAIN st.mem[p].kids, j \in DOMAIN st.mem[q].kids : st.mem[p].kids[i] # st.mem[q].kids[j]
      BY <1>7, <1>12, <2>1 DEF OneParent
  <2> QED
      BY <1>12, <2>2 DEF Kids, Range
<1>13. ASSUME NEW p \in tree
       PROVE  tree \cap Overflows(st.mem[p]) = {} /\ IsInjective(Stacks(st.mem[p]))
  <2>1. tree \cap Overflows(st.mem[p]) = {}
      BY <1>6, <1>7, <1>8
  <2>2. CASE st.mem[p].kind # "leaf"
    <3>1. Stacks(st.mem[p]) = <<>>
        BY <2>2 DEF Stacks
    <3>2. IsInjective(<<>>)
        BY DEF IsInjective
    <3> QED
        BY <2>1, <3>1, <3>2
  <2>3. CASE st.mem[p].kind = "leaf"
    <3>1. PICK pg, f : pg = st.mem[p] /\ f = Stacks(pg)
        OBVIOUS
    <3>2. f = [i \in {j \in 1 .. Len(pg.keys) : HasOverflow(pg.keys[j])} |-> pg.vals[i]]
        BY <2>3, <3>1 DEF Stacks
    <3>3. p \in Leaves(st, g) /\ pg.keys \in Seq(Nat)
      <4>0. p \in 1 .. st.end - 1
          BY <1>6, <1>7 DEF StoreFits, Owned
      <4>1. PageFits(pg, st.end)
          BY <1>7, <3>1, <4>0 DEF StoreFits
      <4> QED
          BY <1>6, <2>3, <3>1, <4>1 DEF Leaves, PageFits
    <3>4. DOMAIN f = Marked(st, p)
      <4>1. DOMAIN pg.keys = 1 .. Len(pg.keys)
          BY <3>3
      <4> QED
          BY <3>1, <3>2, <4>1 DEF Marked
    <3>5. \A i, j \in DOMAIN f : f[i] = f[j] => i = j
      <4>1. \A i \in DOMAIN f : f[i] = st.mem[p].vals[i]
          BY <3>1, <3>2
      <4>2. \A i, j \in Marked(st, p) : st.mem[p].vals[i] = st.mem[p].vals[j] => i = j
          BY <1>7, <3>3 DEF Stacked
      <4> QED
          BY <3>4, <4>1, <4>2
    <3> QED
        BY <2>1, <3>1, <3>5 DEF IsInjective
  <2> QED
      BY <2>2, <2>3
<1>14. ASSUME NEW p \in tree, NEW q \in tree, p # q
       PROVE  Overflows(st.mem[p]) \cap Overflows(st.mem[q]) = {}
  <2> SUFFICES ASSUME NEW x \in Overflows(st.mem[p]), x \in Overflows(st.mem[q]) PROVE FALSE
      OBVIOUS
  <2>1. p \in Leaves(st, g) /\ \E i \in Marked(st, p) : g.first[x] = st.mem[p].vals[i]
      BY <1>3, <1>6, OverflowsWithin
  <2>2. q \in Leaves(st, g) /\ \E j \in Marked(st, q) : g.first[x] = st.mem[q].vals[j]
      BY <1>3, <1>6, OverflowsWithin
  <2>3. PICK i \in Marked(st, p), j \in Marked(st, q) : st.mem[p].vals[i] = st.mem[q].vals[j]
      BY <2>1, <2>2, Zenon
  <2>4. p = q
      BY <1>7, <2>1, <2>2, <2>3 DEF Stacked
  <2> QED
      BY <1>14, <2>4
<1>15. Below(Forest) = tree
    BY <1>4
<1> QED
    BY <1>10, <1>11, <1>12, <1>13, <1>14, <1>15 DEF PagesApart

\* No tree is deeper than the rows that Row and Freed look at.
LEMMA NoDeeper ==
  ASSUME NEW l \in Nat, NEW n \in Nat, NEW m \in Int, Grown(l, n) <= m, m <= MaxAdds
  PROVE  l <= MaxDepth
<1>1. CASE l = 0
    BY <1>1, DepthIs
<1>2. CASE l # 0
  <2>1. PICK b, f, x, k, q : /\ b = BranchCap /\ f = LeafCap /\ x = MaxAdds - LeafCap - 1
                             /\ k = l - 1 /\ q = x \div b
      OBVIOUS
  <2>2. b \in Nat /\ b >= 3 /\ f \in Nat /\ k \in Nat /\ MaxAdds \in Nat /\ x \in Int /\ x = MaxAdds - f - 1
      BY <1>2, <2>1, Sizes
  <2>3. f + b * k + 1 <= m
    <3>1. Grown(l, n) = f + b * k + (IF n = 0 THEN 1 ELSE n)
        BY <1>2, <2>1, Zenon DEF Grown
    <3>2. b * k \in Nat
        BY <2>2
    <3> QED
        BY <2>2, <3>1, <3>2
  <2>4. x \in Nat /\ b * k <= x /\ ~(MaxAdds <= f)
    <3>1. b * k \in Nat
        BY <2>2
    <3> QED
        BY <2>2, <2>3, <3>1
  <2>5. q \in Nat /\ x < b * q + b
      BY <2>1, <2>2, <2>4
  <2>6. k <= q
    <3> SUFFICES ASSUME k > q PROVE FALSE
        BY <2>2, <2>5
    <3>1. PICK j : j = k - q - 1
        OBVIOUS
    <3>2. j \in Nat /\ k = q + 1 + j
        BY <2>2, <2>5, <3>1
    <3>3. b * k = b * q + b + b * j /\ b * j \in Nat /\ b * q \in Nat
        BY <2>2, <2>5, <3>2
    <3> QED
        BY <2>2, <2>4, <2>5, <3>3
  <2>7. MaxDepth = 1 + q
      BY <2>1, <2>4, Zenon DEF MaxDepth
  <2> QED
      BY <2>1, <2>2, <2>5, <2>6, <2>7
<1> QED
    BY <1>1, <1>2

\* The rows that Row, Below and Freed look at are all the rows of the tree: the
\* last of them has no branch.
RowsReachLeaves ==
  pc = "idle" /\ root # 0 => \A p \in Row({root}, MaxDepth)[MaxDepth] : st.mem[p].kind = "leaf"

\* The level of the root, counted in adds, is at most the number of rows.
LEMMA InvariantReach ==
  ASSUME IInv
  PROVE  RowsReachLeaves
<1> SUFFICES ASSUME pc = "idle", root # 0, NEW p \in Row({root}, MaxDepth)[MaxDepth]
             PROVE  st.mem[p].kind = "leaf"
    BY Zenon DEF RowsReachLeaves
<1>1. PICK g : Formed(g)
    BY DEF IInv
<1>2. Whole(st, g, root) /\ Grown(g.level[root], Len(st.mem[root].keys)) <= adds
    BY <1>1 DEF Formed, Idle
<1>3. Tree(st, g) /\ root \in Settled(g) /\ root \in g.pages
    BY <1>2 DEF Whole, Loose, Settled
<1>4. Levelled(st, g) /\ Owned(st, g.pages \cup g.stacks)
    BY <1>3 DEF Tree
<1>5. g.level[root] \in Nat
    BY <1>3, <1>4 DEF Levelled
<1>6. PICK n : n = MaxDepth
    OBVIOUS
<1>7. n \in Nat /\ n \in 0 .. n
    BY <1>6, DepthIs
<1>8. p \in Settled(g) /\ g.level[p] + n = g.level[root]
    BY <1>3, <1>6, <1>7, RowLevel, Zenon
<1>9. g.level[root] <= n
  <2>1. adds \in Int /\ adds <= MaxAdds
      BY Sizes DEF IInv, Counted
  <2>2. Len(st.mem[root].keys) \in Nat
    <3>1. PageFits(st.mem[root], st.end)
        BY <1>3, <1>4 DEF Owned, StoreFits
    <3>2. st.mem[root].kind \in {"leaf", "branch"}
        BY <1>3, <1>4 DEF Levelled
    <3>3. PICK keys : keys = st.mem[root].keys
        BY Zenon
    <3>4. keys \in Seq(Nat)
        BY <3>1, <3>2, <3>3 DEF PageFits
    <3>5. Len(keys) \in Nat
        BY ONLY <3>4
    <3> QED
        BY <3>3, <3>5
  <2> QED
      BY <1>2, <1>5, <1>6, <2>1, <2>2, NoDeeper, Zenon
<1>10. p \in g.pages
    BY <1>8 DEF Settled
<1>11. g.level[p] \in Nat
    BY <1>4, <1>10 DEF Levelled
<1>12. PICK a, c : a = g.level[p] /\ c = g.level[root]
    BY Zenon
<1>13. a = 0
    BY <1>5, <1>7, <1>8, <1>9, <1>11, <1>12
<1> QED
    BY <1>4, <1>10, <1>12, <1>13 DEF Levelled

\* Between two calls the rows below the root end with leaves, so that Shape,
\* PagesApart and Destroy look at the whole tree, as btree_destroy does.
THEOREM ReachAlways == Spec => []RowsReachLeaves
BY InvariantHolds, InvariantReach, PTL

\* Between two steps the tree's variables have their types: pages that fit
\* their sizes, page references inside the file, a call that is one of the
\* client's (btree_add, btree_recur_add and what they call).
THEOREM TypesAlways == Spec => []TypeOK
BY InvariantHolds, InvariantTypes, PTL

\* After every call of btree_add all leaves are on one level, no page holds
\* more keys than it has room for, no leaf but the root is empty, and only the
\* root page has the root flag (btree_add, btree_branch_add, btree_branch_split).
THEOREM ShapeAlways == Spec => []Shape
BY InvariantHolds, InvariantShape, PTL

\* At every step of btree_add a page is in use at one place of the tree or free
\* at one place of the list, never both, although a copy may take a page that
\* was freed a step before (btree_recur_add, store_free, store_alloc).
THEOREM PagesApartAlways == Spec => []PagesApart
BY InvariantHolds, InvariantApart, PTL
=============================================================================
