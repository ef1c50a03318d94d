------------------------------- MODULE BStack -------------------------------
(***************************************************************************)
(* The page stacks of src/src/db/store/bstack.c, word by word in the       *)
(* mapping of their store: BTree has their pages as records and stays      *)
(* below the last slot of a page, this module does not.  A page is the     *)
(* header word, the pointer to the next page and the items.  The store is  *)
(* its list of free pages and the next page to be cut.                     *)
(***************************************************************************)
EXTENDS Integers, SequencesExt, FiniteSetsExt

CONSTANTS
  Stacks,           \* the clients, each with a stack
  PageWords,        \* BSTACK_DEF_PAGE_SIZE in words of 8 bytes
  Blank,            \* a word that was never written
  MaxPages,         \* bound: pages in the file
  MaxPushes         \* bound: calls of bstack_add

BStackAssumption ==
  /\ PageWords \in Nat \ (0 .. 2)
  /\ {MaxPages, MaxPushes} \subseteq Nat

VARIABLES
  words,      \* the mapping; page p starts at word p * PageWords, page 0 is the file header's
  free, fresh,  \* the store: free pages, the one freed last in front, and the next to cut
  tops,       \* the clients' references: each stack's first page; 0 is no stack
  pushed,     \* history: what was pushed on each stack, in order
  calls       \* calls of bstack_add so far; each pushes its number

vars == <<words, free, fresh, tops, pushed, calls>>

HeaderWords == 2
Pages == 1 .. MaxPages
Place(p, i) == p * PageWords + i
Header(p) == words[Place(p, 0)]
NextOf(p) == words[Place(p, 1)]

\* bstack_page_walk: the items of a page, to the end its header tells.
Items(p) == [i \in 1 .. Header(p).used - HeaderWords |-> words[Place(p, HeaderWords + i - 1)]]

\* The pages of a stack, first to last, and the items on them, the newest at the end.
Chain(p) ==
  LET from[left \in 0 .. MaxPages, q \in 0 .. MaxPages] ==
        IF left = 0 \/ q = 0 THEN <<>> ELSE <<q>> \o from[left - 1, NextOf(q)]
  IN  from[MaxPages, p]
Contents(p) ==
  LET pages == Chain(p)
  IN  FlattenSeq([i \in DOMAIN pages |-> Items(pages[Len(pages) + 1 - i])])

Init ==
  /\ words = [w \in 0 .. Place(MaxPages + 1, PageWords - 1) |-> Blank]
  /\ free = <<>> /\ fresh = 1
  /\ tops = [s \in Stacks |-> 0]
  /\ pushed = [s \in Stacks |-> <<>>]
  /\ calls = 0

\* store_alloc: the page freed last, or one from the end of the file.
NewPage == IF free # <<>> THEN Head(free) ELSE fresh
CanAlloc == free # <<>> \/ fresh \in Pages
Rest == IF free # <<>> THEN Tail(free) ELSE <<>>
Cut == fresh' = IF free # <<>> THEN fresh ELSE fresh + 1

\* The words of a page, its header first.
Written(mem, p, hdr, next) ==
  [mem EXCEPT ![Place(p, 0)] = hdr, ![Place(p, 1)] = next]

\* bstack_create.
Create(s) ==
  /\ tops[s] = 0 /\ CanAlloc
  /\ words' = Written(words, NewPage, [nkeys |-> 0, used |-> HeaderWords], 0)
  /\ tops' = [tops EXCEPT ![s] = NewPage]
  /\ free' = Rest /\ Cut
  /\ UNCHANGED <<pushed, calls>>

\* bstack_add copies as many words as the page uses, from behind its header on: the
\* header's two too many.
Copied(mem, p, copy) ==
  LET n == Header(p).used
  IN  [w \in DOMAIN mem |->
         IF w \in Place(copy, HeaderWords) .. Place(copy, HeaderWords + n - 1)
           THEN mem[w - Place(copy, 0) + Place(p, 0)]
           ELSE mem[w]]

\* When the last slot is filled the copy takes the header of the page behind along.
\* Nothing in the code keeps that page from being in use: it is these clients' rule,
\* who push only where it is free, or not cut yet, or the page that is copied.
InUse == UNION {ToSet(Chain(tops[s])) : s \in Stacks}
Overruns(p) == Header(p).used + HeaderWords > PageWords
MayPush(p) == Overruns(p) => NewPage + 1 \notin InUse \ {p}

Full(p) == PageWords - Header(p).used < 1

Pushes(s) ==
  /\ tops[s] # 0 /\ CanAlloc /\ calls < MaxPushes
  /\ calls' = calls + 1
  /\ pushed' = [pushed EXCEPT ![s] = Append(@, calls + 1)]
  /\ tops' = [tops EXCEPT ![s] = NewPage]
  /\ Cut

\* bstack_add to a full page: a new one goes in front of it.
AddPage(s) ==
  LET p == tops[s]
  IN  /\ Pushes(s) /\ Full(p)
      /\ words' = [Written(words, NewPage, [nkeys |-> 1, used |-> HeaderWords + 1], p)
                     EXCEPT ![Place(NewPage, HeaderWords)] = calls + 1]
      /\ free' = Rest

\* Mutant: the new item goes where the items of a page start.
AddItemInFront(s) ==
  LET p == tops[s]
      hdr == [nkeys |-> Header(p).nkeys + 1, used |-> Header(p).used + 1]
  IN  /\ Pushes(s) /\ ~Full(p) /\ MayPush(p)
      /\ words' = [Copied(Written(words, NewPage, hdr, NextOf(p)), p, NewPage)
                     EXCEPT ![Place(NewPage, HeaderWords)] = calls + 1]
      /\ free' = <<p>> \o Rest

\* bstack_add to a page with room: a copy with the new item takes its place.
AddItem(s) ==
  LET p == tops[s]
      hdr == [nkeys |-> Header(p).nkeys + 1, used |-> Header(p).used + 1]
  IN  /\ Pushes(s) /\ ~Full(p) /\ MayPush(p)
      /\ words' = [Copied(Written(words, NewPage, hdr, NextOf(p)), p, NewPage)
                     EXCEPT ![Place(NewPage, Header(p).used)] = calls + 1]
      /\ free' = <<p>> \o Rest

\* bstack_debug_page walks the stack and changes nothing.
Walk(s) == tops[s] # 0 /\ UNCHANGED vars

Next == \E s \in Stacks : Create(s) \/ AddPage(s) \/ AddItem(s) \/ Walk(s)

Spec == Init /\ [][Next]_vars
-----------------------------------------------------------------------------
\* Every stack holds what was pushed on it, in order, however its pages and those of
\* the others were copied, freed and taken again; each page counts its items.
HoldsPushed ==
  \A s \in Stacks : tops[s] # 0 =>
    /\ Contents(tops[s]) = pushed[s]
    /\ \A p \in ToSet(Chain(tops[s])) : Header(p).nkeys = Len(Items(p))
=============================================================================
