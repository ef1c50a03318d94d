------------------------------- MODULE Store -------------------------------
(***************************************************************************)
(* The managed data store: src/src/db/store/store.c over src/src/util/fs.c.*)
(*                                                                         *)
(* A store is a file, its shared mapping and a handle.  The file keeps its *)
(* size and the header's `end'; the handle keeps a copy of `end', the size *)
(* of the mapping and the free list, and loses all three when it closes or *)
(* its process dies.  What is written through the mapping stays in the     *)
(* file.  store_alloc is split at the points where a death leaves          *)
(* different things behind: growing the file, moving s->end, writing it.   *)
(***************************************************************************)
EXTENDS Integers, Sequences, FiniteSets

CONSTANTS
  Sizes,          \* page sizes the clients ask store_alloc for
  RootSize,       \* BTREE_DEF_PAGE_SIZE: the page store_open takes for itself
  HeaderSize,     \* STORE_HEADER_SIZE
  InitFileSize,   \* STORE_INIT_FILE_SIZE
  DiskCapacity,   \* the largest size ftruncate can give the file
  ResizeTo,       \* sizes the clients ask store_resize for
  TornCreate,     \* may a process die between creating the file and its header?
  MaxEnd          \* bound: clients ask for no page that would end beyond it

ASSUME StoreAssumption ==
  /\ Sizes \subseteq Nat \ {0}
  /\ RootSize \in Nat \ {0}
  /\ HeaderSize \in Nat \ {0}
  /\ InitFileSize \in Nat
  /\ InitFileSize >= HeaderSize
  /\ DiskCapacity \in Nat
  /\ InitFileSize <= DiskCapacity
  /\ ResizeTo \subseteq Nat
  /\ TornCreate \in BOOLEAN
  /\ MaxEnd \in Nat

VARIABLES
  fsize,      \* file: size, 0 while there is no file
  hdr,        \* file: the header's end, 0 in a file without a header
  pc,         \* where the process is in store_open and store_alloc
  mapped,     \* handle: file->size
  end,        \* handle: s->end
  free,       \* handle: s->free_list, first element first
  freeRoot,   \* handle: s->free_root
  req,        \* the size store_alloc was last called with
  caller,     \* who called it
  given,      \* what it has just returned to a client, 0 while it runs
  live,       \* history: the pages the clients hold
  carved      \* history: the extents ever cut from the end of the file

disk == <<fsize, hdr>>
vars == <<fsize, hdr, pc, mapped, end, free, freeRoot, req, caller, given, live, carved>>

Page(p, size) == [page |-> p, size |-> size]
Disjoint(a, b) == a.page + a.size <= b.page \/ b.page + b.size <= a.page
Pages(S) == {r.page : r \in S}
FreePages == {free[i] : i \in 1 .. Len(free)}

TypeOK ==
  /\ fsize \in Nat /\ hdr \in Nat
  /\ pc \in {"closed", "created", "ready", "alloc", "bumped"}
  /\ mapped \in Nat /\ end \in Nat
  /\ free \in Seq(Nat)
  /\ freeRoot \in Nat
  /\ req \in Sizes \cup {RootSize}
  /\ caller \in {"client", "store_open"}
  /\ given \in Nat
  /\ live \subseteq [page : Nat, size : Nat]
  /\ carved \subseteq [page : Nat, size : Nat]

Init ==
  /\ fsize = 0 /\ hdr = 0
  /\ pc = "closed"
  /\ mapped = 0 /\ end = 0 /\ free = <<>> /\ freeRoot = 0
  /\ req = RootSize /\ caller = "store_open" /\ given = 0
  /\ live = {} /\ carved = {}
-----------------------------------------------------------------------------
(* store_open and store_close *)

\* store_open(STORE_O_CREAT) of a name that does not exist: fs_create_file
\* leaves a zero-filled file.
CreateFile ==
  /\ pc = "closed" /\ fsize = 0
  /\ fsize' = InitFileSize
  /\ pc' = "created"
  /\ UNCHANGED <<hdr, mapped, end, free, freeRoot, req, caller, given, live, carved>>

\* fs_map, store_write_hdr, store_read_hdr, then btree_create asks store_alloc
\* for the root of the free tree.  There is no free list yet, and store_alloc
\* takes a missing list for an empty one.
WriteHeader ==
  /\ pc = "created"
  /\ hdr' = HeaderSize
  /\ mapped' = fsize
  /\ end' = HeaderSize
  /\ req' = RootSize /\ caller' = "store_open"
  /\ pc' = "alloc"
  /\ UNCHANGED <<fsize, free, freeRoot, given, live, carved>>

\* Mutant: the missing free tree is marked by all ones, not by 0.
OpenMarksNoRoot ==
  /\ pc = "closed" /\ fsize > 0
  /\ mapped' = fsize
  /\ end' = hdr
  /\ free' = <<>>
  /\ freeRoot' = -1
  /\ pc' = "ready"
  /\ UNCHANGED <<fsize, hdr, req, caller, given, live, carved>>

\* Mutant: an existing file gets a fresh header as well.
OpenRewritesHeader ==
  /\ pc = "closed" /\ fsize > 0
  /\ mapped' = fsize
  /\ hdr' = HeaderSize /\ end' = HeaderSize
  /\ free' = <<>> /\ freeRoot' = 0
  /\ pc' = "ready"
  /\ UNCHANGED <<fsize, req, caller, given, live, carved>>

\* store_open of an existing file reads the header and checks nothing in it;
\* the handle comes from calloc, so there is no free tree.
OpenExisting ==
  /\ pc = "closed" /\ fsize > 0
  /\ mapped' = fsize
  /\ end' = hdr
  /\ free' = <<>>
  /\ freeRoot' = 0
  /\ pc' = "ready"
  /\ UNCHANGED <<fsize, hdr, req, caller, given, live, carved>>

\* What is left when the handle is gone: the file, as written so far.
DropHandle ==
  /\ pc' = "closed"
  /\ mapped' = 0 /\ end' = 0 /\ free' = <<>> /\ freeRoot' = 0
  /\ given' = 0
  /\ UNCHANGED <<fsize, hdr, req, caller, live, carved>>

Close == pc = "ready" /\ DropHandle

\* The process dies between two steps.
Crash ==
  /\ pc # "closed"
  /\ pc = "created" => TornCreate
  /\ DropHandle
-----------------------------------------------------------------------------
(* store_resize and store_extend *)

\* fs_resize_file and fs_remap: the handle takes the size it finds the file
\* to have.  A size the disk cannot give leaves the file as it was, and
\* nothing is reported: fs_resize_file clears errno before it returns it, and
\* store_resize returns 0 whatever happened.
SetFileSize(size) ==
  /\ fsize' = IF size <= DiskCapacity THEN size ELSE fsize
  /\ mapped' = fsize'

Resize(size) ==
  /\ pc = "ready"
  /\ IF size < mapped THEN UNCHANGED <<fsize, mapped>> ELSE SetFileSize(size)
  /\ UNCHANGED <<hdr, pc, end, free, freeRoot, req, caller, given, live, carved>>
-----------------------------------------------------------------------------
(* store_alloc and store_free *)

\* Mutant: the end of the used part is not subtracted.
FreeSpaceOfWholeFile == mapped

FreeSpace == mapped - end

Alloc(size) ==
  /\ pc = "ready"
  /\ end + size <= MaxEnd
  /\ req' = size /\ caller' = "client" /\ given' = 0
  /\ pc' = "alloc"
  /\ UNCHANGED <<fsize, hdr, mapped, end, free, freeRoot, live, carved>>

\* Mutant: store_extend asks for the size the file already has.
ExtendByNothing ==
  /\ pc = "alloc"
  /\ req > FreeSpace
  /\ SetFileSize(mapped)
  /\ UNCHANGED <<hdr, pc, end, free, freeRoot, req, caller, given, live, carved>>

\* Not enough room behind the end: store_extend, and store_alloc starts over.
\* The room is asked for even when a free page is at hand.
Extend ==
  /\ pc = "alloc"
  /\ req > FreeSpace
  /\ SetFileSize(mapped * 2)
  /\ UNCHANGED <<hdr, pc, end, free, freeRoot, req, caller, given, live, carved>>

\* The caller has its page: store_open keeps the root of the free tree and
\* makes the free list, a client goes on with the page it asked for.
Return(p) ==
  /\ pc' = "ready"
  /\ IF caller = "store_open"
       THEN freeRoot' = p /\ UNCHANGED <<given, live>>
       ELSE given' = p /\ live' = live \cup {Page(p, req)} /\ UNCHANGED freeRoot

\* Mutant: the end moves by the page without a trailing word.
BumpShort ==
  /\ pc = "alloc"
  /\ req <= FreeSpace
  /\ free = <<>>
  /\ end' = end + req - 8
  /\ pc' = "bumped"
  /\ UNCHANGED <<fsize, hdr, mapped, free, freeRoot, req, caller, given, live, carved>>

\* No free page: the page is cut from the end ...
Bump ==
  /\ pc = "alloc"
  /\ req <= FreeSpace
  /\ free = <<>>
  /\ end' = end + req
  /\ pc' = "bumped"
  /\ UNCHANGED <<fsize, hdr, mapped, free, freeRoot, req, caller, given, live, carved>>

\* Mutant: the new end is kept in the handle only.
EndNotPersisted ==
  /\ pc = "bumped"
  /\ carved' = carved \cup {Page(end - req, req)}
  /\ Return(end - req)
  /\ UNCHANGED <<hdr, fsize, mapped, end, free, req, caller>>

\* Mutant: s->end is returned after it moved, not before.
ReturnsNewEnd ==
  /\ pc = "bumped"
  /\ hdr' = end
  /\ carved' = carved \cup {Page(end - req, req)}
  /\ Return(end)
  /\ UNCHANGED <<fsize, mapped, end, free, req, caller>>

\* ... and handed out once the new end is in the header.
PersistEnd ==
  /\ pc = "bumped"
  /\ hdr' = end
  /\ carved' = carved \cup {Page(end - req, req)}
  /\ Return(end - req)
  /\ UNCHANGED <<fsize, mapped, end, free, req, caller>>

\* Mutant: list_first in place of list_shift.
ReusePeeks ==
  /\ pc = "alloc" /\ req <= FreeSpace /\ free # <<>>
  /\ Return(Head(free))
  /\ UNCHANGED <<fsize, hdr, mapped, end, free, req, caller, carved>>

\* Mutant: the list is cleared when a page is taken from it.
ReuseClearsList ==
  /\ pc = "alloc" /\ req <= FreeSpace /\ free # <<>>
  /\ free' = <<>>
  /\ Return(Head(free))
  /\ UNCHANGED <<fsize, hdr, mapped, end, req, caller, carved>>

\* The page freed last is handed out again, whatever its size.
Reuse ==
  /\ pc = "alloc"
  /\ req <= FreeSpace
  /\ free # <<>>
  /\ free' = Tail(free)
  /\ Return(Head(free))
  /\ UNCHANGED <<fsize, hdr, mapped, end, req, caller, carved>>

\* store_free by a client that holds the page.
Free(r) ==
  /\ pc = "ready"
  /\ free' = <<r.page>> \o free
  /\ live' = live \ {r}
  /\ given' = 0
  /\ UNCHANGED <<fsize, hdr, pc, mapped, end, freeRoot, req, caller, carved>>
-----------------------------------------------------------------------------
AllocStep == Extend \/ Bump \/ PersistEnd \/ Reuse

Next ==
  \/ CreateFile \/ WriteHeader \/ OpenExisting \/ Close \/ Crash
  \/ \E size \in ResizeTo : Resize(size)
  \/ \E size \in Sizes : Alloc(size)
  \/ Extend \/ Bump \/ PersistEnd \/ Reuse
  \/ \E r \in live : Free(r)

Spec == Init /\ [][Next]_vars

\* A call of store_alloc is straight-line code of one thread: it goes on.  What
\* the clients call next is up to them.
FairSpec == Spec /\ WF_vars(AllocStep)
-----------------------------------------------------------------------------
(* Properties *)

\* No two pages the clients hold share a byte, none reaches into the header
\* and all lie inside the file, however the file grew and whenever the
\* process was killed or the file reopened (store_alloc, store_open).
NoOverlap ==
  /\ \A a, b \in live : a # b => Disjoint(a, b)
  /\ \A r \in live : HeaderSize <= r.page /\ r.page + r.size <= fsize

\* Every page a client holds ends at or before the end the file records, so
\* that a reopened store never cuts the same bytes again (the order of the
\* header write and the return in store_alloc).
RecordedEnd == \A r \in live : r.page + r.size <= hdr

\* The free list holds no page twice, no page a client holds and not the root
\* of the free tree: store_alloc cannot hand out one page to two holders.
OneHolder ==
  /\ \A i, j \in 1 .. Len(free) : free[i] = free[j] => i = j
  /\ FreePages \cap Pages(live) = {}
  /\ freeRoot \notin FreePages \cup Pages(live)
  /\ \A a, b \in live : a.page = b.page => a = b

\* store_alloc never returns a page that somebody holds: neither a page of a
\* client nor the root of the free tree, nor one it leaves on the free list.
HandedOutOnce ==
  [][given' \notin {0, given} => /\ given' \notin Pages(live) \cup {freeRoot}
                                 /\ given' \notin FreePages']_vars

\* s->end never passes the mapping: the unsigned subtraction in store_alloc
\* cannot wrap, and a store write at a page handed out stays inside the file.
EndInMapping == pc \in {"ready", "alloc", "bumped"} => end <= mapped /\ mapped = fsize

\* While the handle is open no page is lost: what was held or free stays held
\* or free.  Only closing or dying forgets the free list (store_close).
NoLeak ==
  [][pc' # "closed" => Pages(live) \cup FreePages \subseteq (Pages(live) \cup FreePages)']_vars

\* A page handed out is not 0, the value callers take for "no page", and does
\* not lie in the header.
BehindHeader == \A c \in carved : c.page >= HeaderSize

\* store_alloc returns to its caller, unless the process dies first.
AllocReturns == pc = "alloc" ~> pc \in {"ready", "closed"}

\* The store implements the allocator its header file promises.
Promise == INSTANCE PageAlloc WITH Addresses <- 0 .. MaxEnd
ImplementsPageAlloc == Promise!Spec
-----------------------------------------------------------------------------
(* The inductive invariant.  It is stated for a creation that is not torn: *)
(* without its header a file has no end.                                   *)

\* The clients of a store ask for pages of one size, as btree.c and nodes.c do.
OneSize == \A a, b \in Sizes : a = b

\* Where the end is at each point of store_open and store_alloc.
Phases ==
  /\ pc = "closed" => mapped = 0 /\ end = 0
  /\ pc \in {"closed", "created"} => free = <<>> /\ freeRoot = 0
  /\ pc # "ready" => given = 0
  /\ pc \in {"alloc", "bumped"} /\ caller = "store_open" => free = <<>>
  /\ pc = "created" => fsize = InitFileSize
  /\ pc \in {"ready", "alloc", "bumped"} => fsize > 0
  /\ fsize = 0 \/ pc = "created" => carved = {}
  /\ fsize > 0 /\ pc # "created" => HeaderSize <= hdr /\ hdr <= fsize
  /\ pc \in {"ready", "alloc"} => end = hdr
  /\ pc = "bumped" => end = hdr + req
  /\ EndInMapping

\* The extents cut from the file never meet, lie behind the header and in
\* front of the recorded end, and every page in circulation is one of them.
CarvedApart ==
  /\ \A a, b \in carved : a # b => Disjoint(a, b)
  /\ \A c \in carved : HeaderSize <= c.page /\ c.page + c.size <= hdr /\ c.size > 0
  /\ FreePages \cup Pages(live) \subseteq Pages(carved)
  /\ freeRoot \in Pages(carved) \cup {0}

\* What the clients asked for stays within their bound.
Asked ==
  /\ pc \in {"alloc", "bumped"} /\ caller = "client" => req \in Sizes
  /\ pc = "alloc" /\ caller = "client" => end + req <= MaxEnd
  /\ pc = "bumped" /\ caller = "client" => end <= MaxEnd
  /\ \A p \in FreePages \cup Pages(live) : p <= MaxEnd

\* A page in circulation still has the size it was cut with.
SizesKept ==
  /\ live \subseteq carved
  /\ \A r \in live : r.size \in Sizes
  /\ \A p \in FreePages : \E size \in Sizes : Page(p, size) \in carved

\* Everything store_alloc relies on between two steps; it implies the safety
\* properties above and is kept by every step (StoreProofs).
IInv ==
  /\ TypeOK
  /\ Phases
  /\ CarvedApart
  /\ OneHolder
  /\ Asked
  /\ OneSize => SizesKept
=============================================================================
