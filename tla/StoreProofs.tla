---------------------------- MODULE StoreProofs ----------------------------
(***************************************************************************)
(* Theorems about module Store, for every choice of sizes and bounds:      *)
(* types; the inductive invariant IInv and, from it, the safety properties *)
(* the runs check; and that the store implements PageAlloc.                *)
(***************************************************************************)
EXTENDS Store, TLAPS

\* store_alloc subtracts the size it added, so the types need to know that it
\* did add it.
TypeInv == TypeOK /\ (pc = "bumped" => req <= end)

\* Before the first store_open all variables have their types.
LEMMA TypeInvInit == Init => TypeInv
  BY StoreAssumption DEF Init, TypeInv, TypeOK

\* Every step writes values of the declared types.
LEMMA TypeInvStep == TypeInv /\ [Next]_vars => TypeInv'
<1> SUFFICES ASSUME TypeInv, [Next]_vars PROVE TypeInv'
    OBVIOUS
<1> USE DEF TypeInv, TypeOK
<1>1. CASE CreateFile
    BY <1>1, StoreAssumption DEF CreateFile
<1>2. CASE WriteHeader
    BY <1>2, StoreAssumption DEF WriteHeader
<1>3. CASE OpenExisting
    BY <1>3 DEF OpenExisting
<1>4. CASE DropHandle
    BY <1>4 DEF DropHandle
<1>5. ASSUME NEW size \in ResizeTo, Resize(size) PROVE TypeInv'
    BY <1>5, StoreAssumption DEF Resize, SetFileSize
<1>6. ASSUME NEW size \in Sizes, Alloc(size) PROVE TypeInv'
    BY <1>6 DEF Alloc
<1>7. CASE Extend
    BY <1>7 DEF Extend, SetFileSize
<1>8. CASE Bump
    BY <1>8, StoreAssumption DEF Bump
<1>9. CASE PersistEnd
  <2>1. req \in Nat /\ end - req \in Nat
      BY <1>9, StoreAssumption DEF PersistEnd
  <2> QED
      BY <1>9, <2>1 DEF PersistEnd, Return, Page
<1>10. CASE Reuse
  <2>1. req \in Nat
      BY StoreAssumption
  <2>2. Head(free) \in Nat /\ Tail(free) \in Seq(Nat)
      BY <1>10 DEF Reuse
  <2> QED
      BY <1>10, <2>1, <2>2 DEF Reuse, Return, Page
<1>11. ASSUME NEW r \in live, Free(r) PROVE TypeInv'
    BY <1>11 DEF Free
<1>12. CASE UNCHANGED vars
    BY <1>12 DEF vars
<1> QED
    BY <1>1, <1>2, <1>3, <1>4, <1>5, <1>6, <1>7, <1>8, <1>9, <1>10, <1>11, <1>12
    DEF Next, Close, Crash

\* The variables keep their types; in particular no end and no page reference
\* ever becomes negative, which in the code would be a wrapped unsigned.
THEOREM TypeCorrect == Spec => []TypeOK
<1>1. TypeInv => TypeOK
    BY DEF TypeInv
<1> QED
    BY TypeInvInit, TypeInvStep, <1>1, PTL DEF Spec
-----------------------------------------------------------------------------
(* The free list *)

\* What is in the free list, and that nothing is in it twice.
Members(s) == {s[i] : i \in 1 .. Len(s)}
NoRepeats(s) == \A i, j \in 1 .. Len(s) : s[i] = s[j] => i = j

\* store_free's list_unshift adds the page to the members.
LEMMA PushMembers ==
  ASSUME NEW s \in Seq(Nat), NEW p \in Nat
  PROVE  /\ Members(<<p>> \o s) = Members(s) \cup {p}
         /\ NoRepeats(s) /\ p \notin Members(s) => NoRepeats(<<p>> \o s)
<1> DEFINE t == <<p>> \o s
<1>1. /\ t \in Seq(Nat) /\ Len(t) = Len(s) + 1 /\ t[1] = p
      /\ \A i \in 1 .. Len(s) : t[i + 1] = s[i]
      /\ \A i \in 2 .. Len(t) : i - 1 \in 1 .. Len(s) /\ t[i] = s[i - 1]
    OBVIOUS
<1> HIDE DEF t
<1>2. Members(t) = Members(s) \cup {p}
  <2>1. ASSUME NEW x \in Members(s) PROVE x \in Members(t)
    <3>1. PICK i \in 1 .. Len(s) : x = s[i]
        BY DEF Members
    <3>2. i + 1 \in 1 .. Len(t) /\ t[i + 1] = x
        BY <1>1, <3>1
    <3> QED
        BY <3>2 DEF Members
  <2>2. p \in Members(t)
      BY <1>1 DEF Members
  <2>3. ASSUME NEW x \in Members(t) PROVE x \in Members(s) \cup {p}
    <3>1. PICK i \in 1 .. Len(t) : x = t[i]
        BY DEF Members
    <3>2. CASE i = 1
        BY <1>1, <3>1, <3>2
    <3>3. CASE i # 1
      <4>1. i - 1 \in 1 .. Len(s) /\ x = s[i - 1]
          BY <1>1, <3>1, <3>3, SMTT(60)
      <4> QED
          BY <4>1 DEF Members
    <3> QED
        BY <3>2, <3>3
  <2> QED
      BY <2>1, <2>2, <2>3
<1>3. ASSUME NoRepeats(s), p \notin Members(s) PROVE NoRepeats(t)
  <2> SUFFICES ASSUME NEW i \in 1 .. Len(t), NEW j \in 1 .. Len(t), t[i] = t[j]
               PROVE  i = j
      BY DEF NoRepeats
  <2>1. ASSUME NEW k \in 2 .. Len(t) PROVE t[k] # p
    <3>1. k - 1 \in 1 .. Len(s) /\ t[k] = s[k - 1]
        BY <1>1
    <3> QED
        BY <1>3, <3>1 DEF Members
  <2>2. CASE i = 1 \/ j = 1
      BY <1>1, <2>1, <2>2
  <2>3. CASE i # 1 /\ j # 1
    <3>1. i - 1 \in 1 .. Len(s) /\ j - 1 \in 1 .. Len(s) /\ s[i - 1] = s[j - 1]
        BY <1>1, <2>3
    <3> QED
        BY <1>3, <3>1, SMTT(60) DEF NoRepeats
  <2> QED
      BY <2>2, <2>3
<1> QED
    BY <1>2, <1>3 DEF t

\* store_alloc's list_shift removes exactly the page it returns.
LEMMA PopMembers ==
  ASSUME NEW s \in Seq(Nat), s # <<>>, NoRepeats(s)
  PROVE  /\ Head(s) \in Members(s)
         /\ Members(Tail(s)) = Members(s) \ {Head(s)}
         /\ NoRepeats(Tail(s))
<1> DEFINE t == Tail(s)
<1>1. /\ t \in Seq(Nat) /\ Len(s) > 0 /\ Len(t) = Len(s) - 1 /\ Head(s) = s[1]
      /\ \A i \in 1 .. Len(t) : i + 1 \in 1 .. Len(s) /\ t[i] = s[i + 1]
      /\ \A i \in 2 .. Len(s) : i - 1 \in 1 .. Len(t) /\ t[i - 1] = s[i]
    OBVIOUS
<1> HIDE DEF t
<1>2. Head(s) \in Members(s)
    BY <1>1 DEF Members
<1>3. ASSUME NEW x \in Members(t) PROVE x \in Members(s) /\ x # Head(s)
  <2>1. PICK i \in 1 .. Len(t) : x = t[i]
      BY DEF Members
  <2>2. i + 1 \in 1 .. Len(s) /\ x = s[i + 1] /\ 1 \in 1 .. Len(s) /\ i + 1 # 1
      BY <1>1, <2>1, SMTT(60)
  <2> QED
      BY <1>1, <2>2 DEF Members, NoRepeats
<1>4. ASSUME NEW x \in Members(s), x # Head(s) PROVE x \in Members(t)
  <2>1. PICK i \in 1 .. Len(s) : x = s[i]
      BY DEF Members
  <2>2. i \in 2 .. Len(s)
      BY <1>1, <1>4, <2>1
  <2> QED
      BY <1>1, <2>1, <2>2 DEF Members
<1>5. NoRepeats(t)
  <2> SUFFICES ASSUME NEW i \in 1 .. Len(t), NEW j \in 1 .. Len(t), t[i] = t[j]
               PROVE  i = j
      BY DEF NoRepeats
  <2>1. i + 1 \in 1 .. Len(s) /\ j + 1 \in 1 .. Len(s) /\ s[i + 1] = s[j + 1]
      BY <1>1
  <2> QED
      BY <2>1 DEF NoRepeats
<1> QED
    BY <1>2, <1>3, <1>4, <1>5 DEF t
-----------------------------------------------------------------------------
(* The inductive invariant *)

\* There is no file and no handle yet, so there is nothing to go wrong.
LEMMA InvInit == Init => IInv
  BY StoreAssumption
  DEF Init, IInv, TypeOK, Phases, EndInMapping, CarvedApart, OneHolder, Asked, SizesKept,
      FreePages, Pages

\* The free list as a set of pages, before and after a step.
LEMMA FreeIsMembers ==
  /\ FreePages = Members(free)
  /\ FreePages' = Members(free')
  BY DEF FreePages, Members

\* Steps that leave the pages and the file's record of them alone.
Quiet == UNCHANGED <<hdr, free, freeRoot, live, carved>>

\* A step that moves no page and leaves the header alone has only the phases of
\* store_open and store_alloc to show.
LEMMA QuietStep ==
  ASSUME IInv, Quiet
  PROVE  /\ CarvedApart' /\ OneHolder'
         /\ (OneSize => SizesKept)'
         /\ (\A p \in FreePages \cup Pages(live) : p <= MaxEnd)'
<1>1. FreePages' = FreePages /\ Pages(live)' = Pages(live) /\ Pages(carved)' = Pages(carved)
    BY DEF Quiet, FreePages, Pages
<1>2. CarvedApart'
    BY <1>1 DEF IInv, Quiet, CarvedApart
<1>3. OneHolder'
    BY <1>1 DEF IInv, Quiet, OneHolder
<1>4. (OneSize => SizesKept)'
    BY <1>1 DEF IInv, Quiet, OneSize, SizesKept
<1> QED
    BY <1>1, <1>2, <1>3, <1>4 DEF IInv, Asked

\* The handle is gone, or starts from an empty free list.
LEMMA ForgetStep ==
  ASSUME IInv, free' = <<>>, freeRoot' = 0, UNCHANGED <<hdr, live, carved>>
  PROVE  /\ CarvedApart' /\ OneHolder'
         /\ (OneSize => SizesKept)'
         /\ (\A p \in FreePages \cup Pages(live) : p <= MaxEnd)'
<1>1. FreePages' = {} /\ Pages(live)' = Pages(live)
    BY DEF FreePages, Pages
<1>2. 0 \notin Pages(live)
  <2>1. \A c \in carved : c.page # 0
      BY StoreAssumption DEF IInv, TypeOK, CarvedApart
  <2>2. Pages(live) \subseteq Pages(carved)
      BY DEF IInv, CarvedApart
  <2> QED
      BY <2>1, <2>2 DEF Pages
<1>3. CarvedApart'
    BY <1>1 DEF IInv, CarvedApart, Pages
<1>4. OneHolder'
    BY <1>1, <1>2 DEF IInv, OneHolder
<1> QED
    BY <1>1, <1>3, <1>4 DEF IInv, OneSize, SizesKept, Asked

\* store_open, both the part that makes a new file and the part that reads one.
LEMMA OpenStep ==
  ASSUME IInv, TypeOK', CreateFile \/ WriteHeader \/ OpenExisting PROVE IInv'
<1>1. CASE CreateFile
  <2>1. Phases'
      BY <1>1, StoreAssumption DEF IInv, Phases, EndInMapping, CreateFile
  <2>2. Quiet
      BY <1>1 DEF CreateFile, Quiet
  <2>3. Asked'
      BY <1>1, <2>2, QuietStep DEF CreateFile, Asked
  <2> QED
      BY <2>1, <2>2, <2>3, QuietStep DEF IInv
<1>2. CASE WriteHeader
  <2>1. carved = {} /\ live = {} /\ free = <<>>
      BY <1>2 DEF WriteHeader, IInv, Phases, CarvedApart, Pages
  <2>2. Phases'
      BY <1>2, <2>1, StoreAssumption DEF IInv, TypeOK, Phases, EndInMapping, WriteHeader
  <2>3. live' = {} /\ free' = <<>> /\ carved' = {} /\ freeRoot' = 0
      BY <1>2, <2>1 DEF WriteHeader, IInv, Phases
  <2>4. CarvedApart' /\ OneHolder' /\ (OneSize => SizesKept)'
      BY <2>3 DEF CarvedApart, OneHolder, SizesKept, OneSize, FreePages, Pages
  <2>5. Asked'
      BY <1>2, <2>3 DEF WriteHeader, Asked, FreePages, Pages
  <2> QED
      BY <2>2, <2>4, <2>5 DEF IInv
<1>3. CASE OpenExisting
  <2>1. Phases'
      BY <1>3 DEF IInv, TypeOK, Phases, EndInMapping, OpenExisting
  <2>2. free' = <<>> /\ freeRoot' = 0 /\ UNCHANGED <<hdr, live, carved>>
      BY <1>3 DEF OpenExisting
  <2>3. Asked'
      BY <1>3, <2>2, ForgetStep DEF OpenExisting, Asked
  <2> QED
      BY <2>1, <2>2, <2>3, ForgetStep DEF IInv
<1> QED
    BY <1>1, <1>2, <1>3

\* Closing, and dying anywhere but between the file and its header.
LEMMA DropStep ==
  ASSUME IInv, TypeOK', pc # "created", pc # "closed", DropHandle PROVE IInv'
<1>1. Phases'
    BY DEF IInv, TypeOK, Phases, EndInMapping, DropHandle
<1>2. free' = <<>> /\ freeRoot' = 0 /\ UNCHANGED <<hdr, live, carved>>
    BY DEF DropHandle
<1>3. Asked'
    BY <1>2, ForgetStep DEF DropHandle, Asked
<1> QED
    BY <1>1, <1>2, <1>3, ForgetStep DEF IInv

\* Growing the file, and the two steps of store_alloc before the header.
LEMMA GrowStep ==
  ASSUME IInv, TypeOK',
         \/ \E size \in ResizeTo : Resize(size)
         \/ \E size \in Sizes : Alloc(size)
         \/ Extend \/ Bump
  PROVE  IInv'
<1>1. Quiet
    BY DEF Resize, Alloc, Extend, Bump, Quiet
<1>2. Phases' /\ Asked'
  <2>1. ASSUME NEW size \in ResizeTo, Resize(size) PROVE Phases' /\ Asked'
    <3>1. (fsize' >= fsize /\ fsize' = mapped') \/ UNCHANGED <<fsize, mapped>>
        BY <2>1, StoreAssumption DEF Resize, SetFileSize, IInv, TypeOK, Phases, EndInMapping
    <3>2. Phases'
        BY <2>1, <3>1 DEF Resize, IInv, TypeOK, Phases, EndInMapping
    <3> QED
        BY <2>1, <3>2, <1>1, QuietStep DEF Resize, Asked, IInv
  <2>2. ASSUME NEW size \in Sizes, Alloc(size) PROVE Phases' /\ Asked'
    <3>1. Phases'
        BY <2>2 DEF Alloc, IInv, TypeOK, Phases, EndInMapping
    <3> QED
        BY <2>2, <3>1, <1>1, QuietStep DEF Alloc, Asked
  <2>3. CASE Extend
    <3>1. fsize' >= fsize /\ fsize' = mapped'
        BY <2>3 DEF Extend, SetFileSize, IInv, TypeOK, Phases, EndInMapping
    <3>2. Phases'
        BY <2>3, <3>1 DEF Extend, IInv, TypeOK, Phases, EndInMapping
    <3> QED
        BY <2>3, <3>2, <1>1, QuietStep DEF Extend, Asked, IInv
  <2>4. CASE Bump
    <3>1. req \in Nat /\ end' <= mapped
        BY <2>4, StoreAssumption DEF Bump, FreeSpace, IInv, TypeOK
    <3>2. Phases'
        BY <2>4, <3>1 DEF Bump, IInv, TypeOK, Phases, EndInMapping
    <3> QED
        BY <2>4, <3>2, <1>1, QuietStep DEF Bump, Asked, IInv
  <2> QED
      BY <2>1, <2>2, <2>3, <2>4
<1> QED
    BY <1>1, <1>2, QuietStep DEF IInv

\* The extent PersistEnd cuts starts where the file's record ended.
LEMMA CutFresh ==
  ASSUME IInv, pc = "bumped"
  PROVE  LET new == Page(end - req, req)
         IN  /\ end - req = hdr
             /\ new.page = hdr /\ new.size = req
             /\ req \in Nat /\ req > 0 /\ hdr >= HeaderSize /\ hdr \in Nat
             /\ hdr \notin Pages(carved)
             /\ \A c \in carved : Disjoint(c, new) /\ Disjoint(new, c)
<1>1. /\ end = hdr + req /\ hdr \in Nat /\ req \in Nat /\ req > 0
      /\ hdr >= HeaderSize
    BY StoreAssumption DEF IInv, TypeOK, Phases, EndInMapping
<1>2. \A c \in carved : c.page < hdr /\ c.page + c.size <= hdr
    BY <1>1 DEF IInv, TypeOK, CarvedApart
<1> QED
    BY <1>1, <1>2 DEF Page, Pages, Disjoint

\* store_alloc of a page behind the end: the new extent meets no older one.
LEMMA PersistStep ==
  ASSUME IInv, TypeOK', PersistEnd PROVE IInv'
<1> DEFINE new == Page(end - req, req)
<1>1. /\ end - req = hdr /\ new.page = hdr /\ new.size = req
      /\ req \in Nat /\ req > 0 /\ hdr >= HeaderSize /\ hdr \in Nat
      /\ hdr \notin Pages(carved)
      /\ \A c \in carved : Disjoint(c, new) /\ Disjoint(new, c)
    BY CutFresh DEF PersistEnd
<1>2. /\ carved' = carved \cup {new} /\ hdr' = hdr + req /\ end' = hdr'
      /\ free' = free /\ pc' = "ready" /\ new \in carved'
    BY <1>1 DEF PersistEnd, Return, IInv, Phases
<1> HIDE DEF new
<1>3. /\ FreePages' = FreePages
      /\ Pages(carved)' = Pages(carved) \cup {hdr}
    BY <1>1, <1>2 DEF FreePages, Pages
<1>4. \/ caller = "store_open" /\ freeRoot' = hdr /\ live' = live
      \/ caller = "client" /\ freeRoot' = freeRoot /\ live' = live \cup {new}
    BY <1>1 DEF PersistEnd, Return, IInv, TypeOK, new
<1>5. \/ caller = "store_open" /\ Pages(live)' = Pages(live)
      \/ caller = "client" /\ Pages(live)' = Pages(live) \cup {hdr}
    BY <1>1, <1>4 DEF Pages
<1>6. Phases'
  <2>1. /\ fsize > 0 /\ end <= mapped /\ mapped = fsize
        /\ UNCHANGED <<fsize, mapped, end>> /\ fsize \in Nat
      BY DEF PersistEnd, IInv, TypeOK, Phases, EndInMapping
  <2> QED
      BY <2>1, <1>1, <1>2, StoreAssumption DEF Phases, EndInMapping
<1>7. CarvedApart'
  <2>1. \A a, b \in carved' : a # b => Disjoint(a, b)
      BY <1>1, <1>2 DEF IInv, CarvedApart
  <2>2. \A c \in carved' : HeaderSize <= c.page /\ c.page + c.size <= hdr' /\ c.size > 0
    <3>1. ASSUME NEW c \in carved PROVE c.page + c.size <= hdr'
        BY <1>1, <1>2 DEF IInv, TypeOK, CarvedApart
    <3> QED
        BY <3>1, <1>1, <1>2 DEF IInv, CarvedApart
  <2>3. /\ (FreePages \cup Pages(live) \subseteq Pages(carved))'
        /\ (freeRoot \in Pages(carved) \cup {0})'
      BY <1>3, <1>4, <1>5 DEF IInv, CarvedApart
  <2> QED
      BY <2>1, <2>2, <2>3 DEF CarvedApart
<1>8. OneHolder'
  <2>1. \A i, j \in 1 .. Len(free') : free'[i] = free'[j] => i = j
      BY <1>2 DEF IInv, OneHolder
  <2>2. hdr \notin FreePages \cup Pages(live) /\ hdr # freeRoot
      BY <1>1, StoreAssumption DEF IInv, CarvedApart
  <2>3. /\ (FreePages \cap Pages(live) = {})'
        /\ (freeRoot \notin FreePages \cup Pages(live))'
      BY <1>3, <1>4, <1>5, <2>2 DEF IInv, OneHolder
  <2>4. \A a, b \in live' : a.page = b.page => a = b
    <3>1. \A a \in live : a.page # hdr
        BY <2>2 DEF Pages
    <3> QED
        BY <3>1, <1>1, <1>4 DEF IInv, OneHolder
  <2> QED
      BY <2>1, <2>3, <2>4 DEF OneHolder
<1>9. Asked'
  <2>1. caller = "client" => hdr <= MaxEnd
      BY <1>1, StoreAssumption DEF PersistEnd, IInv, TypeOK, Asked
  <2> QED
      BY <2>1, <1>2, <1>3, <1>5 DEF IInv, Asked
<1>10. (OneSize => SizesKept)'
  <2> SUFFICES ASSUME OneSize PROVE SizesKept'
      BY DEF OneSize
  <2>1. caller = "client" => req \in Sizes
      BY DEF PersistEnd, IInv, Asked
  <2> QED
      BY <2>1, <1>1, <1>2, <1>3, <1>4 DEF IInv, SizesKept
<1> QED
    BY <1>6, <1>7, <1>8, <1>9, <1>10 DEF IInv

\* store_alloc of a freed page: it leaves the free list for its one new holder.
LEMMA ReuseStep ==
  ASSUME IInv, TypeOK', Reuse PROVE IInv'
<1> DEFINE p == Head(free)
<1>1. /\ free \in Seq(Nat) /\ free # <<>> /\ free' = Tail(free)
      /\ NoRepeats(free) /\ caller = "client"
      /\ pc = "alloc" /\ pc' = "ready"
      /\ UNCHANGED <<fsize, hdr, mapped, end, req, caller, carved>>
    BY DEF Reuse, Return, IInv, TypeOK, Phases, OneHolder, NoRepeats
<1>2. /\ p \in FreePages /\ FreePages' = FreePages \ {p} /\ NoRepeats(free')
    BY <1>1, PopMembers, FreeIsMembers
<1>3. live' = live \cup {Page(p, req)} /\ freeRoot' = freeRoot
    BY <1>1 DEF Reuse, Return
<1> HIDE DEF p
<1>4. /\ Pages(live)' = Pages(live) \cup {p}
      /\ Pages(carved)' = Pages(carved)
  <2>1. Page(p, req).page = p
      BY DEF Page
  <2> QED
      BY <2>1, <1>1, <1>3 DEF Pages
<1>5. Phases'
    BY <1>1, <1>3 DEF IInv, Phases, EndInMapping
<1>6. CarvedApart'
    BY <1>1, <1>2, <1>3, <1>4 DEF IInv, CarvedApart
<1>7. OneHolder'
  <2>1. \A a \in live : a.page # p
      BY <1>2 DEF IInv, OneHolder, Pages
  <2>2. \A a, b \in live' : a.page = b.page => a = b
      BY <2>1, <1>3 DEF IInv, OneHolder, Page
  <2> QED
      BY <2>2, <1>2, <1>3, <1>4 DEF IInv, OneHolder, NoRepeats
<1>8. Asked'
    BY <1>1, <1>2, <1>4 DEF IInv, Asked
<1>9. (OneSize => SizesKept)'
  <2> SUFFICES ASSUME OneSize PROVE SizesKept'
      BY DEF OneSize
  <2>1. PICK size \in Sizes : Page(p, size) \in carved
      BY <1>2 DEF IInv, SizesKept
  <2>2. req \in Sizes /\ req = size
      BY <1>1 DEF IInv, Asked, OneSize
  <2>3. Page(p, req) \in carved /\ Page(p, req).size \in Sizes
      BY <2>1, <2>2 DEF Page
  <2>4. live \subseteq carved /\ \A r \in live : r.size \in Sizes
      BY DEF IInv, SizesKept
  <2>5. \A q \in FreePages' : \E sz \in Sizes : Page(q, sz) \in carved
      BY <1>2 DEF IInv, SizesKept
  <2> QED
      BY <2>3, <2>4, <2>5, <1>1, <1>3 DEF SizesKept
<1> QED
    BY <1>5, <1>6, <1>7, <1>8, <1>9 DEF IInv

\* store_free by the holder: the page changes hands, and no other holder has it.
LEMMA FreeStep ==
  ASSUME IInv, TypeOK', NEW r \in live, Free(r) PROVE IInv'
<1> DEFINE p == r.page
<1>1. /\ free \in Seq(Nat) /\ p \in Nat /\ free' = <<p>> \o free
      /\ NoRepeats(free) /\ pc = "ready" /\ live' = live \ {r}
      /\ UNCHANGED <<fsize, hdr, pc, mapped, end, freeRoot, req, caller, carved>>
    BY DEF Free, IInv, TypeOK, OneHolder, NoRepeats
<1>2. p \in Pages(live) /\ p \notin FreePages
    BY DEF Pages, IInv, OneHolder
<1> HIDE DEF p
<1>3. FreePages' = FreePages \cup {p} /\ NoRepeats(free')
    BY <1>1, <1>2, PushMembers, FreeIsMembers
<1>4. /\ Pages(live)' = Pages(live) \ {p}
      /\ Pages(carved)' = Pages(carved)
  <2>1. \A a \in live : a.page = p => a = r
      BY DEF IInv, OneHolder, p
  <2> QED
      BY <2>1, <1>1 DEF Pages, p
<1>5. Phases'
    BY <1>1 DEF IInv, Phases, EndInMapping
<1>6. CarvedApart'
    BY <1>1, <1>2, <1>3, <1>4 DEF IInv, CarvedApart
<1>7. OneHolder'
    BY <1>1, <1>2, <1>3, <1>4 DEF IInv, OneHolder, NoRepeats
<1>8. Asked'
    BY <1>1, <1>2, <1>3, <1>4 DEF IInv, Asked
<1>9. (OneSize => SizesKept)'
  <2> SUFFICES ASSUME OneSize PROVE SizesKept'
      BY DEF OneSize
  <2>1. r = Page(p, r.size) /\ r \in carved /\ r.size \in Sizes
      BY DEF IInv, TypeOK, SizesKept, Page, p
  <2> QED
      BY <2>1, <1>1, <1>3 DEF IInv, SizesKept
<1> QED
    BY <1>5, <1>6, <1>7, <1>8, <1>9 DEF IInv

\* Every step of the store keeps the inductive invariant.
LEMMA InvStep ==
  ASSUME TornCreate = FALSE, IInv, [Next]_vars PROVE IInv'
<1>1. TypeOK'
  <2>1. TypeInv
      BY StoreAssumption DEF IInv, TypeOK, Phases, TypeInv
  <2> QED
      BY <2>1, TypeInvStep DEF TypeInv
<1>2. CASE CreateFile \/ WriteHeader \/ OpenExisting
    BY <1>1, <1>2, OpenStep
<1>3. CASE Close \/ Crash
    BY <1>1, <1>3, DropStep DEF Close, Crash
<1>4. CASE \/ \E size \in ResizeTo : Resize(size)
           \/ \E size \in Sizes : Alloc(size)
           \/ Extend \/ Bump
    BY <1>1, <1>4, GrowStep
<1>5. CASE PersistEnd
    BY <1>1, <1>5, PersistStep
<1>6. CASE Reuse
    BY <1>1, <1>6, ReuseStep
<1>7. CASE \E r \in live : Free(r)
    BY <1>1, <1>7, FreeStep
<1>8. CASE UNCHANGED vars
  <2>1. Quiet /\ UNCHANGED <<fsize, pc, mapped, end, req, caller, given>>
      BY <1>8 DEF vars, Quiet
  <2>2. Phases'
      BY <2>1 DEF IInv, Phases, EndInMapping, Quiet
  <2>3. Asked'
      BY <2>1, QuietStep DEF IInv, Asked
  <2> QED
      BY <1>1, <2>1, <2>2, <2>3, QuietStep DEF IInv
<1> QED
    BY <1>2, <1>3, <1>4, <1>5, <1>6, <1>7, <1>8 DEF Next

\* What store_alloc relies on holds for all sizes and bounds, provided no
\* process dies between creating a file and writing its header.
THEOREM Inductive == ASSUME TornCreate = FALSE PROVE Spec => []IInv
<1>1. IInv /\ [Next]_vars => IInv'
    BY InvStep
<1> QED
    BY InvInit, <1>1, PTL DEF Spec

\* No page is handed out to two holders, through any sequence of allocations,
\* releases, reopenings and kills, even with pages of different sizes.
THEOREM OneHolderHolds == ASSUME TornCreate = FALSE PROVE Spec => []OneHolder
<1>1. IInv => OneHolder
    BY DEF IInv
<1> QED
    BY Inductive, <1>1, PTL

\* store_alloc's unsigned subtraction never wraps, whatever sizes are asked for.
THEOREM EndInMappingHolds == ASSUME TornCreate = FALSE PROVE Spec => []EndInMapping
<1>1. IInv => EndInMapping
    BY DEF IInv, Phases
<1> QED
    BY Inductive, <1>1, PTL

\* A page that ends at or before the recorded end is never cut again.
THEOREM RecordedEndHolds ==
  ASSUME TornCreate = FALSE, OneSize PROVE Spec => []RecordedEnd
<1>1. IInv => RecordedEnd
    BY DEF IInv, CarvedApart, SizesKept, RecordedEnd
<1> QED
    BY Inductive, <1>1, PTL

\* With pages of one size the clients' pages share no byte and lie between the
\* header and the end of the file.  Run store_mixed_sizes shows that the
\* assumption on the sizes is needed.
THEOREM NoOverlapHolds ==
  ASSUME TornCreate = FALSE, OneSize PROVE Spec => []NoOverlap
<1>1. IInv => NoOverlap
  <2> SUFFICES ASSUME IInv PROVE NoOverlap
      OBVIOUS
  <2>1. live \subseteq carved
      BY DEF IInv, SizesKept
  <2>2. \A a, b \in live : a # b => Disjoint(a, b)
      BY <2>1 DEF IInv, CarvedApart
  <2>3. live # {} => fsize > 0 /\ pc # "created"
      BY <2>1 DEF IInv, TypeOK, Phases
  <2>4. \A r \in live : HeaderSize <= r.page /\ r.page + r.size <= fsize
    <3> SUFFICES ASSUME NEW r \in live
                 PROVE  HeaderSize <= r.page /\ r.page + r.size <= fsize
        OBVIOUS
    <3>1. hdr <= fsize /\ hdr \in Nat /\ fsize \in Nat
        BY <2>3 DEF IInv, TypeOK, Phases
    <3>2. HeaderSize <= r.page /\ r.page + r.size <= hdr /\ r \in [page : Nat, size : Nat]
        BY <2>1 DEF IInv, TypeOK, CarvedApart
    <3> QED
        BY <3>1, <3>2
  <2> QED
      BY <2>2, <2>4 DEF NoOverlap
<1> QED
    BY Inductive, <1>1, PTL
-----------------------------------------------------------------------------
(* Steps *)

\* As long as the handle stays open, every step keeps each page with a holder:
\* the clients or the free list.
THEOREM NoLeakHolds == ASSUME TornCreate = FALSE PROVE Spec => NoLeak
<1> DEFINE Circulating == Pages(live) \cup FreePages
<1>1. ASSUME IInv, [Next]_vars, pc' # "closed"
      PROVE  Circulating \subseteq Circulating'
  <2>1. CASE UNCHANGED <<live, free>>
      BY <2>1 DEF Pages, FreePages
  <2>2. CASE OpenExisting
      BY <1>1, <2>2 DEF OpenExisting, IInv, Phases, Pages, FreePages
  <2>3. CASE PersistEnd
    <3>1. live \subseteq live' /\ free' = free
        BY <2>3 DEF PersistEnd, Return
    <3> QED
        BY <3>1 DEF Pages, FreePages
  <2>4. CASE Reuse
    <3>1. /\ free \in Seq(Nat) /\ free # <<>> /\ NoRepeats(free)
          /\ free' = Tail(free)
          /\ live' = live \cup {Page(Head(free), req)}
        BY <1>1, <2>4 DEF Reuse, Return, IInv, TypeOK, Phases, OneHolder, NoRepeats
    <3>2. FreePages' = FreePages \ {Head(free)}
        BY <3>1, PopMembers, FreeIsMembers
    <3>3. Page(Head(free), req).page = Head(free)
        BY DEF Page
    <3>4. Pages(live)' = Pages(live) \cup {Head(free)}
        BY <3>1, <3>3 DEF Pages
    <3> QED
        BY <3>2, <3>4
  <2>5. ASSUME NEW r \in live, Free(r) PROVE Circulating \subseteq Circulating'
    <3>1. free \in Seq(Nat) /\ r.page \in Nat
        BY <1>1 DEF IInv, TypeOK
    <3>2. free' = <<r.page>> \o free /\ live' = live \ {r}
        BY <2>5 DEF Free
    <3>3. FreePages' = FreePages \cup {r.page}
        BY <3>1, <3>2, PushMembers, FreeIsMembers
    <3>4. Pages(live) \subseteq Pages(live)' \cup {r.page}
        BY <3>2 DEF Pages
    <3> QED
        BY <3>3, <3>4
  <2> QED
      BY <1>1, <2>1, <2>2, <2>3, <2>4, <2>5
      DEF Next, vars, CreateFile, WriteHeader, Close, Crash, DropHandle, Resize, Alloc,
          Extend, Bump
<1>2. IInv /\ [Next]_vars
        => [pc' # "closed" => Pages(live) \cup FreePages \subseteq (Pages(live) \cup FreePages)']_vars
    BY <1>1 DEF Circulating
<1> QED
    BY Inductive, <1>2, PTL DEF Spec, NoLeak

\* What a client gets from store_alloc: a page that was neither held nor the free
\* tree's root, and the room asked for it; and nothing else moves given.
LEMMA Handed ==
  ASSUME IInv, IInv', NEW p, Return(p), caller = "client",
         \/ PersistEnd /\ p = end - req
         \/ Reuse /\ p = Head(free)
  PROVE  /\ p \in Nat /\ req \in Sizes /\ given = 0 /\ given' = p
         /\ live' = live \cup {Page(p, req)}
         /\ p \notin Pages(live) \cup {freeRoot} /\ p \notin FreePages'
<1>1. given' = p /\ live' = live \cup {Page(p, req)} /\ freeRoot' = freeRoot
    BY DEF Return
<1>2. req \in Sizes /\ given = 0
    BY DEF PersistEnd, Reuse, IInv, Asked, Phases
<1>3. p \in Pages(live)'
  <2> DEFINE new == Page(p, req)
  <2>1. new \in live' /\ new.page = p
      BY <1>1 DEF Page
  <2>2. (new).page \in {r.page : r \in live'}
      BY <2>1
  <2> HIDE DEF new
  <2> QED
      BY <2>1, <2>2 DEF Pages
<1>4. freeRoot # p /\ p \notin FreePages'
    BY <1>1, <1>3 DEF IInv, OneHolder
<1>5. CASE PersistEnd /\ p = end - req
  <2>1. p \notin Pages(carved) /\ p \in Nat
      BY <1>5, CutFresh DEF PersistEnd
  <2> QED
      BY <1>1, <1>2, <1>4, <2>1 DEF IInv, CarvedApart
<1>6. CASE Reuse /\ p = Head(free)
  <2>1. p \in FreePages /\ p \in Nat
      BY <1>6, PopMembers, FreeIsMembers DEF Reuse, IInv, TypeOK, OneHolder, NoRepeats
  <2> QED
      BY <1>1, <1>2, <1>4, <2>1 DEF IInv, OneHolder
<1> QED
    BY <1>5, <1>6

\* Every step that hands nothing out leaves given alone or clears it.
LEMMA GivenOnly ==
  ASSUME IInv, [Next]_vars
  PROVE  \/ given' \in {given, 0}
         \/ PersistEnd /\ caller = "client" /\ Return(end - req)
         \/ Reuse /\ caller = "client" /\ Return(Head(free))
<1>1. CASE PersistEnd
    BY <1>1 DEF PersistEnd, Return, IInv, TypeOK
<1>2. CASE Reuse
    BY <1>2 DEF Reuse, Return, IInv, TypeOK
<1> QED
    BY <1>1, <1>2
    DEF Next, vars, CreateFile, WriteHeader, OpenExisting, Close, Crash, DropHandle, Resize,
        Alloc, Extend, Bump, Free

\* store_alloc returns no page that is in use, with pages of any sizes.
THEOREM HandedOutOnceHolds == ASSUME TornCreate = FALSE PROVE Spec => HandedOutOnce
<1>1. ASSUME IInv, IInv', [Next]_vars, given' \notin {0, given}
      PROVE  given' \notin Pages(live) \cup {freeRoot} /\ given' \notin FreePages'
    BY <1>1, GivenOnly, Handed
<1>2. IInv /\ IInv' /\ [Next]_vars
        => [given' \notin {0, given} => /\ given' \notin Pages(live) \cup {freeRoot}
                                        /\ given' \notin FreePages']_vars
    BY <1>1
<1> QED
    BY Inductive, <1>2, PTL DEF Spec, HandedOutOnce

\* Cutting a page and handing out a free one are the abstract allocation,
\* releasing is the abstract release, and no other step concerns the clients.
THEOREM Refinement ==
  ASSUME TornCreate = FALSE, OneSize PROVE Spec => ImplementsPageAlloc
<1>1. Init => Promise!Init
    BY DEF Init, Promise!Init
<1>2. ASSUME IInv, IInv', [Next]_vars PROVE [Promise!Next]_<<live, given>>
  <2>1. CASE UNCHANGED live /\ given' \in {given, 0}
      BY <2>1 DEF Promise!Next, Promise!Ask
  <2>2. ASSUME NEW r \in live, Free(r) PROVE Promise!Next
      BY <2>2 DEF Free, Promise!Next, Promise!Free
  <2>3. ASSUME NEW p, Return(p), caller = "client",
               \/ PersistEnd /\ p = end - req
               \/ Reuse /\ p = Head(free)
        PROVE  Promise!Next
    <3> DEFINE new == [page |-> p, size |-> req]
    <3>1. /\ p \in Nat /\ req \in Sizes /\ given = 0 /\ given' = p
          /\ live' = live \cup {new} /\ p \notin Pages(live)
        BY <2>3, <1>2, Handed DEF Page
    <3>2. new \in carved' /\ live' \subseteq carved'
        BY <3>1, <1>2 DEF IInv, SizesKept
    <3>3. p >= HeaderSize
        BY <3>2, <1>2 DEF IInv, TypeOK, CarvedApart
    <3>4. p <= MaxEnd
      <4>1. new.page \in Pages(live)'
          BY <3>1 DEF Pages
      <4> QED
          BY <4>1, <1>2 DEF IInv, Asked
    <3>5. \A r \in live : r # new
        BY <3>1 DEF Pages
    <3>6. \A r \in live : Disjoint(r, new)
        BY <3>1, <3>2, <3>5, <1>2 DEF IInv, CarvedApart
    <3>7. Promise!Alloc(p, req)
        BY <3>1, <3>3, <3>6 DEF Promise!Alloc, Promise!Disjoint, Disjoint
    <3>8. p \in 0 .. MaxEnd
        BY <3>1, <3>4, StoreAssumption
    <3> QED
        BY <3>1, <3>7, <3>8 DEF Promise!Next
  <2>4. CASE PersistEnd
      BY <2>1, <2>3, <2>4, <1>2 DEF PersistEnd, Return, IInv, TypeOK
  <2>5. CASE Reuse
      BY <2>1, <2>3, <2>5, <1>2 DEF Reuse, Return, IInv, TypeOK
  <2> QED
      BY <1>2, <2>1, <2>2, <2>4, <2>5
      DEF Next, vars, CreateFile, WriteHeader, OpenExisting, Close, Crash, DropHandle, Resize,
          Alloc, Extend, Bump
<1> QED
    BY Inductive, <1>1, <1>2, PTL DEF Spec, Promise!Spec, ImplementsPageAlloc
=============================================================================
