---------------------------- MODULE GraphProofs ----------------------------
(***************************************************************************)
(* Theorems about module Graph, for every place of the first node and the  *)
(* first word and any bounds, and for clients whose freed segments fit     *)
(* (ReuseFits: the run graph_session shows what becomes of others).        *)
(***************************************************************************)
EXTENDS Graph, SequenceLemmas

\* Every segment there is: a node's, a freed one, and the one not linked yet.
Heads == (({segs[n] : n \in DOMAIN segs} \cup {free[i] : i \in DOMAIN free}) \cup {next}) \ {0}

\* The place in the node table that the running call changes.
Start == call.start - FirstNode + 1

\* The handles are those of an open database, whose end is the header's, or there are none.
Opened ==
  /\ pc \in {"ready", "written"} => "edges" \in files /\ end = hdrEnd
  /\ pc \notin {"ready", "written"} => free = <<>>
  /\ IF "edges" \in files THEN hdrEnd >= FirstWord ELSE hdrEnd = 0

\* Between the two writes of an edge operation its call is known, and at no other time.
Called ==
  IF pc = "written" THEN call \in [op : {"add", "remove"}, start : Ids, end : Ids] /\ Start \in DOMAIN segs
  ELSE call = NoCall /\ next = 0

\* A segment lies behind the free tree's page and in front of the end, and says how
\* long it is.
InFile == \A p \in Heads : p \in FirstWord .. hdrEnd - 1 /\ words[p] >= 1 /\ p + words[p] <= hdrEnd

\* No word is in two of them.
Apart == \A p, q \in Heads : p < q => p + words[p] <= q

\* No segment has two users, but for the node whose pointer is about to move.
OneUser ==
  /\ \A n, m \in DOMAIN segs : segs[n] # 0 /\ segs[n] = segs[m] => n = m
  /\ \A i, j \in DOMAIN free : free[i] # 0 /\ free[i] = free[j] => i = j
  /\ \A n \in DOMAIN segs, i \in DOMAIN free :
       segs[n] # 0 /\ segs[n] = free[i] => pc = "written" /\ n = Start
  /\ next # 0 => /\ \A n \in DOMAIN segs : segs[n] = next => n = Start
                 /\ \A i \in DOMAIN free : free[i] # next

\* The inductive invariant.
IInv == TypeOK /\ Opened /\ Called /\ InFile /\ Apart /\ OneUser

\* The type invariant's parts that the proofs need, with the constants' types.
Types ==
  /\ FirstNode \in Nat /\ FirstWord \in Nat /\ FirstWord >= 1 /\ MaxNodes \in Nat /\ MaxWords \in Nat
  /\ segs \in Seq(0 .. MaxWords) /\ free \in Seq(0 .. MaxWords)
  /\ words \in [0 .. MaxWords - 1 -> Nat]
  /\ hdrEnd \in 0 .. MaxWords /\ end \in 0 .. MaxWords /\ next \in 0 .. MaxWords

\* The types follow from the invariant.
LEMMA TypesHold == IInv => Types
  BY GraphAssumption DEF IInv, TypeOK, Types

\* Every pointer in use is the place of a word in front of the end.
LEMMA HeadsInFile ==
  ASSUME IInv, NEW p \in Heads
  PROVE  /\ p \in Nat /\ p # 0 /\ p \in 0 .. MaxWords - 1
         /\ words[p] \in Nat /\ FirstWord <= p /\ words[p] >= 1 /\ p + words[p] <= hdrEnd
<1>1. Types
    BY TypesHold
<1>2. p \in FirstWord .. hdrEnd - 1 /\ words[p] >= 1 /\ p + words[p] <= hdrEnd
    BY DEF IInv, InFile
<1> QED
    BY <1>1, <1>2 DEF Types

\* A segment that lies in a part of the file lies in a longer one.
LEMMA Behind ==
  ASSUME NEW p \in Nat, NEW k \in Nat, k >= 1, NEW a \in Nat, NEW e \in Nat, NEW f \in Nat,
         a <= p, p + k <= e, e <= f
  PROVE  p \in a .. f - 1 /\ p + k <= f
  OBVIOUS

\* There are no files at first.
LEMMA IInvInit == Init => IInv
<1> SUFFICES ASSUME Init PROVE IInv
    OBVIOUS
<1>1. TypeOK
  <2>1. call \in [op : {"add", "remove"}, start : Ids, end : Ids] \cup {NoCall}
      BY DEF Init
  <2>2. words \in [0 .. MaxWords - 1 -> Nat] /\ segs \in Seq(0 .. MaxWords) /\ free \in Seq(0 .. MaxWords)
      BY DEF Init
  <2>3. creat \in BOOLEAN
      BY DEF Init
  <2> QED
      BY <2>1, <2>2, <2>3, GraphAssumption DEF Init, TypeOK
<1>2. Heads = {}
    BY DEF Init, Heads
<1> QED
    BY <1>1, <1>2 DEF Init, IInv, Opened, Called, InFile, Apart, OneUser

\* The handles are dropped, and with them the free list and the call.
LEMMA DropStep == IInv /\ DropHandles => IInv'
<1> SUFFICES ASSUME IInv, DropHandles PROVE IInv'
    OBVIOUS
<1>1. TypeOK'
  <2>1. call' \in [op : {"add", "remove"}, start : Ids, end : Ids] \cup {NoCall}
      BY DEF DropHandles
  <2>2. (creat \in BOOLEAN)'
      BY DEF DropHandles
  <2> QED
      BY <2>1, <2>2, GraphAssumption DEF IInv, TypeOK, DropHandles
<1>2. Heads' \subseteq Heads
    BY DEF Heads, DropHandles
<1>3. InFile' /\ Apart'
    BY <1>2 DEF IInv, InFile, Apart, DropHandles
<1>4. Opened' /\ Called' /\ OneUser'
    BY DEF IInv, Opened, Called, OneUser, DropHandles
<1> QED
    BY <1>1, <1>3, <1>4 DEF IInv
-----------------------------------------------------------------------------
\* The segment at a pointer is a sequence of words of the file.
LEMMA SegmentType ==
  ASSUME IInv, NEW p \in Heads \cup {0}
  PROVE  /\ Segment(p) \in Seq(Nat)
         /\ p # 0 => /\ Len(Segment(p)) = words[p] - 1
                     /\ \A i \in 1 .. words[p] - 1 : Segment(p)[i] = words[p + i]
<1>1. CASE p = 0
    BY <1>1 DEF Segment
<1>2. CASE p # 0
  <2>1. Types /\ p \in Heads
      BY <1>2, TypesHold DEF Heads
  <2>2. p \in Nat /\ words[p] >= 1 /\ p + words[p] <= MaxWords /\ words[p] \in Nat
      BY <2>1, HeadsInFile DEF Types
  <2>3. \A i \in 1 .. words[p] - 1 : words[p + i] \in Nat
      BY <2>1, <2>2, SMTT(60) DEF Types
  <2> QED
      BY <1>2, <2>2, <2>3, SMTT(60) DEF Segment
<1> QED
    BY <1>1, <1>2

\* Where store_alloc puts a segment: it fits there, the header's end stays behind it,
\* and no other segment is touched.
LEMMA NewPlace ==
  ASSUME IInv, ReuseFits, NEW old, NEW seg \in Seq(Nat), MayWrite(seg), WriteSegment(old, seg)
  PROVE  /\ NewPage \in Nat /\ FirstWord <= NewPage /\ NewPage + Len(seg) + 1 <= hdrEnd'
         /\ hdrEnd <= hdrEnd' /\ hdrEnd' \in 0 .. MaxWords /\ end' = hdrEnd'
         /\ \A p \in Heads : p # NewPage =>
              \/ p + words[p] <= NewPage
              \/ NewPage + Len(seg) + 1 <= p
<1>1. Types /\ Len(seg) \in Nat
    BY TypesHold
<1>2. pc = "ready" /\ end = hdrEnd /\ hdrEnd >= FirstWord
    BY DEF MayWrite, IInv, Opened
<1>3. \A p \in Heads : p \in Nat /\ words[p] \in Nat /\ FirstWord <= p /\ words[p] >= 1 /\ p + words[p] <= hdrEnd
    BY HeadsInFile
<1>4. CASE free = <<>>
  <2>1. NewPage = end /\ end' = end + Len(seg) + 1 /\ hdrEnd' = end' /\ end + Len(seg) + 1 <= MaxWords
      BY <1>4 DEF NewPage, WriteSegment
  <2> QED
      BY <2>1, <1>1, <1>2, <1>3, SMTT(60) DEF Types
<1>5. CASE free # <<>>
  <2>1. /\ NewPage = free[1] /\ 1 \in DOMAIN free /\ free[1] # 0 /\ Len(seg) < words[free[1]]
        /\ end' = end /\ hdrEnd' = hdrEnd
      BY <1>5, <1>1 DEF NewPage, MayWrite, WriteSegment, Types
  <2>2. NewPage \in Heads
      BY <2>1 DEF Heads
  <2>3. \A p \in Heads : p # NewPage => p + words[p] <= NewPage \/ NewPage + words[NewPage] <= p
      BY <2>2, <1>3 DEF IInv, Apart
  <2>4. /\ NewPage \in Nat /\ words[NewPage] \in Nat /\ Len(seg) + 1 <= words[NewPage]
        /\ FirstWord <= NewPage /\ NewPage + words[NewPage] <= hdrEnd
      BY <2>1, <2>2, <1>1, <1>3
  <2>5. \A p \in Heads : p # NewPage => p + words[p] <= NewPage \/ NewPage + Len(seg) + 1 <= p
      BY <2>3, <2>4, <1>1, <1>3
  <2>6. FirstWord \in Nat /\ hdrEnd \in 0 .. MaxWords
      BY <1>1 DEF Types
  <2>7. NewPage + Len(seg) + 1 <= hdrEnd
      BY <1>1, <2>4, <2>6
  <2> QED
      BY <2>1, <2>4, <2>5, <2>6, <2>7, <1>2
<1> QED
    BY <1>4, <1>5

\* The free list after the old segment was freed.
LEMMA FreeAfter ==
  ASSUME IInv, NEW old \in 0 .. MaxWords, NEW seg, WriteSegment(old, seg)
  PROVE  /\ free' \in Seq(0 .. MaxWords)
         /\ DOMAIN free' = 1 .. Len(free') /\ Len(free') \in Nat
         /\ \A i \in DOMAIN free' : IF i = 1 THEN free'[i] = old
                                    ELSE i \in DOMAIN free /\ free'[i] = free[i]
<1>1. free \in Seq(0 .. MaxWords)
    BY DEF IInv, TypeOK
<1>2. CASE free = <<>>
    BY <1>2 DEF WriteSegment
<1>3. CASE free # <<>>
    BY <1>1, <1>3, SMTT(60) DEF WriteSegment
<1> QED
    BY <1>2, <1>3

\* What WriteSegment writes: the new segment, and nothing into another one.
LEMMA Written ==
  ASSUME IInv, ReuseFits, NEW old \in 0 .. MaxWords, NEW seg \in Seq(Nat), MayWrite(seg), WriteSegment(old, seg)
  PROVE  /\ words' \in [0 .. MaxWords - 1 -> Nat]
         /\ words'[NewPage] = Len(seg) + 1
         /\ \A i \in 1 .. Len(seg) : words'[NewPage + i] = seg[i]
         /\ \A p \in Heads : p # NewPage =>
              \A w \in p .. p + words[p] - 1 : words'[w] = words[w]
<1>1. Types /\ Len(seg) \in Nat /\ DOMAIN words = 0 .. MaxWords - 1
    BY TypesHold DEF Types
<1>2. /\ NewPage \in Nat /\ FirstWord <= NewPage /\ NewPage + Len(seg) + 1 <= MaxWords
      /\ \A p \in Heads : p # NewPage =>
           \/ p + words[p] <= NewPage
           \/ NewPage + Len(seg) + 1 <= p
  <2>1. hdrEnd' \in 0 .. MaxWords /\ MaxWords \in Nat
      BY NewPlace, <1>1 DEF Types
  <2>2. /\ NewPage \in Nat /\ FirstWord <= NewPage /\ NewPage + Len(seg) + 1 <= hdrEnd'
        /\ \A p \in Heads : p # NewPage => p + words[p] <= NewPage \/ NewPage + Len(seg) + 1 <= p
      BY NewPlace
  <2> QED
      BY <2>1, <2>2, <1>1
<1>3. words' = [w \in 0 .. MaxWords - 1 |->
                 IF w = NewPage THEN Len(seg) + 1
                 ELSE IF w \in NewPage + 1 .. NewPage + Len(seg) THEN seg[w - NewPage]
                 ELSE words[w]]
    BY <1>1, Zenon DEF WriteSegment
<1>4. \A w \in NewPage + 1 .. NewPage + Len(seg) : seg[w - NewPage] \in Nat
    BY <1>1, <1>2
<1>5. words' \in [0 .. MaxWords - 1 -> Nat]
    BY <1>1, <1>2, <1>3, <1>4 DEF Types
<1>6. words'[NewPage] = Len(seg) + 1 /\ \A i \in 1 .. Len(seg) : words'[NewPage + i] = seg[i]
    BY <1>1, <1>2, <1>3 DEF Types
<1>7. ASSUME NEW p \in Heads, p # NewPage, NEW w \in p .. p + words[p] - 1
      PROVE  words'[w] = words[w]
  <2>1. p \in Nat /\ words[p] \in Nat /\ p + words[p] <= MaxWords
      BY <1>1, HeadsInFile DEF Types
  <2>2. w \in 0 .. MaxWords - 1 /\ w \in Nat
      BY <1>1, <2>1, SMTT(60) DEF Types
  <2>3. p + words[p] <= NewPage \/ NewPage + Len(seg) + 1 <= p
      BY <1>2, <1>7
  <2>4. w # NewPage /\ w \notin NewPage + 1 .. NewPage + Len(seg)
      BY <1>1, <1>2, <2>1, <2>2, <2>3
  <2> QED
      BY <1>3, <2>2, <2>4
<1> QED
    BY <1>5, <1>6, <1>7
-----------------------------------------------------------------------------
\* A new segment is in nobody's way: every pointer in use after it was written leads
\* to it or to a segment that is as it was.
LEMMA HeadsAfter ==
  ASSUME IInv, ReuseFits, NEW n \in DOMAIN segs, NEW seg \in Seq(Nat),
         MayWrite(seg), WriteSegment(segs[n], seg), segs' = segs
  PROVE  /\ next' = NewPage /\ NewPage # 0 /\ next' \in Heads'
         /\ \A m \in DOMAIN segs : segs[m] # NewPage
         /\ \A i \in DOMAIN free' : free'[i] # NewPage
         /\ Heads' \subseteq Heads \cup {next'}
<1>1. Types /\ Len(seg) \in Nat /\ segs[n] \in 0 .. MaxWords
    BY TypesHold, SMTT(60) DEF Types
<1>2. pc = "ready" /\ end = hdrEnd /\ next = 0 /\ next' = NewPage
    BY DEF MayWrite, WriteSegment, IInv, Opened, Called
<1>3. NewPage \in Nat /\ FirstWord <= NewPage
    BY NewPlace
<1>4. NewPage # 0
    BY <1>1, <1>3 DEF Types
<1>5. /\ DOMAIN free' = 1 .. Len(free') /\ Len(free') \in Nat
      /\ \A i \in DOMAIN free' : IF i = 1 THEN free'[i] = segs[n]
                                 ELSE i \in DOMAIN free /\ free'[i] = free[i]
    BY FreeAfter, <1>1
<1>6. \A m \in DOMAIN segs : segs[m] # NewPage
  <2>1. CASE free = <<>>
    <3>1. NewPage = hdrEnd
        BY <2>1, <1>2 DEF NewPage
    <3>2. \A p \in Heads : p # hdrEnd
        BY HeadsInFile, <1>1 DEF Types
    <3> QED
        BY <3>1, <3>2, <1>4 DEF Heads
  <2>2. CASE free # <<>>
    <3>1. NewPage = free[1] /\ 1 \in DOMAIN free
        BY <2>2, <1>1 DEF NewPage, Types
    <3> QED
        BY <3>1, <1>2, <1>4 DEF IInv, OneUser
  <2> QED
      BY <2>1, <2>2
<1>7. \A i \in DOMAIN free' : free'[i] # NewPage
  <2> SUFFICES ASSUME NEW i \in DOMAIN free', i # 1 PROVE free'[i] # NewPage
      BY <1>5, <1>6
  <2>1. i \in DOMAIN free /\ free'[i] = free[i]
      BY <1>5
  <2>2. free # <<>> /\ 1 \in DOMAIN free /\ NewPage = free[1]
      BY <2>1, <1>1 DEF NewPage, Types
  <2> QED
      BY <2>1, <2>2, <1>4 DEF IInv, OneUser
<1>8. Heads' \subseteq Heads \cup {next'}
    BY <1>5 DEF Heads
<1>9. next' \in Heads'
    BY <1>2, <1>4 DEF Heads
<1> QED
    BY <1>2, <1>4, <1>6, <1>7, <1>8, <1>9

\* Such a pointer leads to the segment it led to, and the new one to what was written.
LEMMA SegmentsAfter ==
  ASSUME IInv, ReuseFits, NEW n \in DOMAIN segs, NEW seg \in Seq(Nat),
         MayWrite(seg), WriteSegment(segs[n], seg), segs' = segs
  PROVE  /\ Segment(next)' = seg
         /\ \A p \in Heads \ {NewPage} : words'[p] = words[p] /\ Segment(p)' = Segment(p)
<1>1. Types /\ Len(seg) \in Nat /\ segs[n] \in 0 .. MaxWords
    BY TypesHold, SMTT(60) DEF Types
<1>2. next' = NewPage /\ NewPage # 0
    BY HeadsAfter
<1>3. /\ words' \in [0 .. MaxWords - 1 -> Nat]
      /\ words'[NewPage] = Len(seg) + 1
      /\ \A i \in 1 .. Len(seg) : words'[NewPage + i] = seg[i]
      /\ \A p \in Heads : p # NewPage =>
           \A w \in p .. p + words[p] - 1 : words'[w] = words[w]
    BY Written, <1>1
<1>4. Segment(next)' = seg
  <2>1. Segment(next)' = [i \in 1 .. words'[NewPage] - 1 |-> words'[NewPage + i]]
      BY <1>2 DEF Segment
  <2>2. words'[NewPage] - 1 = Len(seg)
      BY <1>1, <1>3
  <2>3. seg = [i \in 1 .. Len(seg) |-> seg[i]]
      OBVIOUS
  <2> QED
      BY <2>1, <2>2, <2>3, <1>3
<1>5. ASSUME NEW p \in Heads \ {NewPage}
      PROVE  words'[p] = words[p] /\ Segment(p)' = Segment(p)
  <2>1. p \in Nat /\ p # 0 /\ words[p] \in Nat /\ words[p] >= 1
      BY HeadsInFile
  <2>2. \A w \in p .. p + words[p] - 1 : words'[w] = words[w]
      BY <1>3
  <2>3. words'[p] = words[p]
      BY <2>1, <2>2
  <2>4. \A i \in 1 .. words[p] - 1 : words'[p + i] = words[p + i]
      BY <2>1, <2>2
  <2> QED
      BY <2>1, <2>3, <2>4 DEF Segment
<1> QED
    BY <1>4, <1>5

\* A number in a range.
LEMMA Between ==
  ASSUME NEW a \in Nat, NEW b \in Nat, NEW x \in Nat, a <= x, x < b
  PROVE  x \in a .. b - 1
  OBVIOUS

\* adv_edge_add and adv_edge_remove of an edge, before the pointer moves.
LEMMA WriteStep ==
  ASSUME IInv, ReuseFits, NEW n \in DOMAIN segs, NEW seg \in Seq(Nat),
         NEW op \in {"add", "remove"}, NEW id \in Ids,
         MayWrite(seg), WriteSegment(segs[n], seg), call' = Call(op, n, id), pc' = "written",
         UNCHANGED <<files, segs, creat>>
  PROVE  IInv'
<1>1. Types /\ Len(seg) \in Nat /\ segs[n] \in 0 .. MaxWords
    BY TypesHold, SMTT(60) DEF Types
<1>2. n \in 1 .. Len(segs) /\ Len(segs) \in Nat /\ Len(segs) <= MaxNodes /\ FirstNode \in Nat /\ MaxNodes \in Nat
    BY <1>1 DEF IInv, TypeOK, Types
<1>3. Called'
  <2>1. call'.start = NodeId(n) /\ call' \in [op : {"add", "remove"}, start : Ids, end : Ids]
      BY <1>2 DEF Call, Ids, NodeId
  <2>2. Start' = n
      BY <1>2, <2>1 DEF Start, NodeId
  <2> QED
      BY <2>1, <2>2 DEF Called
<1>4. Start' = n
    BY <1>2 DEF Start, NodeId, Call
<1>5. /\ NewPage \in Nat /\ FirstWord <= NewPage /\ NewPage + Len(seg) + 1 <= hdrEnd'
      /\ hdrEnd <= hdrEnd' /\ hdrEnd' \in 0 .. MaxWords /\ end' = hdrEnd'
      /\ \A p \in Heads : p # NewPage =>
           \/ p + words[p] <= NewPage
           \/ NewPage + Len(seg) + 1 <= p
    BY NewPlace
<1>6. /\ next' = NewPage /\ NewPage # 0 /\ next' \in Heads'
      /\ \A m \in DOMAIN segs : segs[m] # NewPage
      /\ \A i \in DOMAIN free' : free'[i] # NewPage
      /\ Heads' \subseteq Heads \cup {NewPage}
    BY HeadsAfter
<1>7. words'[NewPage] = Len(seg) + 1 /\ words' \in [0 .. MaxWords - 1 -> Nat]
    BY Written, <1>1
<1>8. \A p \in Heads : p # NewPage => words'[p] = words[p]
    BY SegmentsAfter
<1>9. /\ free' \in Seq(0 .. MaxWords)
      /\ \A i \in DOMAIN free' : IF i = 1 THEN free'[i] = segs[n]
                                 ELSE i \in DOMAIN free /\ free'[i] = free[i]
    BY FreeAfter, <1>1
<1>10. TypeOK'
  <2>1. creat' \in BOOLEAN
      BY DEF IInv, TypeOK
  <2>2. next' \in 0 .. MaxWords
      BY <1>1, <1>5, <1>6 DEF Types
  <2>3. call' \in [op : {"add", "remove"}, start : Ids, end : Ids] \cup {NoCall}
      BY <1>3 DEF Called
  <2>4. /\ files' \subseteq {"nodes", "edges"}
        /\ segs' \in Seq(0 .. MaxWords) /\ Len(segs') <= MaxNodes
        /\ hdrEnd' \in 0 .. MaxWords /\ end' \in 0 .. MaxWords
        /\ pc' \in {"closed", "opening", "ready", "written"}
      BY <1>5 DEF IInv, TypeOK
  <2> QED
      BY <2>1, <2>2, <2>3, <2>4, <1>7, <1>9, Zenon DEF TypeOK, NoCall, Call, NodeId, Ids
<1>11. Opened'
  <2>1. pc = "ready" /\ pc' = "written" /\ files' = files
      BY DEF MayWrite
  <2>2. "edges" \in files /\ hdrEnd >= FirstWord
      BY <2>1 DEF IInv, Opened
  <2>3. hdrEnd' >= FirstWord
      BY <1>1, <1>5, <2>2 DEF Types
  <2> QED
      BY <2>1, <2>2, <2>3, <1>5 DEF Opened
<1>12. InFile'
  <2> SUFFICES ASSUME NEW p \in Heads'
               PROVE  p \in FirstWord .. hdrEnd' - 1 /\ words'[p] >= 1 /\ p + words'[p] <= hdrEnd'
      BY DEF InFile
  <2>0. FirstWord \in Nat /\ hdrEnd \in Nat /\ hdrEnd' \in Nat /\ MaxWords \in Nat
      BY <1>1, <1>5 DEF Types
  <2>1. CASE p = NewPage
    <3>1. /\ NewPage \in Nat /\ FirstWord <= NewPage /\ NewPage < hdrEnd'
          /\ words'[NewPage] \in Nat /\ words'[NewPage] >= 1 /\ NewPage + words'[NewPage] <= hdrEnd'
        BY <2>0, <1>1, <1>5, <1>7
    <3>2. NewPage \in FirstWord .. hdrEnd' - 1
        BY <2>0, <3>1, Between, Zenon
    <3> QED
        BY <2>1, <3>1, <3>2
  <2>2. CASE p # NewPage
    <3>1. p \in Heads /\ words'[p] = words[p]
        BY <2>2, <1>6, <1>8
    <3>2. p \in Nat /\ words[p] \in Nat /\ FirstWord <= p /\ words[p] >= 1 /\ p + words[p] <= hdrEnd
        BY <3>1, HeadsInFile
    <3> QED
        BY <3>1, <3>2, <2>0, <1>5, Behind
  <2> QED
      BY <2>1, <2>2
<1>13. Apart'
  <2> SUFFICES ASSUME NEW p \in Heads', NEW q \in Heads', p < q
               PROVE  p + words'[p] <= q
      BY DEF Apart
  <2>1. \A r \in Heads : r \in Nat /\ words[r] \in Nat /\ words[r] >= 1
      BY HeadsInFile
  <2>2. CASE p = NewPage /\ q # NewPage
      BY <2>1, <2>2, <1>1, <1>5, <1>6, <1>7
  <2>3. CASE p # NewPage /\ q = NewPage
      BY <2>1, <2>3, <1>1, <1>5, <1>6, <1>8
  <2>4. CASE p # NewPage /\ q # NewPage
      BY <2>4, <1>6, <1>8 DEF IInv, Apart
  <2> QED
      BY <2>2, <2>3, <2>4, <1>5
<1>14. OneUser'
  <2>1. pc = "ready" /\ pc' = "written" /\ segs' = segs
      BY DEF MayWrite
  <2>2. \A i \in DOMAIN free' : i # 1 => i \in DOMAIN free /\ free'[i] = free[i]
      BY <1>9
  <2>3. \A i \in DOMAIN free' : i = 1 => free'[i] = segs[n]
      BY <1>9
  <2>4. /\ \A m, k \in DOMAIN segs : segs[m] # 0 /\ segs[m] = segs[k] => m = k
        /\ \A i, j \in DOMAIN free : free[i] # 0 /\ free[i] = free[j] => i = j
        /\ \A m \in DOMAIN segs, i \in DOMAIN free : segs[m] # 0 => segs[m] # free[i]
      BY <2>1 DEF IInv, OneUser
  <2>5. \A i, j \in DOMAIN free' : free'[i] # 0 /\ free'[i] = free'[j] => i = j
      BY <2>2, <2>3, <2>4
  <2>6. \A m \in DOMAIN segs, i \in DOMAIN free' : segs[m] # 0 /\ segs[m] = free'[i] => m = n
      BY <2>2, <2>3, <2>4
  <2> QED
      BY <2>1, <2>4, <2>5, <2>6, <1>4, <1>6 DEF OneUser
<1> QED
    BY <1>3, <1>10, <1>11, <1>12, <1>13, <1>14 DEF IInv
-----------------------------------------------------------------------------
\* The id that is added is a word, and a segment with an id taken out is one of words.
LEMMA AddedType ==
  ASSUME IInv, NEW n \in DOMAIN segs, NEW id \in Ids
  PROVE  Append(Segment(segs[n]), id) \in Seq(Nat)
<1>1. segs[n] \in Heads \cup {0} /\ id \in Nat
    BY GraphAssumption DEF Heads, Ids
<1> QED
    BY <1>1, SegmentType

\* edges_remove leaves a segment of ids when it takes one out.
LEMMA RemovedType ==
  ASSUME IInv, NEW n \in DOMAIN segs, NEW id, Places(segs[n], id) # {}
  PROVE  /\ Min(Places(segs[n], id)) \in Places(segs[n], id)
         /\ RemoveAt(Segment(segs[n]), Min(Places(segs[n], id))) \in Seq(Nat)
<1>1. Segment(segs[n]) \in Seq(Nat)
    BY SegmentType DEF Heads
<1>2. Places(segs[n], id) \in SUBSET Nat
    BY <1>1 DEF Places
<1>3. Min(Places(segs[n], id)) \in Places(segs[n], id)
    BY <1>2, MinIsLeast
<1>4. Min(Places(segs[n], id)) \in 1 .. Len(Segment(segs[n]))
    BY <1>1, <1>3 DEF Places
<1> QED
    BY <1>1, <1>3, <1>4, RemoveAtProperties
-----------------------------------------------------------------------------
\* adv_open's first half opens or creates the node table and touches no segment.
LEMMA OpenNodesStep == ASSUME IInv, NEW flag \in BOOLEAN, OpenNodes(flag) PROVE IInv'
<1>1. TypeOK'
  <2>1. creat' \in BOOLEAN
      BY DEF OpenNodes
  <2>2. call' \in [op : {"add", "remove"}, start : Ids, end : Ids] \cup {NoCall}
      BY DEF OpenNodes, IInv, TypeOK
  <2>3. /\ files' \subseteq {"nodes", "edges"}
        /\ segs' \in Seq(0 .. MaxWords) /\ Len(segs') <= MaxNodes
        /\ words' \in [0 .. MaxWords - 1 -> Nat]
        /\ hdrEnd' \in 0 .. MaxWords /\ end' \in 0 .. MaxWords
        /\ free' \in Seq(0 .. MaxWords)
        /\ pc' \in {"closed", "opening", "ready", "written"}
        /\ next' \in 0 .. MaxWords
      BY DEF OpenNodes, IInv, TypeOK
  <2> QED
      BY <2>1, <2>2, <2>3, Zenon DEF TypeOK, NoCall, Call, NodeId, Ids
<1>2. Opened' /\ Called' /\ OneUser'
    BY DEF OpenNodes, IInv, Opened, Called, OneUser
<1>3. InFile' /\ Apart'
    BY DEF OpenNodes, IInv, InFile, Apart, Heads
<1> QED
    BY <1>1, <1>2, <1>3 DEF IInv

\* adv_open's second half takes the end from the header and starts with no freed segment.
LEMMA OpenEdgesStep == ASSUME IInv, OpenEdges PROVE IInv'
<1>1. Types /\ free = <<>>
    BY TypesHold DEF OpenEdges, IInv, Opened
<1>2. hdrEnd' \in 0 .. MaxWords /\ hdrEnd' >= FirstWord /\ hdrEnd' >= hdrEnd
    BY <1>1, GraphAssumption DEF OpenEdges, IInv, Opened, Types
<1>3. TypeOK'
  <2>1. creat' \in BOOLEAN
      BY DEF OpenEdges
  <2>2. call' \in [op : {"add", "remove"}, start : Ids, end : Ids] \cup {NoCall}
      BY DEF OpenEdges, IInv, TypeOK
  <2>3. /\ files' \subseteq {"nodes", "edges"}
        /\ segs' \in Seq(0 .. MaxWords) /\ Len(segs') <= MaxNodes
        /\ words' \in [0 .. MaxWords - 1 -> Nat]
        /\ hdrEnd' \in 0 .. MaxWords /\ end' \in 0 .. MaxWords
        /\ free' \in Seq(0 .. MaxWords)
        /\ pc' \in {"closed", "opening", "ready", "written"}
        /\ next' \in 0 .. MaxWords
      BY <1>2 DEF OpenEdges, IInv, TypeOK
  <2> QED
      BY <2>1, <2>2, <2>3, Zenon DEF TypeOK, NoCall, Call, NodeId, Ids
<1>4. Opened' /\ Called' /\ OneUser'
    BY <1>1, <1>2 DEF OpenEdges, IInv, Opened, Called, OneUser
<1>5. Heads' = Heads /\ words' = words
    BY <1>1 DEF OpenEdges, Heads
<1>6. InFile'
  <2> SUFFICES ASSUME NEW p \in Heads
               PROVE  p \in FirstWord .. hdrEnd' - 1 /\ words[p] >= 1 /\ p + words[p] <= hdrEnd'
      BY <1>5 DEF InFile
  <2>1. p \in Nat /\ words[p] \in Nat /\ FirstWord <= p /\ words[p] >= 1 /\ p + words[p] <= hdrEnd
      BY HeadsInFile
  <2>2. FirstWord \in Nat /\ hdrEnd \in Nat /\ hdrEnd' \in Nat
      BY <1>1, <1>2 DEF Types
  <2> QED
      BY <1>2, <2>1, <2>2, Behind
<1>7. Apart'
    BY <1>5 DEF IInv, Apart
<1> QED
    BY <1>3, <1>4, <1>6, <1>7 DEF IInv

\* adv_node_add puts a node without a segment behind the others.
LEMMA AddNodeStep == ASSUME IInv, AddNode PROVE IInv'
<1>1. Types /\ segs' = Append(segs, 0)
    BY TypesHold DEF AddNode
<1>2. /\ segs' \in Seq(0 .. MaxWords) /\ DOMAIN segs' = 1 .. Len(segs) + 1 /\ Len(segs') = Len(segs) + 1
      /\ \A n \in DOMAIN segs' : IF n \in DOMAIN segs THEN segs'[n] = segs[n] ELSE segs'[n] = 0
    BY <1>1, SMTT(60) DEF Types
<1>3. TypeOK'
  <2>1. creat' \in BOOLEAN
      BY DEF AddNode, IInv, TypeOK
  <2>2. call' \in [op : {"add", "remove"}, start : Ids, end : Ids] \cup {NoCall}
      BY DEF AddNode, IInv, TypeOK
  <2>3. Len(segs') <= MaxNodes
      BY <1>1, <1>2 DEF AddNode, Types
  <2>4. /\ files' \subseteq {"nodes", "edges"}
        /\ words' \in [0 .. MaxWords - 1 -> Nat]
        /\ hdrEnd' \in 0 .. MaxWords /\ end' \in 0 .. MaxWords
        /\ free' \in Seq(0 .. MaxWords)
        /\ pc' \in {"closed", "opening", "ready", "written"}
        /\ next' \in 0 .. MaxWords
      BY DEF AddNode, IInv, TypeOK
  <2> QED
      BY <2>1, <2>2, <2>3, <2>4, <1>2, Zenon DEF TypeOK, NoCall, Call, NodeId, Ids
<1>4. Opened' /\ Called'
    BY DEF AddNode, IInv, Opened, Called
<1>5. Heads' \subseteq Heads
    BY <1>2 DEF AddNode, Heads
<1>6. InFile' /\ Apart'
    BY <1>5 DEF AddNode, IInv, InFile, Apart
<1>7. OneUser'
  <2>1. next' = 0
      BY DEF AddNode, IInv, Called
  <2> QED
      BY <1>2, <2>1 DEF AddNode, IInv, OneUser
<1> QED
    BY <1>3, <1>4, <1>6, <1>7 DEF IInv

\* edges_remove of an edge the node does not have changes nothing.
LEMMA RemoveNothingStep ==
  ASSUME IInv, NEW n \in DOMAIN segs, NEW id \in Ids, RemoveNothing(n, id)
  PROVE  IInv'
<1>1. Types /\ segs[n] \in 0 .. MaxWords /\ next' = segs[n] /\ pc = "ready" /\ pc' = "written"
    BY TypesHold, SMTT(60) DEF Types, RemoveNothing
<1>2. n \in 1 .. Len(segs) /\ Len(segs) \in Nat /\ Len(segs) <= MaxNodes /\ FirstNode \in Nat /\ MaxNodes \in Nat
    BY <1>1 DEF IInv, TypeOK, Types
<1>3. /\ call' \in [op : {"add", "remove"}, start : Ids, end : Ids]
      /\ Start' = n
  <2>1. NodeId(n) \in Ids /\ call' = Call("remove", n, id)
      BY <1>2 DEF NodeId, Ids, RemoveNothing
  <2> QED
      BY <1>2, <2>1 DEF Start, NodeId, Call
<1>4. TypeOK'
  <2>1. creat' \in BOOLEAN
      BY DEF RemoveNothing, IInv, TypeOK
  <2>2. /\ files' \subseteq {"nodes", "edges"}
        /\ segs' \in Seq(0 .. MaxWords) /\ Len(segs') <= MaxNodes
        /\ words' \in [0 .. MaxWords - 1 -> Nat]
        /\ hdrEnd' \in 0 .. MaxWords /\ end' \in 0 .. MaxWords
        /\ free' \in Seq(0 .. MaxWords)
        /\ pc' \in {"closed", "opening", "ready", "written"}
        /\ next' \in 0 .. MaxWords
      BY <1>1 DEF RemoveNothing, IInv, TypeOK
  <2> QED
      BY <2>1, <2>2, <1>3, Zenon DEF TypeOK, NoCall, Call, NodeId, Ids
<1>5. Opened' /\ Called'
    BY <1>1, <1>3 DEF RemoveNothing, IInv, Opened, Called
<1>6. Heads' \subseteq Heads
    BY <1>1 DEF RemoveNothing, Heads
<1>7. InFile' /\ Apart'
    BY <1>6 DEF RemoveNothing, IInv, InFile, Apart
<1>8. OneUser'
    BY <1>1, <1>3 DEF RemoveNothing, IInv, OneUser
<1> QED
    BY <1>4, <1>5, <1>7, <1>8 DEF IInv

\* nodes_edges_set moves one node's pointer to the segment that was just written.
LEMMA LinkStep == ASSUME IInv, Link PROVE IInv'
<1>1. /\ Types /\ Start \in DOMAIN segs /\ pc = "written" /\ pc' = "ready"
      /\ segs' = [segs EXCEPT ![Start] = next]
    BY TypesHold DEF Link, IInv, Called, Start
<1>2. /\ segs' \in Seq(0 .. MaxWords) /\ DOMAIN segs' = DOMAIN segs /\ Len(segs') = Len(segs)
      /\ segs'[Start] = next
      /\ \A n \in DOMAIN segs : n # Start => segs'[n] = segs[n]
    BY <1>1 DEF Types
<1>3. TypeOK'
  <2>1. creat' \in BOOLEAN
      BY DEF Link, IInv, TypeOK
  <2>2. call' \in [op : {"add", "remove"}, start : Ids, end : Ids] \cup {NoCall}
      BY DEF Link
  <2>4. /\ files' \subseteq {"nodes", "edges"}
        /\ Len(segs') <= MaxNodes
        /\ words' \in [0 .. MaxWords - 1 -> Nat]
        /\ hdrEnd' \in 0 .. MaxWords /\ end' \in 0 .. MaxWords
        /\ free' \in Seq(0 .. MaxWords)
        /\ pc' \in {"closed", "opening", "ready", "written"}
        /\ next' \in 0 .. MaxWords
      BY <1>1, <1>2 DEF Link, IInv, TypeOK, Types
  <2> QED
      BY <2>1, <2>2, <2>4, <1>2, Zenon DEF TypeOK, NoCall, Call, NodeId, Ids
<1>4. Opened' /\ Called'
    BY DEF Link, IInv, Opened, Called
<1>5. Heads' \subseteq Heads
    BY <1>2 DEF Link, Heads
<1>6. InFile' /\ Apart'
    BY <1>5 DEF Link, IInv, InFile, Apart
<1>7. OneUser'
  <2>1. \A i \in DOMAIN free : next # 0 => free[i] # next
      BY DEF IInv, OneUser
  <2>2. \A n \in DOMAIN segs : next # 0 /\ segs[n] = next => n = Start
      BY DEF IInv, OneUser
  <2>3. \A n \in DOMAIN segs, i \in DOMAIN free : segs[n] # 0 /\ segs[n] = free[i] => n = Start
      BY DEF IInv, OneUser
  <2>4. next' = 0 /\ free' = free
      BY DEF Link
  <2>5. \A n, m \in DOMAIN segs' : segs'[n] # 0 /\ segs'[n] = segs'[m] => n = m
      BY <1>2, <2>2 DEF IInv, OneUser
  <2>6. \A n \in DOMAIN segs', i \in DOMAIN free : segs'[n] # 0 => segs'[n] # free[i]
      BY <1>2, <2>1, <2>3
  <2> QED
      BY <2>4, <2>5, <2>6 DEF IInv, OneUser
<1> QED
    BY <1>3, <1>4, <1>6, <1>7 DEF IInv
-----------------------------------------------------------------------------
\* Every operation, and a kill between its two writes, keeps the invariant.
LEMMA IInvStep == ReuseFits /\ IInv /\ [Next]_vars => IInv'
<1> SUFFICES ASSUME ReuseFits, IInv, [Next]_vars PROVE IInv'
    OBVIOUS
<1>1. CASE \E flag \in BOOLEAN : OpenNodes(flag)
    BY <1>1, OpenNodesStep
<1>2. CASE OpenEdges
    BY <1>2, OpenEdgesStep
<1>3. CASE OpenFails \/ Close \/ Crash
    BY <1>3, DropStep DEF OpenFails, Close, Crash
<1>4. CASE AddNode
    BY <1>4, AddNodeStep
<1>5. ASSUME NEW n \in DOMAIN segs, NEW id \in Ids, AddEdge(n, id)
      PROVE  IInv'
  <2>1. Append(Segment(segs[n]), id) \in Seq(Nat)
      BY AddedType
  <2> QED
      BY <1>5, <2>1, WriteStep DEF AddEdge
<1>6. ASSUME NEW n \in DOMAIN segs, NEW id \in Ids, RemoveEdge(n, id)
      PROVE  IInv'
  <2>1. RemoveAt(Segment(segs[n]), Min(Places(segs[n], id))) \in Seq(Nat)
      BY <1>6, RemovedType DEF RemoveEdge
  <2> QED
      BY <1>6, <2>1, WriteStep DEF RemoveEdge
<1>7. ASSUME NEW n \in DOMAIN segs, NEW id \in Ids, RemoveNothing(n, id)
      PROVE  IInv'
    BY <1>7, RemoveNothingStep
<1>8. CASE Link
    BY <1>8, LinkStep
<1>9. CASE UNCHANGED vars
  <2>1. TypeOK'
      BY <1>9, Zenon DEF vars, IInv, TypeOK, NoCall, Call, NodeId, Ids
  <2>2. Opened' /\ Called' /\ OneUser'
      BY <1>9 DEF vars, IInv, Opened, Called, OneUser, Start
  <2>3. InFile' /\ Apart'
      BY <1>9 DEF vars, IInv, InFile, Apart, Heads
  <2> QED
      BY <2>1, <2>2, <2>3 DEF IInv
<1> QED
    BY <1>1, <1>2, <1>3, <1>4, <1>5, <1>6, <1>7, <1>8, <1>9 DEF Next

\* Segments in use lie apart: the nodes' segments are among them.
LEMMA IInvApart == IInv => SegmentsApart
<1> SUFFICES ASSUME IInv PROVE SegmentsApart
    OBVIOUS
<1>1. \A n \in HasSegment : segs[n] \in Heads
    BY DEF HasSegment, Heads
<1>2. FirstWord \in Nat /\ hdrEnd \in Nat
    BY TypesHold DEF Types
<1>3. ASSUME NEW n \in HasSegment PROVE Extent(n) \subseteq FirstWord .. hdrEnd - 1
  <2>1. /\ segs[n] \in Nat /\ words[segs[n]] \in Nat
        /\ FirstWord <= segs[n] /\ segs[n] + words[segs[n]] <= hdrEnd
      BY <1>1, HeadsInFile
  <2> QED
      BY <2>1, <1>2 DEF Extent
<1>4. ASSUME NEW n \in HasSegment, NEW m \in HasSegment, n # m
      PROVE  Extent(n) \cap Extent(m) = {}
  <2>1. /\ segs[n] \in Nat /\ words[segs[n]] \in Nat /\ segs[m] \in Nat /\ words[segs[m]] \in Nat
      BY <1>1, HeadsInFile
  <2>2. segs[n] # segs[m]
      BY <1>4 DEF HasSegment, IInv, OneUser
  <2>3. segs[n] < segs[m] \/ segs[m] < segs[n]
      BY <2>1, <2>2
  <2>4. segs[n] + words[segs[n]] <= segs[m] \/ segs[m] + words[segs[m]] <= segs[n]
      BY <1>1, <2>3 DEF IInv, Apart
  <2> QED
      BY <2>1, <2>4 DEF Extent
<1> QED
    BY <1>3, <1>4 DEF SegmentsApart

\* The inductive invariant holds always.
THEOREM InvariantHolds == ASSUME ReuseFits PROVE Spec => []IInv
<1>1. Init => IInv
    BY IInvInit
<1>2. IInv /\ [Next]_vars => IInv'
    BY IInvStep
<1> QED
    BY <1>1, <1>2, PTL DEF Spec

\* Nodes, words, ends and the free list keep their types: no pointer leaves the file.
THEOREM TypesAlways == ASSUME ReuseFits PROVE Spec => []TypeOK
<1>1. IInv => TypeOK
    BY DEF IInv
<1> QED
    BY <1>1, InvariantHolds, PTL

\* edges.c: no two nodes share a word of their segments, and each segment lies in the file,
\* whatever was added, removed, reused or cut off by a kill.
THEOREM SegmentsApartAlways == ASSUME ReuseFits PROVE Spec => []SegmentsApart
    BY IInvApart, InvariantHolds, PTL
-----------------------------------------------------------------------------
(* Graph implements Adjacency. *)

\* What the call makes of the number of edges between its two ids.
After(op, c) == IF op = "add" THEN c + 1 ELSE IF c = 0 THEN 0 ELSE c - 1

\* How many edges to a node a segment has.
Count(e, id) == Cardinality(Places(e, id))

\* The segment that is not linked yet has the edges the call is to leave.
Counted ==
  pc = "written" =>
    \A id \in Ids : Count(next, id) = IF id = call.end THEN After(call.op, Count(segs[Start], id))
                                      ELSE Count(segs[Start], id)

\* The refinement mapping: the node ids, and the number of edges between any two.
Nodes == {NodeId(n) : n \in DOMAIN segs}
Edges == [p \in Ids \X Ids |->
            IF p[1] < FirstNode + Len(segs) THEN Count(segs[p[1] - FirstNode + 1], p[2]) ELSE 0]

\* Writing a segment leaves the segments of all the nodes as they are.
LEMMA NodesKeepEdges ==
  ASSUME IInv, ReuseFits, NEW n \in DOMAIN segs, NEW seg \in Seq(Nat),
         MayWrite(seg), WriteSegment(segs[n], seg), segs' = segs
  PROVE  \A m \in DOMAIN segs : Segment(segs[m])' = Segment(segs[m])
<1> SUFFICES ASSUME NEW m \in DOMAIN segs PROVE Segment(segs[m])' = Segment(segs[m])
    OBVIOUS
<1>1. CASE segs[m] = 0
    BY <1>1 DEF Segment
<1>2. CASE segs[m] # 0
  <2>1. segs[m] \in Heads \ {NewPage}
      BY <1>2, HeadsAfter DEF Heads
  <2>2. \A p \in Heads \ {NewPage} : Segment(p)' = Segment(p)
      BY SegmentsAfter
  <2> QED
      BY <2>1, <2>2 DEF Segment
<1> QED
    BY <1>1, <1>2

\* The graph is the same as long as every node has the segment it had.
LEMMA SameGraph ==
  ASSUME IInv, segs' = segs, \A m \in DOMAIN segs : Segment(segs[m])' = Segment(segs[m])
  PROVE  Edges' = Edges /\ Nodes' = Nodes
<1>1. Nodes' = Nodes
    BY DEF Nodes
<1>2. \A m \in DOMAIN segs, id \in Ids : Count(segs[m], id)' = Count(segs[m], id)
    BY DEF Count, Places
<1>3. ASSUME NEW p \in Ids \X Ids, p[1] < FirstNode + Len(segs)
      PROVE  p[1] - FirstNode + 1 \in DOMAIN segs
    BY <1>3, TypesHold, SMTT(60) DEF Types, Ids
<1>4. Edges' = Edges
    BY <1>2, <1>3 DEF Edges
<1> QED
    BY <1>1, <1>4

\* adv_edge_add counts one edge more, adv_edge_remove one less.
LEMMA AddCounted ==
  ASSUME IInv, ReuseFits, NEW n \in DOMAIN segs, NEW id \in Ids, AddEdge(n, id)
  PROVE  Counted'
<1> DEFINE seg == Append(Segment(segs[n]), id)
<1>1. seg \in Seq(Nat) /\ Segment(segs[n]) \in Seq(Nat) /\ id \in Nat
    BY AddedType, SegmentType, TypesHold DEF Heads, Ids, Types
<1>2. MayWrite(seg) /\ WriteSegment(segs[n], seg) /\ segs' = segs /\ call' = Call("add", n, id)
    BY DEF AddEdge
<1> HIDE DEF seg
<1>3. Start' = n /\ call'.end = id /\ call'.op = "add"
    BY <1>2, TypesHold DEF Start, Call, NodeId, Types
<1>4. Segment(next)' = seg /\ Segment(segs[n])' = Segment(segs[n])
    BY <1>1, <1>2, SegmentsAfter, NodesKeepEdges
<1>5. \A x \in Ids : Count(next, x)' = Count(segs[n], x)' + (IF x = id THEN 1 ELSE 0)
  <2> SUFFICES ASSUME NEW x \in Ids
               PROVE  Count(next, x)' = Count(segs[n], x)' + (IF x = id THEN 1 ELSE 0)
      OBVIOUS
  <2>1. Count(next, x)' = Cardinality(Occurrences(seg, x))
      BY <1>4 DEF Count, Places, Occurrences
  <2>2. Count(segs[n], x)' = Cardinality(Occurrences(Segment(segs[n]), x))
      BY <1>4 DEF Count, Places, Occurrences
  <2> QED
      BY <1>1, <2>1, <2>2, OccurrencesAppend DEF seg
<1>6. \A x \in Ids : Count(segs[n], x)' \in Nat
  <2> SUFFICES ASSUME NEW x \in Ids PROVE Count(segs[n], x)' \in Nat
      OBVIOUS
  <2>1. Count(segs[n], x)' = Cardinality(Occurrences(Segment(segs[n]), x))
      BY <1>4 DEF Count, Places, Occurrences
  <2> QED
      BY <1>1, <2>1, OccurrencesFinite
<1> QED
    BY <1>2, <1>3, <1>5, <1>6 DEF Counted, After

\* adv_edge_remove writes a segment with one edge less.
LEMMA RemoveCounted ==
  ASSUME IInv, ReuseFits, NEW n \in DOMAIN segs, NEW id \in Ids, RemoveEdge(n, id)
  PROVE  Counted'
<1> DEFINE k == Min(Places(segs[n], id))
           seg == RemoveAt(Segment(segs[n]), k)
<1>1. seg \in Seq(Nat) /\ Segment(segs[n]) \in Seq(Nat) /\ k \in Places(segs[n], id)
    BY RemovedType, SegmentType DEF Heads, RemoveEdge
<1>2. k \in 1 .. Len(Segment(segs[n])) /\ Segment(segs[n])[k] = id
    BY <1>1 DEF Places
<1>3. MayWrite(seg) /\ WriteSegment(segs[n], seg) /\ segs' = segs /\ call' = Call("remove", n, id)
    BY DEF RemoveEdge
<1> HIDE DEF k, seg
<1>4. Start' = n /\ call'.end = id /\ call'.op = "remove"
    BY <1>3, TypesHold DEF Start, Call, NodeId, Types
<1>5. Segment(next)' = seg /\ Segment(segs[n])' = Segment(segs[n])
    BY <1>1, <1>3, SegmentsAfter, NodesKeepEdges
<1>6. ASSUME NEW x \in Ids
      PROVE  /\ Count(next, x)' = Count(segs[n], x)' - (IF x = id THEN 1 ELSE 0)
             /\ Count(segs[n], x)' \in Nat
             /\ Count(segs[n], id)' # 0
  <2>1. Count(next, x)' = Cardinality(Occurrences(seg, x))
      BY <1>5 DEF Count, Places, Occurrences
  <2>2. \A y : Count(segs[n], y)' = Cardinality(Occurrences(Segment(segs[n]), y))
      BY <1>5 DEF Count, Places, Occurrences
  <2>3. Cardinality(Occurrences(seg, x)) =
          Cardinality(Occurrences(Segment(segs[n]), x)) - (IF x = id THEN 1 ELSE 0)
      BY <1>1, <1>2, OccurrencesRemoveAt DEF seg
  <2>4. Cardinality(Occurrences(Segment(segs[n]), x)) \in Nat /\ IsFiniteSet(Occurrences(Segment(segs[n]), id))
      BY <1>1, OccurrencesFinite
  <2>5. Occurrences(Segment(segs[n]), id) # {}
      BY <1>2 DEF Occurrences
  <2>6. Cardinality(Occurrences(Segment(segs[n]), id)) # 0
      BY <2>4, <2>5, FS_EmptySet
  <2> QED
      BY <2>1, <2>2, <2>3, <2>4, <2>6
<1> QED
    BY <1>3, <1>4, <1>6 DEF Counted, After

\* adv_edge_remove without such an edge writes nothing.
LEMMA RemoveNothingCounted ==
  ASSUME IInv, NEW n \in DOMAIN segs, NEW id \in Ids, RemoveNothing(n, id)
  PROVE  Counted'
<1>1. /\ Start' = n /\ call'.end = id /\ call'.op = "remove"
      /\ next' = segs[n] /\ segs' = segs /\ words' = words
    BY TypesHold DEF RemoveNothing, Start, Call, NodeId, Types
<1>2. \A x : Count(next, x)' = Count(segs[n], x) /\ Count(segs[n], x)' = Count(segs[n], x)
    BY <1>1 DEF Count, Places, Segment
<1>3. Count(segs[n], id) = 0
    BY FS_EmptySet DEF RemoveNothing, Count
<1>4. \A x \in Ids : Count(segs[Start], x)' = Count(segs[n], x)
    BY <1>1, <1>2 DEF Count, Places, Segment
<1> QED
    BY <1>1, <1>2, <1>3, <1>4 DEF Counted, After

\* What is written until the pointer moves is what the call is to leave.
LEMMA CountedStep == ReuseFits /\ IInv /\ Counted /\ [Next]_vars => Counted'
<1> SUFFICES ASSUME ReuseFits, IInv, Counted, [Next]_vars PROVE Counted'
    OBVIOUS
<1>1. CASE pc' # "written"
    BY <1>1 DEF Counted
<1>2. ASSUME NEW n \in DOMAIN segs, NEW id \in Ids, AddEdge(n, id) \/ RemoveEdge(n, id) \/ RemoveNothing(n, id)
      PROVE  Counted'
    BY <1>2, AddCounted, RemoveCounted, RemoveNothingCounted
<1>3. CASE UNCHANGED vars
  <2>1. segs' = segs /\ words' = words /\ pc' = pc /\ call' = call /\ next' = next
      BY <1>3 DEF vars
  <2>2. \A id : Count(next, id)' = Count(next, id) /\ Count(segs[Start], id)' = Count(segs[Start], id)
      BY <2>1 DEF Count, Places, Segment, Start
  <2> QED
      BY <2>1, <2>2 DEF Counted
<1>4. ASSUME pc' = "written"
      PROVE  \/ UNCHANGED vars
             \/ \E n \in DOMAIN segs, id \in Ids :
                  AddEdge(n, id) \/ RemoveEdge(n, id) \/ RemoveNothing(n, id)
    BY <1>4 DEF Next, OpenNodes, OpenEdges, OpenFails, Close, Crash, DropHandles, AddNode, Link
<1> QED
    BY <1>1, <1>2, <1>3, <1>4
-----------------------------------------------------------------------------
\* The empty database is the empty graph.
LEMMA RefinesInit == Init => Multigraph!Init
<1> SUFFICES ASSUME Init PROVE Multigraph!Init
    OBVIOUS
<1>1. Edges = [p \in Ids \X Ids |-> 0]
    BY GraphAssumption DEF Init, Edges, Ids
<1>2. Nodes = {}
    BY DEF Init, Nodes
<1>3. call = NoCall /\ ~ (pc \in {"ready", "written"})
    BY DEF Init
<1> QED
    BY <1>1, <1>2, <1>3 DEF Multigraph!Init, Edges, Nodes, Count

\* Every step of the database is one of the graph, or none.
LEMMA RefinesStep ==
  ReuseFits /\ IInv /\ Counted /\ [Next]_vars => [Multigraph!Next]_(Multigraph!vars)
<1> SUFFICES ASSUME ReuseFits, IInv, Counted, [Next]_vars
             PROVE  [Multigraph!Next]_(Multigraph!vars)
    OBVIOUS
<1> DEFINE Up == pc \in {"ready", "written"}
<1>a. ASSUME Up' = Up, Edges' = Edges, Nodes' = Nodes, call' = call PROVE UNCHANGED Multigraph!vars
    BY <1>a, Zenon DEF Multigraph!vars, Edges, Nodes, Count
<1>b. ASSUME segs' = segs, words' = words PROVE Edges' = Edges /\ Nodes' = Nodes
  <2>1. \A m \in DOMAIN segs : Segment(segs[m])' = Segment(segs[m])
      BY <1>b DEF Segment
  <2> QED
      BY <1>b, <2>1, SameGraph
<1>1. ASSUME NEW flag \in BOOLEAN, OpenNodes(flag) PROVE UNCHANGED Multigraph!vars
  <2>1. Up' = Up /\ call' = call /\ segs' = segs /\ words' = words
      BY <1>1 DEF OpenNodes
  <2> QED
      BY <2>1, <1>a, <1>b
<1>2. CASE OpenEdges
  <2>1. ~Up /\ Up' = TRUE /\ call' = call /\ segs' = segs /\ words' = words
      BY <1>2 DEF OpenEdges
  <2>2. Multigraph!Open
      BY <2>1, <1>b, Zenon DEF Multigraph!Open, Edges, Nodes, Count
  <2> QED
      BY <2>2 DEF Multigraph!Next
<1>3. CASE OpenFails \/ Close \/ Crash
  <2>1. Up' = FALSE /\ call' = NoCall /\ segs' = segs /\ words' = words
      BY <1>3 DEF OpenFails, Close, Crash, DropHandles
  <2>2. CASE Up
    <3>1. Multigraph!Down
        BY <2>1, <2>2, <1>b, Zenon DEF Multigraph!Down, Edges, Nodes, Count
    <3> QED
        BY <3>1 DEF Multigraph!Next
  <2>3. CASE ~Up
    <3>1. call = NoCall
        BY <2>3 DEF IInv, Called
    <3>2. Up' = Up
        BY <2>1, <2>3
    <3> QED
        BY <2>1, <3>1, <3>2, <1>a, <1>b
  <2> QED
      BY <2>2, <2>3
<1>4. CASE AddNode
  <2> DEFINE x == NodeId(Len(segs) + 1)
  <2>1. /\ Types /\ segs' = Append(segs, 0) /\ Len(segs) < MaxNodes /\ Len(segs) \in Nat
        /\ DOMAIN segs = 1 .. Len(segs) /\ DOMAIN segs' = 1 .. Len(segs) + 1 /\ Len(segs') = Len(segs) + 1
        /\ segs'[Len(segs) + 1] = 0 /\ \A m \in DOMAIN segs : segs'[m] = segs[m]
        /\ words' = words
      BY <1>4, TypesHold, SMTT(60) DEF AddNode, Types
  <2>2. x \in Ids /\ x \notin Nodes
      BY <2>1 DEF Nodes, NodeId, Ids, Types
  <2>3. Nodes' = Nodes \cup {x}
    <3>1. \A m : m \in DOMAIN segs' <=> m \in DOMAIN segs \/ m = Len(segs) + 1
        BY <2>1
    <3> QED
        BY <3>1, Zenon DEF Nodes, NodeId
  <2>4. Edges' = Edges
    <3>1. \A id : Count(0, id)' = 0
        BY FS_EmptySet DEF Count, Places, Segment
    <3>2. \A m \in DOMAIN segs, id \in Ids : Count(segs[m], id)' = Count(segs[m], id)
      <4> SUFFICES ASSUME NEW m \in DOMAIN segs, NEW id \in Ids
                   PROVE  Count(segs[m], id)' = Count(segs[m], id)
          OBVIOUS
      <4>1. segs'[m] = segs[m] /\ words' = words
          BY <2>1
      <4> QED
          BY <4>1, Zenon DEF Count, Places, Segment
    <3>3. \A m \in DOMAIN segs', id \in Ids : m = Len(segs) + 1 => Count(segs[m], id)' = 0
      <4> SUFFICES ASSUME NEW m \in DOMAIN segs', NEW id \in Ids, segs'[m] = 0
                   PROVE  Count(segs[m], id)' = 0
          BY <2>1
      <4>1. Count(segs[m], id)' = Count(0, id)'
          BY Zenon DEF Count, Places, Segment
      <4> QED
          BY <3>1, <4>1
    <3>4. ASSUME NEW p \in Ids \X Ids
          PROVE  (IF p[1] < FirstNode + Len(segs) THEN Count(segs[p[1] - FirstNode + 1], p[2]) ELSE 0)'
                 = IF p[1] < FirstNode + Len(segs) THEN Count(segs[p[1] - FirstNode + 1], p[2]) ELSE 0
      <4> DEFINE m == p[1] - FirstNode + 1
      <4>1. /\ p[1] < FirstNode + Len(segs) => m \in DOMAIN segs
            /\ p[1] < FirstNode + Len(segs') /\ ~ (p[1] < FirstNode + Len(segs)) => m = Len(segs) + 1 /\ m \in DOMAIN segs'
            /\ p[1] < FirstNode + Len(segs) => p[1] < FirstNode + Len(segs')
          BY <2>1, SMTT(60) DEF Ids, Types
      <4> HIDE DEF m
      <4>2. CASE p[1] < FirstNode + Len(segs)
          BY <4>1, <4>2, <3>2 DEF m
      <4>3. CASE p[1] < FirstNode + Len(segs') /\ ~ (p[1] < FirstNode + Len(segs))
          BY <4>1, <4>3, <3>3 DEF m
      <4> QED
          BY <4>1, <4>2, <4>3
    <3> QED
        BY <3>4, Zenon DEF Edges
  <2>5. Up /\ Up' = Up /\ call = NoCall /\ call' = call
      BY <1>4 DEF AddNode, IInv, Called
  <2>6. Multigraph!AddNode(x)
      BY <2>2, <2>3, <2>4, <2>5, Zenon DEF Multigraph!AddNode, Edges, Nodes, Count
  <2> QED
      BY <2>2, <2>6 DEF Multigraph!Next
<1>5. ASSUME NEW n \in DOMAIN segs, NEW id \in Ids, NEW op \in {"add", "remove"},
             Up, Up' = Up, call = NoCall, call' = Call(op, n, id), Edges' = Edges, Nodes' = Nodes
      PROVE  Multigraph!Next
  <2>1. Call(op, n, id) \in [op : {"add", "remove"}, start : Ids, end : Ids] /\ Call(op, n, id).start \in Nodes
    <3>1. n \in 1 .. Len(segs) /\ Len(segs) \in Nat /\ Len(segs) <= MaxNodes /\ FirstNode \in Nat /\ MaxNodes \in Nat
        BY TypesHold, SMTT(60) DEF Types, IInv, TypeOK
    <3>2. NodeId(n) \in Ids /\ NodeId(n) \in Nodes
        BY <3>1 DEF NodeId, Ids, Nodes
    <3> QED
        BY <3>2 DEF Call
  <2>2. Multigraph!Begin(Call(op, n, id))
      BY <1>5, <2>1, Zenon DEF Multigraph!Begin, Edges, Nodes, Count
  <2> QED
      BY <2>1, <2>2, Zenon DEF Multigraph!Next, Multigraph!Calls
<1>6. ASSUME NEW n \in DOMAIN segs, NEW id \in Ids, AddEdge(n, id) \/ RemoveEdge(n, id)
      PROVE  Multigraph!Next
  <2>1. \E seg \in Seq(Nat) : MayWrite(seg) /\ WriteSegment(segs[n], seg)
      BY <1>6, AddedType, RemovedType DEF AddEdge, RemoveEdge
  <2>2. segs' = segs /\ pc = "ready" /\ Up' = Up /\ Up /\ call = NoCall
      BY <1>6, <2>1 DEF AddEdge, RemoveEdge, MayWrite, IInv, Called
  <2>3. Edges' = Edges /\ Nodes' = Nodes
      BY <2>1, <2>2, NodesKeepEdges, SameGraph
  <2>4. call' = Call("add", n, id) \/ call' = Call("remove", n, id)
      BY <1>6 DEF AddEdge, RemoveEdge
  <2> QED
      BY <2>2, <2>3, <2>4, <1>5
<1>7. ASSUME NEW n \in DOMAIN segs, NEW id \in Ids, RemoveNothing(n, id)
      PROVE  Multigraph!Next
  <2>1. /\ segs' = segs /\ words' = words /\ pc = "ready" /\ Up' = Up /\ Up /\ call = NoCall
        /\ call' = Call("remove", n, id)
      BY <1>7 DEF RemoveNothing, IInv, Called
  <2> QED
      BY <2>1, <1>b, <1>5
<1>8. CASE Link
  <2>1. /\ Types /\ Start \in DOMAIN segs /\ pc = "written" /\ pc' = "ready"
        /\ segs' = [segs EXCEPT ![Start] = next] /\ words' = words /\ call' = NoCall
        /\ call \in [op : {"add", "remove"}, start : Ids, end : Ids]
      BY <1>8, TypesHold DEF Link, IInv, Called, Start
  <2>2. /\ DOMAIN segs' = DOMAIN segs /\ Len(segs') = Len(segs) /\ DOMAIN segs = 1 .. Len(segs) /\ Len(segs) \in Nat
        /\ segs'[Start] = next /\ \A m \in DOMAIN segs : m # Start => segs'[m] = segs[m]
      BY <2>1 DEF Types
  <2>3. Nodes' = Nodes
      BY <2>2 DEF Nodes
  <2>4. Up /\ Up' = Up /\ call # NoCall
      BY <2>1 DEF NoCall, Call
  <2>5. Edges' = [Edges EXCEPT ![<<call.start, call.end>>] =
                    IF call.op = "add" THEN @ + 1 ELSE IF @ = 0 THEN 0 ELSE @ - 1]
    <3>1. \A n \in DOMAIN segs : \A id : Count(segs[n], id)' = IF n = Start THEN Count(next, id) ELSE Count(segs[n], id)
      <4> SUFFICES ASSUME NEW n \in DOMAIN segs, NEW id
                   PROVE  Count(segs[n], id)' = IF n = Start THEN Count(next, id) ELSE Count(segs[n], id)
          OBVIOUS
      <4>1. segs'[n] = IF n = Start THEN next ELSE segs[n]
          BY <2>2
      <4> QED
          BY <2>1, <4>1, Zenon DEF Count, Places, Segment
    <3>2. \A id \in Ids : Count(next, id) = IF id = call.end THEN After(call.op, Count(segs[Start], id))
                                            ELSE Count(segs[Start], id)
        BY <2>1 DEF Counted
    <3> DEFINE c == call.start
               d == call.end
               o == call.op
               W == [Edges EXCEPT ![<<c, d>>] = IF o = "add" THEN @ + 1 ELSE IF @ = 0 THEN 0 ELSE @ - 1]
    <3>3. c \in Ids /\ d \in Ids /\ Start = c - FirstNode + 1
        BY <2>1 DEF Start
    <3> HIDE DEF c, d, o
    <3>4. DOMAIN Edges = Ids \X Ids
        BY DEF Edges
    <3>5. W = [p \in Ids \X Ids |-> IF p = <<c, d>> THEN After(o, Edges[p]) ELSE Edges[p]]
        BY <3>4, Zenon DEF After
    <3>6. ASSUME NEW p \in Ids \X Ids
          PROVE  (IF p[1] < FirstNode + Len(segs) THEN Count(segs[p[1] - FirstNode + 1], p[2]) ELSE 0)'
                 = IF p = <<c, d>> THEN After(o, Edges[p]) ELSE Edges[p]
      <4> DEFINE m == p[1] - FirstNode + 1
      <4>1. /\ p[1] < FirstNode + Len(segs) => m \in DOMAIN segs
            /\ p[1] = c => m = Start /\ p[1] < FirstNode + Len(segs)
            /\ m = Start => p[1] = c
            /\ p[1] \in Ids /\ p[2] \in Ids
        <5>1. FirstNode \in Nat /\ \A x \in Ids : x \in Nat /\ FirstNode <= x
            BY <2>1, SMTT(60) DEF Ids, Types
        <5>2. p[1] \in Ids /\ p[2] \in Ids /\ c \in Ids
            BY <3>3
        <5>3. p[1] \in Nat /\ c \in Nat /\ FirstNode <= p[1]
            BY <5>1, <5>2
        <5>4. Start \in 1 .. Len(segs)
            BY <2>1, <2>2
        <5> QED
            BY <2>2, <3>3, <5>1, <5>2, <5>3, <5>4
      <4>2. p = <<c, d>> <=> p[1] = c /\ p[2] = d
          OBVIOUS
      <4>3. Edges[p] = IF p[1] < FirstNode + Len(segs) THEN Count(segs[m], p[2]) ELSE 0
          BY DEF Edges
      <4> HIDE DEF m
      <4>4. CASE m = Start
        <5>1. Count(next, p[2]) = IF p[2] = d THEN After(o, Count(segs[m], p[2])) ELSE Count(segs[m], p[2])
            BY <4>1, <4>4, <3>2 DEF d, o
        <5> QED
            BY <2>2, <4>1, <4>2, <4>3, <4>4, <5>1, <3>1 DEF m
      <4>5. CASE m # Start
          BY <2>2, <4>1, <4>2, <4>3, <4>5, <3>1 DEF m
      <4> QED
          BY <4>4, <4>5
    <3>7. Edges' = [p \in Ids \X Ids |-> IF p = <<c, d>> THEN After(o, Edges[p]) ELSE Edges[p]]
        BY <3>6, Zenon DEF Edges
    <3> QED
        BY <3>5, <3>7, Zenon DEF c, d, o
  <2>6. Multigraph!Return
      BY <2>1, <2>3, <2>4, <2>5, Zenon DEF Multigraph!Return, Edges, Nodes, Count
  <2> QED
      BY <2>6 DEF Multigraph!Next
<1>9. CASE UNCHANGED vars
  <2>1. Up' = Up /\ call' = call /\ segs' = segs /\ words' = words
      BY <1>9 DEF vars
  <2> QED
      BY <2>1, <1>a, <1>b
<1> QED
    BY <1>1, <1>2, <1>3, <1>4, <1>6, <1>7, <1>8, <1>9 DEF Next

\* What adv.h offers: an edge is added or removed once and as a whole when the pointer in
\* the node table moves, also when a process dies on the way, and no call changes the
\* edges of another node.
THEOREM GraphImplementsAdjacency == ASSUME ReuseFits PROVE Spec => ImplementsAdjacency
<1>1. Init => IInv /\ Counted
    BY IInvInit DEF Init, Counted
<1>2. IInv /\ Counted /\ [Next]_vars => (IInv /\ Counted)'
    BY IInvStep, CountedStep
<1>3. IInv /\ Counted /\ [Next]_vars => [Multigraph!Next]_(Multigraph!vars)
    BY RefinesStep
<1> QED
    BY <1>1, <1>2, <1>3, RefinesInit, PTL DEF Spec, ImplementsAdjacency, Multigraph!Spec
=============================================================================
