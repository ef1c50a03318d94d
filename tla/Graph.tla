------------------------------- MODULE Graph -------------------------------
(***************************************************************************)
(* The database: src/src/db/adv.c over the node table (nodes.c) and the    *)
(* edge segments (edges.c), each in a store of its own.                    *)
(*                                                                         *)
(* The node table is the sequence of the nodes' edge pointers.  The edges  *)
(* file is an array of 8-byte words; a segment is a word with the number   *)
(* of words it takes and then one word per edge, the id it leads to.  Every*)
(* change of a segment writes a new one and then moves the pointer in the  *)
(* node table: two steps in two files.  The stores are reduced to their    *)
(* ends and free lists; module Store has them in full, with file growth.   *)
(***************************************************************************)
EXTENDS Integers, SequencesExt, FiniteSetsExt

CONSTANTS
  FirstNode,      \* id of the first node: the free tree's page counts as ids below it
  FirstWord,      \* the first word behind the file header and that page
  ReuseFits,      \* do clients reopen the database before a freed segment is handed
                  \* out that is too small, or none at all?
  MaxNodes,       \* bound: nodes
  MaxWords        \* bound: words of the edges file

ASSUME GraphAssumption ==
  /\ FirstNode \in Nat
  /\ FirstWord \in Nat \ {0}
  /\ ReuseFits \in BOOLEAN
  /\ MaxNodes \in Nat \ {0}
  /\ MaxWords \in Nat /\ MaxWords > FirstWord

VARIABLES
  files,    \* which of the files "nodes" and "edges" exist
  segs,     \* nodes file: the edge pointer of each node, 0 for none
  words,    \* edges file: the words
  hdrEnd,   \* edges file: the end in its header
  end,      \* edges handle: s->end
  free,     \* edges handle: s->free_list
  creat,    \* while adv_open runs: is ADV_CREATE among its flags?
  pc,       \* "closed", "opening", "ready", or "written": a new segment is not linked yet
  call,     \* the running call and its two ids
  next      \* the pointer the start node is to get

vars == <<files, segs, words, hdrEnd, end, free, creat, pc, call, next>>

Ids == FirstNode .. FirstNode + MaxNodes - 1
NodeId(n) == FirstNode + n - 1

Call(op, n, id) == [op |-> op, start |-> NodeId(n), end |-> id]
NoCall == Call("none", 1, FirstNode)

\* The segment at pointer e, as a sequence of ids.
Segment(e) == IF e = 0 THEN <<>> ELSE [i \in 1 .. words[e] - 1 |-> words[e + i]]

TypeOK ==
  /\ files \subseteq {"nodes", "edges"}
  /\ segs \in Seq(0 .. MaxWords) /\ Len(segs) <= MaxNodes
  /\ words \in [0 .. MaxWords - 1 -> Nat]
  /\ hdrEnd \in 0 .. MaxWords /\ end \in 0 .. MaxWords
  /\ free \in Seq(0 .. MaxWords)
  /\ creat \in BOOLEAN
  /\ pc \in {"closed", "opening", "ready", "written"}
  /\ call \in [op : {"add", "remove"}, start : Ids, end : Ids] \cup {NoCall}
  /\ next \in 0 .. MaxWords

Init ==
  /\ files = {}
  /\ segs = <<>>
  /\ words = [w \in 0 .. MaxWords - 1 |-> 0]
  /\ hdrEnd = 0 /\ end = 0 /\ free = <<>>
  /\ creat = FALSE /\ pc = "closed"
  /\ call = NoCall /\ next = 0
-----------------------------------------------------------------------------
(* adv_open and adv_close *)

\* adv_open opens the node table first.  A directory that is there already is
\* no error: fs_create_dir clears errno before it returns it.
OpenNodes(flag) ==
  /\ pc = "closed"
  /\ flag \/ "nodes" \in files
  /\ files' = files \cup {"nodes"}
  /\ creat' = flag
  /\ pc' = "opening"
  /\ UNCHANGED <<segs, words, hdrEnd, end, free, call, next>>

\* ... and the edges second, creating what does not exist.
OpenEdges ==
  /\ pc = "opening"
  /\ creat \/ "edges" \in files
  /\ files' = files \cup {"edges"}
  /\ hdrEnd' = IF "edges" \in files THEN hdrEnd ELSE FirstWord
  /\ end' = hdrEnd'
  /\ free' = <<>>
  /\ creat' = FALSE
  /\ pc' = "ready"
  /\ UNCHANGED <<segs, words, call, next>>

DropHandles ==
  /\ pc' = "closed"
  /\ end' = 0 /\ free' = <<>>
  /\ call' = NoCall /\ next' = 0 /\ creat' = FALSE
  /\ UNCHANGED <<files, segs, words, hdrEnd>>

\* No edges file and no ADV_CREATE.
OpenFails ==
  /\ pc = "opening"
  /\ ~creat /\ "edges" \notin files
  /\ DropHandles

Close == pc = "ready" /\ DropHandles

\* The process dies between the steps of an operation.
Crash == pc # "closed" /\ DropHandles
-----------------------------------------------------------------------------
(* adv_node_add, adv_edge_add, adv_edge_remove *)

\* Mutant: the pointer of a new node is all ones, not 0.
AddNodePointsNowhere ==
  /\ pc = "ready" /\ Len(segs) < MaxNodes
  /\ segs' = Append(segs, -1)
  /\ UNCHANGED <<files, words, hdrEnd, end, free, creat, pc, call, next>>

\* nodes_add.  The nodes store never frees, so the id computed from its end is
\* the place store_alloc returns.
AddNode ==
  /\ pc = "ready" /\ Len(segs) < MaxNodes
  /\ segs' = Append(segs, 0)
  /\ UNCHANGED <<files, words, hdrEnd, end, free, creat, pc, call, next>>

MayWrite(seg) ==
  /\ pc = "ready"
  /\ ReuseFits /\ free # <<>> => Head(free) # 0 /\ Len(seg) < words[Head(free)]

\* store_alloc of a segment, the words written to it, and store_free of the
\* old one, of the null pointer too.
NewPage == IF free = <<>> THEN end ELSE Head(free)

\* Mutant: the new word is left out of the size asked for.
WriteSegmentShort(old, seg) ==
  /\ end + Len(seg) <= MaxWords - 1
  /\ end' = IF free = <<>> THEN end + Len(seg) ELSE end
  /\ hdrEnd' = IF free = <<>> THEN end' ELSE hdrEnd
  /\ free' = <<old>> \o (IF free = <<>> THEN <<>> ELSE Tail(free))
  /\ words' = [w \in DOMAIN words |->
                 IF w = NewPage THEN Len(seg) + 1
                 ELSE IF w \in NewPage + 1 .. NewPage + Len(seg) THEN seg[w - NewPage]
                 ELSE words[w]]
  /\ next' = NewPage

WriteSegment(old, seg) ==
  /\ end + Len(seg) + 1 <= MaxWords
  /\ end' = IF free = <<>> THEN end + Len(seg) + 1 ELSE end
  /\ hdrEnd' = IF free = <<>> THEN end' ELSE hdrEnd
  /\ free' = <<old>> \o (IF free = <<>> THEN <<>> ELSE Tail(free))
  /\ words' = [w \in DOMAIN words |->
                 IF w = NewPage THEN Len(seg) + 1
                 ELSE IF w \in NewPage + 1 .. NewPage + Len(seg) THEN seg[w - NewPage]
                 ELSE words[w]]
  /\ next' = NewPage

\* adv_edge_add: nodes_edges_from and edges_add.
AddEdge(n, id) ==
  LET seg == Append(Segment(segs[n]), id)
  IN  /\ MayWrite(seg)
      /\ WriteSegment(segs[n], seg)
      /\ call' = Call("add", n, id)
      /\ pc' = "written"
      /\ UNCHANGED <<files, segs, creat>>

\* The places of an id in a segment.
Places(e, id) == {i \in DOMAIN Segment(e) : Segment(e)[i] = id}

\* adv_edge_remove: nodes_edges_from and edges_remove of the first edge to id.
\* The segment of the last edge is replaced by an empty one, not by none.
RemoveEdge(n, id) ==
  /\ Places(segs[n], id) # {}
  /\ LET seg == RemoveAt(Segment(segs[n]), Min(Places(segs[n], id)))
     IN  MayWrite(seg) /\ WriteSegment(segs[n], seg)
  /\ call' = Call("remove", n, id)
  /\ pc' = "written"
  /\ UNCHANGED <<files, segs, creat>>

\* edges_remove of an edge the node has not returns the pointer it was given.
RemoveNothing(n, id) ==
  /\ pc = "ready"
  /\ Places(segs[n], id) = {}
  /\ call' = Call("remove", n, id) /\ next' = segs[n]
  /\ pc' = "written"
  /\ UNCHANGED <<files, segs, words, hdrEnd, end, free, creat>>

\* Mutant: the pointer is written to the other places of the table.
LinkNeighbour ==
  /\ pc = "written"
  /\ segs' = [n \in DOMAIN segs |-> IF NodeId(n) # call.start THEN next ELSE segs[n]]
  /\ pc' = "ready"
  /\ call' = NoCall /\ next' = 0
  /\ UNCHANGED <<files, words, hdrEnd, end, free, creat>>

\* nodes_edges_set.
Link ==
  /\ pc = "written"
  /\ segs' = [segs EXCEPT ![call.start - FirstNode + 1] = next]
  /\ pc' = "ready"
  /\ call' = NoCall /\ next' = 0
  /\ UNCHANGED <<files, words, hdrEnd, end, free, creat>>
-----------------------------------------------------------------------------
Next ==
  \/ \E flag \in BOOLEAN : OpenNodes(flag)
  \/ OpenEdges \/ OpenFails \/ Close \/ Crash
  \/ AddNode
  \/ \E n \in DOMAIN segs, id \in Ids : AddEdge(n, id) \/ RemoveEdge(n, id) \/ RemoveNothing(n, id)
  \/ Link

Spec == Init /\ [][Next]_vars

\* adv_edge_add and adv_edge_remove are straight-line code: what edges.c wrote
\* is linked.
FairSpec == Spec /\ WF_vars(Link)
-----------------------------------------------------------------------------
(* Properties *)

\* The words of a node's segment.
Extent(n) == segs[n] .. segs[n] + words[segs[n]] - 1
HasSegment == {n \in DOMAIN segs : segs[n] # 0}

\* At every step, also after a kill between the two files, the segments the
\* node table refers to lie behind the header and the free tree's page, in
\* front of the recorded end, and share no word.
SegmentsApart ==
  /\ \A n \in HasSegment : Extent(n) \subseteq FirstWord .. hdrEnd - 1
  /\ \A n, m \in HasSegment : n # m => Extent(n) \cap Extent(m) = {}

\* Adding and removing an edge take effect once and as a whole, when the node
\* table's pointer moves: a process that dies before it leaves the graph as it
\* was, and no operation changes the edges of another node.
Multigraph == INSTANCE Adjacency WITH
  up <- pc \in {"ready", "written"},
  nodes <- {NodeId(n) : n \in DOMAIN segs},
  edges <- [p \in Ids \X Ids |->
              IF p[1] < FirstNode + Len(segs)
                THEN Cardinality(Places(segs[p[1] - FirstNode + 1], p[2]))
                ELSE 0]
ImplementsAdjacency == Multigraph!Spec
=============================================================================
