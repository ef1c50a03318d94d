----------------------------- MODULE Adjacency -----------------------------
(***************************************************************************)
(* What src/src/db/adv.h offers: a directed multigraph that grows nodes and*)
(* gains and loses single edges.  A call changes the edges once, when it   *)
(* returns, unless the process dies before; closing keeps everything.      *)
(***************************************************************************)
EXTENDS Naturals

CONSTANTS Ids,          \* node ids
          NoCall        \* no call

VARIABLES up,           \* is the database open?
          nodes,        \* the nodes added
          edges,        \* how many edges lead from one id to another
          call          \* the running call: what it does and the two ids

vars == <<up, nodes, edges, call>>
Calls == [op : {"add", "remove"}, start : Ids, end : Ids]

Init ==
  /\ up = FALSE
  /\ nodes = {} /\ edges = [p \in Ids \X Ids |-> 0]
  /\ call = NoCall

Open == ~up /\ up' = TRUE /\ UNCHANGED <<nodes, edges, call>>

Down == up /\ up' = FALSE /\ call' = NoCall /\ UNCHANGED <<nodes, edges>>

AddNode(n) ==
  /\ up /\ call = NoCall /\ n \notin nodes
  /\ nodes' = nodes \cup {n}
  /\ UNCHANGED <<up, edges, call>>

Begin(c) ==
  /\ up /\ call = NoCall /\ c.start \in nodes
  /\ call' = c
  /\ UNCHANGED <<up, nodes, edges>>

\* Removing an edge that is not there changes nothing.
Return ==
  /\ up /\ call # NoCall
  /\ edges' = [edges EXCEPT ![<<call.start, call.end>>] =
                 IF call.op = "add" THEN @ + 1 ELSE IF @ = 0 THEN 0 ELSE @ - 1]
  /\ call' = NoCall
  /\ UNCHANGED <<up, nodes>>

Next ==
  \/ Open \/ Down \/ Return
  \/ \E n \in Ids : AddNode(n)
  \/ \E c \in Calls : Begin(c)

Spec == Init /\ [][Next]_vars
=============================================================================
