------------------------------ MODULE Sessions ------------------------------
(***************************************************************************)
(* What the command line promises: databases by name, at most one of which *)
(* is in use; nodes go into that one and stay when the program ends.       *)
(***************************************************************************)
EXTENDS Naturals

CONSTANTS Names, None

VARIABLES
  dbs,      \* the number of nodes of each database there is
  using,    \* the one in use, or None
  said      \* the last line: its command, and what came of it

vars == <<dbs, using, said>>

Says(cmd, result) == said' = <<cmd, result>>

Init == dbs = <<>> /\ using = None /\ said = <<"none", "started">>

With(n) == [m \in DOMAIN dbs \cup {n} |-> IF m \in DOMAIN dbs THEN dbs[m] ELSE 0]

Create(n) == Says("create", "done") /\ dbs' = With(n) /\ using' = n

Open(n) ==
  \/ n \in DOMAIN dbs /\ Says("open", "done") /\ using' = n /\ dbs' = dbs
  \/ n \notin DOMAIN dbs /\ Says("open", "failed") /\ using' = None /\ dbs' = dbs

Close == Says("close", "done") /\ using' = None /\ dbs' = dbs

AddNode ==
  /\ Says("+n", "done")
  /\ using # None
  /\ dbs' = [dbs EXCEPT ![using] = @ + 1] /\ using' = using

\* A command that changes no node: edges are in module Adjacency.
NodeCommands == {"+n", "+e", "-e"}
OtherCommands == NodeCommands \cup {"create", "open", "close", "debug", "load", "status", "?"}
Other ==
  /\ said' \in OtherCommands \X {"done", "usage", "unknown"}
  /\ said' # <<"+n", "done">>
  /\ said'[1] \in NodeCommands => said'[2] = IF using = None THEN "unknown" ELSE "done"
  /\ UNCHANGED <<dbs, using>>

\* The program ends, perhaps while it creates a database.
End ==
  /\ said' \in {"end"} \X {"quit", "killed", "crashed"}
  /\ using' = None
  /\ dbs' \in {dbs} \cup {With(n) : n \in Names}

Start == Says("none", "started") /\ UNCHANGED <<dbs, using>>

Next ==
  \/ \E n \in Names : Create(n) \/ Open(n)
  \/ Close \/ AddNode
  \/ Other \/ End
  \/ Start

Spec == Init /\ [][Next]_vars
=============================================================================
