------------------------------ MODULE Commands ------------------------------
(***************************************************************************)
(* The commands of src/src/repl/cmds.c and the one database handle they    *)
(* share.  A line is its words; the words become known as repl_add_cmd     *)
(* puts them in the trie (module Trie).  Of a database this module has its *)
(* files and the end of the node table, in the header and in the handles;  *)
(* what edge commands write is in module Graph, and what load reads in     *)
(* module Jsmn.                                                            *)
(***************************************************************************)
EXTENDS Integers, Sequences

CONSTANTS
  Names, None,   \* databases
  MaxNodes,      \* bound: nodes of a database
  MaxHandles     \* bound: handles a process opens

CommandsAssumption == None \notin Names /\ {MaxNodes, MaxHandles} \subseteq Nat

VARIABLES
  alive,     \* does the program run?
  disk,      \* the files of each database, and its number of nodes by the header
  handles,   \* the handles of this process: whose they are, their copy of the number,
             \* and whether they are open
  db,        \* cmds.c's variable: a handle, or 0
  closed,    \* history: has the user closed the database, and opened none since?
  said       \* the last line: its command, and what came of it

vars == <<alive, disk, handles, db, closed, said>>

BothFiles == {"nodes", "edges"}
NoProcess == <<>>

Init ==
  /\ alive = TRUE
  /\ disk = [n \in Names |-> [files |-> {}, nodes |-> 0]]
  /\ handles = NoProcess /\ db = 0 /\ closed = FALSE
  /\ said = <<"none", "started">>

\* repl_route_cmd finds the command and passes it the rest of the line.
Line(cmd, result) == alive /\ said' = <<cmd, result>>
ChangesNothing == UNCHANGED <<alive, disk, handles, db, closed>>

\* adv_open succeeds: a handle with the number in the file.  The one that db held is
\* dropped and stays open.
Handle(n) ==
  /\ handles' = Append(handles, [name |-> n, nodes |-> disk[n].nodes, open |-> TRUE])
  /\ db' = Len(handles')

\* create_db: what exists is opened, since fs_create_dir reports no error.
Create(n) ==
  /\ Line("create", "done") /\ Len(handles) < MaxHandles
  /\ disk' = [disk EXCEPT ![n].files = BothFiles]
  /\ Handle(n)
  /\ closed' = FALSE
  /\ UNCHANGED alive

\* Mutant: open goes on with the first handle of the name that is open.
OpenFirst(n) ==
  /\ Line("open", "done") /\ Len(handles) < MaxHandles
  /\ disk[n].files = BothFiles
  /\ LET old == {i \in DOMAIN handles : handles[i].name = n /\ handles[i].open}
     IN  IF old = {} THEN Handle(n)
         ELSE handles' = handles /\ db' = CHOOSE i \in old : \A j \in old : i <= j
  /\ closed' = FALSE
  /\ UNCHANGED <<alive, disk>>

\* open_db.
Open(n) ==
  /\ Line("open", "done") /\ Len(handles) < MaxHandles
  /\ disk[n].files = BothFiles
  /\ Handle(n)
  /\ closed' = FALSE
  /\ UNCHANGED <<alive, disk>>

\* Mutant: db is set when a database was opened, and not otherwise.
OpenFailsKeeps(n) ==
  /\ Line("open", "failed")
  /\ disk[n].files # BothFiles
  /\ db' = db /\ closed' = FALSE
  /\ UNCHANGED <<alive, disk, handles>>

\* A file is missing: adv_open returns NULL, and the database in use is gone.
OpenFails(n) ==
  /\ Line("open", "failed")
  /\ disk[n].files # BothFiles
  /\ db' = 0 /\ closed' = FALSE
  /\ UNCHANGED <<alive, disk, handles>>

\* create, open and load without an argument.
Usage(cmd) == Line(cmd, "usage") /\ ChangesNothing

\* close_db leaves db as it is.  Whoever uses it then uses what was freed: these users
\* open or create a database first.
MayUse == ~closed
Close ==
  /\ Line("close", "done") /\ MayUse
  /\ handles' = [i \in DOMAIN handles |->
                   IF i = db THEN [handles[i] EXCEPT !.open = FALSE] ELSE handles[i]]
  /\ closed' = (db # 0)
  /\ UNCHANGED <<alive, disk, db>>

\* Mutant: the header keeps its number.
AddNodeInHandle ==
  /\ Line("+n", "done") /\ MayUse
  /\ db # 0 /\ handles[db].nodes < MaxNodes
  /\ handles' = [handles EXCEPT ![db].nodes = @ + 1]
  /\ UNCHANGED <<alive, disk, db, closed>>

\* add_node: the node goes where the handle's copy of the end says, and the file's
\* header follows.
AddNode ==
  /\ Line("+n", "done") /\ MayUse
  /\ db # 0 /\ handles[db].nodes < MaxNodes
  /\ handles' = [handles EXCEPT ![db].nodes = @ + 1]
  /\ disk' = [disk EXCEPT ![handles[db].name].nodes = handles[db].nodes + 1]
  /\ UNCHANGED <<alive, db, closed>>

\* +n, +e and -e without a database return -1, which repl reports as an unknown
\* command.
NoDatabase(cmd) == Line(cmd, "unknown") /\ MayUse /\ db = 0 /\ ChangesNothing

\* add_edge and remove_edge with two numbers.
EdgeCommand(cmd) == Line(cmd, "done") /\ MayUse /\ db # 0 /\ ChangesNothing

\* debug_print, with or without a database; status, stats and sting!
Shows(cmd) == Line(cmd, "done") /\ (cmd = "debug" => MayUse) /\ ChangesNothing

\* load returns what the parser does, and its error for more parts than there are tokens
\* is -1, which repl reports as an unknown command.
LoadAnswers == \E result \in {"done", "unknown"} : Line("load", result) /\ ChangesNothing

\* A word that trie_get does not find.
Unknown == Line("?", "unknown") /\ ChangesNothing

\* The program ends: the handles are gone, the files stay.
Gone(how) ==
  /\ Line("end", how)
  /\ alive' = FALSE /\ handles' = NoProcess /\ db' = 0 /\ closed' = FALSE

Quit == Gone("quit") /\ UNCHANGED disk

\* The program dies of a line: +e and -e with less than two numbers pass a null pointer
\* to atoi, load of a file that is empty or not there reads a mapping that is not, and
\* a line of blanks has no command to look for.
Crash == Gone("crashed") /\ UNCHANGED disk

\* The program is killed between two commands, or while create makes the two files.
Kill ==
  /\ Gone("killed")
  /\ \/ UNCHANGED disk
     \/ \E n \in Names, made \in {{"nodes"}, BothFiles} :
          disk' = [disk EXCEPT ![n].files = @ \cup made]

Start ==
  /\ ~alive
  /\ alive' = TRUE /\ said' = <<"none", "started">>
  /\ UNCHANGED <<disk, handles, db, closed>>

Next ==
  \/ \E n \in Names : Create(n) \/ Open(n) \/ OpenFails(n)
  \/ \E cmd \in {"create", "open", "load"} : Usage(cmd)
  \/ Close \/ AddNode
  \/ \E cmd \in {"+n", "+e", "-e"} : NoDatabase(cmd)
  \/ \E cmd \in {"+e", "-e"} : EdgeCommand(cmd)
  \/ \E cmd \in {"debug", "status"} : Shows(cmd)
  \/ LoadAnswers \/ Unknown \/ Quit \/ Crash \/ Kill \/ Start

Spec == Init /\ [][Next]_vars
-----------------------------------------------------------------------------
\* Unless the user has just closed it, the variable db holds no handle that was closed,
\* through failed attempts to open others too.
UsesOpenHandle == db # 0 /\ ~closed => handles[db].open

\* The handle in use knows the end of its file, whatever other handles of the same
\* file were dropped before: the next node overwrites none.
HandleCurrent == db # 0 /\ ~closed => handles[db].nodes = disk[handles[db].name].nodes

\* A session is one database at a time, and no node of any is lost.
InUse == IF db = 0 \/ closed THEN None ELSE handles[db].name
Promise == INSTANCE Sessions WITH
  dbs <- LET whole == {n \in Names : disk[n].files = BothFiles}
         IN  [n \in whole |-> disk[n].nodes],
  using <- InUse
ImplementsSessions == Promise!Spec
=============================================================================
