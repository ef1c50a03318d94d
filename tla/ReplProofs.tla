----------------------------- MODULE ReplProofs -----------------------------
(***************************************************************************)
(* Theorems about module Repl, for any databases and any bounds.  First    *)
(* the commands: their inductive invariant, the safety properties that     *)
(* follow from it, and that they implement Sessions.  Then the command     *)
(* line as a whole: where one part is at work the others keep still.       *)
(***************************************************************************)
EXTENDS Repl, Sequences, TLAPS

\* A database's files and the number of nodes in them; a handle.
Files == [files : SUBSET C!BothFiles, nodes : Nat]
HandleSet == [name : Names, nodes : Nat, open : BOOLEAN]

\* What the variables hold: handles are numbered from 1, and db is one of them or 0.
CommandsTypes ==
  /\ alive \in BOOLEAN /\ closed \in BOOLEAN
  /\ disk \in [Names -> Files]
  /\ handles \in Seq(HandleSet)
  /\ db \in 0 .. Len(handles)

\* A database that was opened has its files: the program deletes none.
HandlesWhole == \A i \in 1 .. Len(handles) : disk[handles[i].name].files = C!BothFiles

\* Nodes are in databases that have both their files.
NodesWhole == \A n \in Names : disk[n].files # C!BothFiles => disk[n].nodes = 0

\* The inductive invariant.
CommandsInv == CommandsTypes /\ HandlesWhole /\ NodesWhole /\ C!UsesOpenHandle /\ C!HandleCurrent
-----------------------------------------------------------------------------
\* One field of a database's files, or of a handle, is written.
WithFiles(d, n, x) == [d EXCEPT ![n].files = x]
WithNodes(d, n, x) == [d EXCEPT ![n].nodes = x]
Grown(h, i) == [h EXCEPT ![i].nodes = @ + 1]
Closed(h, i) == [j \in DOMAIN h |-> IF j = i THEN [h[j] EXCEPT !.open = FALSE] ELSE h[j]]

\* Making the files of a database leaves its nodes and the other databases.
LEMMA WriteFiles ==
  ASSUME NEW d \in [Names -> Files], NEW n \in Names, NEW x \in SUBSET C!BothFiles
  PROVE  /\ WithFiles(d, n, x) \in [Names -> Files]
         /\ WithFiles(d, n, x)[n].files = x
         /\ \A m \in Names : /\ WithFiles(d, n, x)[m].nodes = d[m].nodes
                             /\ m # n => WithFiles(d, n, x)[m] = d[m]
<1> DEFINE r == [d[n] EXCEPT !.files = x]
<1>1. d[n] \in Files
    OBVIOUS
<1>2. r \in Files /\ r.files = x /\ r.nodes = d[n].nodes
    BY <1>1, Zenon DEF Files
<1>3. WithFiles(d, n, x) = [d EXCEPT ![n] = r]
    BY Zenon DEF WithFiles
<1> HIDE DEF r
<1> QED
    BY <1>2, <1>3

\* Writing the number of nodes into a header leaves the files and the other databases.
LEMMA WriteNodes ==
  ASSUME NEW d \in [Names -> Files], NEW n \in Names, NEW x \in Nat
  PROVE  /\ WithNodes(d, n, x) \in [Names -> Files]
         /\ WithNodes(d, n, x)[n].nodes = x
         /\ \A m \in Names : /\ WithNodes(d, n, x)[m].files = d[m].files
                             /\ m # n => WithNodes(d, n, x)[m] = d[m]
<1> DEFINE r == [d[n] EXCEPT !.nodes = x]
<1>1. d[n] \in Files
    OBVIOUS
<1>2. r \in Files /\ r.nodes = x /\ r.files = d[n].files
    BY <1>1, Zenon DEF Files
<1>3. WithNodes(d, n, x) = [d EXCEPT ![n] = r]
    BY Zenon DEF WithNodes
<1> HIDE DEF r
<1> QED
    BY <1>2, <1>3

\* A node more in a handle's copy leaves whose the handles are and which are open.
LEMMA GrowHandle ==
  ASSUME NEW h \in Seq(HandleSet), NEW i \in 1 .. Len(h)
  PROVE  /\ Grown(h, i) \in Seq(HandleSet) /\ Len(Grown(h, i)) = Len(h)
         /\ Grown(h, i)[i].nodes = h[i].nodes + 1
         /\ \A j \in 1 .. Len(h) :
              Grown(h, i)[j].name = h[j].name /\ Grown(h, i)[j].open = h[j].open
<1> DEFINE r == [h[i] EXCEPT !.nodes = h[i].nodes + 1]
<1>1. h[i] \in HandleSet /\ h[i].nodes + 1 \in Nat
  <2>1. h[i] \in HandleSet
      OBVIOUS
  <2> QED
      BY <2>1 DEF HandleSet
<1>2. r \in HandleSet /\ r.nodes = h[i].nodes + 1 /\ r.name = h[i].name /\ r.open = h[i].open
    BY <1>1, Zenon DEF HandleSet
<1>3. Grown(h, i) = [h EXCEPT ![i] = r]
    BY Zenon DEF Grown
<1> HIDE DEF r
<1> QED
    BY <1>2, <1>3

\* Closing a handle, or none, leaves whose the handles are.
LEMMA CloseHandle ==
  ASSUME NEW h \in Seq(HandleSet), NEW i
  PROVE  /\ Closed(h, i) \in Seq(HandleSet) /\ Len(Closed(h, i)) = Len(h)
         /\ \A j \in 1 .. Len(h) : Closed(h, i)[j].name = h[j].name
<1> DEFINE r(j) == IF j = i THEN [h[j] EXCEPT !.open = FALSE] ELSE h[j]
<1>1. ASSUME NEW j \in 1 .. Len(h) PROVE r(j) \in HandleSet /\ r(j).name = h[j].name
  <2>1. h[j] \in HandleSet
      OBVIOUS
  <2>2. [h[j] EXCEPT !.open = FALSE] \in HandleSet /\ [h[j] EXCEPT !.open = FALSE].name = h[j].name
      BY <2>1, Zenon DEF HandleSet
  <2> QED
      BY <2>1, <2>2, Zenon
<1>2. DOMAIN h = 1 .. Len(h) /\ Len(h) \in Nat
    OBVIOUS
<1>3. Closed(h, i) = [j \in 1 .. Len(h) |-> r(j)]
    BY <1>2, Zenon DEF Closed
<1> HIDE DEF r
<1> QED
    BY <1>1, <1>2, <1>3
-----------------------------------------------------------------------------
\* A process starts without a handle.
LEMMA CommandsInvInit == C!Init => CommandsInv
<1> SUFFICES ASSUME C!Init PROVE CommandsInv
    OBVIOUS
<1>1. alive \in BOOLEAN /\ closed \in BOOLEAN
    BY DEF C!Init
<1>2. disk \in [Names -> Files]
    BY DEF C!Init, Files
<1>3. handles \in Seq(HandleSet) /\ Len(handles) = 0 /\ db = 0
    BY DEF C!Init, C!NoProcess
<1>4. NodesWhole
    BY DEF C!Init, NodesWhole
<1> QED
    BY <1>1, <1>2, <1>3, <1>4 DEF CommandsInv, CommandsTypes, HandlesWhole, C!UsesOpenHandle, C!HandleCurrent

\* A new handle of a database whose files are there becomes the one in use.
LEMMA HandleStep ==
  ASSUME CommandsInv, NEW n \in Names, C!Handle(n), closed' \in BOOLEAN, alive' \in BOOLEAN,
         disk' \in [Names -> Files], disk'[n].files = C!BothFiles,
         \A m \in Names : disk'[m].nodes = disk[m].nodes /\ (m # n => disk'[m] = disk[m])
  PROVE  CommandsInv'
<1> DEFINE new == [name |-> n, nodes |-> disk[n].nodes, open |-> TRUE]
<1>1. disk[n] \in Files
    BY DEF CommandsInv, CommandsTypes
<1>2. new \in HandleSet /\ new.name = n /\ new.nodes = disk[n].nodes /\ new.open
    BY <1>1 DEF HandleSet, Files
<1>3. handles' = Append(handles, new) /\ db' = Len(handles')
    BY DEF C!Handle
<1> HIDE DEF new
<1>4. handles \in Seq(HandleSet) /\ \A i \in 1 .. Len(handles) : handles[i].name \in Names
  <2>1. handles \in Seq(HandleSet) /\ \A i \in 1 .. Len(handles) : handles[i] \in HandleSet
      BY DEF CommandsInv, CommandsTypes
  <2> QED
      BY <2>1 DEF HandleSet
<1>5. /\ handles' \in Seq(HandleSet) /\ Len(handles') = Len(handles) + 1
      /\ handles'[db'] = new
      /\ \A i \in 1 .. Len(handles) : handles'[i] = handles[i]
    BY <1>2, <1>3, <1>4
<1>6. db' \in 1 .. Len(handles')
    BY <1>3, <1>4, <1>5
<1>7. CommandsTypes'
    BY <1>5, <1>6 DEF CommandsTypes
<1>8. HandlesWhole'
    BY <1>2, <1>3, <1>4, <1>5 DEF CommandsInv, HandlesWhole
<1>9. C!UsesOpenHandle' /\ C!HandleCurrent'
    BY <1>2, <1>5 DEF C!UsesOpenHandle, C!HandleCurrent
<1>10. NodesWhole'
    BY DEF CommandsInv, NodesWhole
<1> QED
    BY <1>7, <1>8, <1>9, <1>10 DEF CommandsInv

\* Every command, and a process that dies in one, keeps the invariant.
LEMMA CommandsInvStep == CommandsInv /\ [C!Next]_(C!vars) => CommandsInv'
<1> SUFFICES ASSUME CommandsInv, [C!Next]_(C!vars) PROVE CommandsInv'
    OBVIOUS
<1>t. CommandsTypes
    BY DEF CommandsInv
<1>1. ASSUME NEW n \in Names, C!Create(n) PROVE CommandsInv'
  <2>1. disk' = WithFiles(disk, n, C!BothFiles)
      BY <1>1, Zenon DEF C!Create, WithFiles
  <2>2. /\ disk' \in [Names -> Files] /\ disk'[n].files = C!BothFiles
        /\ \A m \in Names : disk'[m].nodes = disk[m].nodes /\ (m # n => disk'[m] = disk[m])
      BY <1>t, <2>1, WriteFiles DEF CommandsTypes
  <2>3. C!Handle(n) /\ closed' = FALSE /\ alive' = TRUE
      BY <1>1, Zenon DEF C!Create, C!Line
  <2> QED
      BY <2>2, <2>3, HandleStep
<1>2. ASSUME NEW n \in Names, C!Open(n) PROVE CommandsInv'
  <2>1. disk' = disk /\ disk[n].files = C!BothFiles /\ C!Handle(n) /\ closed' = FALSE /\ alive' = TRUE
      BY <1>2 DEF C!Open, C!Line
  <2> QED
      BY <1>t, <2>1, HandleStep DEF CommandsTypes
<1>3. ASSUME NEW n \in Names, C!OpenFails(n) PROVE CommandsInv'
  <2>1. alive' \in BOOLEAN /\ closed' \in BOOLEAN
      BY <1>t, <1>3 DEF C!OpenFails, CommandsTypes
  <2>2. db' = 0 /\ UNCHANGED <<disk, handles>>
      BY <1>3 DEF C!OpenFails
  <2>3. CommandsTypes'
      BY <1>t, <2>1, <2>2 DEF CommandsTypes
  <2> QED
      BY <2>2, <2>3 DEF CommandsInv, HandlesWhole, NodesWhole, C!UsesOpenHandle, C!HandleCurrent
<1>4. CASE C!Close
  <2>1. handles' = Closed(handles, db)
      BY <1>4, Zenon DEF C!Close, Closed
  <2>2. handles' \in Seq(HandleSet) /\ Len(handles') = Len(handles)
        /\ \A j \in 1 .. Len(handles) : handles'[j].name = handles[j].name
      BY <1>t, <2>1, CloseHandle DEF CommandsTypes
  <2>3. closed' = (db # 0) /\ UNCHANGED <<alive, disk, db>>
      BY <1>4, Zenon DEF C!Close
  <2> QED
      BY <2>2, <2>3 DEF CommandsInv, CommandsTypes, HandlesWhole, NodesWhole, C!UsesOpenHandle, C!HandleCurrent
<1>5. CASE C!AddNode
  <2>1. db \in 1 .. Len(handles) /\ ~closed /\ UNCHANGED <<alive, db, closed>>
    <3>1. db # 0 /\ ~closed /\ UNCHANGED <<alive, db, closed>>
        BY <1>5, Zenon DEF C!AddNode, C!MayUse
    <3>2. Len(handles) \in Nat /\ db \in 0 .. Len(handles)
        BY <1>t DEF CommandsTypes
    <3> QED
        BY <3>1, <3>2
  <2>2. \A j \in 1 .. Len(handles) : handles[j] \in HandleSet
      BY <1>t DEF CommandsTypes
  <2>3. handles[db].nodes + 1 \in Nat /\ \A j \in 1 .. Len(handles) : handles[j].name \in Names
      BY <2>1, <2>2 DEF HandleSet
  <2>4. handles' = Grown(handles, db) /\ disk' = WithNodes(disk, handles[db].name, handles[db].nodes + 1)
      BY <1>5, Zenon DEF C!AddNode, Grown, WithNodes
  <2>5. /\ handles' \in Seq(HandleSet) /\ Len(handles') = Len(handles)
        /\ handles'[db].nodes = handles[db].nodes + 1
        /\ \A j \in 1 .. Len(handles) :
             handles'[j].name = handles[j].name /\ handles'[j].open = handles[j].open
      BY <1>t, <2>1, <2>4, GrowHandle DEF CommandsTypes
  <2>6. /\ disk' \in [Names -> Files]
        /\ disk'[handles[db].name].nodes = handles[db].nodes + 1
        /\ \A m \in Names : disk'[m].files = disk[m].files /\ (m # handles[db].name => disk'[m] = disk[m])
      BY <1>t, <2>1, <2>3, <2>4, WriteNodes DEF CommandsTypes
  <2>7. NodesWhole'
      BY <2>1, <2>3, <2>6 DEF CommandsInv, HandlesWhole, NodesWhole
  <2> QED
      BY <2>1, <2>3, <2>5, <2>6, <2>7 DEF CommandsInv, CommandsTypes, HandlesWhole, C!UsesOpenHandle, C!HandleCurrent
<1>6. ASSUME NEW how, C!Gone(how), disk' \in [Names -> Files], NodesWhole' PROVE CommandsInv'
  <2>1. alive' \in BOOLEAN /\ closed' \in BOOLEAN
      BY <1>6 DEF C!Gone
  <2>2. handles' \in Seq(HandleSet) /\ Len(handles') = 0 /\ db' = 0
      BY <1>6 DEF C!Gone, C!NoProcess
  <2> QED
      BY <1>6, <2>1, <2>2 DEF CommandsInv, CommandsTypes, HandlesWhole, NodesWhole, C!UsesOpenHandle, C!HandleCurrent
<1>7. CASE C!Quit \/ C!Crash
  <2>1. UNCHANGED disk
      BY <1>7 DEF C!Quit, C!Crash
  <2>2. disk' \in [Names -> Files] /\ NodesWhole'
      BY <2>1 DEF CommandsInv, CommandsTypes, NodesWhole
  <2> QED
      BY <1>6, <1>7, <2>2 DEF C!Quit, C!Crash
<1>8. CASE C!Kill
  <2>1. CASE UNCHANGED disk
    <3>1. disk' \in [Names -> Files] /\ NodesWhole'
        BY <2>1 DEF CommandsInv, CommandsTypes, NodesWhole
    <3> QED
        BY <1>6, <1>8, <3>1 DEF C!Kill
  <2>2. ASSUME NEW n \in Names, NEW made \in {{"nodes"}, C!BothFiles},
               disk' = WithFiles(disk, n, disk[n].files \cup made)
        PROVE  CommandsInv'
    <3>1. disk[n] \in Files
        BY <1>t DEF CommandsTypes
    <3>2. disk[n].files \cup made \in SUBSET C!BothFiles
        BY <3>1 DEF Files, C!BothFiles
    <3>3. /\ disk' \in [Names -> Files] /\ disk'[n].files = disk[n].files \cup made
          /\ \A m \in Names : disk'[m].nodes = disk[m].nodes /\ (m # n => disk'[m] = disk[m])
        BY <1>t, <2>2, <3>2, WriteFiles DEF CommandsTypes
    <3>4. disk[n].files = C!BothFiles => disk'[n].files = C!BothFiles
        BY <3>2, <3>3
    <3>5. NodesWhole'
        BY <3>3, <3>4 DEF CommandsInv, NodesWhole
    <3> QED
        BY <1>6, <1>8, <3>3, <3>5, Zenon DEF C!Kill
  <2> QED
      BY <1>8, <2>1, <2>2, Zenon DEF C!Kill, WithFiles
<1>9. CASE C!Start
    BY <1>9 DEF C!Start, CommandsInv, CommandsTypes, HandlesWhole, NodesWhole, C!UsesOpenHandle, C!HandleCurrent
<1>10. CASE C!ChangesNothing \/ UNCHANGED C!vars
    BY <1>10 DEF C!ChangesNothing, C!vars, CommandsInv, CommandsTypes, HandlesWhole, NodesWhole, C!UsesOpenHandle, C!HandleCurrent
<1>11. ASSUME NEW cmd,
              C!Usage(cmd) \/ C!NoDatabase(cmd) \/ C!EdgeCommand(cmd) \/ C!Shows(cmd) \/ C!LoadAnswers \/ C!Unknown
       PROVE  C!ChangesNothing
    BY <1>11 DEF C!Usage, C!NoDatabase, C!EdgeCommand, C!Shows, C!LoadAnswers, C!Unknown
<1> QED
    BY <1>1, <1>2, <1>3, <1>4, <1>5, <1>7, <1>8, <1>9, <1>10, <1>11 DEF C!Next

\* The variables keep their types, a database that is in use has its files, and nodes
\* are in none that has not.
THEOREM CommandsInvHolds == C!Spec => []CommandsInv
  BY CommandsInvInit, CommandsInvStep, PTL DEF C!Spec

\* cmds.c: the variable db holds no closed handle, unless the user has just closed it.
THEOREM OpenHandleUsed == C!Spec => []C!UsesOpenHandle
<1>1. CommandsInv => C!UsesOpenHandle
    BY DEF CommandsInv
<1> QED
    BY CommandsInvHolds, <1>1, PTL

\* cmds.c: handles that were dropped without being closed leave the one in use current.
THEOREM HandleInUseCurrent == C!Spec => []C!HandleCurrent
<1>1. CommandsInv => C!HandleCurrent
    BY DEF CommandsInv
<1> QED
    BY CommandsInvHolds, <1>1, PTL
-----------------------------------------------------------------------------
(* The commands implement Sessions *)

\* The databases of the refinement mapping.
Whole == {n \in Names : disk[n].files = C!BothFiles}
Dbs == [n \in Whole |-> disk[n].nodes]
With(n) == [m \in DOMAIN Dbs \cup {n} |-> IF m \in DOMAIN Dbs THEN Dbs[m] ELSE 0]

\* No database is there at first, in Sessions' terms too.
LEMMA RefinesInit == C!Init => C!Promise!Init
<1> SUFFICES ASSUME C!Init PROVE C!Promise!Init
    OBVIOUS
<1>1. Whole = {}
  <2>1. \A n \in Names : disk[n].files = {}
      BY DEF C!Init
  <2> QED
      BY <2>1 DEF Whole, C!BothFiles
<1>2. Dbs = <<>>
    BY <1>1 DEF Dbs
<1>3. C!InUse = None
    BY DEF C!Init, C!InUse
<1>4. said = <<"none", "started">>
    BY DEF C!Init
<1> QED
    BY <1>2, <1>3, <1>4, Zenon DEF C!Promise!Init, Dbs, Whole

\* The databases when the files of one are made, or some of them.
LEMMA DbsWithFiles ==
  ASSUME CommandsInv, NEW n \in Names, disk' \in [Names -> Files],
         \A m \in Names : disk'[m].nodes = disk[m].nodes /\ (m # n => disk'[m] = disk[m])
  PROVE  /\ disk'[n].files = C!BothFiles => Dbs' = With(n)
         /\ disk'[n].files = disk[n].files => Dbs' = Dbs
<1>1. ASSUME disk'[n].files = C!BothFiles PROVE Dbs' = With(n)
  <2>1. Whole' = Whole \cup {n}
      BY <1>1 DEF Whole
  <2>2. \A m \in Whole' : disk'[m].nodes = IF m \in Whole THEN Dbs[m] ELSE 0
      BY <2>1 DEF CommandsInv, NodesWhole, Whole, Dbs
  <2>3. DOMAIN Dbs = Whole /\ Dbs' = [m \in Whole' |-> disk'[m].nodes]
      BY DEF Dbs
  <2> QED
      BY <2>1, <2>2, <2>3 DEF With
<1>2. ASSUME disk'[n].files = disk[n].files PROVE Dbs' = Dbs
  <2>1. Whole' = Whole
      BY <1>2 DEF Whole
  <2>2. \A m \in Whole : disk'[m].nodes = disk[m].nodes
      BY DEF Whole
  <2> QED
      BY <2>1, <2>2 DEF Dbs
<1> QED
    BY <1>1, <1>2

\* A new handle of a database with its files is the one in use.
LEMMA InUseOpened ==
  ASSUME CommandsInv, NEW n \in Names, C!Handle(n), closed' = FALSE
  PROVE  C!InUse' = n
<1>1. handles \in Seq(HandleSet)
    BY DEF CommandsInv, CommandsTypes
<1>2. Len(handles') = Len(handles) + 1 /\ db' = Len(handles') /\ handles'[db'].name = n
    BY <1>1 DEF C!Handle
<1>3. db' # 0
    BY <1>1, <1>2
<1> QED
    BY <1>2, <1>3 DEF C!InUse

\* A command that changes no node answers what Sessions lets it.
LEMMA OtherCommand ==
  ASSUME NEW cmd \in C!Promise!OtherCommands, NEW res \in {"done", "usage", "unknown"},
         said' = <<cmd, res>>, C!ChangesNothing,
         <<cmd, res>> # <<"+n", "done">>,
         cmd \in C!Promise!NodeCommands => res = IF C!InUse = None THEN "unknown" ELSE "done"
  PROVE  C!Promise!Next
<1>1. said' \in C!Promise!OtherCommands \X {"done", "usage", "unknown"} /\ said' # <<"+n", "done">>
    OBVIOUS
<1>2. said'[1] = cmd /\ said'[2] = res
    OBVIOUS
<1>3. said'[1] \in C!Promise!NodeCommands => said'[2] = IF C!InUse = None THEN "unknown" ELSE "done"
    BY <1>2
<1>4. UNCHANGED <<Dbs, C!InUse>>
    BY DEF C!ChangesNothing, Dbs, Whole, C!InUse
<1>5. C!Promise!Other
    BY <1>1, <1>3, <1>4, Zenon DEF C!Promise!Other, Dbs, Whole
<1> QED
    BY <1>5, Zenon DEF C!Promise!Next

\* Every command does to the databases and the one in use what Sessions says.
LEMMA RefinesStep == C!CommandsAssumption /\ CommandsInv /\ [C!Next]_(C!vars) => [C!Promise!Next]_(C!Promise!vars)
<1> SUFFICES ASSUME C!CommandsAssumption, CommandsInv, C!Next PROVE C!Promise!Next
  <2>1. UNCHANGED C!vars => UNCHANGED <<Dbs, C!InUse, said>>
      BY DEF C!vars, Dbs, Whole, C!InUse
  <2>2. UNCHANGED <<Dbs, C!InUse, said>> => UNCHANGED C!Promise!vars
      BY Zenon DEF C!Promise!vars, Dbs, Whole
  <2> QED
      BY <2>1, <2>2, Zenon
<1>t. CommandsTypes
    BY DEF CommandsInv
<1>w. UNCHANGED disk => Dbs' = Dbs
    BY DEF Dbs, Whole
<1>1. ASSUME NEW n \in Names, C!Create(n) PROVE C!Promise!Next
  <2>1. disk' = WithFiles(disk, n, C!BothFiles)
      BY <1>1, Zenon DEF C!Create, WithFiles
  <2>2. /\ disk' \in [Names -> Files] /\ disk'[n].files = C!BothFiles
        /\ \A m \in Names : disk'[m].nodes = disk[m].nodes /\ (m # n => disk'[m] = disk[m])
      BY <1>t, <2>1, WriteFiles DEF CommandsTypes
  <2>3. Dbs' = With(n)
      BY <2>2, DbsWithFiles
  <2>4. C!InUse' = n /\ said' = <<"create", "done">>
      BY <1>1, InUseOpened DEF C!Create, C!Line
  <2>5. C!Promise!Create(n)
      BY <2>3, <2>4, Zenon DEF C!Promise!Create, C!Promise!Says, C!Promise!With, With, Dbs, Whole
  <2> QED
      BY <2>5, Zenon DEF C!Promise!Next
<1>2. ASSUME NEW n \in Names, C!Open(n) PROVE C!Promise!Next
  <2>1. disk' = disk /\ disk[n].files = C!BothFiles /\ said' = <<"open", "done">>
      BY <1>2 DEF C!Open, C!Line
  <2>2. C!InUse' = n
      BY <1>2, InUseOpened DEF C!Open
  <2>3. n \in DOMAIN Dbs /\ Dbs' = Dbs
      BY <1>w, <2>1 DEF Dbs, Whole
  <2>4. C!Promise!Open(n)
      BY <2>1, <2>2, <2>3, Zenon DEF C!Promise!Open, C!Promise!Says, Dbs, Whole
  <2> QED
      BY <2>4, Zenon DEF C!Promise!Next
<1>3. ASSUME NEW n \in Names, C!OpenFails(n) PROVE C!Promise!Next
  <2>1. disk' = disk /\ disk[n].files # C!BothFiles /\ said' = <<"open", "failed">> /\ db' = 0
      BY <1>3 DEF C!OpenFails, C!Line
  <2>2. C!InUse' = None
      BY <2>1 DEF C!InUse
  <2>3. n \notin DOMAIN Dbs /\ Dbs' = Dbs
      BY <1>w, <2>1 DEF Dbs, Whole
  <2>4. C!Promise!Open(n)
      BY <2>1, <2>2, <2>3, Zenon DEF C!Promise!Open, C!Promise!Says, Dbs, Whole
  <2> QED
      BY <2>4, Zenon DEF C!Promise!Next
<1>4. CASE C!Close
  <2>1. disk' = disk /\ db' = db /\ said' = <<"close", "done">> /\ closed' = (db # 0)
      BY <1>4, Zenon DEF C!Close, C!Line
  <2>2. C!InUse' = None
      BY <2>1 DEF C!InUse
  <2>3. C!Promise!Close
      BY <1>w, <2>1, <2>2, Zenon DEF C!Promise!Close, C!Promise!Says, Dbs, Whole
  <2> QED
      BY <2>3, Zenon DEF C!Promise!Next
<1>5. CASE C!AddNode
  <2>1. db # 0 /\ ~closed /\ UNCHANGED <<db, closed>> /\ said' = <<"+n", "done">>
      BY <1>5, Zenon DEF C!AddNode, C!MayUse, C!Line
  <2>2. db \in 1 .. Len(handles) /\ handles[db] \in HandleSet
      BY <1>t, <2>1 DEF CommandsTypes
  <2>3. handles[db].name \in Names /\ handles[db].nodes \in Nat
      BY <2>2 DEF HandleSet
  <2>4. C!InUse = handles[db].name /\ C!InUse # None
      BY <2>1, <2>3 DEF C!InUse, C!CommandsAssumption
  <2>5. C!InUse \in Whole /\ handles[db].nodes = Dbs[C!InUse]
      BY <2>1, <2>2, <2>3, <2>4 DEF CommandsInv, HandlesWhole, C!HandleCurrent, Whole, Dbs
  <2>6. handles' = Grown(handles, db) /\ disk' = WithNodes(disk, C!InUse, Dbs[C!InUse] + 1)
      BY <1>5, <2>4, <2>5, Zenon DEF C!AddNode, Grown, WithNodes
  <2>7. handles'[db].name = handles[db].name
      BY <1>t, <2>2, <2>6, GrowHandle DEF CommandsTypes
  <2>8. C!InUse' = C!InUse
      BY <2>1, <2>4, <2>7 DEF C!InUse
  <2>9. /\ disk' \in [Names -> Files] /\ disk'[C!InUse].nodes = Dbs[C!InUse] + 1
        /\ \A m \in Names : disk'[m].files = disk[m].files /\ (m # C!InUse => disk'[m] = disk[m])
      BY <1>t, <2>3, <2>4, <2>5, <2>6, WriteNodes DEF CommandsTypes
  <2>10. Whole' = Whole
      BY <2>9 DEF Whole
  <2>11. \A m \in Whole : Dbs'[m] = [Dbs EXCEPT ![C!InUse] = @ + 1][m]
      BY <2>4, <2>5, <2>9, <2>10 DEF Dbs, Whole
  <2>12. Dbs' = [Dbs EXCEPT ![C!InUse] = @ + 1]
      BY <2>10, <2>11 DEF Dbs
  <2>13. C!Promise!AddNode
      BY <2>1, <2>4, <2>8, <2>12, Zenon DEF C!Promise!AddNode, C!Promise!Says, Dbs, Whole
  <2> QED
      BY <2>13, Zenon DEF C!Promise!Next
<1>6. ASSUME NEW cmd, C!Usage(cmd), cmd \in {"create", "open", "load"} PROVE C!Promise!Next
  <2>1. said' = <<cmd, "usage">> /\ C!ChangesNothing
      BY <1>6 DEF C!Usage, C!Line
  <2> QED
      BY <1>6, <2>1, OtherCommand DEF C!Promise!OtherCommands, C!Promise!NodeCommands
<1>7. ASSUME NEW cmd, C!NoDatabase(cmd), cmd \in {"+n", "+e", "-e"} PROVE C!Promise!Next
  <2>1. said' = <<cmd, "unknown">> /\ C!ChangesNothing /\ C!InUse = None
      BY <1>7 DEF C!NoDatabase, C!Line, C!InUse
  <2> QED
      BY <1>7, <2>1, OtherCommand DEF C!Promise!OtherCommands, C!Promise!NodeCommands
<1>8. ASSUME NEW cmd, C!EdgeCommand(cmd), cmd \in {"+e", "-e"} PROVE C!Promise!Next
  <2>1. said' = <<cmd, "done">> /\ C!ChangesNothing /\ C!InUse = handles[db].name /\ db # 0
      BY <1>8 DEF C!EdgeCommand, C!Line, C!MayUse, C!InUse
  <2>2. handles[db] \in HandleSet
      BY <1>t, <2>1 DEF CommandsTypes
  <2>3. C!InUse # None
      BY <2>1, <2>2 DEF HandleSet, C!CommandsAssumption
  <2> QED
      BY <1>8, <2>1, <2>3, OtherCommand DEF C!Promise!OtherCommands, C!Promise!NodeCommands
<1>9. ASSUME NEW cmd, C!Shows(cmd), cmd \in {"debug", "status"} PROVE C!Promise!Next
  <2>1. said' = <<cmd, "done">> /\ C!ChangesNothing
      BY <1>9 DEF C!Shows, C!Line
  <2> QED
      BY <1>9, <2>1, OtherCommand DEF C!Promise!OtherCommands, C!Promise!NodeCommands
<1>10. CASE C!LoadAnswers
  <2>1. PICK res \in {"done", "unknown"} : said' = <<"load", res>> /\ C!ChangesNothing
      BY <1>10 DEF C!LoadAnswers, C!Line
  <2> QED
      BY <2>1, OtherCommand DEF C!Promise!OtherCommands, C!Promise!NodeCommands
<1>11. CASE C!Unknown
  <2>1. said' = <<"?", "unknown">> /\ C!ChangesNothing
      BY <1>11 DEF C!Unknown, C!Line
  <2> QED
      BY <2>1, OtherCommand DEF C!Promise!OtherCommands, C!Promise!NodeCommands
<1>12. ASSUME NEW how \in {"quit", "killed", "crashed"}, C!Gone(how),
              Dbs' = Dbs \/ \E n \in Names : Dbs' = With(n)
       PROVE  C!Promise!Next
  <2>1. said' = <<"end", how>> /\ C!InUse' = None
      BY <1>12 DEF C!Gone, C!Line, C!InUse
  <2>2. said' \in {"end"} \X {"quit", "killed", "crashed"}
      BY <2>1
  <2>3. Dbs' \in {Dbs} \cup {With(n) : n \in Names}
      BY <1>12, Zenon
  <2>4. C!Promise!End
      BY <2>1, <2>2, <2>3, Zenon DEF C!Promise!End, C!Promise!With, With, Dbs, Whole
  <2> QED
      BY <2>4, Zenon DEF C!Promise!Next
<1>13. CASE C!Quit \/ C!Crash
    BY <1>w, <1>12, <1>13 DEF C!Quit, C!Crash
<1>14. CASE C!Kill
  <2>1. CASE UNCHANGED disk
      BY <1>w, <1>12, <1>14, <2>1 DEF C!Kill
  <2>2. ASSUME NEW n \in Names, NEW made \in {{"nodes"}, C!BothFiles},
               disk' = WithFiles(disk, n, disk[n].files \cup made)
        PROVE  C!Promise!Next
    <3>1. disk[n] \in Files
        BY <1>t DEF CommandsTypes
    <3>2. disk[n].files \cup made \in SUBSET C!BothFiles
        BY <3>1 DEF Files, C!BothFiles
    <3>3. /\ disk' \in [Names -> Files] /\ disk'[n].files = disk[n].files \cup made
          /\ \A m \in Names : disk'[m].nodes = disk[m].nodes /\ (m # n => disk'[m] = disk[m])
        BY <1>t, <2>2, <3>2, WriteFiles DEF CommandsTypes
    <3>4. CASE disk'[n].files = C!BothFiles
        BY <1>12, <1>14, <3>3, <3>4, DbsWithFiles DEF C!Kill
    <3>5. CASE disk'[n].files # C!BothFiles
      <4>1. Dbs' = Dbs
          BY <3>2, <3>3, <3>5 DEF Dbs, Whole
      <4> QED
          BY <1>12, <1>14, <4>1 DEF C!Kill
    <3> QED
        BY <3>4, <3>5
  <2> QED
      BY <1>14, <2>1, <2>2, Zenon DEF C!Kill, WithFiles
<1>15. CASE C!Start
  <2>1. said' = <<"none", "started">> /\ UNCHANGED <<Dbs, C!InUse>>
      BY <1>15 DEF C!Start, Dbs, Whole, C!InUse
  <2>2. C!Promise!Start
      BY <2>1, Zenon DEF C!Promise!Start, C!Promise!Says, Dbs, Whole
  <2> QED
      BY <2>2, Zenon DEF C!Promise!Next
<1> QED
    BY <1>1, <1>2, <1>3, <1>4, <1>5, <1>6, <1>7, <1>8, <1>9, <1>10, <1>11, <1>13, <1>14, <1>15, Zenon
    DEF C!Next

\* cmds.c is one database in use at a time, and every node that was added stays.
THEOREM CommandsImplementSessions ==
  ASSUME C!CommandsAssumption PROVE C!Spec => C!ImplementsSessions
<1>1. CommandsInv /\ [C!Next]_(C!vars) => [C!Promise!Next]_(C!Promise!vars)
    BY RefinesStep
<1> QED
    BY RefinesInit, CommandsInvHolds, <1>1, PTL DEF C!Spec, C!Promise!Spec, C!ImplementsSessions
-----------------------------------------------------------------------------
(* The command line *)

\* The commands in Repl are module Commands: texts are read and lines typed in between.
THEOREM CommandsSpec == Spec => C!Spec
<1>1. Init => C!Init
    BY DEF Init
<1>2. [Next]_vars => [C!Next]_(C!vars)
    BY Zenon DEF Next, vars, commandVars, C!vars
<1> QED
    BY <1>1, <1>2, PTL DEF Spec, C!Spec

\* cmds.c: no command uses a closed handle, but for one right after close.
THEOREM CommandsUseOpenHandleAlways == Spec => []CommandsUseOpenHandle
  BY CommandsSpec, OpenHandleUsed, PTL DEF CommandsUseOpenHandle

\* cmds.c: the handle in use has the number of nodes its file has, although other handles
\* of that file were opened and dropped.
THEOREM CommandsHandleCurrentAlways == Spec => []CommandsHandleCurrent
  BY CommandsSpec, HandleInUseCurrent, PTL DEF CommandsHandleCurrent

\* cmds.c: the commands are sessions with one database in use, and nothing added goes.
THEOREM CommandsAreSessionsAlways == Spec => CommandsAreSessions
<1>1. C!CommandsAssumption
    BY ReplAssumption
<1> QED
    BY CommandsSpec, CommandsImplementSessions, <1>1, PTL DEF CommandsAreSessions
-----------------------------------------------------------------------------
\* The theorems of LineEditProofs, about Repl's editor, which completes command names.
EP == INSTANCE LineEditProofs WITH Commands <- Offered

\* The line editor in Repl is module LineEdit.
LEMMA EditorInit == E!Init => EP!Init
  BY DEF E!Init, EP!Init, E!NewBuf, EP!NewBuf, E!HistoryAdd, EP!HistoryAdd

\* Repl's instance of LineEdit takes the steps LineEditProofs is about.
LEMMA EditorNext == E!Next => EP!Next
  BY Zenon
  DEF E!Next, E!Insert, E!Key, E!Handles, E!Edits, E!Written, E!Moved, E!buflen, E!Sequence, E!MoveLeft, E!MoveRight, E!MoveHome, E!MoveEnd, E!Moves, E!Delete, E!Backspace, E!DeletePrevWord, E!SwapChars, E!DeleteLine, E!DeleteToEnd, E!HistoryNext, E!TextOf, E!Ignored, E!Offers, E!Offer, E!Tab, E!NextOffer, E!CancelOffer, E!AcceptOffer, E!Returns, E!Enter, E!HangUp, E!HighByte, E!Ends, E!CtrlC, E!CtrlD, E!Loop, E!Exit, E!Restart, E!NewBuf, E!HistoryAdd, E!Min, EP!Min, E!Max, EP!Max, E!Last, EP!Last, E!Front, EP!Front, E!IsPrefix, EP!IsPrefix, E!Cardinality, EP!Cardinality,
      EP!Next, EP!Insert, EP!Key, EP!Handles, EP!Edits, EP!Written, EP!Moved, EP!buflen, EP!Sequence, EP!MoveLeft, EP!MoveRight, EP!MoveHome, EP!MoveEnd, EP!Moves, EP!Delete, EP!Backspace, EP!DeletePrevWord, EP!SwapChars, EP!DeleteLine, EP!DeleteToEnd, EP!HistoryNext, EP!TextOf, EP!Ignored, EP!Offers, EP!Offer, EP!Tab, EP!NextOffer, EP!CancelOffer, EP!AcceptOffer, EP!Returns, EP!Enter, EP!HangUp, EP!HighByte, EP!Ends, EP!CtrlC, EP!CtrlD, EP!Loop, EP!Exit, EP!Restart, EP!NewBuf, EP!HistoryAdd

\* linenoise.c: Repl is the editor alone where a line is typed.
THEOREM EditorSpec == Spec => EP!Spec
<1>1. Init => EP!Init
    BY EditorInit DEF Init
<1>2. [Next]_vars => [EP!Next]_(EP!vars)
    BY EditorNext, Zenon DEF Next, vars, typingVars, EP!vars
<1> QED
    BY <1>1, <1>2, PTL DEF Spec, EP!Spec

\* The command names fit in the buffer.
LEMMA EditorAssumption == EP!LineEditAssumption
  BY ReplAssumption DEF E!LineEditAssumption, EP!LineEditAssumption

\* linenoise.c: length and cursor stay in the buffer and the line ends with its terminator.
THEOREM EditorSafeAlways == Spec => []EditorSafe
<1>1. EP!Safe <=> EditorSafe
    BY Zenon
    DEF EditorSafe, E!Safe, EP!Safe, E!buflen, EP!buflen, E!TextOf, EP!TextOf, E!Offers, EP!Offers,
        E!Min, EP!Min, E!IsPrefix, EP!IsPrefix, E!Cardinality, EP!Cardinality
<1>2. EP!Spec => []EP!Safe
    BY EditorAssumption, EP!EditorSafeAlways
<1> QED
    BY EditorSpec, <1>1, <1>2, PTL

\* linenoise.c: the editor is a line with a cursor, whatever keys are pressed.
THEOREM EditorIsLineAlways == Spec => EditorIsLine
<1>1. EP!Typed!Init => E!Typed!Init
    BY Zenon DEF EP!Typed!Init, E!Typed!Init
<1>2. [EP!Typed!Next]_(EP!Typed!vars) => [E!Typed!Next]_(E!Typed!vars)
    BY Zenon
    DEF E!Typed!Next, E!Typed!vars, E!Typed!Text, E!Typed!Kept, E!Typed!Typing, E!Typed!Edit, E!Typed!Type, E!Typed!Left, E!Typed!Right, E!Typed!Home, E!Typed!End, E!Typed!Delete, E!Typed!Backspace, E!Typed!Clear, E!Typed!CutRest, E!Typed!DeleteWord, E!Typed!Swap, E!Typed!Complete, E!Typed!Visit, E!Typed!Enter, E!Typed!GiveUp, E!Typed!Prompt, E!Typed!Exit, E!Typed!Restart, E!Typed!Front, E!Typed!Last, E!Typed!ToSet, EP!Typed!Next, EP!Typed!vars, EP!Typed!Text, EP!Typed!Kept, EP!Typed!Typing, EP!Typed!Edit, EP!Typed!Type, EP!Typed!Left, EP!Typed!Right, EP!Typed!Home, EP!Typed!End, EP!Typed!Delete, EP!Typed!Backspace, EP!Typed!Clear, EP!Typed!CutRest, EP!Typed!DeleteWord, EP!Typed!Swap, EP!Typed!Complete, EP!Typed!Visit, EP!Typed!Enter, EP!Typed!GiveUp, EP!Typed!Prompt, EP!Typed!Exit, EP!Typed!Restart, EP!Typed!Front, EP!Typed!Last, EP!Typed!ToSet, E!ToSet, EP!ToSet, E!buflen, EP!buflen
<1>3. EP!Spec => EP!ImplementsLine
    BY EditorAssumption, EP!EditorImplementsLine
<1> QED
    BY EditorSpec, <1>1, <1>2, <1>3, PTL
    DEF EditorIsLine, E!ImplementsLine, E!Typed!Spec, EP!ImplementsLine, EP!Typed!Spec
=============================================================================
