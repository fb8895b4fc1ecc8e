------------------------- MODULE MatrixTruthProofs -------------------------
(***************************************************************************)
(* Theorems about Matrix, for every plan, every number of nodes and of     *)
(* faults: the watch keeps the promise of a probe and, as long as no run   *)
(* is killed and no teardown fails, the rows are true and a matrix that is *)
(* complete has left nothing behind.  None of it rests on the order of the *)
(* rows: it holds for a CSV that has lost its header as well.              *)
(***************************************************************************)
EXTENDS MatrixProofs

\* Where the driver is inside the try.
Inside == Measuring \cup {"cell", "clear", "absent"}

\* Nothing of an arm is left: no container, and no file of its cells.
Clean(a) ==
    /\ \A n \in Nodes : container[a][n] = "none"
    /\ \A c \in CellsOf(a), n \in Nodes : copy[c][n] = Missing

\* Somebody will still take the arm down: a run that has a cell of it to
\* measure, or the try and the teardown the driver is in.
Kept(a) ==
    \/ \E c \in CellsOf(a) : c \notin done_cells
    \/ a = arm /\ (guarded \/ pc = "down")

\* What the driver knows at each place.  Outside the try a cluster comes up
\* only for a cell that is not done.
Guarding ==
    /\ experiment # "C" /\ pc \in Inside => guarded
    /\ pc = "down" => (guarded <=> after = "up")
    /\ pc = "arm" => ~guarded
    /\ pc \in {"up", "ready"} => guarded \/ cell \notin done_cells
    /\ pc \in {"clear", "absent"} => cell \notin wanted
    /\ pc \notin {"watch", "hash", "join"} => copier = "idle"

\* What is wanted is not done.
Undone == wanted \cap done_cells = {}

\* From the start of its first node a cluster has been told of no deletion of a
\* cell that is still to be measured.
Told ==
    (experiment # "C" /\ (pc \in Inside \cup {"ready"} \/ (pc = "up" /\ todo # Nodes))) =>
        \A c \in Left : ~deleting[c]

\* Nodes the teardown has been at are gone.
Removed == (~littered /\ pc = "down") => \A n \in Nodes \ todo : container[arm][n] = "none"

\* experiment_c brings nothing up.
PlainFiles ==
    experiment = "C" => /\ pc \in {"start", "arm", "append", "head", "write", "exit"}
                        /\ ~guarded
                        /\ \A a \in Arms : Clean(a)

\* What is left of an arm is left to somebody.
Tidy == ~littered => \A a \in Arms : Clean(a) \/ Kept(a)

\* Files are only where the driver has a cluster up, and there a cell that is
\* still wanted has none, but the one that is being measured or whose cluster is
\* being taken down.
FreshCell(c) ==
    \/ \A n \in Nodes : copy[c][n] = Missing
    \/ /\ ArmOf[c] = arm
       /\ pc \in Inside \cup {"down"}
       /\ c \in wanted => c = cell /\ pc \in Measuring \cup {"down"}

Fresh == ~littered => \A c \in Cells : FreshCell(c)

\* The payload of the cell at hand, in full.
Mine == [payload |-> attempt, fill |-> "whole"]

\* While a cell is measured its copies are its own, what has arrived is there
\* in full, and nothing is there in full before the writer is done.
OwnCopy(n) ==
    /\ copy[cell][n] = Missing \/ copy[cell][n].payload = attempt
    /\ arrived[n] # NotArrived => arrived[n] = attempt /\ copy[cell][n] = Mine
    /\ copier \in {"opening", "writing", "failed"} => copy[cell][n].fill # "whole"

Own == (~littered /\ experiment # "C" /\ pc \in Measuring) => \A n \in Nodes : OwnCopy(n)

\* The copies of a cell are of one payload, so none is written over another.
SameCopies(c) ==
    \A n \in Nodes : /\ copy[c][n].fill # "mixed"
                     /\ \A m \in Nodes : (copy[c][m] # Missing /\ copy[c][n] # Missing) =>
                                            copy[c][m].payload = copy[c][n].payload

OnePayload == ~littered => \A c \in Cells : SameCopies(c)

TruthInv ==
    /\ Guarding /\ Undone /\ Told /\ Removed /\ PlainFiles /\ Tidy /\ Fresh /\ Own /\ OnePayload

LEMMA InitTruth == Init => TruthInv
<1> SUFFICES ASSUME Init PROVE TruthInv
  OBVIOUS
<1>1. \A a \in Arms : Clean(a)
  BY DEF Init, ClusterInit, Clean, CellsOf
<1>2. \A c \in Cells : ~deleting[c] /\ \A n \in Nodes : copy[c][n] = Missing
  BY DEF Init, ClusterInit
<1>3. Guarding /\ Removed /\ Undone
  BY DEF Init, Guarding, Removed, Undone, Inside, Measuring
<1>4. PlainFiles /\ Tidy
  BY <1>1 DEF Init, PlainFiles, Tidy
<1>5. Told /\ Fresh /\ Own
  BY <1>2 DEF Init, Told, Fresh, FreshCell, Own, Inside, Measuring
<1>6. OnePayload
  BY <1>2 DEF OnePayload, SameCopies, Missing
<1> QED BY <1>3, <1>4, <1>5, <1>6, Zenon DEF TruthInv

-----------------------------------------------------------------------------
(* What a step leaves alone.                                               *)

LEMMA SameExperiment ==
    ASSUME [Next]_vars
    PROVE  UNCHANGED experiment
<1>1. CASE UNCHANGED vars
  BY <1>1 DEF vars, history
<1>2. CASE Quiet
  BY <1>2, QuietFrame DEF history
<1>3. CASE PlainCell \/ StartNode \/ BeginCell \/ OpenCsv \/ Append_row \/ ClearCell \/ RemoveNode
           \/ Purge \/ Write \/ NodeStarts \/ MeshStep \/ WriteFails \/ NodeExits \/ SlowStart
           \/ RemoveFails \/ PurgeFails \/ Raise \/ RaiseAfterHeader \/ Kill
  BY <1>3 DEF PlainCell, StartNode, BeginCell, OpenCsv, Append_row, ClearCell, RemoveNode, Purge,
              Write, NodeStarts, MeshStep, WriteFails, NodeExits, SlowStart, RemoveFails,
              PurgeFails, Raise, RaiseAfterHeader, Kill, Fault, history
<1> QED BY <1>1, <1>2, <1>3, Zenon DEF Next, Driver, Quiet

\* Litter stays litter, and these steps make it.
LEMMA LitterStays ==
    ASSUME [Next]_vars, ~littered'
    PROVE  /\ ~littered
           /\ ~ (Kill \/ RemoveFails \/ PurgeFails)
           /\ Raise => pc # "down" \/ guarded
<1>1. ~ (Kill \/ RemoveFails \/ PurgeFails)
  BY DEF Kill, RemoveFails, PurgeFails
<1>2. Raise => (~littered /\ (pc # "down" \/ guarded))
  BY DEF Raise
<1>3. (UNCHANGED vars \/ Quiet) => ~littered
  BY QuietFrame DEF vars, history
<1>4. (PlainCell \/ StartNode \/ BeginCell \/ OpenCsv \/ Append_row \/ ClearCell \/ RemoveNode
       \/ Purge \/ Write \/ NodeStarts \/ MeshStep \/ WriteFails \/ NodeExits \/ SlowStart
       \/ RaiseAfterHeader) => ~littered
  BY DEF PlainCell, StartNode, BeginCell, OpenCsv, Append_row, ClearCell, RemoveNode, Purge,
         Write, NodeStarts, MeshStep, WriteFails, NodeExits, SlowStart, RaiseAfterHeader, history
<1> QED BY <1>1, <1>2, <1>3, <1>4, Zenon DEF Next, Driver, Quiet

\* Only a row makes a cell done, and only its own.
LEMMA DoneGrows ==
    ASSUME IInv, [Next]_vars
    PROVE  \/ UNCHANGED done_cells
           \/ Append_row /\ done_cells' \subseteq done_cells \cup {cell}
<1>0. TypeOK /\ FileInv /\ csv \in Seq(Row) /\ DOMAIN csv = 1 .. Len(csv) /\ Len(csv) \in Nat
  BY DEF IInv, TypeOK
<1>1. CASE UNCHANGED <<csv, file>>
  BY <1>1 DEF done_cells
<1>2. CASE OpenCsv
  BY <1>2 DEF OpenCsv, done_cells
<1>3. CASE RaiseAfterHeader
  <2>1. csv = <<>> /\ UNCHANGED csv
    BY <1>0, <1>3 DEF RaiseAfterHeader, FileInv
  <2>2. DOMAIN csv = {}
    BY <2>1
  <2> QED BY <2>1, <2>2 DEF done_cells
<1>4. CASE Append_row
  <2> DEFINE row == [cell |-> cell, converged |-> experiment = "C" \/ converged]
  <2>1. csv' = Append(csv, row) /\ row.cell = cell
    BY <1>4 DEF Append_row
  <2>2. file' = "headed" => (file = "headed" \/ csv = <<>>)
    BY <1>0, <1>4 DEF Append_row, FileInv, TypeOK
  <2> HIDE DEF row
  <2>3. /\ DOMAIN csv' = 1 .. Len(csv) + 1
        /\ \A i \in 1 .. Len(csv) + 1 : csv'[i] = IF i <= Len(csv) THEN csv[i] ELSE row
    <3>1. row \in Row
      <4>1. (experiment = "C" \/ converged) \in BOOLEAN
        OBVIOUS
      <4> QED BY <1>0, <4>1 DEF row, Row, TypeOK
    <3> QED BY <1>0, <2>1, <3>1
  <2>4. ASSUME NEW c \in done_cells'
        PROVE  c \in done_cells \cup {cell}
    <3>1. PICK i \in DOMAIN csv' : c = csv'[i].cell /\ file' = "headed"
      BY DEF done_cells
    <3>2. CASE i <= Len(csv)
      <4>1. i \in DOMAIN csv /\ csv'[i] = csv[i] /\ csv # <<>>
        BY <1>0, <2>3, <3>1, <3>2
      <4> QED BY <2>2, <3>1, <4>1 DEF done_cells
    <3>3. CASE ~ (i <= Len(csv))
      BY <2>1, <2>3, <3>1, <3>3
    <3> QED BY <3>2, <3>3
  <2> QED BY <1>4, <2>4
<1> QED BY <1>1, <1>2, <1>3, <1>4, DiskChanges

-----------------------------------------------------------------------------
(* Where the try is.                                                       *)

LEMMA GuardingEnds ==
    ASSUME Ends
    PROVE  Guarding'
BY DEF Ends, Goto, Guarding, Inside, Measuring

LEMMA GuardingUnwind ==
    ASSUME Unwind
    PROVE  Guarding'
<1>1. CASE Ends
  BY <1>1, GuardingEnds
<1>2. CASE FinallyDown("exit") /\ copier' = "idle"
  BY <1>2 DEF FinallyDown, Goto, Guarding, Inside, Measuring
<1> QED BY <1>1, <1>2, Zenon DEF Unwind

LEMMA StepGuarding ==
    ASSUME IInv, Guarding, Undone, PlainFiles, [Next]_vars
    PROVE  Guarding'
<1>0. TypeOK /\ AtWork /\ Outside /\ UNCHANGED experiment
  BY SameExperiment DEF IInv
<1>1. CASE UNCHANGED vars
  BY <1>0, <1>1 DEF vars, memory, Guarding, done_cells
<1>2. CASE NotReady \/ Raise \/ RaiseAfterHeader \/ Kill
  BY <1>2, GuardingUnwind, GuardingEnds DEF NotReady, Raise, RaiseAfterHeader, Kill
<1>3. CASE Start \/ Rerun
  <2>1. CASE Ends
    BY <2>1, GuardingEnds
  <2>2. CASE pc' \in {"arm", "start"} /\ UNCHANGED <<guarded, copier>> /\ pc \in {"start", "exit"}
    BY <1>0, <2>2 DEF Guarding, Outside, Inside, Measuring
  <2> QED BY <1>3, <2>1, <2>2 DEF Start, Rerun, Goto, memory
<1>4. CASE NextArm
  <2>1. CASE Ends
    BY <2>1, GuardingEnds
  <2>2. CASE wanted # {} /\ cell' = First(wanted) /\ BeginUp /\ UNCHANGED <<after, copier>>
    <3>1. cell' \notin done_cells /\ UNCHANGED done_cells /\ pc = "arm"
      BY <1>0, <1>4, <2>2, FirstWanted DEF NextArm, Undone, done_cells
    <3> QED BY <2>2, <3>1 DEF BeginUp, Goto, Guarding, Inside, Measuring
  <2> QED BY <1>4, <2>1, <2>2, Zenon DEF NextArm
<1>5. CASE PlainCell
  BY <1>0, <1>5 DEF PlainCell, Goto, Guarding, Inside, Measuring
<1>6. CASE NodesStarted
  BY <1>6 DEF NodesStarted, Goto, Guarding, Inside, Measuring, done_cells
<1>7. CASE Ready \/ Cleared
  BY <1>0, <1>7 DEF Ready, Cleared, FinallyDown, Goto, Guarding, Inside, Measuring
<1>8. CASE BeginCell
  BY <1>0, <1>8 DEF BeginCell, Goto, Guarding, Inside, Measuring
<1>9. CASE WatchOver \/ Hash \/ OpenCsv
  BY <1>0, <1>9 DEF WatchOver, Hash, OpenCsv, Goto, memory, Guarding, Inside, Measuring
<1>10. CASE Join
  <2>1. CASE Unwind
    BY <2>1, GuardingUnwind
  <2>2. CASE Goto("append") /\ copier' = "idle" /\ UNCHANGED guarded
    BY <1>0, <1>10, <2>2 DEF Join, Goto, Guarding, Inside, Measuring
  <2> QED BY <1>10, <2>1, <2>2, Zenon DEF Join
<1>11. CASE Append_row
  <2>1. /\ UNCHANGED <<cell, guarded, copier>> /\ copier = "idle" /\ wanted' = wanted \ {cell}
        /\ experiment # "C" => guarded
    BY <1>11 DEF Append_row, Guarding, Inside, Measuring
  <2>2. CASE ClearNext
    BY <1>0, <2>1, <2>2 DEF ClearNext, Goto, Guarding, Inside, Measuring
  <2>3. CASE RenewNext
    BY <1>0, <2>1, <2>3 DEF RenewNext, Goto, Guarding, Inside, Measuring
  <2>4. CASE PlainNext
    BY <1>0, <2>1, <2>4 DEF PlainNext, PlainFiles, Goto, Guarding, Inside, Measuring
  <2> QED BY <1>11, <2>2, <2>3, <2>4 DEF Append_row
<1>12. CASE ClearCell
  BY <1>0, <1>12 DEF ClearCell, Goto, Guarding, Inside, Measuring
<1>13. CASE Purge \/ PurgeFails
  <2>0. pc = "down" /\ UNCHANGED done_cells
    BY <1>13 DEF Purge, PurgeFails, done_cells
  <2>1. CASE Ends
    BY <2>1, GuardingEnds
  <2>2. CASE after = "up" /\ BeginUp /\ UNCHANGED copier
    BY <2>0, <2>2 DEF BeginUp, Goto, Guarding, Inside, Measuring
  <2>3. CASE after = "arm" /\ Goto("arm") /\ UNCHANGED memory
    BY <2>0, <2>3 DEF memory, Goto, Guarding, Inside, Measuring
  <2> QED BY <1>13, <2>1, <2>2, <2>3, Zenon DEF Purge, PurgeFails, TornDown
<1>14. CASE StartNode \/ RemoveNode \/ LookReady \/ LookAtCopy \/ LookAbsent
            \/ Deadline \/ NodeStarts \/ MeshStep \/ NodeExits \/ SlowStart \/ RemoveFails
  <2>1. UNCHANGED <<pc, csv, file, wanted, cell, guarded, after, copier>>
    BY <1>14 DEF StartNode, RemoveNode, LookReady, LookAtCopy, LookAbsent, Deadline,
                 NodeStarts, MeshStep, NodeExits, SlowStart, RemoveFails, memory
  <2> QED BY <1>0, <2>1 DEF Guarding, done_cells
<1>15. CASE Write \/ WriteFails
  <2>1. UNCHANGED <<pc, csv, file, wanted, cell, guarded, after>> /\ copier # "idle"
    BY <1>15 DEF Write, WriteFails
  <2> QED BY <1>0, <2>1 DEF Guarding, done_cells
<1> QED BY <1>1, <1>2, <1>3, <1>4, <1>5, <1>6, <1>7, <1>8, <1>9, <1>10, <1>11, <1>12, <1>13,
           <1>14, <1>15, Zenon DEF Next, Driver

LEMMA StepUndone ==
    ASSUME IInv, Undone, [Next]_vars
    PROVE  Undone'
<1>0. UNCHANGED done_cells \/ (Append_row /\ done_cells' \subseteq done_cells \cup {cell})
  BY DoneGrows
<1>1. CASE Append_row
  BY <1>0, <1>1 DEF Append_row, Undone
<1>2. CASE ~Append_row /\ wanted' \subseteq wanted
  BY <1>0, <1>2 DEF Undone
<1>3. CASE UNCHANGED vars
  BY <1>0, <1>1, <1>2, <1>3 DEF vars, memory
<1>4. CASE Start
  <2>1. wanted' = Cells \ done_cells \/ wanted' = {}
    BY <1>4 DEF Start, Ends
  <2>2. ~Append_row
    BY <1>4 DEF Start, Append_row
  <2> QED BY <1>0, <2>1, <2>2 DEF Undone
<1>5. CASE NotReady \/ Join \/ Raise \/ RaiseAfterHeader
  <2>1. wanted' \subseteq wanted
    BY <1>5 DEF NotReady, Join, Raise, RaiseAfterHeader, Unwind, Ends
  <2> QED BY <1>1, <1>2, <2>1
<1>6. CASE NextArm \/ Kill \/ Purge \/ PurgeFails
  <2>1. wanted' \subseteq wanted
    BY <1>6 DEF NextArm, Kill, Purge, PurgeFails, TornDown, Ends, memory
  <2> QED BY <1>1, <1>2, <2>1
<1>7. CASE PlainCell \/ Rerun \/ NodesStarted \/ Ready \/ BeginCell \/ WatchOver \/ Hash \/ OpenCsv
           \/ ClearCell \/ Cleared \/ StartNode \/ RemoveNode \/ LookReady \/ LookAtCopy
           \/ LookAbsent \/ Write \/ Deadline \/ NodeStarts \/ MeshStep \/ WriteFails \/ NodeExits
           \/ SlowStart \/ RemoveFails
  <2>1. UNCHANGED wanted
    BY <1>7 DEF PlainCell, Rerun, NodesStarted, Ready, BeginCell, WatchOver, Hash, OpenCsv,
                ClearCell, Cleared, StartNode, RemoveNode, LookReady, LookAtCopy, LookAbsent, Write,
                Deadline, NodeStarts, MeshStep, WriteFails, NodeExits, SlowStart, RemoveFails,
                memory
  <2> QED BY <1>1, <1>2, <2>1
<1> QED BY <1>1, <1>3, <1>4, <1>5, <1>6, <1>7, Zenon DEF Next, Driver

-----------------------------------------------------------------------------
(* What the mesh and the containers may do on their own.                   *)

\* A file of the mesh changes in one of two ways: a deletion it was told of
\* reaches a node, or a node takes the payload another one has in full.
LEMMA MeshChanges ==
    ASSUME TypeOK, MeshStep
    PROVE  \E c \in Cells, n \in Nodes, new \in Copy :
             /\ copy' = [copy EXCEPT ![c][n] = new]
             /\ UNCHANGED <<container, deleting, pc, csv, file, memory, history>>
             /\ \/ new = Missing /\ deleting[c]
                \/ \E m \in Nodes :
                     /\ copy[c][m].fill = "whole"
                     /\ new.payload = copy[c][m].payload
                     /\ copy[c][n] # copy[c][m]
                     /\ new.fill = "mixed" =>
                          (copy[c][n] # Missing /\ copy[c][n].payload # copy[c][m].payload)
<1>1. PICK c \in Cells, n \in Nodes : Spread(c, n) \/ Forget(c, n)
  BY DEF MeshStep
<1>2. UNCHANGED <<container, deleting, pc, csv, file, memory, history>>
  BY <1>1 DEF MeshStep, Spread, Forget
<1>3. copy \in [Cells -> [Nodes -> Copy]]
  BY DEF TypeOK, ClusterTypeOK
<1>4. CASE Forget(c, n)
  BY <1>2, <1>4, MissingType DEF Forget
<1>5. CASE Spread(c, n)
  <2>1. PICK m \in Nodes \ {n} :
           LET p == copy[c][m].payload IN
             /\ m \in Holders(c, p)
             /\ \/ /\ p > copy[c][n].payload
                   /\ copy' = [copy EXCEPT ![c][n] = [payload |-> p,
                                                      fill |-> Begun(copy[c][n])]]
                \/ /\ copy[c][n].payload = p
                   /\ copy[c][n].fill \in {"sparse", "mixed"}
                   /\ copy' = [copy EXCEPT ![c][n].fill = "whole"]
    BY <1>5, Zenon DEF Spread
  <2> DEFINE p == copy[c][m].payload
  <2>2. copy[c][m] \in Copy /\ copy[c][n] \in Copy /\ p \in Nat /\ copy[c][n].payload \in Nat
    BY <1>3 DEF Copy
  <2>3. copy[c][m] = [payload |-> p, fill |-> "whole"] /\ copy[c][m].fill = "whole"
    BY <2>1 DEF Holders
  <2>4. CASE /\ p > copy[c][n].payload
             /\ copy' = [copy EXCEPT ![c][n] = [payload |-> p, fill |-> Begun(copy[c][n])]]
    <3> DEFINE new == [payload |-> p, fill |-> Begun(copy[c][n])]
    <3>1. new \in Copy /\ new.payload = p /\ copy[c][n] # copy[c][m] /\ copy[c][n].payload # p
      BY <2>2, <2>4 DEF Copy, Begun
    <3>2. new.fill = "mixed" => copy[c][n] # Missing
      BY DEF Begun, complete, Missing
    <3>3. copy' = [copy EXCEPT ![c][n] = new]
      BY <2>4
    <3> HIDE DEF new
    <3> QED BY <1>2, <2>3, <3>1, <3>2, <3>3
  <2>5. CASE /\ copy[c][n].payload = p /\ copy[c][n].fill \in {"sparse", "mixed"}
             /\ copy' = [copy EXCEPT ![c][n].fill = "whole"]
    <3> DEFINE new == [payload |-> p, fill |-> "whole"]
    <3>1. new \in Copy /\ new.payload = p /\ copy[c][n] # copy[c][m] /\ new.fill # "mixed"
      BY <2>2, <2>3, <2>5 DEF Copy
    <3>2. [copy[c][n] EXCEPT !.fill = "whole"] = new
      BY <2>2, <2>5 DEF Copy
    <3>3. copy' = [copy EXCEPT ![c][n] = new]
      BY <1>3, <2>5, <3>2
    <3> HIDE DEF new
    <3> QED BY <1>2, <2>3, <3>1, <3>3
  <2> QED BY <2>1, <2>4, <2>5
<1> QED BY <1>1, <1>4, <1>5

\* Where there is nothing, nothing comes of itself.
LEMMA CleanStays ==
    ASSUME TypeOK, NEW a \in Arms, Clean(a), NodeStarts \/ NodeExits \/ MeshStep
    PROVE  Clean(a)'
<1>1. CASE NodeStarts \/ NodeExits
  <2>1. PICK b \in Arms, n \in Nodes : Starts(b, n) \/ Exits(b, n)
    BY <1>1 DEF NodeStarts, NodeExits
  <2>2. container[b][n] # "none" /\ UNCHANGED copy
    BY <2>1 DEF Starts, Exits
  <2>3. b # a
    BY <2>2 DEF Clean
  <2>4. container'[a] = container[a]
    BY <2>1, <2>3 DEF Starts, Exits, TypeOK, ClusterTypeOK
  <2> QED BY <2>2, <2>4 DEF Clean
<1>2. CASE MeshStep
  <2>1. PICK c \in Cells, n \in Nodes, new \in Copy :
             /\ copy' = [copy EXCEPT ![c][n] = new]
             /\ UNCHANGED container
             /\ \/ new = Missing
                \/ \E m \in Nodes : copy[c][m].fill = "whole"
    BY <1>2, MeshChanges
  <2>2. copy \in [Cells -> [Nodes -> Copy]]
    BY DEF TypeOK, ClusterTypeOK
  <2>3. ASSUME NEW d \in CellsOf(a), NEW m \in Nodes
        PROVE  copy'[d][m] = Missing
    <3>1. d \in Cells /\ \A k \in Nodes : copy[d][k] = Missing
      BY DEF Clean, CellsOf
    <3>2. d = c => new = Missing
      BY <2>1, <3>1 DEF Missing
    <3> QED BY <2>1, <2>2, <3>1, <3>2
  <2> QED BY <2>1, <2>3 DEF Clean
<1> QED BY <1>1, <1>2

-----------------------------------------------------------------------------
(* The smaller parts of the invariant.                                     *)

LEMMA ToldFrame ==
    ASSUME Told, UNCHANGED <<experiment, deleting>>, Left' \subseteq Left,
           pc' \in Inside \cup {"ready"} \/ (pc' = "up" /\ todo' # Nodes) =>
              pc \in Inside \cup {"ready"} \/ (pc = "up" /\ todo # Nodes)
    PROVE  Told'
BY DEF Told

LEMMA StepTold ==
    ASSUME IInv, Guarding, Told, [Next]_vars
    PROVE  Told'
<1>0. /\ TypeOK /\ AtWork /\ Cells \subseteq Nat /\ deleting \in [Cells -> BOOLEAN]
      /\ UNCHANGED experiment
  BY SameExperiment DEF IInv, TypeOK, ClusterTypeOK, Cells
<1>1. CASE pc' \notin Inside \cup {"ready", "up"} \/ (pc' = "up" /\ todo' = Nodes)
  BY <1>1 DEF Told, Inside, Measuring
<1>2. CASE /\ UNCHANGED <<deleting, wanted, cell>>
           /\ UNCHANGED <<pc, todo>> \/ (pc \in Inside \cup {"ready"} /\ pc' # "up")
  <2>1. Left' = Left
    BY <1>2 DEF Left, CellsOf, arm
  <2> QED BY <1>0, <1>2, <2>1, ToldFrame DEF Inside, Measuring
<1>3. CASE UNCHANGED vars
  BY <1>2, <1>3 DEF vars, memory, wait, cluster
<1>4. CASE PlainCell
  BY <1>0, <1>4 DEF PlainCell, Told
<1>5. CASE StartNode
  <2>1. ASSUME NEW c \in Left'
        PROVE  ~deleting'[c]
    BY <1>0, <1>5, <2>1 DEF StartNode, start_node, Left, CellsOf, arm
  <2> QED BY <2>1 DEF Told
<1>6. CASE NodesStarted
  <2>1. Nodes # {}
    BY NodeCountAssumption DEF Nodes
  <2>2. Left' = Left /\ UNCHANGED deleting
    BY <1>6 DEF NodesStarted, Left, CellsOf, arm, cluster
  <2> QED BY <1>0, <1>6, <2>1, <2>2, ToldFrame DEF NodesStarted
<1>7. CASE ClearCell
  <2>1. /\ deleting' = [deleting EXCEPT ![cell] = TRUE] /\ Left' = Left /\ pc = "clear"
        /\ cell \notin wanted
    BY <1>7 DEF ClearCell, Left, CellsOf, arm, Guarding
  <2>2. ASSUME NEW c \in Left', experiment # "C"
        PROVE  ~deleting'[c]
    BY <1>0, <2>1, <2>2 DEF Told, Left, CellsOf, Inside
  <2> QED BY <1>0, <2>2 DEF Told
<1>8. CASE BeginCell
  <2>1. cell' \in Left /\ UNCHANGED <<wanted, deleting>> /\ pc = "cell"
    BY <1>0, <1>8, FirstWanted DEF BeginCell, AtWork, cluster
  <2>2. Left' = Left
    BY <2>1 DEF Left, CellsOf, arm
  <2> QED BY <1>0, <2>1, <2>2, ToldFrame DEF Inside
<1>9. CASE Append_row
  <2>1. UNCHANGED <<cell, deleting>> /\ wanted' = wanted \ {cell} /\ pc \in Inside
    BY <1>9 DEF Append_row, cluster, Inside, Measuring
  <2>2. Left' \subseteq Left
    BY <2>1 DEF Left, CellsOf, arm
  <2> QED BY <1>0, <2>1, <2>2, ToldFrame
<1>10. CASE NotReady \/ Join \/ Raise \/ RaiseAfterHeader
  <2>1. CASE Unwind
    BY <1>1, <2>1 DEF Unwind, FinallyDown, Ends, Goto, Inside, Measuring
  <2>2. CASE Join /\ Goto("append") /\ UNCHANGED <<wanted, cell>>
    BY <1>2, <2>2 DEF Join, Goto, cluster, Inside, Measuring
  <2> QED BY <1>10, <2>1, <2>2 DEF NotReady, Join, Raise, RaiseAfterHeader
<1>11. CASE Start \/ NextArm \/ Rerun \/ Kill
  BY <1>1, <1>11 DEF Start, NextArm, Rerun, Kill, BeginUp, ForEachNode, Ends, Goto, Inside,
                    Measuring
<1>12. CASE Purge \/ PurgeFails
  BY <1>1, <1>12 DEF Purge, PurgeFails, TornDown, BeginUp, ForEachNode, Ends, Goto, Inside,
                    Measuring
<1>13. CASE Ready \/ Cleared
  <2>1. CASE FinallyDown("arm")
    BY <1>1, <2>1 DEF FinallyDown, Goto, Inside, Measuring
  <2>2. CASE Goto("cell")
    BY <1>2, <1>13, <2>2 DEF Ready, Cleared, Goto, cluster, Inside
  <2> QED BY <1>13, <2>1, <2>2 DEF Ready, Cleared
<1>14. CASE WatchOver \/ Hash \/ OpenCsv \/ LookReady \/ LookAtCopy \/ LookAbsent \/ Deadline
            \/ SlowStart
  BY <1>2, <1>14 DEF WatchOver, Hash, OpenCsv, LookReady, LookAtCopy, LookAbsent, Deadline,
                     SlowStart, Goto, memory, cluster, Inside, Measuring
<1>15. CASE RemoveNode \/ RemoveFails
  BY <1>1, <1>15 DEF RemoveNode, RemoveFails, Inside, Measuring
<1>16. CASE Write \/ WriteFails \/ NodeStarts \/ NodeExits \/ MeshStep
  <2>1. UNCHANGED <<pc, todo, wanted, cell, deleting>>
    BY <1>16 DEF Write, WriteFails, NodeStarts, NodeExits, MeshStep, Starts, Exits, Spread, Forget,
                 memory, wait, cluster
  <2> QED BY <1>2, <2>1
<1> QED BY <1>3, <1>4, <1>5, <1>6, <1>7, <1>8, <1>9, <1>10, <1>11, <1>12, <1>13, <1>14, <1>15,
           <1>16, Zenon DEF Next, Driver

LEMMA StepRemoved ==
    ASSUME IInv, Removed, [Next]_vars
    PROVE  Removed'
<1> SUFFICES ASSUME ~littered' PROVE Removed'
  BY DEF Removed
<1>0. /\ TypeOK /\ arm \in Arms /\ container \in [Arms -> [Nodes -> ContainerState]] /\ ~littered
      /\ ~ (Kill \/ RemoveFails \/ PurgeFails)
  BY ArmType, LitterStays DEF IInv, TypeOK, ClusterTypeOK
<1>1. CASE pc' # "down"
  BY <1>1 DEF Removed
<1>2. CASE todo' = Nodes
  BY <1>2 DEF Removed
<1>3. CASE UNCHANGED <<pc, todo, cell, container>>
  BY <1>0, <1>3 DEF Removed, arm
<1>4. CASE UNCHANGED vars
  BY <1>3, <1>4 DEF vars, memory, wait, cluster
<1>5. CASE RemoveNode
  <2>1. /\ container' = [container EXCEPT ![arm][First(todo)] = "none"]
        /\ pc = "down" /\ todo' = todo \ {First(todo)} /\ UNCHANGED cell
    BY <1>5 DEF RemoveNode, down
  <2> QED BY <1>0, <2>1 DEF Removed, arm
<1>6. CASE NodeStarts \/ NodeExits
  <2>1. PICK a \in Arms, n \in Nodes : Starts(a, n) \/ Exits(a, n)
    BY <1>6 DEF NodeStarts, NodeExits
  <2>2. UNCHANGED <<pc, todo, cell>>
    BY <1>6 DEF NodeStarts, NodeExits, memory, wait
  <2>3. ASSUME NEW m \in Nodes, container[arm][m] = "none"
        PROVE  container'[arm][m] = "none"
    BY <1>0, <2>1, <2>3 DEF Starts, Exits
  <2> QED BY <1>0, <2>2, <2>3 DEF Removed, arm
<1>7. CASE NotReady \/ Join \/ Raise \/ RaiseAfterHeader
  BY <1>1, <1>2, <1>7 DEF NotReady, Join, Raise, RaiseAfterHeader, Unwind, FinallyDown, ForEachNode,
                          Ends, Goto
<1>8. CASE Ready \/ Cleared \/ Append_row
  BY <1>1, <1>2, <1>8 DEF Ready, Cleared, Append_row, ClearNext, RenewNext, PlainNext, FinallyDown,
                          ForEachNode, Goto
<1>9. CASE Start \/ NextArm \/ PlainCell \/ Rerun \/ NodesStarted \/ BeginCell \/ WatchOver \/ Hash
           \/ OpenCsv \/ ClearCell \/ Purge
  BY <1>1, <1>9 DEF Start, NextArm, PlainCell, Rerun, NodesStarted, BeginCell, WatchOver, Hash,
                    OpenCsv, ClearCell, Purge, TornDown, BeginUp, Ends, Goto
<1>10. CASE StartNode \/ LookReady \/ LookAtCopy \/ LookAbsent \/ SlowStart \/ Deadline
  BY <1>1, <1>10 DEF StartNode, LookReady, LookAtCopy, LookAbsent, SlowStart, Deadline
<1>11. CASE Write \/ MeshStep \/ WriteFails
  BY <1>3, <1>11 DEF Write, MeshStep, WriteFails, memory, wait, cluster, Spread, Forget
<1> QED BY <1>0, <1>4, <1>5, <1>6, <1>7, <1>8, <1>9, <1>10, <1>11, Zenon DEF Next, Driver

LEMMA StepPlain ==
    ASSUME IInv, Guarding, PlainFiles, [Next]_vars
    PROVE  PlainFiles'
<1> DEFINE Plain == {"start", "arm", "append", "head", "write", "exit"}
<1> SUFFICES ASSUME experiment = "C"
             PROVE  pc' \in Plain /\ ~guarded' /\ \A a \in Arms : Clean(a)'
  BY SameExperiment DEF PlainFiles
<1>1. TypeOK /\ pc \in Plain /\ ~guarded /\ \A a \in Arms : Clean(a)
  BY DEF IInv, PlainFiles
<1>2. copier = "idle"
  BY <1>1 DEF Guarding
<1>3. CASE UNCHANGED cluster /\ pc' \in Plain /\ ~guarded'
  BY <1>1, <1>3 DEF Clean, cluster
<1>4. CASE UNCHANGED vars
  BY <1>1, <1>3, <1>4 DEF vars, memory
<1>5. CASE Start \/ NextArm \/ PlainCell \/ OpenCsv \/ Rerun \/ Kill
  BY <1>1, <1>3, <1>5 DEF Start, NextArm, PlainCell, OpenCsv, Rerun, Kill, Ends, Goto, memory
<1>6. CASE Append_row
  BY <1>1, <1>3, <1>6 DEF Append_row, ClearNext, RenewNext, PlainNext, Goto
<1>7. CASE Raise \/ RaiseAfterHeader
  BY <1>1, <1>3, <1>7 DEF Raise, RaiseAfterHeader, Unwind, Ends, Goto
<1>8. CASE NodeStarts \/ NodeExits \/ MeshStep
  BY <1>1, <1>8, CleanStays DEF NodeStarts, NodeExits, MeshStep, memory
<1>9. ~ (Write \/ WriteFails)
  BY <1>2 DEF Write, WriteFails
<1>10. ~ (StartNode \/ NodesStarted \/ LookReady \/ NotReady \/ Ready \/ BeginCell \/ LookAtCopy
          \/ WatchOver \/ Hash \/ Join \/ ClearCell \/ LookAbsent \/ Cleared
          \/ RemoveNode \/ Purge \/ SlowStart \/ Deadline \/ RemoveFails \/ PurgeFails)
  BY <1>1 DEF StartNode, NodesStarted, LookReady, NotReady, Ready, BeginCell, LookAtCopy,
              WatchOver, Hash, Join, ClearCell, LookAbsent, Cleared, RemoveNode,
              Purge, SlowStart, Deadline, RemoveFails, PurgeFails
<1> QED BY <1>4, <1>5, <1>6, <1>7, <1>8, <1>9, <1>10, Zenon DEF Next, Driver

-----------------------------------------------------------------------------
(* What is left of an arm is left to somebody.                             *)

LEMMA CleanFrame ==
    ASSUME NEW a, Clean(a), UNCHANGED cluster
    PROVE  Clean(a)'
BY DEF Clean, cluster

LEMMA KeptFrame ==
    ASSUME NEW a, Kept(a), UNCHANGED <<done_cells, cell>>,
           guarded \/ pc = "down" => guarded' \/ pc' = "down"
    PROVE  Kept(a)'
BY DEF Kept, CellsOf, arm

\* Outside the try and the teardown only a run to come keeps an arm.
LEMMA KeptByPlan ==
    ASSUME NEW a, Kept(a), ~guarded \/ a # arm, pc # "down" \/ a # arm, UNCHANGED done_cells
    PROVE  Kept(a)'
BY DEF Kept, CellsOf, arm

LEMMA StepTidy ==
    ASSUME IInv, Guarding, Removed, PlainFiles, Tidy, [Next]_vars
    PROVE  Tidy'
<1> SUFFICES ASSUME ~littered', NEW a \in Arms
             PROVE  Clean(a)' \/ Kept(a)'
  BY DEF Tidy
<1>0. /\ TypeOK /\ AtWork /\ Outside /\ cell \in Cells /\ arm \in Arms /\ cell \in CellsOf(arm)
      /\ container \in [Arms -> [Nodes -> ContainerState]]
      /\ copy \in [Cells -> [Nodes -> Copy]]
      /\ ~littered /\ ~ (Kill \/ RemoveFails \/ PurgeFails)
  BY ArmType, LitterStays DEF IInv, TypeOK, ClusterTypeOK, CellsOf, arm
<1>1. Clean(a) \/ Kept(a)
  BY <1>0 DEF Tidy
<1>d. UNCHANGED done_cells \/ (Append_row /\ done_cells' \subseteq done_cells \cup {cell})
  BY DoneGrows
<1>c. CASE experiment = "C"
  BY <1>c, StepPlain, SameExperiment DEF PlainFiles
<1>2. CASE UNCHANGED vars
  <2>1. UNCHANGED <<done_cells, cell, pc, guarded>> /\ UNCHANGED cluster
    BY <1>2 DEF vars, memory, done_cells
  <2> QED BY <1>1, <2>1, CleanFrame, KeptFrame
<1>3. CASE NodesStarted \/ LookReady \/ LookAtCopy \/ WatchOver \/ Hash \/ OpenCsv \/ LookAbsent
           \/ Rerun \/ Deadline \/ SlowStart \/ WriteFails
  <2>1. /\ UNCHANGED cell /\ UNCHANGED cluster /\ ~Append_row
        /\ (pc # "down" /\ UNCHANGED guarded) \/ UNCHANGED <<pc, guarded>>
    BY <1>3 DEF NodesStarted, LookReady, LookAtCopy, WatchOver, Hash, OpenCsv, LookAbsent, Rerun,
                Deadline, SlowStart, WriteFails, Append_row, memory
  <2> QED BY <1>1, <1>d, <2>1, CleanFrame, KeptFrame
<1>4. CASE NotReady \/ Join \/ Raise \/ RaiseAfterHeader
  <2>1. UNCHANGED cluster /\ (pc # "down" \/ guarded)
    BY <1>4, LitterStays DEF NotReady, Join, Raise, RaiseAfterHeader
  <2>2. CASE Append_row
    BY <1>4, <2>2 DEF NotReady, Join, Raise, RaiseAfterHeader, Append_row, ClearNext, RenewNext,
                      PlainNext, Unwind, FinallyDown, Ends, Fault, history, Goto, Nowhere
  <2>3. CASE guarded /\ FinallyDown("exit") /\ UNCHANGED cell
    BY <1>1, <1>d, <2>1, <2>2, <2>3, CleanFrame, KeptFrame DEF FinallyDown, Goto
  <2>4. CASE ~guarded
    BY <1>1, <1>d, <2>1, <2>2, <2>4, CleanFrame, KeptByPlan
  <2>5. CASE UNCHANGED <<cell, guarded>> /\ pc # "down"
    BY <1>1, <1>d, <2>1, <2>2, <2>5, CleanFrame, KeptFrame
  <2> QED BY <1>4, <2>3, <2>4, <2>5 DEF NotReady, Join, Raise, RaiseAfterHeader, Unwind
<1>5. CASE Start \/ NextArm
  <2>1. UNCHANGED cluster /\ pc \in {"start", "arm"} /\ ~guarded /\ ~Append_row
    BY <1>0, <1>5 DEF Start, NextArm, Guarding, Outside, Append_row
  <2> QED BY <1>1, <1>d, <2>1, CleanFrame, KeptByPlan
<1>6. CASE PlainCell
  BY <1>c, <1>6 DEF PlainCell
<1>7. CASE Ready \/ Cleared
  <2>1. /\ UNCHANGED cluster /\ UNCHANGED cell /\ ~Append_row
        /\ guarded \/ pc = "down" => guarded' \/ pc' = "down"
    BY <1>7 DEF Ready, Cleared, FinallyDown, Goto, Append_row
  <2> QED BY <1>1, <1>d, <2>1, CleanFrame, KeptFrame
<1>8. CASE BeginCell
  <2>1. UNCHANGED cluster /\ UNCHANGED guarded /\ pc = "cell" /\ ~Append_row
    BY <1>8 DEF BeginCell, Append_row
  <2>2. cell' \in Left
    BY <1>0, <1>8, FirstWanted DEF BeginCell, AtWork
  <2>3. UNCHANGED arm
    BY <2>2 DEF Left, CellsOf, arm
  <2>4. Kept(a) => Kept(a)'
    BY <1>d, <2>1, <2>3 DEF Kept, CellsOf
  <2> QED BY <1>1, <2>1, <2>4, CleanFrame
<1>9. CASE Append_row /\ experiment # "C"
  <2>1. UNCHANGED cluster /\ UNCHANGED <<cell, guarded>> /\ guarded
    BY <1>9 DEF Append_row, Guarding, Inside, Measuring
  <2>2. CASE a = arm
    BY <2>1, <2>2 DEF Kept, arm
  <2>3. CASE a # arm /\ Kept(a)
    <3>1. PICK c \in CellsOf(a) : c \notin done_cells
      BY <2>3 DEF Kept
    <3>2. c # cell
      BY <2>3, <3>1 DEF CellsOf, arm
    <3> QED BY <1>d, <3>1, <3>2 DEF Kept, CellsOf
  <2> QED BY <1>1, <2>1, <2>2, <2>3, CleanFrame
<1>10. CASE StartNode
  <2>1. /\ container' = [container EXCEPT ![arm][First(todo)] = "starting"]
        /\ UNCHANGED <<copy, cell, guarded, pc>> /\ pc = "up" /\ ~Append_row
    BY <1>10 DEF StartNode, start_node, Append_row
  <2>2. CASE a = arm
    BY <1>0, <1>d, <2>1, <2>2 DEF Guarding, Kept, CellsOf, arm
  <2>3. CASE a # arm /\ Clean(a)
    BY <1>0, <2>1, <2>3 DEF Clean
  <2> QED BY <1>1, <1>d, <2>1, <2>2, <2>3, KeptFrame
<1>11. CASE RemoveNode
  <2>1. /\ container' = [container EXCEPT ![arm][First(todo)] = "none"]
        /\ UNCHANGED <<copy, cell, guarded, pc>> /\ pc = "down" /\ ~Append_row
    BY <1>11 DEF RemoveNode, down, Append_row
  <2>2. CASE a = arm
    BY <2>1, <2>2 DEF Kept, arm
  <2>3. CASE a # arm /\ Clean(a)
    BY <1>0, <2>1, <2>3 DEF Clean
  <2> QED BY <1>1, <1>d, <2>1, <2>2, <2>3, KeptFrame
<1>12. CASE Purge
  <2>1. /\ copy' = [c \in Cells |->
                     IF ArmOf[c] = arm
                     THEN [n \in Nodes |-> IF n \in {} THEN copy[c][n] ELSE Missing]
                     ELSE copy[c]]
        /\ UNCHANGED container /\ pc = "down" /\ todo = {} /\ ~Append_row
    BY <1>12 DEF Purge, purge, Append_row
  <2>2. CASE a = arm
    <3>1. \A n \in Nodes : container[a][n] = "none"
      BY <1>0, <2>1, <2>2 DEF Removed
    <3> QED BY <2>1, <2>2, <3>1 DEF Clean, CellsOf
  <2>3. CASE a # arm /\ Clean(a)
    BY <1>0, <2>1, <2>3 DEF Clean, CellsOf
  <2> QED BY <1>1, <1>d, <2>1, <2>2, <2>3, KeptByPlan
<1>13. CASE Write
  <2>1. guarded \/ experiment = "C"
    BY <1>13 DEF Write, Guarding, Inside, Measuring
  <2>2. \E new : copy' = [copy EXCEPT ![cell][writer] = new]
    BY <1>13, Zenon DEF Write
  <2>3. UNCHANGED <<pc, cell, guarded, container, csv, file>>
    BY <1>13 DEF Write
  <2>4. CASE a = arm
    BY <1>c, <2>1, <2>3, <2>4 DEF Kept, arm
  <2>5. CASE a # arm /\ Clean(a)
    BY <1>0, <2>2, <2>3, <2>5 DEF Clean, CellsOf, arm
  <2>6. UNCHANGED done_cells
    BY <2>3 DEF done_cells
  <2> QED BY <1>1, <2>3, <2>4, <2>5, <2>6, KeptFrame
<1>14. CASE ClearCell
  <2>1. /\ copy' = [copy EXCEPT ![cell][writer] = Missing]
        /\ UNCHANGED <<cell, guarded, container>> /\ pc = "clear" /\ ~Append_row
    BY <1>14 DEF ClearCell, Append_row
  <2>2. Clean(a) => Clean(a)'
    BY <1>0, <2>1 DEF Clean, CellsOf
  <2> QED BY <1>1, <1>d, <2>1, <2>2, KeptFrame
<1>15. CASE NodeStarts \/ NodeExits \/ MeshStep
  <2>1. UNCHANGED <<pc, cell, guarded, csv, file>>
    BY <1>15 DEF NodeStarts, NodeExits, MeshStep, memory
  <2>2. UNCHANGED done_cells
    BY <2>1 DEF done_cells
  <2> QED BY <1>0, <1>1, <1>15, <2>1, <2>2, CleanStays, KeptFrame
<1> QED BY <1>0, <1>c, <1>2, <1>3, <1>4, <1>5, <1>6, <1>7, <1>8, <1>9, <1>10, <1>11, <1>12, <1>13,
           <1>14, <1>15, Zenon DEF Next, Driver

-----------------------------------------------------------------------------
(* A cell that is still to be measured has no file.                        *)

LEMMA FreshFrame ==
    ASSUME NEW c, FreshCell(c), UNCHANGED copy,
           pc \in Inside \cup {"down"} =>
              /\ arm' = arm /\ pc' \in Inside \cup {"down"} /\ wanted' \subseteq wanted
              /\ (c \in wanted' /\ c = cell /\ pc \in Measuring \cup {"down"}) =>
                    (cell' = cell /\ pc' \in Measuring \cup {"down"})
    PROVE  FreshCell(c)'
BY DEF FreshCell

LEMMA StepFresh ==
    ASSUME IInv, Guarding, PlainFiles, Fresh, [Next]_vars
    PROVE  Fresh'
<1> SUFFICES ASSUME ~littered', NEW c \in Cells
             PROVE  FreshCell(c)'
  BY DEF Fresh
<1>0. /\ TypeOK /\ AtWork /\ cell \in Cells /\ copy \in [Cells -> [Nodes -> Copy]]
      /\ ~littered /\ ~ (Kill \/ RemoveFails \/ PurgeFails)
  BY LitterStays DEF IInv, TypeOK, ClusterTypeOK
<1>1. FreshCell(c)
  BY <1>0 DEF Fresh
<1>c. CASE experiment = "C"
  <2>1. Clean(ArmOf[c])' /\ c \in CellsOf(ArmOf[c])
    BY <1>c, StepPlain, SameExperiment DEF PlainFiles, Arms, CellsOf
  <2> QED BY <2>1 DEF Clean, CellsOf, FreshCell
<1>2. CASE UNCHANGED vars
  BY <1>1, <1>2, FreshFrame DEF vars, memory, cluster, arm
<1>3. CASE WatchOver \/ Hash \/ OpenCsv \/ LookAtCopy \/ Deadline \/ WriteFails \/ RemoveNode
           \/ NodeStarts \/ NodeExits \/ LookAbsent
  <2>1. /\ UNCHANGED <<wanted, cell, copy>>
        /\ UNCHANGED pc \/ (pc \in Measuring /\ pc' \in Measuring)
    BY <1>3 DEF WatchOver, Hash, OpenCsv, LookAtCopy, Deadline, WriteFails, RemoveNode, NodeStarts,
                NodeExits, LookAbsent, down, Starts, Exits, Goto, memory, cluster, Measuring
  <2> QED BY <1>1, <2>1, FreshFrame DEF arm, Inside
<1>4. CASE Start \/ NextArm \/ PlainCell \/ NodesStarted \/ LookReady \/ NotReady \/ Ready \/ Rerun
           \/ SlowStart \/ StartNode
  <2>1. UNCHANGED copy /\ pc \notin Inside \cup {"down"}
    BY <1>4 DEF Start, NextArm, PlainCell, NodesStarted, LookReady, NotReady, Ready, Rerun,
                SlowStart, StartNode, start_node, cluster, Inside, Measuring
  <2> QED BY <1>1, <2>1, FreshFrame
<1>5. CASE BeginCell
  <2>1. UNCHANGED <<copy, wanted>> /\ pc = "cell" /\ pc' = "watch" /\ cell' \in Left
    BY <1>0, <1>5, FirstWanted DEF BeginCell, AtWork, cluster, Goto
  <2>2. arm' = arm
    BY <2>1 DEF Left, CellsOf, arm
  <2> QED BY <1>1, <2>1, <2>2, FreshFrame DEF Inside, Measuring
<1>6. CASE Cleared
  <2>1. UNCHANGED <<copy, wanted, cell>> /\ pc = "absent" /\ pc' \in {"cell", "down"}
    BY <1>6 DEF Cleared, FinallyDown, Goto, cluster
  <2> QED BY <1>1, <2>1, FreshFrame DEF arm, Inside, Measuring
<1>7. CASE (Join \/ Raise \/ RaiseAfterHeader) /\ experiment # "C"
  <2>1. UNCHANGED copy
    BY <1>7 DEF Join, Raise, RaiseAfterHeader, cluster
  <2>2. pc \in Inside \cup {"down"} => guarded
    BY <1>7, LitterStays DEF Guarding, Join, RaiseAfterHeader
  <2>3. pc \in Inside \cup {"down"} =>
           UNCHANGED <<wanted, cell>> /\ (pc' = "down" \/ (pc' = "append" /\ pc = "join"))
    BY <1>7, <2>2 DEF Join, Raise, RaiseAfterHeader, Unwind, FinallyDown, Goto
  <2> QED BY <1>1, <2>1, <2>3, FreshFrame DEF arm, Inside, Measuring
<1>8. CASE Append_row /\ experiment # "C"
  <2>1. /\ UNCHANGED <<copy, cell>> /\ wanted' = wanted \ {cell} /\ pc' \in {"clear", "down"}
    BY <1>8 DEF Append_row, ClearNext, RenewNext, PlainNext, Goto, cluster
  <2> QED BY <1>1, <2>1, FreshFrame DEF arm, Inside, Measuring
<1>9. CASE Purge
  <2>1. copy' = [d \in Cells |->
                   IF ArmOf[d] = arm
                   THEN [n \in Nodes |-> IF n \in {} THEN copy[d][n] ELSE Missing]
                   ELSE copy[d]]
    BY <1>9 DEF Purge, purge
  <2>2. CASE ArmOf[c] = arm
    BY <2>1, <2>2 DEF FreshCell
  <2>3. CASE ArmOf[c] # arm
    BY <1>1, <2>1, <2>3 DEF FreshCell
  <2> QED BY <2>2, <2>3
<1>10. CASE Write
  <2>1. pc \in Measuring /\ UNCHANGED <<pc, wanted, cell>>
    BY <1>10 DEF Write, Guarding, Measuring
  <2>2. \E new : copy' = [copy EXCEPT ![cell][writer] = new]
    BY <1>10, Zenon DEF Write
  <2>3. CASE c = cell
    BY <2>1, <2>3 DEF FreshCell, arm, Inside
  <2>4. CASE c # cell
    BY <1>0, <1>1, <2>1, <2>2, <2>4 DEF FreshCell, arm
  <2> QED BY <2>3, <2>4
<1>11. CASE ClearCell
  <2>1. cell \notin wanted /\ UNCHANGED <<wanted, cell>> /\ pc = "clear" /\ pc' = "absent"
    BY <1>11 DEF ClearCell, Guarding, Goto
  <2>2. copy' = [copy EXCEPT ![cell][writer] = Missing]
    BY <1>11 DEF ClearCell
  <2>3. CASE c = cell
    BY <2>1, <2>3 DEF FreshCell, arm, Inside
  <2>4. CASE c # cell
    BY <1>0, <1>1, <2>1, <2>2, <2>4 DEF FreshCell, arm, Inside, Measuring
  <2> QED BY <2>3, <2>4
<1>12. CASE MeshStep
  <2>1. PICK d \in Cells, n \in Nodes, new \in Copy :
             /\ copy' = [copy EXCEPT ![d][n] = new]
             /\ UNCHANGED <<pc, csv, memory>>
             /\ \/ new = Missing
                \/ \E m \in Nodes : copy[d][m].fill = "whole"
    BY <1>0, <1>12, MeshChanges
  <2>2. (\A m \in Nodes : copy[c][m] = Missing) => (d = c => new = Missing)
    BY <2>1 DEF Missing
  <2>3. (\A m \in Nodes : copy[c][m] = Missing) => \A m \in Nodes : copy'[c][m] = Missing
    BY <1>0, <2>1, <2>2
  <2> QED BY <1>1, <2>1, <2>3 DEF FreshCell, memory, arm
<1> QED BY <1>0, <1>c, <1>2, <1>3, <1>4, <1>5, <1>6, <1>7, <1>8, <1>9, <1>10, <1>11, <1>12, Zenon
        DEF Next, Driver

-----------------------------------------------------------------------------
(* While a cell is measured its copies are its own.                        *)

LEMMA StepOwn ==
    ASSUME IInv, Guarding, Told, Fresh, Own, OnePayload, [Next]_vars
    PROVE  Own'
<1> SUFFICES ASSUME ~littered', experiment' # "C", pc' \in Measuring, NEW n \in Nodes
             PROVE  OwnCopy(n)'
  BY DEF Own
<1>0. /\ TypeOK /\ AtWork /\ cell \in Cells /\ attempt \in Nat
      /\ copy \in [Cells -> [Nodes -> Copy]]
      /\ arrived \in [Nodes -> Nat \cup {NotArrived}]
  BY DEF IInv, TypeOK, ClusterTypeOK
<1>1. /\ ~littered /\ ~ (Kill \/ RemoveFails \/ PurgeFails)
      /\ experiment # "C" /\ UNCHANGED experiment
  BY LitterStays, SameExperiment
<1>2. pc \in Measuring => \A m \in Nodes : OwnCopy(m)
  BY <1>1 DEF Own
<1>3. CASE pc \in Measuring /\ UNCHANGED <<copy, cell, attempt, arrived, copier>>
  BY <1>2, <1>3 DEF OwnCopy, Mine
<1>4. CASE UNCHANGED vars
  BY <1>3, <1>4 DEF vars, memory, history, cluster
<1>5. CASE BeginCell
  <2>1. cell' \in Left /\ cell' \in Cells /\ pc = "cell"
    BY <1>0, <1>5, FirstWanted DEF BeginCell, AtWork
  <2>2. \A m \in Nodes : copy[cell'][m] = Missing
    BY <1>1, <2>1 DEF Fresh, FreshCell, Measuring, Left
  <2>3. UNCHANGED copy /\ arrived'[n] = NotArrived
    BY <1>5 DEF BeginCell, cluster, Nowhere
  <2>4. copy'[cell'][n] = Missing
    BY <2>2, <2>3
  <2> QED BY <2>3, <2>4 DEF OwnCopy, Missing
<1>6. CASE LookAtCopy
  <2>1. UNCHANGED <<copy, cell, attempt, copier>> /\ pc \in Measuring
    BY <1>6 DEF LookAtCopy, cluster, history, Measuring
  <2>2. CASE UNCHANGED arrived
    BY <1>3, <2>1, <2>2
  <2>3. CASE /\ todo # {} /\ complete(copy[cell][First(todo)])
             /\ arrived' = [arrived EXCEPT ![First(todo)] = copy[cell][First(todo)].payload]
    <3>1. First(todo) \in Nodes
      BY <1>0, <2>3, FirstNode DEF TypeOK
    <3>2. CASE n # First(todo)
      <4>1. arrived'[n] = arrived[n]
        BY <1>0, <2>3, <3>1, <3>2
      <4> QED BY <1>2, <2>1, <4>1 DEF OwnCopy, Mine
    <3>3. CASE n = First(todo)
      <4>1. arrived'[n] = copy[cell][n].payload /\ copy[cell][n].fill = "whole"
        BY <1>0, <1>1, <2>3, <3>1, <3>3 DEF complete, OnePayload, SameCopies
      <4>2. copy[cell][n] \in Copy /\ copy[cell][n] # Missing
        BY <1>0, <4>1 DEF Missing
      <4>3. copy[cell][n].payload = attempt
        BY <1>2, <2>1, <4>2 DEF OwnCopy
      <4>4. copy[cell][n] = Mine
        BY <4>1, <4>2, <4>3 DEF Mine, Copy
      <4> QED BY <1>2, <2>1, <4>1, <4>3, <4>4 DEF OwnCopy, Mine
    <3> QED BY <3>2, <3>3
  <2> QED BY <1>6, <2>2, <2>3 DEF LookAtCopy
<1>7. CASE WatchOver \/ Hash \/ Deadline \/ RemoveNode \/ NodeStarts \/ NodeExits \/ SlowStart
           \/ StartNode \/ LookReady \/ LookAbsent \/ OpenCsv
  <2>1. CASE WatchOver \/ Hash \/ OpenCsv \/ Deadline \/ NodeStarts \/ NodeExits
    BY <1>3, <2>1 DEF WatchOver, Hash, OpenCsv, Deadline, NodeStarts, NodeExits, Starts, Exits,
                      Fault, memory, history, cluster, Measuring
  <2>2. CASE RemoveNode \/ SlowStart \/ StartNode \/ LookReady \/ LookAbsent
    BY <2>2 DEF RemoveNode, SlowStart, StartNode, LookReady, LookAbsent, Measuring
  <2> QED BY <1>7, <2>1, <2>2
<1>8. CASE Join \/ NotReady \/ Raise \/ RaiseAfterHeader
  <2>1. CASE Unwind
    BY <2>1 DEF Unwind, FinallyDown, Ends, Goto, Measuring
  <2>2. CASE Join /\ copier' = "idle" /\ UNCHANGED <<cell, arrived>>
    <3>1. pc \in Measuring /\ UNCHANGED <<copy, attempt>>
      BY <2>2 DEF Join, Measuring, history, cluster
    <3> QED BY <1>2, <2>2, <3>1 DEF OwnCopy, Mine
  <2> QED BY <1>8, <2>1, <2>2 DEF Join, NotReady, Raise, RaiseAfterHeader
<1>9. CASE WriteFails
  <2>1. /\ pc \in Measuring /\ UNCHANGED <<copy, cell, attempt, arrived>>
        /\ copier \in {"opening", "writing"}
    BY <1>9 DEF WriteFails, Fault, cluster
  <2> QED BY <1>2, <2>1 DEF OwnCopy, Mine
<1>10. CASE Write
  <2>1. /\ pc \in Measuring /\ UNCHANGED <<cell, attempt, arrived>>
        /\ copier \in {"opening", "writing"}
    BY <1>10 DEF Write, history
  <2>2. \A m \in Nodes : OwnCopy(m) /\ copy[cell][m].fill # "whole" /\ arrived[m] = NotArrived
    BY <1>2, <2>1 DEF OwnCopy, Mine
  <2>3. CASE n # writer
    <3>1. copy'[cell][n] = copy[cell][n]
      BY <1>0, <1>10, <2>3 DEF Write
    <3> QED BY <2>1, <2>2, <3>1 DEF OwnCopy
  <2>4. CASE n = writer
    <3>1. PICK fill \in {"growing", "whole"} :
             /\ copy'[cell][n] = [payload |-> attempt, fill |-> fill]
             /\ copier' \in {"opening", "writing", "failed"} => fill = "growing"
      BY <1>0, <1>10, <2>4, WriterIsNode DEF Write
    <3> QED BY <2>1, <2>2, <3>1 DEF OwnCopy
  <2> QED BY <2>3, <2>4
<1>11. CASE MeshStep
  <2>1. PICK d \in Cells, k \in Nodes, new \in Copy :
             /\ copy' = [copy EXCEPT ![d][k] = new]
             /\ UNCHANGED <<pc, memory, history>>
             /\ \/ new = Missing /\ deleting[d]
                \/ \E m \in Nodes : /\ copy[d][m].fill = "whole"
                                    /\ new.payload = copy[d][m].payload
                                    /\ copy[d][k] # copy[d][m]
    BY <1>0, <1>11, MeshChanges
  <2>2. UNCHANGED <<cell, attempt, arrived, copier>> /\ pc \in Measuring
    BY <2>1 DEF memory, history
  <2>3. CASE d # cell \/ k # n
    <3>1. copy'[cell][n] = copy[cell][n]
      BY <1>0, <2>1, <2>3
    <3> QED BY <1>2, <2>2, <3>1 DEF OwnCopy, Mine
  <2>4. CASE d = cell /\ k = n
    <3>1. copy'[cell][n] = new
      BY <1>0, <2>1, <2>4
    <3>2. ~deleting[cell]
      BY <1>0, <1>1, <2>2 DEF Told, AtWork, Left, CellsOf, arm, Inside
    <3>3. PICK m \in Nodes : /\ copy[cell][m].fill = "whole"
                             /\ new.payload = copy[cell][m].payload
                             /\ copy[cell][n] # copy[cell][m]
      BY <2>1, <2>4, <3>2
    <3>4. copy[cell][m] \in Copy /\ copy[cell][m] # Missing
      BY <1>0, <3>3 DEF Missing
    <3>5. copy[cell][m].payload = attempt
      BY <1>2, <2>2, <3>4 DEF OwnCopy
    <3>6. copy[cell][m] = Mine
      BY <3>3, <3>4, <3>5 DEF Mine, Copy
    <3>7. arrived[n] = NotArrived
      BY <1>2, <2>2, <3>3, <3>6 DEF OwnCopy
    <3>8. copier \notin {"opening", "writing", "failed"}
      BY <1>2, <2>2, <3>3 DEF OwnCopy
    <3> QED BY <2>2, <3>1, <3>3, <3>5, <3>7, <3>8 DEF OwnCopy
  <2> QED BY <2>3, <2>4
<1>12. CASE Start \/ NextArm \/ PlainCell \/ Rerun \/ NodesStarted \/ Ready \/ Append_row
            \/ ClearCell \/ Cleared \/ Purge
  BY <1>1, <1>12 DEF Start, NextArm, PlainCell, Rerun, NodesStarted, Ready, Append_row, ClearCell,
                     Cleared, Purge, TornDown, ClearNext, RenewNext, PlainNext, FinallyDown,
                     BeginUp, Ends, Goto, Measuring
<1> QED BY <1>1, <1>4, <1>5, <1>6, <1>7, <1>8, <1>9, <1>10, <1>11, <1>12, Zenon
        DEF Next, Driver

-----------------------------------------------------------------------------
(* The copies of a cell are of one payload.                                *)

LEMMA SameFrame ==
    ASSUME NEW c, SameCopies(c), \A n \in Nodes : copy'[c][n] \in {copy[c][n], Missing}
    PROVE  SameCopies(c)'
BY DEF SameCopies, Missing

LEMMA StepOnePayload ==
    ASSUME IInv, Guarding, PlainFiles, Own, OnePayload, [Next]_vars
    PROVE  OnePayload'
<1> SUFFICES ASSUME ~littered', NEW c \in Cells
             PROVE  SameCopies(c)'
  BY DEF OnePayload
<1>0. /\ TypeOK /\ cell \in Cells /\ copy \in [Cells -> [Nodes -> Copy]] /\ ~littered
      /\ ~ (Kill \/ RemoveFails \/ PurgeFails)
  BY LitterStays DEF IInv, TypeOK, ClusterTypeOK
<1>1. SameCopies(c)
  BY <1>0 DEF OnePayload
<1>2. CASE UNCHANGED copy
  BY <1>1, <1>2, SameFrame
<1>3. CASE UNCHANGED vars
  BY <1>2, <1>3 DEF vars, cluster
<1>4. CASE Quiet
  BY <1>2, <1>4, QuietFrame DEF cluster
<1>5. CASE PlainCell \/ StartNode \/ BeginCell \/ OpenCsv \/ Append_row \/ RemoveNode
           \/ NodeStarts \/ WriteFails \/ NodeExits \/ SlowStart \/ Raise \/ RaiseAfterHeader
  BY <1>2, <1>5 DEF PlainCell, StartNode, BeginCell, OpenCsv, Append_row, RemoveNode, NodeStarts,
                    WriteFails, NodeExits, SlowStart, Raise, RaiseAfterHeader, start_node, down,
                    Starts, Exits, cluster
<1>6. CASE Purge
  BY <1>1, <1>6, SameFrame DEF Purge, purge
<1>7. CASE ClearCell
  BY <1>0, <1>1, <1>7, SameFrame DEF ClearCell
<1>8. CASE Write
  <2>1. pc \in Measuring /\ experiment # "C"
    BY <1>8 DEF Write, Guarding, PlainFiles, Measuring
  <2>2. \A n \in Nodes : copy[cell][n] = Missing \/ copy[cell][n].payload = attempt
    BY <1>0, <2>1 DEF Own, OwnCopy
  <2>3. PICK fill \in {"growing", "whole"} :
          copy' = [copy EXCEPT ![cell][writer] = [payload |-> attempt, fill |-> fill]]
    BY <1>8 DEF Write
  <2>4. CASE c # cell
    BY <1>0, <1>1, <2>3, <2>4, SameFrame
  <2>5. CASE c = cell
    <3>1. \A n \in Nodes : copy'[c][n] = IF n = writer THEN [payload |-> attempt, fill |-> fill]
                                          ELSE copy[c][n]
      BY <1>0, <2>3, <2>5
    <3>2. \A n \in Nodes : copy'[c][n] = Missing \/ copy'[c][n].payload = attempt
      BY <2>2, <2>5, <3>1
    <3>3. \A n \in Nodes : copy'[c][n].fill # "mixed"
      BY <1>1, <3>1 DEF SameCopies
    <3> QED BY <3>2, <3>3 DEF SameCopies
  <2> QED BY <2>4, <2>5
<1>9. CASE MeshStep
  <2>1. PICK d \in Cells, k \in Nodes, new \in Copy :
             /\ copy' = [copy EXCEPT ![d][k] = new]
             /\ \/ new = Missing
                \/ \E m \in Nodes :
                     /\ copy[d][m].fill = "whole"
                     /\ new.payload = copy[d][m].payload
                     /\ new.fill = "mixed" =>
                          (copy[d][k] # Missing /\ copy[d][k].payload # copy[d][m].payload)
    BY <1>0, <1>9, MeshChanges
  <2>2. CASE d # c \/ new = Missing
    BY <1>0, <1>1, <2>1, <2>2, SameFrame
  <2>3. CASE d = c /\ new # Missing
    <3>1. PICK m \in Nodes :
             /\ copy[c][m].fill = "whole" /\ new.payload = copy[c][m].payload
             /\ new.fill = "mixed" =>
                  (copy[c][k] # Missing /\ copy[c][k].payload # copy[c][m].payload)
      BY <2>1, <2>3
    <3>2. copy[c][m] # Missing
      BY <3>1 DEF Missing
    <3>3. \A n \in Nodes : copy[c][n] = Missing \/ copy[c][n].payload = new.payload
      BY <1>1, <3>1, <3>2 DEF SameCopies
    <3>4. new.fill # "mixed"
      BY <3>1, <3>3
    <3>5. \A n \in Nodes : copy'[c][n] = IF n = k THEN new ELSE copy[c][n]
      BY <1>0, <2>1, <2>3
    <3>6. \A n \in Nodes : copy'[c][n].fill # "mixed"
      BY <1>1, <3>4, <3>5 DEF SameCopies
    <3>7. \A n \in Nodes : copy'[c][n] = Missing \/ copy'[c][n].payload = new.payload
      BY <3>3, <3>5
    <3> QED BY <3>6, <3>7 DEF SameCopies
  <2> QED BY <2>2, <2>3
<1> QED BY <1>0, <1>3, <1>4, <1>5, <1>6, <1>7, <1>8, <1>9, Zenon DEF Next, Driver, Quiet

-----------------------------------------------------------------------------
(* The theorems.                                                           *)

LEMMA StepTruth ==
    ASSUME IInv, TruthInv, [Next]_vars
    PROVE  TruthInv'
BY StepGuarding, StepUndone, StepTold, StepRemoved, StepPlain, StepTidy, StepFresh, StepOwn,
   StepOnePayload, Zenon DEF TruthInv

LEMMA AlwaysTruth == Spec => [](IInv /\ TruthInv)
<1>1. IInv /\ TruthInv /\ [Next]_vars => TruthInv'
  BY StepTruth
<1> QED BY <1>1, AlwaysInv, InitTruth, PTL DEF Spec

LEMMA TruthLeavesNothing ==
    ASSUME IInv, TruthInv
    PROVE  NothingLeftBehind
<1> SUFFICES ASSUME pc = "exit", done_cells = Cells, ~littered
             PROVE  /\ \A a \in Arms, n \in Nodes : container[a][n] = "none"
                    /\ \A c \in Cells, n \in Nodes : copy[c][n] = Missing
  BY DEF NothingLeftBehind
<1>1. ~guarded
  BY DEF IInv, Outside
<1>2. ASSUME NEW a \in Arms
      PROVE  Clean(a)
  <2>1. ~Kept(a)
    BY <1>1 DEF Kept, CellsOf
  <2> QED BY <2>1 DEF TruthInv, Tidy
<1>3. ASSUME NEW c \in Cells
      PROVE  ArmOf[c] \in Arms /\ c \in CellsOf(ArmOf[c])
  BY DEF Arms, CellsOf
<1> QED BY <1>2, <1>3 DEF Clean

\* As long as no run was killed and no teardown failed, a matrix that is complete
\* and has ended has left no container and no file behind, for every plan and any
\* number of nodes and faults: what cannot be taken down now is left to a run to
\* come, and a run comes for every cell without a row
\* (run_matrix.py:350-368, 474-497).
THEOREM CompleteLeavesNothing == Spec => []NothingLeftBehind
BY AlwaysTruth, TruthLeavesNothing, PTL

LEMMA StepRows ==
    ASSUME IInv, TruthInv, [Next]_vars, csv' # csv, experiment # "C", ~littered
    PROVE  LET row == csv'[Len(csv')] IN
             /\ \A n \in Nodes : arrived[n] \in {NotArrived, attempt}
             /\ row.converged =>
                  \A n \in Nodes : copy[row.cell][n] = [payload |-> attempt,
                                                        fill |-> "whole"]
<1>0. TypeOK /\ csv \in Seq(Row) /\ Len(csv) \in Nat
  BY DEF IInv, TypeOK
<1>2. CASE UNCHANGED csv
  BY <1>2
<1>3. CASE OpenCsv \/ RaiseAfterHeader
  BY <1>3 DEF OpenCsv, RaiseAfterHeader
<1>4. CASE Append_row
  <2> DEFINE line == [cell |-> cell, converged |-> experiment = "C" \/ converged]
  <2>1. csv' = Append(csv, line) /\ pc \in Measuring
    BY <1>4 DEF Append_row, Measuring
  <2>2. csv'[Len(csv')] = line
    BY <1>0, <2>1
  <2>3. \A n \in Nodes : arrived[n] # NotArrived => arrived[n] = attempt /\ copy[cell][n] = Mine
    BY <2>1 DEF TruthInv, Own, OwnCopy
  <2>4. converged => \A n \in Nodes : arrived[n] # NotArrived
    BY DEF converged
  <2>5. /\ csv'[Len(csv')].cell = cell
        /\ csv'[Len(csv')].converged = (experiment = "C" \/ converged)
    BY <2>2
  <2> QED BY <2>3, <2>4, <2>5 DEF Mine
<1> QED BY <1>2, <1>3, <1>4, DiskChanges

\* As long as no run was killed and no teardown failed, what a row reports as
\* arrived is the payload its cell wrote, and a row that says converged was
\* written with that payload in full on every node, for every plan and any number
\* of nodes and faults: a cell begins on a directory that holds nothing of it, and
\* nothing but the payload of its own writer can reach a node after that
\* (run_matrix.py:155-167, 254-263).
THEOREM RowsTellTheTruth == Spec => RowsAreTrue
<1>1. ASSUME IInv, TruthInv, [Next]_vars
      PROVE  (csv' # csv /\ experiment # "C" /\ ~littered) =>
               LET row == csv'[Len(csv')] IN
                 /\ \A n \in Nodes : arrived[n] \in {NotArrived, attempt}
                 /\ row.converged =>
                      \A n \in Nodes : copy[row.cell][n] = [payload |-> attempt,
                                                            fill |-> "whole"]
  BY <1>1, StepRows, Zenon
<1> QED BY <1>1, AlwaysTruth, PTL DEF Spec, RowsAreTrue

-----------------------------------------------------------------------------
(* The watch implements the probe.                                         *)

\* Nobody asks: no report is open before the step, and none after it.
LEMMA NobodyAsks ==
    ASSUME UNCHANGED experiment, pc \notin Measuring, pc' \notin Measuring
    PROVE  UNCHANGED Probe!report
BY DEF phase, reported, Measuring, Probe!report

\* Whoever asked is gone.
LEMMA ReportLeft ==
    ASSUME UNCHANGED experiment, experiment # "C", pc' \notin Measuring
    PROVE  [Probe!Next]_(Probe!report)
<1>1. CASE pc \notin Measuring
  BY <1>1, NobodyAsks
<1>2. CASE pc \in Measuring
  <2>1. phase # "idle" /\ phase' = "idle" /\ reported' = {}
    BY <1>2 DEF phase, reported, Measuring
  <2> QED BY <2>1 DEF Probe!Next, Probe!Leave
<1> QED BY <1>1, <1>2

\* The report stands as it is.
LEMMA ReportStands ==
    ASSUME UNCHANGED <<experiment, arrived>>,
           UNCHANGED pc \/ (pc \in Measuring \ {"watch"} /\ pc' \in Measuring \ {"watch"})
    PROVE  UNCHANGED Probe!report
<1>1. UNCHANGED phase
  BY DEF phase, Measuring
<1> QED BY <1>1 DEF reported, Probe!report

LEMMA StepReports ==
    ASSUME IInv, TruthInv, [Next]_vars
    PROVE  [Probe!Next]_(Probe!report)
<1>0. UNCHANGED experiment
  BY SameExperiment
<1>c. CASE experiment = "C"
  <2>1. phase = "idle" /\ phase' = "idle"
    BY <1>0, <1>c DEF phase
  <2>2. reported = {} /\ reported' = {}
    BY <2>1 DEF reported
  <2> QED BY <2>1, <2>2 DEF Probe!report
<1> SUFFICES ASSUME experiment # "C"
             PROVE  [Probe!Next]_(Probe!report)
  BY <1>c
<1>1. TypeOK /\ Watching
  BY DEF IInv
<1>2. CASE BeginCell
  <2>1. \A n \in Nodes : arrived'[n] = NotArrived
    BY <1>2 DEF BeginCell, Nowhere
  <2>2. phase = "idle" /\ phase' = "open" /\ reported' = {}
    BY <1>0, <1>2, <2>1 DEF BeginCell, Goto, phase, reported
  <2> QED BY <2>2 DEF Probe!Next, Probe!Open
<1>3. CASE LookAtCopy
  <2>1. phase = "open" /\ UNCHANGED phase /\ UNCHANGED pc
    BY <1>0, <1>3 DEF LookAtCopy, phase
  <2>2. CASE UNCHANGED arrived
    BY <1>0, <2>1, <2>2, ReportStands
  <2>3. ASSUME NEW n \in Nodes, complete(copy[cell][n]), arrived[n] = NotArrived,
               NEW p \in Nat, arrived' = [arrived EXCEPT ![n] = p]
        PROVE  Probe!Next
    <3>1. n \in held \ reported
      <4>1. ~littered => copy[cell][n].fill # "mixed"
        BY <1>1 DEF TruthInv, OnePayload, SameCopies, TypeOK
      <4> QED BY <2>1, <2>3, <4>1 DEF held, reported, complete
    <3>2. \A m \in Nodes : arrived'[m] = IF m = n THEN p ELSE arrived[m]
      BY <1>1, <2>3 DEF TypeOK
    <3>3. reported' = reported \cup {n}
      BY <2>1, <2>3, <3>2 DEF reported, NotArrived
    <3> QED BY <2>1, <3>1, <3>3 DEF Probe!Next, Probe!Report
  <2> QED BY <1>1, <1>3, <2>2, <2>3, LookNotes, Zenon
<1>4. CASE WatchOver
  <2>1. phase = "open" /\ phase' = "told" /\ UNCHANGED arrived
    BY <1>0, <1>4 DEF WatchOver, Goto, phase
  <2>2. reported = Nodes \/ expired
    BY <1>1, <1>4, <2>1 DEF WatchOver, WaitOver, Watching, reported
  <2>3. UNCHANGED reported
    BY <2>1 DEF reported
  <2> QED BY <2>1, <2>2, <2>3 DEF Probe!Next, Probe!Tell
<1>5. CASE Hash
  BY <1>0, <1>5, ReportStands DEF Hash, Goto, Measuring
<1>6. CASE NotReady \/ Join \/ Raise \/ RaiseAfterHeader
  <2>1. CASE Unwind
    BY <1>0, <2>1, ReportLeft DEF Unwind, FinallyDown, Ends, Goto, Measuring
  <2>2. CASE Join /\ Goto("append") /\ UNCHANGED arrived
    BY <1>0, <2>2, ReportStands DEF Join, Goto, Measuring
  <2> QED BY <1>6, <2>1, <2>2 DEF NotReady, Join, Raise, RaiseAfterHeader
<1>7. CASE Start \/ NextArm \/ Rerun \/ Kill \/ NodesStarted \/ Ready \/ Append_row \/ ClearCell
           \/ Cleared \/ Purge \/ PurgeFails
  <2>1. pc' \notin Measuring
    BY <1>7 DEF Start, NextArm, Rerun, Kill, NodesStarted, Ready, Append_row, ClearCell,
                Cleared, Purge, PurgeFails, TornDown, ClearNext, RenewNext, PlainNext, FinallyDown,
                BeginUp, Ends, Goto, Measuring
  <2> QED BY <1>0, <2>1, ReportLeft
<1>8. CASE StartNode \/ RemoveNode \/ LookReady \/ LookAbsent \/ SlowStart \/ OpenCsv
           \/ Write \/ Deadline \/ NodeStarts \/ MeshStep \/ WriteFails \/ NodeExits
           \/ RemoveFails
  BY <1>0, <1>8, ReportStands DEF StartNode, RemoveNode, LookReady, LookAbsent, SlowStart, OpenCsv,
                    Write, Deadline, NodeStarts, MeshStep, WriteFails, NodeExits, RemoveFails,
                    memory, Goto, Measuring
<1>9. ~PlainCell
  BY DEF PlainCell
<1>10. CASE UNCHANGED vars
  BY <1>0, <1>10, ReportStands DEF vars, memory
<1> QED BY <1>2, <1>3, <1>4, <1>5, <1>6, <1>7, <1>8, <1>9, <1>10, Zenon DEF Next, Driver

\* The watch implements a probe: a node is reported at a moment its copy is
\* whole (or, after a run that left one there, has the blocks of an older
\* payload), once and for good, and the watch is over only when every node is
\* reported or the deadline has passed (poller.py: watch, complete).
THEOREM WatchKeepsPromise == Spec => WatchIsHonest
<1>1. Init => Probe!Init
  BY DEF Init, Probe!Init, phase, reported
<1>2. IInv /\ TruthInv /\ [Next]_vars => [Probe!Next]_(Probe!report)
  BY StepReports
<1> QED BY <1>1, <1>2, AlwaysTruth, PTL DEF Spec, WatchIsHonest, Probe!Spec

=============================================================================
