---------------------------- MODULE MatrixProofs ----------------------------
(***************************************************************************)
(* Theorems about Matrix, for every plan, every number of nodes and of     *)
(* faults: its types, and that what can be read from the CSV is the plan   *)
(* from the front.                                                         *)
(***************************************************************************)
EXTENDS Matrix, TLAPS, WellFoundedInduction

\* First takes the least of what it is given.
LEMMA FirstIsLeast ==
    ASSUME NEW S \in SUBSET Nat, S # {}
    PROVE  First(S) \in S /\ \A m \in S : First(S) <= m
<1> DEFINE Less == {ss \in Nat \X Nat : ss[1] < ss[2]}
<1>1. IsWellFoundedOn(Less, Nat)
  BY NatLessThanWellFounded, Zenon DEF OpToRel
<1>2. PICK x \in S : \A y \in S : ~ (<<y, x>> \in Less)
  <2> HIDE DEF Less
  <2> QED BY <1>1, WFMin, Zenon
<1>3. \A y \in S : x <= y
  <2> SUFFICES ASSUME NEW y \in S, y < x PROVE FALSE
    OBVIOUS
  <2>1. <<y, x>> \in Nat \X Nat /\ <<y, x>>[1] = y /\ <<y, x>>[2] = x
    OBVIOUS
  <2>2. <<y, x>> \in Less
    BY <2>1, Zenon
  <2> QED BY <1>2, <2>2
<1> QED BY <1>3, Zenon DEF First

LEMMA FirstNode ==
    ASSUME NEW S \in SUBSET Nodes, S # {}
    PROVE  First(S) \in S
BY FirstIsLeast DEF Nodes

LEMMA WriterIsNode == writer \in Nodes
BY FirstNode, NodeCountAssumption DEF writer, Nodes

\* From the first look at a cell to the close of the CSV with its row.
Measuring == {"watch", "hash", "join", "append", "head", "write"}

\* The cell at hand is one that is still to be measured.
AtWork ==
    /\ pc = "cell" => Left # {}
    /\ pc \in Measuring => cell \in wanted

\* What append knows of the file it has open.
FileInv ==
    /\ file = "absent" => csv = <<>>
    /\ pc = "head" => file = "headless" /\ csv = <<>>
    /\ pc = "write" => file # "absent"

\* No row stands where the header should be.
Sound == file = "headless" => csv = <<>>

\* What the driver knows of such a CSV at each place: the rows are the plan read
\* from the front, wanted is the rest of it, the cell at hand is at most the
\* next one, and is the next one while it is measured.
InOrder ==
    /\ Len(csv) <= CellCount
    /\ \A i \in DOMAIN csv : csv[i].cell = i
    /\ pc \notin {"start", "exit"} => wanted = {c \in Cells : c > Len(csv)}
    /\ cell <= Len(csv) + 1
    /\ pc \in Measuring => cell = Len(csv) + 1

\* While the watch runs, pending is who has not arrived.
Watching ==
    pc = "watch" =>
        /\ todo \subseteq pending
        /\ \A n \in Nodes : arrived[n] # NotArrived <=> n \notin pending

\* A run that has not begun, or has ended, is inside no try.
Outside == pc \in {"start", "exit"} => ~guarded

IInv ==
    /\ TypeOK
    /\ AtWork
    /\ FileInv
    /\ Sound => InOrder
    /\ Watching
    /\ Outside

LEMMA InitInv == Init => IInv
<1> SUFFICES ASSUME Init PROVE IInv
  OBVIOUS
<1>1. ClusterTypeOK
  BY DEF Init, ClusterInit, ClusterTypeOK, ContainerState, Copy, Missing
<1>2. 1 \in Cells
  BY PlanAssumption DEF Cells
<1>3. TypeOK
  <2>1. csv \in Seq(Row) /\ attempt \in Nat /\ faults \in 0 .. Faults
    BY MatrixAssumption DEF Init
  <2>2. arrived \in [Nodes -> Nat \cup {NotArrived}]
    BY DEF Init, Nowhere
  <2> QED BY <1>1, <1>2, <2>1, <2>2 DEF Init, TypeOK, Places
<1>4. InOrder
  BY PlanAssumption DEF Init, InOrder, Measuring
<1> QED BY <1>3, <1>4 DEF Init, IInv, AtWork, FileInv, Measuring, Watching, Outside

\* The first that is wanted is wanted, and if the arm at hand has any left the
\* first of those is too.
LEMMA FirstWanted ==
    ASSUME TypeOK
    PROVE  /\ wanted # {} => First(wanted) \in wanted /\ First(wanted) \in Cells
           /\ Left # {} => First(Left) \in Left /\ First(Left) \in Cells
<1>1. wanted \subseteq Cells /\ wanted \in SUBSET Nat /\ Left \subseteq wanted
  BY DEF TypeOK, Cells, Left
<1>2. Left \in SUBSET Nat
  BY <1>1
<1> QED BY <1>1, <1>2, FirstIsLeast, Zenon

\* The next cell of the plan is the first that is wanted, and if the arm at
\* hand has any left it is the first of those too.
LEMMA NextCell ==
    ASSUME TypeOK, InOrder, pc \notin {"start", "exit"}
    PROVE  /\ wanted # {} => /\ First(wanted) = Len(csv) + 1
                             /\ First(wanted) \in wanted
           /\ Left # {} => /\ First(Left) = Len(csv) + 1
                           /\ First(Left) \in Left
<1> DEFINE next == Len(csv) + 1
<1>1. Len(csv) \in Nat /\ wanted \in SUBSET Nat
  BY DEF TypeOK, Cells
<1>2. ASSUME NEW c \in wanted
      PROVE  next \in wanted /\ next <= c
  BY <1>1, PlanAssumption DEF InOrder, Cells
<1>3. ASSUME wanted # {}
      PROVE  First(wanted) = next
  <2>1. First(wanted) \in wanted /\ \A m \in wanted : First(wanted) <= m
    BY <1>1, <1>3, FirstIsLeast
  <2>2. next \in wanted /\ next <= First(wanted)
    BY <1>2, <2>1
  <2>3. First(wanted) <= next
    BY <2>1, <2>2
  <2>4. First(wanted) \in Nat
    BY <1>1, <2>1, Zenon
  <2>5. next \in Nat
    BY <1>1
  <2> HIDE DEF next
  <2> QED BY <2>2, <2>3, <2>4, <2>5
<1>4. ASSUME NEW c \in Left
      PROVE  next \in Left /\ next <= c
  <2>1. /\ c \in wanted /\ c \in Cells /\ ArmOf[c] = ArmOf[cell]
        /\ cell \in Cells /\ cell <= next
    BY DEF Left, CellsOf, arm, TypeOK, InOrder
  <2>2. next \in wanted /\ next <= c /\ next \in Cells
    BY <1>2, <2>1 DEF TypeOK
  <2>3. ArmOf[cell] <= ArmOf[next] /\ ArmOf[next] <= ArmOf[c]
    BY <2>1, <2>2, PlanAssumption
  <2>4. ArmOf[next] = ArmOf[cell]
    BY <2>1, <2>2, <2>3, PlanAssumption
  <2> QED BY <2>2, <2>4 DEF Left, CellsOf, arm
<1>5. Left \in SUBSET Nat
  BY <1>1 DEF Left
<1>6. ASSUME Left # {}
      PROVE  First(Left) = next
  <2>1. First(Left) \in Left /\ \A m \in Left : First(Left) <= m
    BY <1>5, <1>6, FirstIsLeast
  <2>2. next \in Left /\ next <= First(Left)
    BY <1>4, <2>1
  <2>3. First(Left) <= next
    BY <2>1, <2>2
  <2>4. First(Left) \in Nat
    BY <1>1, <1>5, <2>1, Zenon
  <2>5. next \in Nat
    BY <1>1
  <2> HIDE DEF next
  <2> QED BY <2>2, <2>3, <2>4, <2>5
<1> QED BY <1>2, <1>3, <1>4, <1>6

-----------------------------------------------------------------------------
(* Types of what the steps are made of.                                    *)

\* A place is a place.
LEMMA PlaceNames ==
    ASSUME NEW place \in {"start", "arm", "up", "ready", "cell", "watch", "hash", "join",
                          "append", "head", "write", "clear", "absent", "down", "exit"}
    PROVE  place \in Places
BY DEF Places

\* The memory of the driver, without its place.
MemoryOK ==
    /\ wanted \subseteq Cells
    /\ cell \in Cells
    /\ guarded \in BOOLEAN
    /\ after \in {"up", "arm", "exit"}
    /\ copier \in {"idle", "opening", "writing", "done", "failed"}
    /\ arrived \in [Nodes -> Nat \cup {NotArrived}]
    /\ hashes \subseteq [payload : Nat, torn : Nat]
    /\ pending \subseteq Nodes
    /\ todo \subseteq Nodes
    /\ expired \in BOOLEAN

HistoryOK ==
    /\ experiment \in Experiments
    /\ attempt \in Nat
    /\ faults \in 0 .. Faults
    /\ littered \in BOOLEAN

\* The CSV.
DiskOK == csv \in Seq(Row) /\ file \in {"absent", "headless", "headed"}

LEMMA TypeParts ==
    TypeOK <=> ClusterTypeOK /\ pc \in Places /\ DiskOK /\ MemoryOK /\ HistoryOK
BY Zenon DEF TypeOK, MemoryOK, HistoryOK, DiskOK

LEMMA TypePartsNext ==
    TypeOK' <=> ClusterTypeOK' /\ pc' \in Places /\ DiskOK' /\ MemoryOK' /\ HistoryOK'
BY Zenon DEF TypeOK, MemoryOK, HistoryOK, DiskOK

LEMMA ClusterFrame ==
    ASSUME ClusterTypeOK, UNCHANGED cluster
    PROVE  ClusterTypeOK'
BY DEF ClusterTypeOK, cluster

LEMMA HistoryFrame ==
    ASSUME HistoryOK, UNCHANGED history
    PROVE  HistoryOK'
BY Zenon DEF HistoryOK, history

LEMMA EndsType ==
    ASSUME Ends
    PROVE  pc' \in Places /\ MemoryOK'
<1>1. 1 \in Cells
  BY PlanAssumption DEF Cells
<1>2. arrived' \in [Nodes -> Nat \cup {NotArrived}]
  BY DEF Ends, Nowhere
<1> QED BY <1>1, <1>2, PlaceNames DEF Ends, MemoryOK, Goto

LEMMA UnwindType ==
    ASSUME MemoryOK, Unwind
    PROVE  pc' \in Places /\ MemoryOK'
<1>1. CASE /\ guarded /\ FinallyDown("exit")
           /\ copier' = "idle" /\ arrived' = Nowhere /\ hashes' = {}
           /\ UNCHANGED <<wanted, cell>>
  <2>1. arrived' \in [Nodes -> Nat \cup {NotArrived}]
    BY <1>1 DEF Nowhere
  <2> QED BY <1>1, <2>1, PlaceNames DEF MemoryOK, FinallyDown, ForEachNode, Goto
<1>2. CASE Ends
  BY <1>2, EndsType
<1> QED BY <1>1, <1>2, Zenon DEF Unwind

LEMMA FaultType ==
    ASSUME HistoryOK, Fault, littered' \in BOOLEAN
    PROVE  HistoryOK'
BY MatrixAssumption DEF HistoryOK, Fault

\* A record of the cluster, changed at one node.
LEMMA ContainerType ==
    ASSUME ClusterTypeOK, NEW a \in Arms, NEW n \in Nodes, NEW state \in ContainerState
    PROVE  [container EXCEPT ![a][n] = state] \in [Arms -> [Nodes -> ContainerState]]
BY DEF ClusterTypeOK

LEMMA CopyType ==
    ASSUME ClusterTypeOK, NEW c \in Cells, NEW n \in Nodes, NEW new \in Copy
    PROVE  [copy EXCEPT ![c][n] = new] \in [Cells -> [Nodes -> Copy]]
BY DEF ClusterTypeOK

LEMMA SpreadType ==
    ASSUME ClusterTypeOK, NEW c \in Cells, NEW n \in Nodes, Spread(c, n) \/ Forget(c, n)
    PROVE  ClusterTypeOK'
<1>1. CASE Spread(c, n)
  <2>1. PICK m \in Nodes :
           \/ copy' = [copy EXCEPT ![c][n] = [payload |-> copy[c][m].payload,
                                              fill |-> Begun(copy[c][n])]]
           \/ copy' = [copy EXCEPT ![c][n].fill = "whole"]
    BY <1>1, Zenon DEF Spread
  <2>2. copy[c][m] \in Copy /\ copy[c][n] \in Copy
    BY DEF ClusterTypeOK
  <2>3. copy' \in [Cells -> [Nodes -> Copy]]
    <3>1. CASE copy' = [copy EXCEPT ![c][n] = [payload |-> copy[c][m].payload,
                                               fill |-> Begun(copy[c][n])]]
      <4>1. [payload |-> copy[c][m].payload, fill |-> Begun(copy[c][n])] \in Copy
        BY <2>2 DEF Copy, Begun
      <4> QED BY <3>1, <4>1, CopyType
    <3>2. CASE copy' = [copy EXCEPT ![c][n].fill = "whole"]
      <4>1. [copy[c][n] EXCEPT !.fill = "whole"] \in Copy
        BY <2>2 DEF Copy
      <4>2. copy' = [copy EXCEPT ![c][n] = [copy[c][n] EXCEPT !.fill = "whole"]]
        BY <3>2 DEF ClusterTypeOK
      <4> QED BY <4>1, <4>2, CopyType
    <3> QED BY <2>1, <3>1, <3>2
  <2> QED BY <1>1, <2>3 DEF Spread, ClusterTypeOK
<1>2. CASE Forget(c, n)
  <2>1. Missing \in Copy
    BY DEF Missing, Copy
  <2> QED BY <1>2, <2>1, CopyType DEF Forget, ClusterTypeOK
<1> QED BY <1>1, <1>2

-----------------------------------------------------------------------------
(* Every step keeps the types.                                             *)

\* The steps that leave the cluster, the CSV and the history alone.
Quiet ==
    \/ Start \/ NextArm \/ NodesStarted \/ LookReady \/ NotReady \/ Ready
    \/ LookAtCopy \/ WatchOver \/ Hash \/ Join \/ LookAbsent \/ Cleared
    \/ Rerun \/ Deadline

LEMMA QuietFrame ==
    ASSUME Quiet
    PROVE  UNCHANGED <<cluster, csv, file, history>>
BY DEF Quiet, Start, NextArm, NodesStarted, LookReady, NotReady, Ready, LookAtCopy, WatchOver,
       Hash, Join, LookAbsent, Cleared, Rerun, Deadline, cluster, history

\* A look takes a node off the pass, and off those pending if it was seen.
LEMMA LookType ==
    ASSUME MemoryOK, NEW n, NEW seen, Look(n, seen) \/ BeginPass
    PROVE  pending' \subseteq Nodes /\ todo' \subseteq Nodes /\ expired' \in BOOLEAN
BY DEF MemoryOK, Look, BeginPass

LEMMA QuietType ==
    ASSUME TypeOK, Quiet
    PROVE  pc' \in Places /\ MemoryOK'
<1>1. MemoryOK /\ pc \in Places /\ ClusterTypeOK
  BY TypeParts
<1>2. CASE Start
  <2>1. CASE Ends
    BY <2>1, EndsType
  <2>2. CASE /\ wanted' = Cells \ done_cells /\ Goto("arm")
             /\ UNCHANGED <<cell, guarded, after, copier, arrived, hashes, wait>>
    BY <1>1, <2>2, PlaceNames DEF MemoryOK, Goto, wait
  <2> QED BY <1>2, <2>1, <2>2, Zenon DEF Start
<1>3. CASE NextArm
  <2>1. CASE Ends
    BY <2>1, EndsType
  <2>2. CASE /\ wanted # {} /\ cell' = First(wanted) /\ BeginUp
             /\ UNCHANGED <<wanted, after, copier, arrived, hashes>>
    <3>1. cell' \in Cells
      BY <2>2, FirstWanted
    <3> QED BY <1>1, <2>2, <3>1, PlaceNames DEF MemoryOK, BeginUp, ForEachNode, Goto
  <2> QED BY <1>3, <2>1, <2>2, Zenon DEF NextArm
<1>4. CASE NodesStarted
  BY <1>1, <1>4, PlaceNames DEF NodesStarted, MemoryOK, Goto, BeginWait
<1>5. CASE LookReady \/ LookAbsent
  <2>1. UNCHANGED <<pc, wanted, cell, guarded, after, copier, arrived, hashes>>
    BY <1>5 DEF LookReady, LookAbsent
  <2>2. BeginPass \/ \E n, seen : Look(n, seen)
    BY <1>5, Zenon DEF LookReady, LookAbsent
  <2> QED BY <1>1, <2>1, <2>2, LookType DEF MemoryOK
<1>6. CASE NotReady
  BY <1>1, <1>6, UnwindType DEF NotReady
<1>7. CASE Ready \/ Cleared
  <2>1. CASE /\ Goto("cell") /\ guarded' \in BOOLEAN /\ UNCHANGED <<after, wait>>
    BY <1>1, <1>7, <2>1, PlaceNames DEF Ready, Cleared, MemoryOK, Goto, wait
  <2>2. CASE FinallyDown("arm")
    BY <1>1, <1>7, <2>2, PlaceNames DEF Ready, Cleared, MemoryOK, FinallyDown, ForEachNode, Goto
  <2> QED BY <1>1, <1>7, <2>1, <2>2 DEF Ready, Cleared, MemoryOK
<1>8. CASE LookAtCopy
  <2>1. UNCHANGED <<pc, wanted, cell, guarded, after, copier, hashes>>
    BY <1>8 DEF LookAtCopy
  <2>2. BeginPass \/ \E n, seen : Look(n, seen)
    BY <1>8, Zenon DEF LookAtCopy
  <2>3. arrived' \in [Nodes -> Nat \cup {NotArrived}]
    <3>1. CASE UNCHANGED arrived
      BY <1>1, <3>1 DEF MemoryOK
    <3>2. CASE /\ todo # {}
               /\ arrived' = [arrived EXCEPT ![First(todo)] = copy[cell][First(todo)].payload]
      <4>1. First(todo) \in Nodes /\ cell \in Cells
        BY <1>1, <3>2, FirstNode DEF MemoryOK
      <4>2. copy[cell][First(todo)].payload \in Nat
        BY <1>1, <4>1 DEF ClusterTypeOK, Copy
      <4> QED BY <1>1, <3>2, <4>1, <4>2 DEF MemoryOK
    <3> QED BY <1>8, <3>1, <3>2 DEF LookAtCopy
  <2> QED BY <1>1, <2>1, <2>2, <2>3, LookType DEF MemoryOK
<1>9. CASE WatchOver
  BY <1>1, <1>9, PlaceNames DEF WatchOver, MemoryOK, Goto
<1>10. CASE Hash
  <2>1. CASE Goto("join") /\ UNCHANGED <<hashes, todo>>
    BY <1>1, <1>10, <2>1, PlaceNames DEF Hash, MemoryOK, Goto
  <2>2. CASE /\ todo # {}
             /\ hashes' = hashes \cup {sha256(First(todo), copy[cell][First(todo)])}
             /\ todo' = todo \ {First(todo)}
             /\ UNCHANGED pc
    <3>1. First(todo) \in Nodes /\ cell \in Cells
      BY <1>1, <2>2, FirstNode DEF MemoryOK
    <3>2. copy[cell][First(todo)].payload \in Nat
      BY <1>1, <3>1 DEF ClusterTypeOK, Copy
    <3>4. First(todo) \in Nat
      BY <3>1, NodeCountAssumption DEF Nodes
    <3>3. sha256(First(todo), copy[cell][First(todo)]) \in [payload : Nat, torn : Nat]
      BY <3>2, <3>4 DEF sha256
    <3> QED BY <1>1, <1>10, <2>2, <3>3 DEF Hash, MemoryOK
  <2> QED BY <1>10, <2>1, <2>2, Zenon DEF Hash
<1>11. CASE Join
  <2>1. CASE Unwind
    BY <1>1, <2>1, UnwindType
  <2>2. CASE Goto("append") /\ copier' = "idle"
             /\ UNCHANGED <<wanted, cell, guarded, after, arrived, hashes, wait>>
    BY <1>1, <2>2, PlaceNames DEF MemoryOK, Goto, wait
  <2> QED BY <1>11, <2>1, <2>2, Zenon DEF Join
<1>12. CASE Rerun
  BY <1>1, <1>12, PlaceNames DEF Rerun, MemoryOK, Goto, memory, wait
<1>13. CASE Deadline
  BY <1>1, <1>13 DEF Deadline, DeadlinePasses, MemoryOK
<1> QED BY <1>2, <1>3, <1>4, <1>5, <1>6, <1>7, <1>8, <1>9, <1>10, <1>11, <1>12, <1>13 DEF Quiet

\* The cell at hand belongs to an arm.
LEMMA ArmType ==
    ASSUME TypeOK
    PROVE  cell \in Cells /\ arm \in Arms
BY DEF TypeOK, arm, Arms

LEMMA MissingType == Missing \in Copy
BY DEF Missing, Copy

LEMMA AppendType ==
    ASSUME csv \in Seq(Row), NEW c \in Cells, NEW verdict \in BOOLEAN
    PROVE  Append(csv, [cell |-> c, converged |-> verdict]) \in Seq(Row)
<1>1. [cell |-> c, converged |-> verdict] \in Row
  BY DEF Row
<1> QED BY <1>1

LEMMA TornDownType ==
    ASSUME MemoryOK, TornDown
    PROVE  pc' \in Places /\ MemoryOK'
<1>1. CASE BeginUp /\ UNCHANGED <<wanted, cell, after, copier, arrived, hashes>>
  BY <1>1, PlaceNames DEF MemoryOK, BeginUp, Goto, ForEachNode
<1>2. CASE Goto("arm") /\ UNCHANGED memory
  BY <1>2, PlaceNames DEF MemoryOK, Goto, memory, wait
<1>3. CASE Ends
  BY <1>3, EndsType
<1> QED BY <1>1, <1>2, <1>3, Zenon DEF TornDown

LEMMA StepType ==
    ASSUME TypeOK, AtWork, [Next]_vars
    PROVE  TypeOK'
<1>1. MemoryOK /\ HistoryOK /\ ClusterTypeOK /\ pc \in Places /\ DiskOK
  BY TypeParts
<1>2. CASE UNCHANGED vars
  BY <1>2 DEF vars, memory, history, cluster, wait, TypeOK, ClusterTypeOK
<1>3. CASE Quiet
  <2>1. DiskOK'
    BY <1>1, <1>3, QuietFrame DEF DiskOK
  <2>2. UNCHANGED cluster /\ UNCHANGED history
    BY <1>3, QuietFrame
  <2> QED BY <1>1, <1>3, <2>1, <2>2, QuietType, ClusterFrame, HistoryFrame, TypePartsNext
<1>4. CASE PlainCell
  <2>1. cell' \in Cells
    BY <1>4, FirstWanted DEF PlainCell
  <2>2. HistoryOK'
    BY <1>1, <1>4 DEF PlainCell, make_payload, HistoryOK
  <2>3. MemoryOK' /\ pc' \in Places /\ DiskOK'
    BY <1>1, <1>4, <2>1, PlaceNames DEF PlainCell, MemoryOK, DiskOK, Goto, wait
  <2> QED BY <1>1, <1>4, <2>2, <2>3, ClusterFrame, TypePartsNext DEF PlainCell
<1>5. CASE StartNode \/ RemoveNode
  <2>1. First(todo) \in Nodes /\ arm \in Arms
    BY <1>1, <1>5, FirstNode, ArmType DEF StartNode, RemoveNode, MemoryOK
  <2>2. ClusterTypeOK'
    <3>1. CASE StartNode
      BY <1>1, <2>1, <3>1, ContainerType
         DEF StartNode, start_node, ClusterTypeOK, ContainerState
    <3>2. CASE RemoveNode
      BY <1>1, <2>1, <3>2, ContainerType DEF RemoveNode, down, ClusterTypeOK, ContainerState
    <3> QED BY <1>5, <3>1, <3>2
  <2>3. MemoryOK' /\ pc' \in Places /\ DiskOK'
    BY <1>1, <1>5 DEF StartNode, RemoveNode, MemoryOK, DiskOK
  <2> QED BY <1>1, <1>5, <2>2, <2>3, HistoryFrame, TypePartsNext DEF StartNode, RemoveNode
<1>6. CASE BeginCell
  <2>1. cell' \in Cells
    BY <1>6, FirstWanted DEF BeginCell, AtWork
  <2>2. arrived' \in [Nodes -> Nat \cup {NotArrived}]
    BY <1>6 DEF BeginCell, Nowhere
  <2>3. MemoryOK' /\ pc' \in Places
    BY <1>1, <1>6, <2>1, <2>2, PlaceNames DEF BeginCell, MemoryOK, BeginWait, Goto
  <2>4. HistoryOK' /\ DiskOK'
    BY <1>1, <1>6 DEF BeginCell, make_payload, HistoryOK, DiskOK
  <2> QED BY <1>1, <1>6, <2>3, <2>4, ClusterFrame, TypePartsNext DEF BeginCell
<1>7. CASE Write
  <2>1. attempt \in Nat /\ cell \in Cells
    BY <1>1 DEF HistoryOK, MemoryOK
  <2>2. /\ [payload |-> attempt, fill |-> "growing"] \in Copy
        /\ [payload |-> attempt, fill |-> "whole"] \in Copy
    BY <2>1 DEF Copy
  <2>3. ClusterTypeOK'
    <3>1. copy' \in [Cells -> [Nodes -> Copy]]
      <4>1. \E new \in Copy : copy' = [copy EXCEPT ![cell][writer] = new]
        BY <1>7, <2>2, Zenon DEF Write
      <4> QED BY <1>1, <2>1, <4>1, CopyType, WriterIsNode
    <3> QED BY <1>1, <1>7, <3>1 DEF Write, ClusterTypeOK
  <2>4. MemoryOK' /\ pc' \in Places /\ DiskOK'
    BY <1>1, <1>7 DEF Write, MemoryOK, DiskOK, wait
  <2> QED BY <1>1, <1>7, <2>3, <2>4, HistoryFrame, TypePartsNext DEF Write
<1>8. CASE Append_row
  <2>1. (experiment = "C" \/ converged) \in BOOLEAN
    OBVIOUS
  <2>2. csv' \in Seq(Row)
    BY <1>1, <1>8, <2>1, AppendType DEF Append_row, MemoryOK, HistoryOK, DiskOK
  <2>3. DiskOK'
    BY <1>1, <1>8, <2>2 DEF Append_row, DiskOK
  <2>4. MemoryOK' /\ pc' \in Places
    <3>0. arrived' \in [Nodes -> Nat \cup {NotArrived}]
      BY <1>8 DEF Append_row, Nowhere
    <3>1. CASE (Goto("clear") \/ Goto("arm")) /\ UNCHANGED <<after, wait>>
      BY <1>1, <1>8, <3>0, <3>1, PlaceNames DEF Append_row, MemoryOK, Goto, wait
    <3>2. CASE Goto("down") /\ after' = "up" /\ ForEachNode
      BY <1>1, <1>8, <3>0, <3>2, PlaceNames DEF Append_row, MemoryOK, Goto, ForEachNode
    <3> QED BY <1>8, <3>1, <3>2, Zenon DEF Append_row, ClearNext, RenewNext, PlainNext
  <2> QED BY <1>1, <1>8, <2>3, <2>4, HistoryFrame, ClusterFrame, TypePartsNext DEF Append_row
<1>9. CASE ClearCell
  <2>1. ClusterTypeOK'
    BY <1>1, <1>9, CopyType, MissingType, WriterIsNode
       DEF ClearCell, ClusterTypeOK, MemoryOK
  <2>2. MemoryOK' /\ pc' \in Places /\ DiskOK'
    BY <1>1, <1>9, PlaceNames DEF ClearCell, MemoryOK, DiskOK, Goto, BeginWait
  <2> QED BY <1>1, <1>9, <2>1, <2>2, HistoryFrame, TypePartsNext DEF ClearCell
<1>10. CASE Purge \/ PurgeFails
  <2>1. ClusterTypeOK'
    <3>1. PICK kept : purge(arm, kept)
      BY <1>10 DEF Purge, PurgeFails
    <3> QED BY <1>1, <3>1, MissingType DEF purge, ClusterTypeOK
  <2>2. MemoryOK' /\ pc' \in Places
    BY <1>1, <1>10, TornDownType DEF Purge, PurgeFails
  <2>3. DiskOK' /\ HistoryOK'
    <3>1. DiskOK'
      BY <1>1, <1>10 DEF Purge, PurgeFails, DiskOK
    <3>2. CASE Purge
      BY <1>1, <3>1, <3>2, HistoryFrame DEF Purge
    <3>3. CASE PurgeFails
      BY <1>1, <3>1, <3>3, FaultType DEF PurgeFails
    <3> QED BY <1>10, <3>1, <3>2, <3>3
  <2> QED BY <2>1, <2>2, <2>3, TypePartsNext
<1>11. CASE NodeStarts \/ MeshStep
  <2>1. ClusterTypeOK'
    <3>1. ASSUME NEW a \in Arms, NEW n \in Nodes, Starts(a, n)
          PROVE  ClusterTypeOK'
      BY <1>1, <3>1, ContainerType DEF Starts, ClusterTypeOK, ContainerState
    <3> QED BY <1>1, <1>11, <3>1, SpreadType, Zenon DEF NodeStarts, MeshStep
  <2>2. MemoryOK' /\ pc' \in Places /\ DiskOK'
    BY <1>1, <1>11 DEF NodeStarts, MeshStep, MemoryOK, DiskOK, memory, wait
  <2> QED BY <1>1, <1>11, <2>1, <2>2, HistoryFrame, TypePartsNext DEF NodeStarts, MeshStep
<1>12. CASE NodeExits
  <2>1. ClusterTypeOK'
    BY <1>1, <1>12, ContainerType DEF NodeExits, Exits, ClusterTypeOK, ContainerState
  <2>2. MemoryOK' /\ pc' \in Places /\ DiskOK' /\ littered' \in BOOLEAN
    BY <1>1, <1>12 DEF NodeExits, MemoryOK, DiskOK, memory, wait, HistoryOK
  <2> QED BY <1>1, <1>12, <2>1, <2>2, FaultType, TypePartsNext DEF NodeExits
<1>13. CASE WriteFails \/ SlowStart \/ RemoveFails
  <2>1. MemoryOK' /\ pc' \in Places /\ DiskOK' /\ littered' \in BOOLEAN
    BY <1>1, <1>13 DEF WriteFails, SlowStart, RemoveFails, DeadlinePasses, MemoryOK, DiskOK, wait,
                       HistoryOK
  <2> QED BY <1>1, <1>13, <2>1, FaultType, ClusterFrame, TypePartsNext
          DEF WriteFails, SlowStart, RemoveFails
<1>14. CASE Raise \/ RaiseAfterHeader \/ Kill
  <2>1. MemoryOK' /\ pc' \in Places
    BY <1>1, <1>14, UnwindType, EndsType DEF Raise, RaiseAfterHeader, Kill
  <2>2. DiskOK' /\ littered' \in BOOLEAN
    BY <1>1, <1>14 DEF Raise, RaiseAfterHeader, Kill, HistoryOK, DiskOK
  <2> QED BY <1>1, <1>14, <2>1, <2>2, FaultType, ClusterFrame, TypePartsNext
          DEF Raise, RaiseAfterHeader, Kill
<1>15. CASE OpenCsv
  <2>1. MemoryOK' /\ pc' \in Places /\ DiskOK'
    BY <1>1, <1>15, PlaceNames DEF OpenCsv, MemoryOK, DiskOK, memory, wait, Goto
  <2> QED BY <1>1, <1>15, <2>1, HistoryFrame, ClusterFrame, TypePartsNext DEF OpenCsv
<1> QED BY <1>2, <1>3, <1>4, <1>5, <1>6, <1>7, <1>8, <1>9, <1>10, <1>11, <1>12, <1>13, <1>14,
           <1>15, Zenon DEF Next, Driver, Quiet

-----------------------------------------------------------------------------
(* Every step keeps the cell at hand wanted, and what append knows.        *)

LEMMA StepAtWork ==
    ASSUME TypeOK, AtWork, [Next]_vars
    PROVE  AtWork'
<1>1. CASE pc' \notin Measuring \cup {"cell"}
  BY <1>1 DEF AtWork, Measuring
<1>2. CASE /\ UNCHANGED <<wanted, cell>>
           /\ pc' = "cell" => Left # {}
           /\ pc' \in Measuring => pc \in Measuring
  BY <1>2 DEF AtWork, Left, CellsOf, arm
<1>3. CASE UNCHANGED vars
  BY <1>2, <1>3 DEF vars, memory, AtWork
<1>4. CASE PlainCell \/ BeginCell
  <2>1. cell' \in wanted /\ UNCHANGED wanted /\ pc' # "cell"
    BY <1>4, FirstWanted DEF PlainCell, BeginCell, AtWork, Left, Goto
  <2> QED BY <2>1 DEF AtWork
<1>5. CASE Ready \/ Cleared
  BY <1>1, <1>2, <1>5 DEF Ready, Cleared, FinallyDown, Goto, Measuring
<1>6. CASE NotReady \/ Join \/ Raise \/ RaiseAfterHeader
  <2>1. CASE Unwind
    BY <1>1, <2>1 DEF Unwind, FinallyDown, Ends, Goto, Measuring
  <2>2. CASE Join /\ Goto("append") /\ UNCHANGED <<wanted, cell>>
    BY <1>2, <2>2 DEF Join, Goto, Measuring
  <2> QED BY <1>6, <2>1, <2>2 DEF NotReady, Join, Raise, RaiseAfterHeader
<1>7. CASE Start \/ NextArm \/ Rerun \/ Kill \/ NodesStarted \/ Append_row \/ ClearCell
  BY <1>1, <1>7 DEF Start, NextArm, Rerun, Kill, NodesStarted, Append_row, ClearCell, ClearNext,
                    RenewNext, PlainNext, BeginUp, Ends, Goto, Measuring
<1>8. CASE Purge \/ PurgeFails
  BY <1>1, <1>8 DEF Purge, PurgeFails, TornDown, BeginUp, Ends, Goto, Measuring
<1>9. CASE WatchOver \/ Hash \/ OpenCsv
  BY <1>2, <1>9 DEF WatchOver, Hash, OpenCsv, Goto, memory, Measuring
<1>10. CASE StartNode \/ RemoveNode \/ LookReady \/ LookAtCopy \/ LookAbsent \/ Write
            \/ Deadline \/ NodeStarts \/ MeshStep \/ WriteFails \/ NodeExits \/ SlowStart
            \/ RemoveFails
  <2>1. UNCHANGED <<pc, wanted, cell>>
    BY <1>10 DEF StartNode, RemoveNode, LookReady, LookAtCopy, LookAbsent, Write, Deadline,
                 NodeStarts, MeshStep, WriteFails, NodeExits, SlowStart, RemoveFails, memory
  <2> QED BY <1>2, <2>1 DEF AtWork
<1> QED BY <1>3, <1>4, <1>5, <1>6, <1>7, <1>8, <1>9, <1>10, Zenon DEF Next, Driver

\* What a step may do to the CSV.
LEMMA DiskChanges ==
    ASSUME [Next]_vars
    PROVE  UNCHANGED <<csv, file>> \/ OpenCsv \/ Append_row \/ RaiseAfterHeader
<1>1. CASE UNCHANGED vars
  BY <1>1 DEF vars
<1>2. CASE Quiet
  BY <1>2, QuietFrame
<1>3. CASE PlainCell \/ StartNode \/ RemoveNode \/ BeginCell \/ Write \/ ClearCell \/ Purge
           \/ NodeStarts \/ MeshStep \/ WriteFails \/ NodeExits \/ SlowStart \/ RemoveFails
           \/ PurgeFails \/ Raise \/ Kill
  BY <1>3 DEF PlainCell, StartNode, RemoveNode, BeginCell, Write, ClearCell, Purge, NodeStarts,
              MeshStep, WriteFails, NodeExits, SlowStart, RemoveFails, PurgeFails, Raise, Kill
<1> QED BY <1>1, <1>2, <1>3, Zenon DEF Next, Driver, Quiet

\* Where a step may come to have the CSV open.
LEMMA FileOpens ==
    ASSUME [Next]_vars, pc' \in {"head", "write"}
    PROVE  UNCHANGED pc \/ OpenCsv
<1>1. CASE UNCHANGED vars
  BY <1>1 DEF vars
<1>2. ~ (NotReady \/ Join \/ Raise \/ RaiseAfterHeader)
  BY DEF NotReady, Join, Raise, RaiseAfterHeader, Unwind, FinallyDown, Ends, Goto
<1>3. ~ (Start \/ NextArm \/ PlainCell \/ Rerun \/ Kill \/ NodesStarted \/ Ready \/ BeginCell
         \/ WatchOver \/ Append_row \/ ClearCell \/ Cleared \/ Purge \/ PurgeFails)
  BY DEF Start, NextArm, PlainCell, Rerun, Kill, NodesStarted, Ready, BeginCell, WatchOver,
         Append_row, ClearCell, Cleared, Purge, PurgeFails, TornDown, ClearNext, RenewNext,
         PlainNext, FinallyDown, BeginUp, Ends, Goto
<1>4. CASE Hash
  BY <1>4 DEF Hash, Goto
<1>5. CASE StartNode \/ RemoveNode \/ LookReady \/ LookAtCopy \/ LookAbsent \/ Write
           \/ Deadline \/ NodeStarts \/ MeshStep \/ WriteFails \/ NodeExits \/ SlowStart
           \/ RemoveFails
  BY <1>5 DEF StartNode, RemoveNode, LookReady, LookAtCopy, LookAbsent, Write, Deadline,
              NodeStarts, MeshStep, WriteFails, NodeExits, SlowStart, RemoveFails
<1> QED BY <1>1, <1>2, <1>3, <1>4, <1>5, Zenon DEF Next, Driver

\* A header that is lost is lost for good.
LEMMA StepFile ==
    ASSUME TypeOK, FileInv, [Next]_vars
    PROVE  FileInv' /\ (Sound' => Sound)
<1>0. csv \in Seq(Row) /\ file \in {"absent", "headless", "headed"}
  BY DEF TypeOK
<1>1. CASE OpenCsv
  BY <1>0, <1>1 DEF OpenCsv, FileInv, Sound, Goto
<1>2. CASE Append_row
  <2>1. pc' \notin {"head", "write"}
    BY <1>2 DEF Append_row, ClearNext, RenewNext, PlainNext, Goto
  <2>2. csv' # <<>>
    BY <1>0, <1>2 DEF Append_row
  <2> QED BY <1>2, <2>1, <2>2 DEF Append_row, FileInv, Sound
<1>3. CASE RaiseAfterHeader
  <2>1. pc' \notin {"head", "write"}
    BY <1>3 DEF RaiseAfterHeader, Unwind, FinallyDown, Ends, Goto
  <2> QED BY <1>3, <2>1 DEF RaiseAfterHeader, FileInv, Sound
<1>4. CASE UNCHANGED <<csv, file>> /\ ~OpenCsv
  <2>1. pc' \in {"head", "write"} => UNCHANGED pc
    BY <1>4, FileOpens
  <2> QED BY <1>4, <2>1 DEF FileInv, Sound
<1> QED BY <1>1, <1>2, <1>3, <1>4, DiskChanges

-----------------------------------------------------------------------------
(* Every step keeps the rows in the order of the plan.                     *)

LEMMA OrderFrame ==
    ASSUME InOrder, UNCHANGED <<csv, wanted, cell>>,
           pc' \notin {"start", "exit"} => pc \notin {"start", "exit"},
           pc' \in Measuring => pc \in Measuring
    PROVE  InOrder'
BY DEF InOrder, Measuring

LEMMA OrderEnds ==
    ASSUME TypeOK, InOrder, Ends, UNCHANGED csv
    PROVE  InOrder'
<1>1. Len(csv) \in Nat
  BY DEF TypeOK
<1> QED BY <1>1 DEF InOrder, Ends, Goto, Measuring

LEMMA OrderUnwind ==
    ASSUME TypeOK, InOrder, Unwind, UNCHANGED csv, pc # "start", pc # "exit"
    PROVE  InOrder'
<1>1. CASE Ends
  BY <1>1, OrderEnds
<1>2. CASE FinallyDown("exit") /\ UNCHANGED <<wanted, cell>>
  BY <1>2, OrderFrame DEF FinallyDown, Goto, Measuring
<1> QED BY <1>1, <1>2 DEF Unwind

\* A row for the next cell, and the driver at a place where it measures none.
LEMMA OrderAppend ==
    ASSUME TypeOK, InOrder, NEW row, row.cell = Len(csv) + 1,
           csv' = Append(csv, row), csv' \in Seq(Row),
           wanted = {c \in Cells : c > Len(csv)}, Len(csv) + 1 \in wanted,
           wanted' = wanted \ {Len(csv) + 1}, cell' = Len(csv) + 1,
           pc' \notin Measuring
    PROVE  InOrder'
<1>1. Len(csv) \in Nat /\ Len(csv') = Len(csv) + 1
  BY DEF TypeOK
<1>2. Len(csv') <= CellCount
  BY <1>1, PlanAssumption DEF Cells
<1>3. ASSUME NEW i \in DOMAIN csv'
      PROVE  csv'[i].cell = i
  <2>1. i \in 1 .. Len(csv) + 1
    BY <1>1 DEF TypeOK
  <2>2. CASE i = Len(csv) + 1
    <3>1. csv'[i] = row
      BY <2>2 DEF TypeOK
    <3> QED BY <2>2, <3>1
  <2>3. CASE i \in 1 .. Len(csv)
    <3>1. csv'[i] = csv[i] /\ i \in DOMAIN csv
      BY <2>3 DEF TypeOK
    <3> QED BY <3>1 DEF InOrder
  <2> QED BY <1>1, <2>1, <2>2, <2>3
<1>4. wanted' = {c \in Cells : c > Len(csv')}
  BY <1>1, PlanAssumption DEF Cells
<1> QED BY <1>1, <1>2, <1>3, <1>4 DEF InOrder, Measuring

LEMMA StepOutside ==
    ASSUME Outside, [Next]_vars
    PROVE  Outside'
<1>1. CASE Ends
  BY <1>1 DEF Ends, Outside
<1>2. CASE pc' \notin {"start", "exit"}
  BY <1>2 DEF Outside
<1>3. CASE pc \in {"start", "exit"} /\ UNCHANGED guarded
  BY <1>3 DEF Outside
<1>4. CASE UNCHANGED <<pc, guarded>>
  BY <1>4 DEF Outside
<1>5. CASE UNCHANGED vars
  BY <1>5, <1>4 DEF vars, memory
<1>6. CASE Start \/ NextArm \/ Rerun \/ Kill
  BY <1>1, <1>2, <1>3, <1>6 DEF Start, NextArm, Rerun, Kill, BeginUp, Goto, memory
<1>7. CASE NotReady \/ Join \/ Raise \/ RaiseAfterHeader
  BY <1>1, <1>2, <1>7 DEF NotReady, Join, Raise, RaiseAfterHeader, Unwind, FinallyDown, Goto
<1>8. CASE PlainCell \/ NodesStarted \/ Ready \/ BeginCell \/ WatchOver \/ Hash \/ OpenCsv
           \/ Append_row \/ ClearCell \/ Cleared \/ Purge \/ PurgeFails
  BY <1>1, <1>2, <1>8 DEF PlainCell, NodesStarted, Ready, BeginCell, WatchOver, Hash, OpenCsv,
                          Append_row, ClearCell, Cleared, Purge, PurgeFails, TornDown, ClearNext,
                          RenewNext, PlainNext, FinallyDown, BeginUp, Goto
<1>9. CASE StartNode \/ RemoveNode \/ LookReady \/ LookAtCopy \/ LookAbsent
           \/ Write \/ Deadline \/ NodeStarts \/ MeshStep \/ WriteFails \/ NodeExits \/ SlowStart
           \/ RemoveFails
  BY <1>4, <1>9 DEF StartNode, RemoveNode, LookReady, LookAtCopy, LookAbsent, Write, Deadline,
                    NodeStarts, MeshStep, WriteFails, NodeExits, SlowStart, RemoveFails, memory
<1> QED BY <1>5, <1>6, <1>7, <1>8, <1>9, Zenon DEF Next, Driver

LEMMA StepOrder ==
    ASSUME TypeOK, AtWork, FileInv, Sound, InOrder, Outside, [Next]_vars
    PROVE  InOrder'
<1>1. CASE UNCHANGED vars
  BY <1>1, OrderFrame DEF vars, memory, InOrder
<1>2. CASE Start
  <2>1. done_cells = {c \in Cells : c <= Len(csv)}
    <3>1. Len(csv) \in Nat /\ DOMAIN csv = 1 .. Len(csv)
      BY DEF TypeOK
    <3>2. file # "headed" => csv = <<>>
      BY DEF TypeOK, FileInv, Sound
    <3>3. done_cells = DOMAIN csv
      <4>1. CASE file = "headed"
        BY <4>1 DEF done_cells, InOrder
      <4>2. CASE file # "headed"
        <5>1. DOMAIN csv = {}
          BY <3>1, <3>2, <4>2
        <5> QED BY <4>2, <5>1 DEF done_cells
      <4> QED BY <4>1, <4>2
    <3> QED BY <3>1, <3>3, PlanAssumption DEF InOrder, Cells
  <2>2. CASE wanted' = Cells \ done_cells /\ Goto("arm") /\ UNCHANGED cell
    <3>1. Len(csv) \in Nat
      BY DEF TypeOK
    <3>2. wanted' = {c \in Cells : c > Len(csv)}
      BY <2>1, <2>2, <3>1, PlanAssumption DEF Cells
    <3> QED BY <1>2, <2>2, <3>2 DEF Start, InOrder, Goto, Measuring
  <2>3. CASE Ends
    BY <1>2, <2>3, OrderEnds DEF Start
  <2> QED BY <1>2, <2>2, <2>3, Zenon DEF Start
<1>3. CASE NextArm
  <2>1. CASE Ends
    BY <1>3, <2>1, OrderEnds DEF NextArm
  <2>2. CASE wanted # {} /\ cell' = First(wanted) /\ BeginUp /\ UNCHANGED wanted
    <3>1. cell' = Len(csv) + 1 /\ Len(csv) \in Nat
      BY <1>3, <2>2, NextCell DEF NextArm, TypeOK
    <3> QED BY <1>3, <2>2, <3>1 DEF NextArm, BeginUp, Goto, InOrder, Measuring
  <2> QED BY <1>3, <2>1, <2>2, Zenon DEF NextArm
<1>4. CASE PlainCell
  <2>1. cell' = Len(csv) + 1 /\ Len(csv) \in Nat
    BY <1>4, NextCell DEF PlainCell, TypeOK
  <2> QED BY <1>4, <2>1 DEF PlainCell, InOrder, Goto, Measuring
<1>5. CASE Append_row
  <2> DEFINE row == [cell |-> cell, converged |-> experiment = "C" \/ converged]
  <2>1. cell = Len(csv) + 1 /\ cell \in Cells /\ Len(csv) \in Nat
    BY <1>5 DEF Append_row, InOrder, TypeOK, Measuring
  <2>2. csv' = Append(csv, row) /\ row.cell = Len(csv) + 1
    BY <1>5, <2>1 DEF Append_row
  <2>3. csv' \in Seq(Row)
    BY <1>5, StepType DEF TypeOK, Next, Driver
  <2>4. /\ wanted = {c \in Cells : c > Len(csv)}
        /\ wanted' = wanted \ {Len(csv) + 1}
        /\ pc' \notin Measuring
        /\ cell' = Len(csv) + 1
    BY <1>5, <2>1 DEF Append_row, ClearNext, RenewNext, PlainNext, InOrder, Measuring, Goto
  <2>5. Len(csv) + 1 \in wanted
    BY <2>1, <2>4
  <2> HIDE DEF row
  <2> QED BY <2>2, <2>3, <2>4, <2>5, OrderAppend
<1>6. CASE BeginCell
  <2>1. cell' = Len(csv) + 1 /\ Len(csv) \in Nat
    BY <1>6, NextCell DEF BeginCell, AtWork, TypeOK
  <2> QED BY <1>6, <2>1 DEF BeginCell, InOrder, Goto, Measuring
<1>7. CASE NotReady \/ Join \/ Raise \/ RaiseAfterHeader
  <2>0. UNCHANGED csv /\ pc # "exit"
    BY <1>7 DEF NotReady, Join, Raise, RaiseAfterHeader
  <2>1. CASE Unwind /\ pc # "start"
    BY <2>0, <2>1, OrderUnwind
  <2>2. CASE Unwind /\ pc = "start"
    BY <2>0, <2>2, OrderEnds DEF Unwind, Outside
  <2>3. CASE Join /\ Goto("append") /\ UNCHANGED <<wanted, cell>>
    BY <2>0, <2>3, OrderFrame DEF Join, Goto, Measuring
  <2> QED BY <1>7, <2>1, <2>2, <2>3 DEF NotReady, Join, Raise, RaiseAfterHeader
<1>8. CASE Kill
  BY <1>8, OrderEnds DEF Kill
<1>9. CASE Ready \/ Cleared
  BY <1>9, OrderFrame DEF Ready, Cleared, FinallyDown, Goto, Measuring
<1>10. CASE Purge \/ PurgeFails
  <2>1. CASE Ends
    BY <1>10, <2>1, OrderEnds DEF Purge, PurgeFails
  <2>2. CASE pc' \in {"up", "arm"} /\ UNCHANGED <<wanted, cell>>
    BY <1>10, <2>2, OrderFrame DEF Purge, PurgeFails, Measuring
  <2> QED BY <1>10, <2>1, <2>2 DEF Purge, PurgeFails, TornDown, BeginUp, Goto, memory
<1>11. CASE NodesStarted \/ WatchOver \/ Hash \/ OpenCsv \/ ClearCell \/ Rerun
  <2>1. CASE NodesStarted \/ ClearCell \/ Rerun
    BY <2>1, OrderFrame DEF NodesStarted, ClearCell, Rerun, Goto, memory, Measuring
  <2>2. CASE WatchOver \/ Hash \/ OpenCsv
    BY <2>2, OrderFrame DEF WatchOver, Hash, OpenCsv, Goto, memory, Measuring
  <2> QED BY <1>11, <2>1, <2>2
<1>12. CASE StartNode \/ RemoveNode \/ LookReady \/ LookAtCopy \/ LookAbsent \/ Write
            \/ Deadline \/ NodeStarts \/ MeshStep \/ WriteFails \/ NodeExits \/ SlowStart
            \/ RemoveFails
  <2>1. UNCHANGED <<pc, csv, wanted, cell>>
    BY <1>12 DEF StartNode, RemoveNode, LookReady, LookAtCopy, LookAbsent, Write, Deadline,
                 NodeStarts, MeshStep, WriteFails, NodeExits, SlowStart, RemoveFails, memory
  <2> QED BY <2>1, OrderFrame DEF InOrder
<1> QED BY <1>1, <1>2, <1>3, <1>4, <1>5, <1>6, <1>7, <1>8, <1>9, <1>10, <1>11, <1>12, Zenon
        DEF Next, Driver

-----------------------------------------------------------------------------
(* Every step keeps the bookkeeping of the watch.                          *)

\* One look of the watch: nothing is noted, or the node looked at is noted.
LEMMA LookNotes ==
    ASSUME TypeOK, Watching, LookAtCopy
    PROVE  /\ Watching'
           /\ \/ UNCHANGED arrived
              \/ \E n \in Nodes : /\ complete(copy[cell][n])
                                  /\ arrived[n] = NotArrived
                                  /\ \E p \in Nat : arrived' = [arrived EXCEPT ![n] = p]
<1>1. /\ pc = "watch" /\ pc' = "watch" /\ todo \subseteq pending /\ pending \subseteq Nodes
      /\ \A n \in Nodes : arrived[n] # NotArrived <=> n \notin pending
  BY DEF LookAtCopy, Watching, TypeOK
<1>2. CASE BeginPass /\ UNCHANGED arrived
  BY <1>1, <1>2 DEF BeginPass, Watching
<1>3. CASE /\ todo # {}
           /\ Look(First(todo), complete(copy[cell][First(todo)]))
           /\ arrived' = IF complete(copy[cell][First(todo)])
                         THEN [arrived EXCEPT ![First(todo)] = copy[cell][First(todo)].payload]
                         ELSE arrived
  <2> DEFINE n == First(todo)
  <2>1. n \in todo /\ n \in Nodes /\ n \in pending /\ cell \in Cells
    BY <1>1, <1>3, FirstNode DEF TypeOK
  <2>2. copy[cell][n].payload \in Nat
    BY <2>1 DEF TypeOK, ClusterTypeOK, Copy
  <2>3. arrived \in [Nodes -> Nat \cup {NotArrived}]
    BY DEF TypeOK
  <2> HIDE DEF n
  <2>4. CASE complete(copy[cell][n])
    <3>1. /\ arrived' = [arrived EXCEPT ![n] = copy[cell][n].payload]
          /\ pending' = pending \ {n} /\ todo' = todo \ {n}
      BY <1>3, <2>4 DEF n, Look
    <3>2. \A m \in Nodes : arrived'[m] = IF m = n THEN copy[cell][n].payload ELSE arrived[m]
      BY <2>1, <2>3, <3>1
    <3>3. copy[cell][n].payload # NotArrived
      BY <2>2 DEF NotArrived
    <3>4. Watching'
      BY <1>1, <2>1, <3>1, <3>2, <3>3 DEF Watching
    <3> QED BY <1>1, <2>1, <2>2, <2>4, <3>1, <3>4
  <2>5. CASE ~complete(copy[cell][n])
    <3>1. UNCHANGED <<arrived, pending>> /\ todo' = todo \ {n}
      BY <1>3, <2>5 DEF n, Look
    <3> QED BY <1>1, <3>1 DEF Watching
  <2> QED BY <2>4, <2>5
<1> QED BY <1>2, <1>3, Zenon DEF LookAtCopy

LEMMA StepWatching ==
    ASSUME TypeOK, Watching, [Next]_vars
    PROVE  Watching'
<1>1. CASE pc' # "watch"
  BY <1>1 DEF Watching
<1>2. CASE UNCHANGED <<pc, todo, pending, arrived>>
  BY <1>2 DEF Watching
<1>3. CASE UNCHANGED vars
  BY <1>2, <1>3 DEF vars, memory, wait
<1>4. CASE LookAtCopy
  BY <1>4, LookNotes
<1>5. CASE BeginCell
  <2>1. \A n \in Nodes : arrived'[n] = NotArrived
    BY <1>5 DEF BeginCell, Nowhere
  <2> QED BY <1>5, <2>1 DEF BeginCell, BeginWait, Watching
<1>6. CASE NotReady \/ Join \/ Raise \/ RaiseAfterHeader
  BY <1>1, <1>6 DEF NotReady, Join, Raise, RaiseAfterHeader, Unwind, FinallyDown, Ends, Goto
<1>7. CASE Start \/ NextArm \/ PlainCell \/ Rerun \/ Kill \/ NodesStarted \/ Ready \/ WatchOver
           \/ Hash \/ OpenCsv \/ Append_row \/ ClearCell \/ Cleared \/ Purge \/ PurgeFails
  BY <1>1, <1>7 DEF Start, NextArm, PlainCell, Rerun, Kill, NodesStarted, Ready, WatchOver, Hash,
                    OpenCsv, Append_row, ClearCell, Cleared, Purge, PurgeFails, TornDown, ClearNext,
                    RenewNext, PlainNext, FinallyDown, BeginUp, Ends, Goto
<1>8. CASE StartNode \/ RemoveNode \/ LookReady \/ LookAbsent \/ SlowStart \/ RemoveFails
  <2>1. pc # "watch" /\ UNCHANGED pc
    BY <1>8 DEF StartNode, RemoveNode, LookReady, LookAbsent, SlowStart, RemoveFails
  <2> QED BY <1>1, <2>1
<1>9. CASE Write \/ Deadline \/ NodeStarts \/ MeshStep \/ WriteFails \/ NodeExits
  BY <1>2, <1>9 DEF Write, Deadline, DeadlinePasses, NodeStarts, MeshStep, WriteFails, NodeExits,
                    memory, wait
<1> QED BY <1>3, <1>4, <1>5, <1>6, <1>7, <1>8, <1>9, Zenon DEF Next, Driver

LEMMA StepInv ==
    ASSUME IInv, [Next]_vars
    PROVE  IInv'
BY StepType, StepAtWork, StepFile, StepOrder, StepWatching, StepOutside, Zenon DEF IInv

LEMMA AlwaysInv == Spec => []IInv
<1>1. IInv /\ [Next]_vars => IInv'
  BY StepInv
<1> QED BY <1>1, InitInv, PTL DEF Spec

\* The state of the driver, the cluster and the history stays within its types
\* for every plan, every number of nodes and every bound on faults
\* (run_matrix.py, exasol_cluster.py, poller.py).
THEOREM MatrixTypeCorrect == Spec => []TypeOK
BY AlwaysInv, PTL DEF IInv

-----------------------------------------------------------------------------
(* The CSV implements the checklist.                                       *)

\* The cells the rows are about, in order.
logged == [i \in DOMAIN csv |-> csv[i].cell]

LEMMA LoggedSeq ==
    ASSUME csv \in Seq(Row)
    PROVE  logged \in Seq(Nat) /\ Len(logged) = Len(csv) /\ DOMAIN logged = 1 .. Len(csv)
<1>1. Len(csv) \in Nat /\ DOMAIN csv = 1 .. Len(csv)
  OBVIOUS
<1>2. ASSUME NEW i \in DOMAIN csv
      PROVE  csv[i].cell \in Nat
  <2>1. csv[i] \in Row
    BY <1>1
  <2>2. csv[i].cell \in Cells
    BY <2>1 DEF Row
  <2> QED BY <2>2, PlanAssumption DEF Cells
<1>3. logged \in [1 .. Len(csv) -> Nat]
  BY <1>1, <1>2 DEF logged
<1> QED BY <1>1, <1>3

\* A row for the next cell is one more entry of the log.
LEMMA RowIsLogged ==
    ASSUME TypeOK, NEW row, row \in Row, row.cell = Len(csv) + 1, csv' = Append(csv, row)
    PROVE  logged' = Append(logged, Len(logged) + 1) /\ Len(logged) = Len(csv)
<1>1. csv \in Seq(Row) /\ csv' \in Seq(Row) /\ Len(csv) \in Nat /\ Len(csv') = Len(csv) + 1
  BY DEF TypeOK
<1>2. logged \in Seq(Nat) /\ Len(logged) = Len(csv)
  BY <1>1, LoggedSeq
<1>3. logged' = [i \in 1 .. Len(csv) + 1 |-> csv'[i].cell]
  BY <1>1 DEF logged
<1>4. \A i \in 1 .. Len(csv) + 1 : csv'[i] = IF i <= Len(csv) THEN csv[i] ELSE row
  BY <1>1
<1>5. \A i \in 1 .. Len(csv) : logged[i] = csv[i].cell
  BY <1>1 DEF logged
<1>6. Append(logged, Len(logged) + 1) =
        [i \in 1 .. Len(csv) + 1 |-> IF i <= Len(csv) THEN logged[i] ELSE Len(csv) + 1]
  BY <1>1, <1>2
<1>7. logged' = Append(logged, Len(logged) + 1)
  BY <1>1, <1>3, <1>4, <1>5, <1>6
<1> QED BY <1>2, <1>7

LEMMA StepRecords ==
    ASSUME IInv, [Next]_vars
    PROVE  [Plan!Record]_readable
<1>1. CASE UNCHANGED <<csv, file>>
  BY <1>1 DEF readable
<1>2. TypeOK /\ FileInv /\ csv \in Seq(Row) /\ Len(csv) \in Nat
  BY DEF IInv, TypeOK
<1>3. CASE OpenCsv
  BY <1>3 DEF OpenCsv, readable
<1>4. CASE RaiseAfterHeader
  <2>1. csv = <<>> /\ UNCHANGED csv /\ file = "headless"
    BY <1>2, <1>4 DEF RaiseAfterHeader, FileInv
  <2>2. [i \in DOMAIN csv |-> csv[i].cell] = <<>>
    BY <2>1
  <2> QED BY <2>1, <2>2 DEF readable
<1>5. CASE Append_row /\ file' = "headless"
  BY <1>2, <1>5 DEF Append_row, readable, FileInv
<1>6. CASE Append_row /\ file' # "headless"
  <2> DEFINE row == [cell |-> cell, converged |-> experiment = "C" \/ converged]
  <2>1. file' = "headed" /\ Sound /\ (file # "headed" => csv = <<>>)
    BY <1>2, <1>6 DEF Append_row, FileInv, Sound, TypeOK
  <2>2. InOrder
    BY <2>1 DEF IInv
  <2>3. cell = Len(csv) + 1 /\ Len(csv) + 1 \in Cells
    BY <1>2, <1>6, <2>2 DEF Append_row, InOrder, Measuring, TypeOK
  <2>4. csv' = Append(csv, row) /\ row.cell = Len(csv) + 1
    BY <1>6, <2>3 DEF Append_row
  <2>5. (experiment = "C" \/ converged) \in BOOLEAN
    OBVIOUS
  <2>6. row \in Row
    BY <1>2, <2>3, <2>5 DEF Row, TypeOK
  <2>7. Len(csv) < CellCount
    BY <1>2, <2>3, PlanAssumption DEF Cells
  <2> HIDE DEF row
  <2>8. logged' = Append(logged, Len(logged) + 1) /\ Len(logged) = Len(csv)
    BY <1>2, <2>4, <2>6, RowIsLogged
  <2>9. readable = logged /\ readable' = logged'
    <3>1. csv = <<>> => logged = <<>>
      BY DEF logged
    <3> QED BY <2>1, <3>1 DEF readable, logged
  <2> QED BY <2>7, <2>8, <2>9 DEF Plan!Record
<1> QED BY <1>1, <1>3, <1>4, <1>5, <1>6, DiskChanges

\* Whatever interrupts the matrix, between the open and the close of append too,
\* and however often it is started again, what can be read from its CSV
\* implements the checklist: the plan from the front, each cell once, and no row
\* of a CSV that was left without its header (run_matrix.py: append, done_cells,
\* the loops of the experiments).
THEOREM RowsFollowPlan == Spec => OneRowEach
<1>1. Init => Plan!Init
  BY DEF Init, Plan!Init, readable
<1>2. IInv /\ [Next]_vars => [Plan!Record]_readable
  BY StepRecords
<1> QED BY <1>1, <1>2, AlwaysInv, PTL DEF Spec, OneRowEach, Plan!Spec

=============================================================================
