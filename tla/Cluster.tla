------------------------------ MODULE Cluster ------------------------------
(***************************************************************************)
(* The clusters a matrix is measured on: syncfs_cluster.py and             *)
(* exasol_cluster.py under src/tools/measure/bucketfs, which differ in the *)
(* image and in what "ready" means, and the mesh that runs in them.        *)
(*                                                                         *)
(* An arm is a system, a configuration and a number of nodes; it has a     *)
(* root directory of its own and containers named after the root.  Every   *)
(* cell writes under a name of its own, so a node holds one copy a cell.   *)
(***************************************************************************)
EXTENDS Poller

CONSTANTS
    CellCount,   \* the cells of the plan, numbered in its order
    ArmOf        \* ArmOf[c]: the arm that measures cell c

Cells == 1 .. CellCount
Arms == {ArmOf[c] : c \in Cells}
CellsOf(arm) == {c \in Cells : ArmOf[c] = arm}

\* The plan loops over arms and, inside, over the cells of each.
ASSUME PlanAssumption ==
    /\ CellCount \in Nat \ {0}
    /\ ArmOf \in [Cells -> Nat]
    /\ \A c, d \in Cells : c <= d => ArmOf[c] <= ArmOf[d]

VARIABLES
    container,   \* container[a][n]: what podman has for node n of arm a
    copy,        \* copy[c][n]: the file of cell c in the data directory of node n
    deleting     \* deleting[c]: the mesh has been told that cell c's file is deleted

cluster == <<container, copy, deleting>>

ContainerState == {"none", "starting", "ready", "exited"}

\* Both scripts name the first node the writer.
writer == First(Nodes)

ClusterTypeOK ==
    /\ container \in [Arms -> [Nodes -> ContainerState]]
    /\ copy \in [Cells -> [Nodes -> Copy]]
    /\ deleting \in [Cells -> BOOLEAN]

ClusterInit ==
    /\ container = [a \in Arms |-> [n \in Nodes |-> "none"]]
    /\ copy = [c \in Cells |-> [n \in Nodes |-> Missing]]
    /\ deleting = [c \in Cells |-> FALSE]

-----------------------------------------------------------------------------
(* What the scripts do to a cluster.                                       *)

\* An old container of that name is removed and a new one run.  The data
\* directory is made if it is not there, and kept as it is if it is: only the
\* memory of the daemon is new.
start_node(arm, n) ==
    /\ container' = [container EXCEPT ![arm][n] = "starting"]
    /\ deleting' = [c \in Cells |-> deleting[c] /\ ArmOf[c] # arm]
    /\ UNCHANGED copy

\* Stopped, not removed.
Faulty_down(arm, n) ==
    /\ container' = [container EXCEPT ![arm][n] = "exited"]
    /\ UNCHANGED <<copy, deleting>>

down(arm, n) ==
    /\ container' = [container EXCEPT ![arm][n] = "none"]
    /\ UNCHANGED <<copy, deleting>>

\* A plain rmtree, which the files of a container's user survive.
Faulty_purge(arm, kept) ==
    /\ UNCHANGED <<container, copy, deleting>>

\* The root is deleted.  Nobody looks whether it was: what rm could not delete
\* is kept, on the nodes "kept".
purge(arm, kept) ==
    /\ copy' = [c \in Cells |->
                    IF ArmOf[c] = arm
                    THEN [n \in Nodes |-> IF n \in kept THEN copy[c][n] ELSE Missing]
                    ELSE copy[c]]
    /\ UNCHANGED <<container, deleting>>

\* The nodes that have a file of an arm.
Filled(arm) == {n \in Nodes : \E c \in CellsOf(arm) : there(copy[c][n])}

-----------------------------------------------------------------------------
(* What happens in it.                                                     *)

Starts(arm, n) ==
    /\ container[arm][n] = "starting"
    /\ container' = [container EXCEPT ![arm][n] = "ready"]
    /\ UNCHANGED <<copy, deleting>>

Exits(arm, n) ==
    /\ container[arm][n] \in {"starting", "ready"}
    /\ container' = [container EXCEPT ![arm][n] = "exited"]
    /\ UNCHANGED <<copy, deleting>>

\* Running nodes that hold payload p of cell c in full.
Holders(c, p) == {m \in Nodes : /\ container[ArmOf[c]][m] = "ready"
                                /\ copy[c][m] = [payload |-> p, fill |-> "whole"]}

\* How much of a payload that is only begun is there: an older one under the
\* name is overwritten in place, and keeps its blocks.
Begun(old) == IF complete(old) THEN "mixed" ELSE "sparse"

\* A file reaches n: first at its full size, then with its bytes.  A node that
\* has an older payload under the name takes the newer one.
Spread(c, n) ==
    /\ container[ArmOf[c]][n] = "ready"
    /\ ~deleting[c]
    /\ \E m \in Nodes \ {n} :
         LET p == copy[c][m].payload IN
           /\ m \in Holders(c, p)
           /\ \/ /\ p > copy[c][n].payload
                 /\ copy' = [copy EXCEPT ![c][n] = [payload |-> p, fill |-> Begun(copy[c][n])]]
              \/ /\ copy[c][n].payload = p
                 /\ copy[c][n].fill \in {"sparse", "mixed"}
                 /\ copy' = [copy EXCEPT ![c][n].fill = "whole"]
    /\ UNCHANGED <<container, deleting>>

\* The deletion reaches n.
Forget(c, n) ==
    /\ container[ArmOf[c]][n] = "ready"
    /\ deleting[c]
    /\ there(copy[c][n])
    /\ copy' = [copy EXCEPT ![c][n] = Missing]
    /\ UNCHANGED <<container, deleting>>

=============================================================================
