------------------------------- MODULE Matrix -------------------------------
(***************************************************************************)
(* src/tools/measure/bucketfs/run_matrix.py: the driver that measures the  *)
(* cells of a plan one after the other, writes a row for each and resumes  *)
(* from the rows when it is started again.  experiment_a clears a cell     *)
(* through the service, experiment_b takes a fresh cluster for each cell,  *)
(* experiment_c copies plain files.                                        *)
(*                                                                         *)
(* Beside the driver run its writer thread, the mesh and the clock.  What  *)
(* goes wrong is bounded by Faults: a container exits, a write fails, an   *)
(* exception (an interrupt from the keyboard included) leaves the code     *)
(* anywhere, a node is slow to start, podman fails in a teardown, which    *)
(* nobody notices, or the process is killed, which runs no finally clause. *)
(***************************************************************************)
EXTENDS Cluster, Sequences

CONSTANTS
    Experiments,   \* the experiments that may be run, of "A", "B" and "C"
    Faults         \* how many of the faults above may happen

ASSUME MatrixAssumption ==
    /\ Experiments \subseteq {"A", "B", "C"}
    /\ Faults \in Nat

VARIABLES
    experiment,   \* the experiment, chosen once
    pc,           \* where the driver is
    csv,          \* the rows of the CSV, on disk
    file,         \* the CSV: "absent", or there "headless" or "headed" by a header line
    wanted,       \* the cells not done when the run began and not measured since
    cell,         \* the cell at hand
    guarded,      \* inside the try whose finally takes the cluster down
    after,        \* where the driver goes from "down"
    copier,       \* the writer thread
    arrived,      \* arrived[n]: the payload found complete at n, or NotArrived
    hashes,       \* the distinct hashes read so far
    attempt,      \* the payloads made so far; the latest is the cell's own
    faults,       \* what is left of Faults
    littered      \* history: a run was killed, or a teardown was cut short or failed

memory == <<wanted, cell, guarded, after, copier, arrived, hashes, wait>>
history == <<experiment, attempt, faults, littered>>
vars == <<pc, csv, file, memory, history, cluster>>

NotArrived == -1
Nowhere == [n \in Nodes |-> NotArrived]
Places == {"start", "arm", "up", "ready", "cell", "watch", "hash", "join", "append",
           "head", "write", "clear", "absent", "down", "exit"}
Row == [cell : Cells, converged : BOOLEAN]

arm == ArmOf[cell]

TypeOK ==
    /\ ClusterTypeOK
    /\ experiment \in Experiments
    /\ pc \in Places
    /\ csv \in Seq(Row)
    /\ file \in {"absent", "headless", "headed"}
    /\ wanted \subseteq Cells
    /\ cell \in Cells
    /\ guarded \in BOOLEAN
    /\ after \in {"up", "arm", "exit"}
    /\ copier \in {"idle", "opening", "writing", "done", "failed"}
    /\ arrived \in [Nodes -> Nat \cup {NotArrived}]
    /\ hashes \subseteq [payload : Nat, torn : Nat]
    /\ attempt \in Nat
    /\ faults \in 0 .. Faults
    /\ littered \in BOOLEAN
    /\ pending \subseteq Nodes
    /\ todo \subseteq Nodes
    /\ expired \in BOOLEAN

Init ==
    /\ ClusterInit
    /\ experiment \in Experiments
    /\ pc = "start"
    /\ csv = <<>> /\ file = "absent"
    /\ wanted = {} /\ cell = 1
    /\ guarded = FALSE /\ after = "arm"
    /\ copier = "idle" /\ arrived = Nowhere /\ hashes = {}
    /\ pending = {} /\ todo = {} /\ expired = FALSE
    /\ attempt = 0
    /\ faults = Faults
    /\ littered = FALSE

-----------------------------------------------------------------------------
(* Shapes of a step of the driver.                                         *)

Goto(place) == pc' = place

\* The process ends: its memory is gone, what it left behind is not.
Ends ==
    /\ Goto("exit")
    /\ wanted' = {} /\ cell' = 1
    /\ guarded' = FALSE /\ after' = "arm"
    /\ copier' = "idle" /\ arrived' = Nowhere /\ hashes' = {}
    /\ pending' = {} /\ todo' = {} /\ expired' = FALSE

\* cluster_up begins, or cluster_down, which is not inside the try itself.
BeginUp == Goto("up") /\ ForEachNode /\ UNCHANGED guarded
FinallyDown(then) == Goto("down") /\ ForEachNode /\ after' = then /\ guarded' = FALSE

\* An exception leaves the code at hand.  The writer thread is abandoned: what
\* it still writes is purged or dies with the process.
Unwind ==
    \/ /\ guarded
       /\ FinallyDown("exit")
       /\ copier' = "idle" /\ arrived' = Nowhere /\ hashes' = {}
       /\ UNCHANGED <<wanted, cell>>
    \/ /\ ~guarded
       /\ Ends

\* The cells of this arm that are still to be measured.
Left == wanted \cap CellsOf(arm)

-----------------------------------------------------------------------------
(* The plan.                                                               *)

\* The first row taken for the header, though there is one.
Faulty_done_cells ==
    IF file = "headed" THEN {csv[i].cell : i \in DOMAIN csv \ {1}} ELSE {}

\* DictReader takes the first line for the header.
done_cells == IF file = "headed" THEN {csv[i].cell : i \in DOMAIN csv} ELSE {}

\* A row that stands where the header should be has none of its names: the
\* first row after it raises KeyError.
Start ==
    /\ pc = "start"
    /\ \/ /\ file = "headless" => Len(csv) <= 1
          /\ wanted' = Cells \ done_cells
          /\ Goto("arm")
          /\ UNCHANGED <<cell, guarded, after, copier, arrived, hashes, wait>>
       \/ /\ file = "headless" /\ Len(csv) > 1
          /\ Ends
    /\ UNCHANGED <<csv, file, history, cluster>>

\* The next arm that has a cell to measure, or the end of the plan.
NextArm ==
    /\ pc = "arm"
    /\ \/ /\ wanted = {}
          /\ Ends
       \/ /\ wanted # {}
          /\ experiment # "C"
          /\ cell' = First(wanted)
          /\ BeginUp
          /\ UNCHANGED <<wanted, after, copier, arrived, hashes>>
    /\ UNCHANGED <<csv, file, history, cluster>>

\* A payload no earlier one is equal to.
make_payload == attempt' = attempt + 1

\* experiment_c: copy, flush, remove; no node has a part in it.
PlainCell ==
    /\ pc = "arm"
    /\ experiment = "C"
    /\ wanted # {}
    /\ cell' = First(wanted)
    /\ make_payload
    /\ Goto("append")
    /\ UNCHANGED <<csv, file, wanted, guarded, after, copier, arrived, hashes, wait,
                   experiment, faults, littered, cluster>>

-----------------------------------------------------------------------------
(* cluster_up: every node is started, then every node is waited for.       *)

StartNode ==
    /\ pc = "up"
    /\ todo # {}
    /\ start_node(arm, First(todo))
    /\ todo' = todo \ {First(todo)}
    /\ UNCHANGED <<pc, csv, file, wanted, cell, guarded, after, copier, arrived, hashes,
                   pending, expired, history>>

NodesStarted ==
    /\ pc = "up"
    /\ todo = {}
    /\ Goto("ready")
    /\ BeginWait(Nodes)
    /\ UNCHANGED <<csv, file, wanted, cell, guarded, after, copier, arrived, hashes, history,
                   cluster>>

\* One look of wait_ready, while no node it looks at has exited.
LookReady ==
    /\ pc = "ready"
    /\ \/ BeginPass
       \/ LET n == First(todo) IN
            /\ todo # {}
            /\ container[arm][n] # "exited"
            /\ Look(n, container[arm][n] = "ready")
    /\ UNCHANGED <<pc, csv, file, wanted, cell, guarded, after, copier, arrived, hashes,
                   history, cluster>>

\* It raises for a node that has exited, and for one not ready by the deadline.
NotReady ==
    /\ pc = "ready"
    /\ \/ todo # {} /\ container[arm][First(todo)] = "exited"
       \/ WaitOver /\ pending # {}
    /\ Unwind
    /\ UNCHANGED <<csv, file, history, cluster>>

\* The cluster is up.  experiment_b brings one up after its last cell as well.
Ready ==
    /\ pc = "ready"
    /\ WaitOver
    /\ pending = {}
    /\ \/ /\ Left # {}
          /\ Goto("cell")
          /\ guarded' = TRUE
          /\ UNCHANGED <<after, wait>>
       \/ /\ Left = {}
          /\ FinallyDown("arm")
    /\ UNCHANGED <<csv, file, wanted, cell, copier, arrived, hashes, history, cluster>>

-----------------------------------------------------------------------------
(* propagation_cell and tree_cell.                                         *)

\* A fresh payload, the writer thread, and the watch.
BeginCell ==
    /\ pc = "cell"
    /\ cell' = First(Left)
    /\ make_payload
    /\ copier' = "opening"
    /\ arrived' = Nowhere
    /\ hashes' = {}
    /\ BeginWait(Nodes)
    /\ Goto("watch")
    /\ UNCHANGED <<csv, file, wanted, guarded, after, experiment, faults, littered, cluster>>

\* The thread: the file is truncated, grows in place, and is complete.
Write ==
    /\ \/ /\ copier = "opening"
          /\ copier' = "writing"
          /\ copy' = [copy EXCEPT ![cell][writer] = [payload |-> attempt, fill |-> "growing"]]
       \/ /\ copier = "writing"
          /\ copier' = "done"
          /\ copy' = [copy EXCEPT ![cell][writer] = [payload |-> attempt, fill |-> "whole"]]
    /\ UNCHANGED <<pc, csv, file, wanted, cell, guarded, after, arrived, hashes, wait, history,
                   container, deleting>>

LookAtCopy ==
    /\ pc = "watch"
    /\ \/ /\ BeginPass
          /\ UNCHANGED arrived
       \/ LET n == First(todo) IN
            /\ todo # {}
            /\ Look(n, complete(copy[cell][n]))
            /\ arrived' = IF complete(copy[cell][n])
                          THEN [arrived EXCEPT ![n] = copy[cell][n].payload] ELSE arrived
    /\ UNCHANGED <<pc, csv, file, wanted, cell, guarded, after, copier, hashes, history, cluster>>

\* The hashes are read after the loop, of the nodes that arrived.
WatchOver ==
    /\ pc = "watch"
    /\ WaitOver
    /\ Goto("hash")
    /\ todo' = Nodes \ pending
    /\ pending' = {} /\ expired' = FALSE
    /\ UNCHANGED <<csv, file, wanted, cell, guarded, after, copier, arrived, hashes,
                   history, cluster>>

Hash ==
    /\ pc = "hash"
    /\ \/ LET n == First(todo) IN
            /\ todo # {}
            /\ hashes' = hashes \cup {sha256(n, copy[cell][n])}
            /\ todo' = todo \ {n}
            /\ UNCHANGED pc
       \/ /\ todo = {}
          /\ Goto("join")
          /\ UNCHANGED <<hashes, todo>>
    /\ UNCHANGED <<csv, file, wanted, cell, guarded, after, copier, arrived, pending, expired,
                   history, cluster>>

\* started(): the thread is waited for, and its error raised.
Join ==
    /\ pc = "join"
    /\ \/ /\ copier = "done"
          /\ Goto("append")
          /\ copier' = "idle"
          /\ UNCHANGED <<wanted, cell, guarded, after, arrived, hashes, wait>>
       \/ /\ copier = "failed"
          /\ Unwind
    /\ UNCHANGED <<csv, file, history, cluster>>

\* summarise's verdict on the records.
converged ==
    /\ \A n \in Nodes : arrived[n] # NotArrived
    /\ Cardinality(hashes) = 1

-----------------------------------------------------------------------------
(* append: is the file there; open it; write what it lacks; close it.      *)

\* open makes the file, empty, and what is written to it stays in the buffer.
OpenCsv ==
    /\ pc = "append"
    /\ \/ /\ file = "absent"
          /\ file' = "headless"
          /\ Goto("head")
       \/ /\ file # "absent"
          /\ Goto("write")
          /\ UNCHANGED file
    /\ UNCHANGED <<csv, memory, history, cluster>>

\* After a row, experiment_a clears the cell and experiment_b the cluster.
ClearNext == experiment = "A" /\ Goto("clear") /\ UNCHANGED <<after, wait>>
RenewNext == experiment = "B" /\ Goto("down") /\ after' = "up" /\ ForEachNode
PlainNext == experiment = "C" /\ Goto("arm") /\ UNCHANGED <<after, wait>>

\* The close flushes the row, with the header before it in a file that was not
\* there.  The records the row was made from are gone with propagation_cell.
Append_row ==
    /\ pc \in {"head", "write"}
    /\ csv' = Append(csv, [cell |-> cell, converged |-> experiment = "C" \/ converged])
    /\ file' = IF pc = "head" THEN "headed" ELSE file
    /\ wanted' = wanted \ {cell}
    /\ ClearNext \/ RenewNext \/ PlainNext
    /\ arrived' = Nowhere /\ hashes' = {}
    /\ UNCHANGED <<cell, guarded, copier, history, cluster>>

-----------------------------------------------------------------------------
(* clear_cell: deleted on the writer only, and waited for everywhere.      *)

ClearCell ==
    /\ pc = "clear"
    /\ copy' = [copy EXCEPT ![cell][writer] = Missing]
    /\ deleting' = [deleting EXCEPT ![cell] = TRUE]
    /\ Goto("absent")
    /\ BeginWait(Nodes)
    /\ UNCHANGED <<csv, file, wanted, cell, guarded, after, copier, arrived, hashes, history,
                   container>>

LookAbsent ==
    /\ pc = "absent"
    /\ \/ BeginPass
       \/ LET n == First(todo) IN
            /\ todo # {}
            /\ Look(n, ~there(copy[cell][n]))
    /\ UNCHANGED <<pc, csv, file, wanted, cell, guarded, after, copier, arrived, hashes,
                   history, cluster>>

\* A file still there at the deadline is a warning and no more.
Cleared ==
    /\ pc = "absent"
    /\ WaitOver
    /\ \/ /\ Left # {}
          /\ Goto("cell")
          /\ UNCHANGED <<guarded, after, wait>>
       \/ /\ Left = {}
          /\ FinallyDown("arm")
    /\ UNCHANGED <<csv, file, wanted, cell, copier, arrived, hashes, history, cluster>>

-----------------------------------------------------------------------------
(* cluster_down: every container is removed, then the root purged.         *)

RemoveNode ==
    /\ pc = "down"
    /\ todo # {}
    /\ down(arm, First(todo))
    /\ todo' = todo \ {First(todo)}
    /\ UNCHANGED <<pc, csv, file, wanted, cell, guarded, after, copier, arrived, hashes,
                   pending, expired, history>>

\* The teardown is over.
TornDown ==
    \/ /\ after = "up"
       /\ BeginUp
       /\ UNCHANGED <<wanted, cell, after, copier, arrived, hashes>>
    \/ /\ after = "arm"
       /\ Goto("arm")
       /\ UNCHANGED memory
    \/ /\ after = "exit"
       /\ Ends

Purge ==
    /\ pc = "down"
    /\ todo = {}
    /\ purge(arm, {})
    /\ TornDown
    /\ UNCHANGED <<csv, file, history>>

-----------------------------------------------------------------------------
(* What goes wrong, and the operator who starts the matrix again.          *)

Fault ==
    /\ faults > 0
    /\ faults' = faults - 1
    /\ UNCHANGED <<experiment, attempt>>

WriteFails ==
    /\ copier \in {"opening", "writing"}
    /\ copier' = "failed"
    /\ Fault
    /\ UNCHANGED <<pc, csv, file, wanted, cell, guarded, after, arrived, hashes, wait,
                   littered, cluster>>

NodeExits ==
    /\ \E a \in Arms, n \in Nodes : Exits(a, n)
    /\ Fault
    /\ UNCHANGED <<pc, csv, file, memory, littered>>

\* Neither podman rm nor podman unshare rm is asked how it went.
RemoveFails ==
    /\ pc = "down"
    /\ todo # {}
    /\ container[arm][First(todo)] # "none"
    /\ todo' = todo \ {First(todo)}
    /\ Fault
    /\ littered' = TRUE
    /\ UNCHANGED <<pc, csv, file, wanted, cell, guarded, after, copier, arrived, hashes,
                   pending, expired, cluster>>

PurgeFails ==
    /\ pc = "down"
    /\ todo = {}
    /\ \E kept \in SUBSET Filled(arm) \ {{}} : purge(arm, kept)
    /\ TornDown
    /\ Fault
    /\ littered' = TRUE
    /\ UNCHANGED <<csv, file>>

\* Inside experiment_b's try a teardown that raises is begun again; anywhere
\* else it is cut short.  An open CSV is closed, with nothing in its buffer.
Raise ==
    /\ pc # "exit"
    /\ Unwind
    /\ Fault
    /\ littered' = (littered \/ (pc = "down" /\ ~guarded))
    /\ UNCHANGED <<csv, file, cluster>>

\* The same between the two writes of append: the close flushes the header.
RaiseAfterHeader ==
    /\ pc = "head"
    /\ file' = "headed"
    /\ Unwind
    /\ Fault
    /\ UNCHANGED <<csv, littered, cluster>>

Kill ==
    /\ pc # "exit"
    /\ Ends
    /\ Fault
    /\ littered' = TRUE
    /\ UNCHANGED <<csv, file, cluster>>

Rerun ==
    /\ pc = "exit"
    /\ Goto("start")
    /\ UNCHANGED <<csv, file, memory, history, cluster>>

\* A node takes longer to start than wait_ready waits.
SlowStart ==
    /\ pc = "ready"
    /\ DeadlinePasses
    /\ Fault
    /\ UNCHANGED <<pc, csv, file, wanted, cell, guarded, after, copier, arrived, hashes,
                   littered, cluster>>

\* The clock runs while a loop waits for the mesh.
Deadline ==
    /\ pc \in {"watch", "absent"}
    /\ DeadlinePasses
    /\ UNCHANGED <<pc, csv, file, wanted, cell, guarded, after, copier, arrived, hashes,
                   history, cluster>>

NodeStarts ==
    /\ \E a \in Arms, n \in Nodes : Starts(a, n)
    /\ UNCHANGED <<pc, csv, file, memory, history>>

MeshStep ==
    /\ \E c \in Cells, n \in Nodes : Spread(c, n) \/ Forget(c, n)
    /\ UNCHANGED <<pc, csv, file, memory, history>>

Driver ==
    \/ Start \/ NextArm \/ PlainCell
    \/ StartNode \/ NodesStarted \/ LookReady \/ NotReady \/ Ready
    \/ BeginCell \/ LookAtCopy \/ WatchOver \/ Hash \/ Join
    \/ OpenCsv \/ Append_row \/ ClearCell \/ LookAbsent \/ Cleared
    \/ RemoveNode \/ Purge \/ Rerun

Next ==
    \/ Driver \/ Write \/ Deadline \/ NodeStarts \/ MeshStep
    \/ WriteFails \/ NodeExits \/ SlowStart \/ RemoveFails \/ PurgeFails
    \/ Raise \/ RaiseAfterHeader \/ Kill

Spec == Init /\ [][Next]_vars

\* The driver and its thread run, time passes, containers come up, and an
\* operator starts a matrix that has stopped again.  Nothing is asked of the
\* mesh: no file need ever arrive and no deletion.
FairSpec ==
    Spec /\ WF_vars(Driver) /\ WF_vars(Write) /\ WF_vars(Deadline) /\ WF_vars(NodeStarts)

-----------------------------------------------------------------------------
(***************************************************************************)
(* Properties.                                                             *)
(***************************************************************************)

\* The rows a reader of the CSV finds under its header.
readable == IF file = "headed" THEN [i \in DOMAIN csv |-> csv[i].cell] ELSE <<>>

Plan == INSTANCE Checklist WITH log <- readable

\* Whatever interrupts the driver, inside append too, and however often it is
\* started again, what can be read from the CSV is the plan from the front, each
\* cell in it once; a CSV whose header was lost on the way never shows a row
\* (run_matrix.py:314-368).
OneRowEach == Plan!Spec

\* "Resume support: a matrix that takes hours must survive an interruption"
\* (run_matrix.py:324): in the end every cell of the plan has its row, and one.
MatrixSurvives ==
    <>[](\A c \in Cells : Cardinality({i \in DOMAIN csv : csv[i].cell = c}) = 1)

\* The watch keeps the promise of a probe: a node is reported at a moment its
\* copy is whole and never otherwise, and the watch is over when every node is
\* reported or the deadline has passed (poller.py:116-144).  The blocks of an
\* older payload are taken for the copy only after a run that left one there.
held == {n \in Nodes : \/ copy[cell][n].fill = "whole"
                       \/ littered /\ copy[cell][n].fill = "mixed"}
phase == IF experiment = "C" THEN "idle"
         ELSE CASE pc = "watch" -> "open"
                [] pc \in {"hash", "join", "append", "head", "write"} -> "told"
                [] OTHER -> "idle"
reported == IF phase = "idle" THEN {} ELSE {n \in Nodes : arrived[n] # NotArrived}
Probe == INSTANCE Arrivals WITH late <- expired
WatchIsHonest == Probe!Spec

\* With finitely many faults every cell of the plan is measured and recorded,
\* whether or not the mesh ever converges, unless the CSV has lost its header
\* for good: every wait ends by its deadline and a run that raised resumes
\* (poller.py:116-144, run_matrix.py:323-368).
EveryCellRecorded == <>(done_cells = Cells) \/ <>[](file = "headless")

\* As long as no run was killed and no teardown failed, what a row reports as
\* arrived is the payload that cell wrote, and a row that says converged was
\* written with that payload in full on every node: the teardown purges what an
\* abandoned cell left, and the hash is taken before the cell is cleared
\* (run_matrix.py:155-167, 254-263).
RowsAreTrue ==
    [][(csv' # csv /\ experiment # "C" /\ ~littered) =>
         LET row == csv'[Len(csv')] IN
           /\ \A n \in Nodes : arrived[n] \in {NotArrived, attempt}
           /\ row.converged =>
                \A n \in Nodes : copy[row.cell][n] = [payload |-> attempt,
                                                      fill |-> "whole"]]_vars

\* As long as no run was killed and no teardown failed, a matrix that is complete
\* and has ended has left no container and no file behind, whatever was raised
\* on the way: a cluster_up that raised outside the try leaves its containers to
\* the next run of the same arm (run_matrix.py:350-368, 474-497).
NothingLeftBehind ==
    (pc = "exit" /\ done_cells = Cells /\ ~littered) =>
        /\ \A a \in Arms, n \in Nodes : container[a][n] = "none"
        /\ \A c \in Cells, n \in Nodes : copy[c][n] = Missing

\* A cell that says it converged found its own payload on every node.  purge
\* says what happens otherwise: "a stale payload from a crashed run is still
\* there at the next run's t0, and the cell reports an arrival time of ~0"
\* (run_matrix.py:161-162).
NoStalePayload ==
    [][(csv' # csv /\ experiment # "C" /\ csv'[Len(csv')].converged) =>
         \A n \in Nodes : arrived[n] = attempt]_vars

=============================================================================
