# A TLA+ model of syncfs and its measurement harness

syncfs keeps a directory the same on a set of machines. A daemon on each machine
watches its directory, publishes what changed over ZeroMQ, moves the contents with
libtorrent, and repairs what the lossy publish-subscribe plane dropped by comparing
root hashes. Beside the daemon the repository keeps the programs that measure it: a
driver that brings clusters up, times files on their way through them, records a row a
cell and resumes where it was interrupted, and the programs that turn the rows into the
tables of a report. This project models both, checks them with TLC on small instances
and proves part of them with TLAPS for all of them. Line numbers are those of the
repository's files under `src/`.

## 1. Inventory

### Components, their state and operations

| Part | Source | State | Operations |
|---|---|---|---|
| sync loop | `src/syncfs.cpp` | `former`, `tombstones`, `inbound_t`, `repairs_t`, `rounds_t`, `settled`, timers | one iteration: `drain_alerts`, traversal, state round, `publish_repairs`, `receive_one` |
| change detection | `src/syncfs.cpp`, `src/files.cpp` | none of its own | `list`, `create_diff`, `local_changes`, `forget_spent_marks` |
| reconciliation rules | `src/reconcile.cpp` | none of its own (`Partner` draws at random) | `beats`, `mark`, `expire`, `hash`, `adoptable`, `gaps`, `pick`, `arm`, `due`, `forget_silent`, `encode`, `decode_*` |
| protocol | `src/protocol.cpp` | the libtorrent session | `act` (create, remove, state, digest), `erase`, `adopt`, `wins`, `forget` |
| source, sink | `src/source.cpp`, `src/sink.cpp` | a PUB and a SUB socket | publish one message; poll, receive one message |
| monitor | `src/monitor.cpp` | inotify watches, a batch of events | `wait`, `discard`, `resync_watches` |
| start-up | `main`, `src/discovery.cpp`, `src/utils.cpp` | | arguments, peers file, listen address and port, sockets |
| probe | `tools/measure/bucketfs/poller.py` | who is still pending, the deadline | `complete`, `tree_size`, `sha256`; `watch`, `watch_absent`, `main` |
| clusters | `syncfs_cluster.py`, `exasol_cluster.py` | containers, data directories | `start_node`, `wait_ready`, `up`, `down` |
| driver | `run_matrix.py` | the CSV, the plan, the cell at hand, a writer thread | `experiment_a`, `_b`, `_c`, `done_cells`, `propagation_cell`, `tree_cell`, `append`, `clear_cell`, `cluster_up`, `cluster_down`, `purge` |
| reports | `tex_tables.py`, `summarise.py` | the rows | row, tables, macros, verdicts, notes |
| tail | `measure_tail.py` | the times of single writes | the writes past the deadline, and the others; not modelled |
| peak, digest | `measure_peak.py`, `measure_digest.py` | | sample descriptors; provoke one digest |
| tests, demo, build | `tests/`, `demo/`, `CMakeLists.txt` | | not modelled |

### Interaction

The daemon is one thread: the parts call each other inside the loop. What runs beside
it is libtorrent (its threads write files, and set `alert_ready` from a callback), the
kernel (inotify events), ZeroMQ (queues that drop), the users, and the other daemons.
A node subscribes to itself: everything it publishes, except a digest, comes back to it,
and only then enters `applied` and `announcements`.

The measurement driver is one process. Beside it run the thread that writes the
payload, the containers with the mesh in them, and the clock its waits read. It meets the
mesh only through the nodes' data directories, which it looks at node after node, and
meets its own earlier runs only through the CSV and through what they left in those
directories. The reports read the CSVs and nothing else.

### What is hard, and what makes the parts correct

* A path missing from a listing can mean four things (a user's deletion, a peer's
  deletion applied here, one adopted from a digest, a file not yet landed), and only the
  first is this node's to announce. Correct: no invented deletions.
* A deletion is remembered only in memory, is ordered by wall clock against files, is
  cancelled by newer files and forgotten after an hour. Correct: it goes only for those
  reasons, and it sticks on every node.
* Stamping a file with its origin time wakes nobody. Correct: the listing is the tree or
  an event is queued.
* Messages are lost, late, or overtaken by events; a daemon restarts with nothing but its
  directory. Correct: the nodes converge and then fall silent.
* Walks of a tree that is being changed come back short; two writes share a tick.
* A matrix takes hours and is interrupted, inside its writes too. Correct: the rows are the
  plan, each cell once, and every cell is measured in the end, whatever the mesh does. The
  code falls short of that when the header of the CSV is lost (run `lost_header`).
* The probe looks at files while they are being written, one node at a time, against a
  deadline. Correct: it reports a file when and only when it is complete.
* What one cell leaves must not be measured by the next. Correct: a row is about the
  payload its cell wrote.
* A measurement may have no figure, or one of zero, or figures of some nodes only, and
  five tables and the prose count and quote it. Correct: they say the same thing, and none
  takes the time of a partial arrival for a convergence time (the code does in two places,
  see "Further disagreements").

Every hazard is listed with its line in `PROJECT.json`.

## 2. Modules

```
Reconcile  <-  Files  <-  Protocol  <-  Swarm
Reconcile  <-  Ladder
Swarm, Ladder     <-  MCSwarm                                   (TLC)
Protocol, Ladder  <-  ReconcileProofs
Swarm, ReconcileProofs  <-  SwarmProofs  <-  SwarmSafetyProofs  <-  SwarmHashProofs   (TLAPS)

Poller  <-  Cluster  <-  Matrix  <-  MCMatrix                   (TLC)
                           |  ^
       Checklist, Arrivals <  MatrixProofs  <-  MatrixTruthProofs   (TLAPS)

Tables  <-  MCTables (TLC),  TablesProofs  <-  TablesFigureProofs   (TLAPS)
```

* **Reconcile**: the rules of `reconcile.cpp` as operators. A `std::map` from paths to
  moments is a function with `None` (-1) where the map has no entry. The root hash is
  injective, as SHA-256 is taken to be, in what it is computed from: paths and times of
  the listing and of the tombstones, and no contents. The ladder (`arm`, `due`) keeps
  which gaps wait and forgets when they are due.
* **Ladder**: `arm` and `due` with the moments, as operators on functions from paths to
  milliseconds. It is not part of Swarm, whose clock has no milliseconds; `LadderRefines`
  is the link between the two. `arm_ladder` says at once what the loop of
  `reconcile::arm` arrives at gap by gap; the assumption `LadderIsLoop` of MCSwarm
  compares the two on every ladder of up to three gaps, in every run of the swarm.
* **Files**: `create_diff` and `local_changes` over the set operations of `files.cpp`.
* **Protocol**: the four messages and `wins`. A content is a number, its info hash.
* **Swarm**: a set of daemons and their world. Its variables are those of `sync_loop`
  (`former`, `tombstones`, `origins` and `written` of `inbound_t`, `applied` and `pending`
  of `repairs_t`, `peers` of `rounds_t`), the position `pc` in the iteration, and outside
  the daemon the disks, the torrents, the wire, a queued inotify event (`wake`), the wall
  clock, and the ghost `unlinked` (what users deleted under a node since it last looked).
  `applied` stands for the announcements cache as well: both maps are written and
  erased together.
* **Poller**: what one look at a copy says, and the loop behind `watch`, `watch_absent`
  and the two `wait_ready`. The clock is read at the head of a pass, as in the code.
* **Cluster**: the two cluster scripts, and, external to them, the containers and the
  mesh: a file reaches a node at its full size first and with its bytes later. A payload
  that comes over an older one under the same name is written in place, so it has all its
  blocks from the start (`"mixed"`) and `complete` cannot tell it from one that is whole.
* **Matrix**: the driver and its writer thread over a cluster, and what interrupts them.
  Its history variable `littered` says that a run was killed, or that a teardown failed or
  was cut short.
* **Checklist** and **Arrivals**: the two abstract specifications Matrix implements, the
  log of a resumable plan and the promise of a probe.
* **Tables**: the row made of a cell's arrivals, and everything `tex_tables.py` and
  `summarise.py` compute from rows, as operators over a set of rows that grows.
* **MCSwarm**, **MCMatrix**, **MCTables**: constants for TLC.

Definitions named `Faulty_...` are mutated forms of the definition that follows them. No
specification uses them; each shows that the property listed with it in `PROJECT.json`
can fail.

### Actions of Swarm

| Action | Code |
|---|---|
| `Land` | `drain_alerts` and `stamp_and_remember`, with the transfer before it |
| `Scan`, `ShortScan` (both `Traverse`) | the traversal branch: `discard`, `list`, `local_changes`, `send`, the new `former`, `forget_spent_marks` |
| `NothingToScan` | `wait()` says no |
| `Round` | `hash`, `Source::state`, `forget_silent`, `pick`, `Source::digest` |
| `Repair` | `publish_repairs`: cached announcements again, at most one rebuilt from disk |
| `IgnoreDeleted`, `IgnoreNotNewer`, `ApplyCreate` | the three outcomes of a create in `act`, with what `receive_one` does after it |
| `ReceiveRemove`, `ReceiveState`, `ReceiveDigest` | the other verbs; `ReceiveDigest` is `read_digest` with `adopt` |
| `ReceiveNothing` | the poll times out |
| `Crash`, `Restart` | the process ends anywhere, with its memory; `sync_loop` starts again |
| `UserWrite`, `UserDelete`, `UserRestore`, `Tick`, `Lose` | the world |

A node receives at most one message between two traversals, as the loop does. That
matters: were it to receive several, a create could cancel a tombstone before the
traversal has seen the file that tombstone's deletion removed, and the deletion would be
taken for the user's.

### Actions of Matrix

| Action | Code |
|---|---|
| `Start`, `NextArm` | `done_cells`, the loop over the arms with `if not wanted: continue` |
| `PlainCell` | a cell of `experiment_c` |
| `StartNode`, `NodesStarted`, `LookReady`, `NotReady`, `Ready` | `cluster_up`: `start_node` for each node, then `wait_ready` |
| `BeginCell`, `Write` | `make_payload`, the thread of `propagation_cell` and `tree_cell` |
| `LookAtCopy`, `WatchOver`, `Hash` | `watch` |
| `Join` | the join, and the error of the thread raised |
| `OpenCsv`, `Append_row` | `append`: is the file there, and the open; the writes (the header too in a file that was not there) and the close, with `summarise`'s verdict |
| `ClearCell`, `LookAbsent`, `Cleared` | `clear_cell` with `watch_absent` (experiment A) |
| `RemoveNode`, `Purge` | `cluster_down` and `purge` (in the `finally`; after each cell in B) |
| `RemoveFails`, `PurgeFails` | the same with a `podman` that fails, which nobody looks at |
| `Raise`, `RaiseAfterHeader`, `Kill` | an exception or an interrupt at any place, the teardown and the append included; between the two writes of the append; a kill |
| `WriteFails`, `NodeExits`, `SlowStart`, `Rerun` | what else goes wrong, and the operator |
| `Deadline`, `NodeStarts`, `MeshStep` | the clock, the containers, the mesh |

`guarded` says whether the driver is inside the `try` whose `finally` takes the cluster
down. `cluster_up` of experiment A and the first of B are not. The teardown of a `finally`
is not inside it either: an exception there cuts it short. The one B does after a cell is
inside, and an exception there begins it again.

The CSV has a state besides its rows, `file`: absent, there without a header, or headed.
`done_cells` reads what `DictReader` would: nothing without a header, and a `KeyError`
(the run ends at `Start`) once a second row follows the one taken for it.

### Abstractions and bounds: the daemon

* `Budget` bounds how often each event of the world happens; nothing the daemons do is
  bounded. Time advances only with what happens and with `Tick`.
* One wall clock; skew between nodes is not modelled. Writes and the moments of deletions
  get ticks of their own unless `Coarse`.
* `Land` is one step: transfer, flush, alert and stamp. The branch of
  `stamp_and_remember` for an edit inside that window is not taken, and an alert's wake-up
  is never lost (see "Further disagreements").
* Unless `Hasty`, a node starts no round while something it published is undelivered
  (`Drained`), and the state ceiling passes only once no transfer can finish: rounds are
  seconds apart, queues drain at a message an iteration. With `Hasty` a round starts
  whenever the loop is at that stage, as in the code, which also covers a `settled` flag
  that is two seconds old. The run `aging` has it; the others keep it false, for the
  number of states it costs. The theorems of section 4 hold with it as well as without.
* Repairs wait on the ladder only if `Paced`; with a single path none ever does.
* What one traversal, round or `publish_repairs` puts on the wire is one burst, about
  different paths, received in any order. `HighWater` bounds the bursts in a pipe. In
  `aging` it is one and a burst that finds the pipe full is dropped; in the other runs it
  is not reached, and drops are the `Lose` events.
* A node's own `state` is not sent to itself (the code drops it on receipt).
  `forget_silent` drops peers that are down, at any time, and never a live one.
* Listing the tree and hashing the files found are one step.
* Node symmetry and path symmetry are used in safety runs only, where every node starts
  with the same files.

### Abstractions and bounds: the measurements

* A payload is its number, in the order they were made: `make_payload` draws random
  bytes, so no two are equal. A copy is a payload and how much of it is there. A tree
  of experiment B is one copy, whole when all its files are.
* Every cell of an arm has a file name of its own; arms have roots of their own.
* The look of `complete` is one step per node; the hash of a node is read in one step
  after the loop.
* A row is shorter than the buffer of the file, so what `append` writes reaches the disk at
  the close and not before; an exception between the writes closes the file and flushes
  what was written, a kill loses it. An exception after the row is written is `Raise` in
  the step after `Append_row`.
* A row is its cell and its verdict. The arrivals and the payload it was made from are
  compared when it is written, and play no part in the matrix after that.
* A failed `podman rm` leaves its container as it was, a failed purge any of the files. A
  thread abandoned by an exception writes no more (its files are purged or its process
  ends).
* `Faults` bounds failed writes, exits, slow starts, failed teardowns, exceptions and kills
  together.
* Staging files of the writer, ports, networks, the EXAConf template and passwords are
  left out: nothing the driver decides depends on them but a failure, which is `Raise`.
* In `Tables` times are whole seconds, sizes KiB, a median is doubled. Decimals, LaTeX
  and layout are left out. Rows form a set, because a row names its repeat and Matrix
  shows that a CSV holds it once. `MaxRows` bounds them.

## 3. Runs

Runs of the swarm have two daemons. With two, every message has a peer and every digest
one reader; three add choices of `pick` and nothing a single pair does not show for the
properties below. Where two paths are not needed there is one.

| Run | Instance | Checks | States |
|---|---|---|---|
| `loop` | 2 paths, repairs wait, shared ticks, 1 edit, 1 deletion | `TypeOK`, `ListingHonest`, `NothingLostUnasked`, `NoInventedDeletion`, `GraveYieldsOnlyToNewer` | 362 k |
| `aging` | time to live 1 tick, rounds at any moment, pipes of one burst; 1 deletion, 1 restore with the old time, 1 tick, 1 short listing | `GraveYieldsOnlyToNewer`, `DeadOnlyByLateRepair` | 706 k |
| `mend` | one of: 1 edit and any 1 message lost; up to 2 deletions and any 1 message lost; 1 edit and 1 crash | `EqualHashesEqualFiles`, `Converges`, `FallsSilent`, `DeletionSticks` | 106 k |
| `race` | 1 edit, 1 deletion, nothing lost | `Converges`, `NewerGoesOnlyUnseen` | 145 k |
| `matrix` | 2 nodes, 2 cells of one arm, each experiment, any 2 faults | `TypeOK`, `OneRowEach`, `WatchIsHonest`, `RowsAreTrue`, `NothingLeftBehind`, `EveryCellRecorded` | 264 k |
| `tables` | a plan of 8 cells with every arm, 2 nodes reporting, times of 5 and 130 s, 3 rows | `TypeOK`, `OneCellPerEntry`, `BoundIsTheDeadline`, `DaggersAddUp`, `ProseMatchesTables`, `TwoReadersAgree` | 199 k |

What they show: with no listing cut short, a node's view of its own tree is right or
about to be; it never mistakes what a peer did, or what is still coming, for its user's
deletion; deletions are let go only for the reasons the code gives, also when rounds
overtake deliveries and the pipes are full; and after any single loss or restart the nodes
end with equal files and stop exchanging digests. `mend` starts with one of its three
budgets (`MendSpec`), since a loss and a crash together break `EqualHashesEqualFiles`
(further disagreements). `race` claims
agreement, and not that the newer side wins: the deletion can win against a newer edit,
in the two ways `NewerGoesOnlyUnseen` names and no other, and the digests need not stop
(further disagreements).

In `aging` there is one path and no repair ever waits, so the case `DeadOnlyByLateRepair`
excepts hardly comes up there; it is the trace of `late_repair`, and the theorem covers
every budget. (Passing runs with waiting repairs, a deletion and a restore go past four
million states.) `EqualHashesEqualFiles` is checked with one write on a tick of its own,
and `DeletionSticks` with a time to live that does not run out.

`matrix` shows that of a matrix interrupted twice, anywhere and in any way, and
started again each time, what can be read from the CSV is the plan from the front, each
cell once, and that every cell gets there in the end with no help from the mesh, unless
the header of the CSV was lost; and that as long as it is not killed outright and no
teardown fails its rows are about the payloads they say they are and a finished matrix
leaves nothing behind. Two cells are a cell before and a cell after; two nodes are the
writer and another; two faults are one fault and one more while the first is being cleaned
up or the matrix resumed.

`tables` shows that the several readers of one set of rows agree. Three rows are enough
for two repeats of a cell that differ and one of another cell, for a median of an even
and of an odd number, for the tuned arm beside the default one, and for ten nodes beside
twenty; five seconds and 130 lie on either side of both limits (5 s and 120 s), five
exactly on one.

### Fairness

`FairSpec` assumes: the loop never blocks, so it runs on (weak fairness of an iteration of
each node); a round comes due at the latest a state ceiling after the last (strong, since
it waits for one stage of the loop); ZeroMQ queues fairly between publishers, so a node
receives its own messages; a pending repair comes up on the ladder; libtorrent finishes a
torrent while somebody keeps seeding it; a stopped daemon is started again. The last three
and own messages are asked of some node rather than of each: with two nodes that is
enough, and it keeps the check small. No fairness is asked of the users or of losses.

`FairSpec` of Matrix assumes that the driver and its thread run, that time passes, that
a container that is starting and is not slow (`SlowStart`) comes up, and that an operator
starts a matrix that has stopped again, as the resuming is made for. Nothing is assumed of
the mesh: no file need arrive and no deletion spread. `Tables` has no liveness.

### Refinements

* `OneRowEach`: the cells of the rows that can be read under the header implement
  `Checklist`.
* `WatchIsHonest`: the driver's watch implements `Arrivals`, with `held` mapped to the
  nodes whose copy of the cell is whole at that moment (or, once `littered`, overwritten
  in place). Experiment C has no watch.

### Runs that end in a counterexample

Each states what a comment or document of the repository says and shows that the code
does otherwise. `PROJECT.json` has the quotations.

* `short_listing` / `NothingLostUnasked`: a walk error makes `files::list` return a short
  listing. The missed files are published as deletions; the publisher receives its own
  `remove` and unlinks its intact copy, and so does everyone. The comment says the next
  round repairs it.
* `late_remove` / `NewerSurvives`: `act` erases on a `remove` without comparing times. A
  file written after the deletion goes with it, where the README promises it is kept.
* `stale_repair` / `AnnouncesWhatItHolds`: after a traversal has published an edit and
  before the create comes back, a repair sends the cached old torrent under the new time.
  The receiver then holds old bytes under the new time.
* `late_repair` / `DeadNeverAnnounced`: a gap waits on the ladder while its file is deleted
  and restored with its old time. `publish_repairs` does not look at the tombstones again
  and announces the file, which SPEC.md says stays unpublished.
* `stale_payload` / `NoStalePayload`: a killed run leaves its files in directories that
  `start_node` takes over as they are; the cell measured again has the same file name, and
  its watch counts a node as arrived on the payload of the killed run. The comment of
  `purge` describes the danger; only a run that ends through its `finally` avoids it.
* `lost_header` / `MatrixSurvives`: an interrupt or a kill between the open and the close
  of the first append leaves an empty file. It exists, so no later append writes a header;
  `DictReader` takes the first row for one, and its cell is measured and recorded again.
  With two such rows every start ends in a `KeyError`.

### Further disagreements

Met while modelling. Of the daemon, reproducible by changing the constants of a run:

* `EqualHashesEqualFiles` fails with `Coarse = TRUE` and two writes on the same tick whose
  creates are both lost: equal hashes, different contents, no repair. It also fails with
  an edit, a loss and a crash in one budget. For a single edit it is proved (section 4).
* `adopt` judges a deletion by the listing, not by the file. With the budget of `race` and
  a lost `remove`, an edit made after the traversal of an iteration is erased by a digest
  received in the same iteration, though it is newer than the deletion. That is the second
  of the ways `NewerGoesOnlyUnseen` leaves open; without it the property fails there.
* The comment in `reconcile::arm` says that 20 ms a gap put a thousand gaps "just under a
  minute"; they come to twenty seconds.
* `FallsSilent` fails with the budget of `race`: `adopt` checks a deletion against the
  listing, which lacks a newer file still in transit. The tombstone stays beside the file
  that lands, at one node only, and the two hashes differ until the tombstone expires.
* A file restored with an old time is not announced and not repaired away either, since
  `adoptable` skips a deletion the node already holds at that moment.
* `DeadNeverAnnounced` (run `late_repair`) fails with one path and nothing waiting on the
  ladder too, given an edit, a deletion, a restore and a lost message: a
  tombstone left beside a file that landed after the deletion kills the older copy restored
  between the digest and the repair of the next iteration. `DeadOnlyByLateRepair` is what
  does hold, and is proved: there is no other way for a dead file to go out.
* Tombstones expire only in a traversal, so a quiet directory keeps them for ever.
* `alert_ready` is cleared after `drain_alerts` (lines 639-643), so an alert posted between
  `pop_alerts` and the clear is left queued with the flag down. Not modelled.

Of the measurements:

* `scenario_table` takes the median of all times (`tex_tables.py:290-315`), those of runs
  that did not converge included, and says met of a cell no repeat of which converged. The
  legend (95-100) says that such a time is not a convergence time.
* `measure_tail.py` takes a write's time over the nodes that received it (62-68), so a
  write that one node never received counts as fast (88-90), though the program asks how
  often a write misses its deadline (2). Neither this nor the line before has a run: each
  shows in two lines of one function.
* `summarise.py` groups rows without the number of files: the cells of experiment B of
  one arm are one median there. `TwoReadersAgree` is about experiment A.
* A cell that could not be cleared in time is a warning, though `poller.py:169` says that
  a cell must not leave the mesh divergent.
* An exception, also one from the writer thread, loses the cell's record and ends the
  matrix. A matrix killed after the last row of an arm and before the teardown leaves that
  arm's containers and files for good: the arm has nothing wanted and is skipped.
* `measure_peak.py` leaves its daemons running when an exception leaves it, and takes a
  file that is there for one that is complete.

## 4. Proofs

All for every value of the constants; no bound of the runs is used. Eight modules hold
27 theorems and 203 lemmas. Each invariant was checked with TLC on small instances
before it was proved.

**SwarmProofs**

* `TypeCorrect`: `Spec => []TypeOK`. `TypeOK` is inductive as it stands.
* `GravesYieldOnlyToNewer`: `Spec => GraveYieldsOnlyToNewer`, from `TypeOK`: action by
  action, only a traversal and a create lower a tombstone.
* `ListingIsHonest`: `Spec => []ListingHonest` if no listing comes back short.
  Inductive together with `TypeOK`: each action that changes the disk queues an event or
  updates the listing in the same step.
* `DeletionsAreNotInvented`: `Spec => NoInventedDeletion` if no listing comes back short.
  Not inductive alone. The invariant adds `DeletionsPast` (no record of a deletion, kept
  or in transit, is later than the clock, so a tombstone later than the clock is one just
  made by `local_changes`) and `VanishedIsMarked` (a listed file that is gone without its
  user having deleted it has a tombstone, and its node is about to traverse with an event
  queued). The second is where the one message an iteration matters: no create can come
  between the erasure and the traversal and cancel the tombstone.

**SwarmSafetyProofs**

* `NothingIsLostUnasked`: `Spec => []NothingLostUnasked` if no listing comes back short.
  The run `short_listing` violates the property with one short listing; the theorem says
  that nothing else does, whatever is edited, lost, restarted or restored. The invariant
  is that until a user deletes something no tombstone, `remove` or digest anywhere speaks
  of a deletion (`Unburied`). A traversal would have to make the first one, for a file it
  finds gone, and `VanishedIsMarked` says such a file has a tombstone already.
* `DeadOnlyWhileWaiting`: `Spec => DeadOnlyByLateRepair`, from `TypeOK`. A queue grows
  only by the burst that was published (`PublishGrows`, `ConsumeShrinks`); a traversal
  publishes what passed `loses_to_tombstone`, a repair what was pending, and only
  `read_digest` makes a path pending, judged by the very tombstones it leaves behind.
* `EqualHashesEqualTimes`: if no listing comes back short, nodes at rest with equal root
  hashes have the same paths at the same times on disk. It is the half of
  `EqualHashesEqualFiles` that holds in general, and follows from `ListingIsHonest`.
* `NewerIsLostOnlyUnseen`: `Spec => NewerGoesOnlyUnseen`, with no condition: short
  listings, crashes and shared ticks included. `ListingHonest` is not available here, since
  a short listing lacks files that are there. What survives is `ListedTruly`: a path that
  *is* listed is listed at the time of its file, or an event is queued. So an `adopt` that
  meets no event and finds the path listed compares the deletion with the file itself
  (`DigestGoesOnlyUnseen`); a `remove` is the only other action that erases
  (`RemoveGoesOnlyUnseen`, `OthersTakeNothing`).

**SwarmHashProofs**

* `OneEditHashesTellFiles`: `Spec => []EqualHashesEqualFiles` under `OneEdit`: the nodes
  start out alike, one edit is made anywhere, and nothing is deleted, restored, listed
  short or crashed. Nodes, paths, losses, ticks, `Hasty` and `Paced` are free; the run
  `mend` holds one instance. The conditions are there because the property fails
  without them: two edits with a repair between them (run `stale_repair`), two writes on a
  tick, a loss with a crash.

The danger is in `stamp_and_remember` on a create that is already held: it gives the file
on disk the time of the edit while the transfer still runs, so there is a moment with the
old content under the new time, and a hash that says all is well. The invariant `Steady`
says which files there can be (`Known`): the one of the start; the edit; or that third one,
and then the torrent of the edit is in the session and not complete, and the listing has
the new time already, so that no traversal announces it. The rest of `Known` keeps it from
getting out otherwise: only a path listed after the start is ever pending, a complete
torrent means the edit is on disk, a path with a torrent has a cached announcement of the
edit, so `publish_repairs` never reads the third file off disk; and `EditMessages` says
that every create on the wire is of the edit. `Quiet` asks for settled torrents, which
rules the third file out (`TimesTellFiles`). `Unburied`, from `NothingIsLostUnasked`, keeps
digests from erasing anything.

**ReconcileProofs**

* `DeletionsCommute`: `mark` is idempotent and insensitive to order.
* `DigestReadOnce`: a digest read twice adopts nothing the second time, and what its
  deletions killed is not handed back.
* `GapsAreOneSided`: of two nodes that compare listings at most one repairs a path.
* `OneCopyWins`: of two different copies at most one displaces the other.
* `LadderRefines`: `arm` and `due` with their moments are, without them, the `arm` and
  `Due` of Swarm, and a gap that waits keeps its moment however often it is armed again.
* `LadderStaysSpaced`: the paths on the ladder are always a pace apart, and none is due
  before the last call of `publish_repairs`: arming, `forget`, taking out and putting back
  what could not be rebuilt all keep that.
* `RepairsArePaced`: one call of `publish_repairs` takes at most
  `(now - since) / 20 ms + 1` repairs, `since` being the call before, however many wait:
  moments a pace apart fall into different slots of the time between, and there are that
  many slots. This is what the ladder is for.

**MatrixProofs**

* `MatrixTypeCorrect`: `Spec => []TypeOK`.
* `RowsFollowPlan`: `Spec => OneRowEach`, the refinement of `Checklist`, interruptions
  inside the append included.

Both come from one inductive invariant: `TypeOK`, `AtWork`, `FileInv`, `Watching`,
`Outside` and `Sound => InOrder`. `FileInv` ties the place in `append` to the file: a file
that is opened for its header has no row yet. `Sound` says that no row stands where the
header should be; once one does, nothing is ever readable again (no append writes a header
into a file that exists) and the log of `Checklist` stays empty. Until then `InOrder` ties
`wanted` and the cell at hand to the length of the CSV: without it a row could be appended
for any cell. That the next cell of the arm is the next of the plan needs the plan to be
sorted by arm (`PlanAssumption`). `Watching` says that `pending` is who has not arrived, so
that the end of the loop is a full report or a late one. `Outside` keeps a run that has not
begun from unwinding into a teardown.

**MatrixTruthProofs**

* `WatchKeepsPromise`: `Spec => WatchIsHonest`, the refinement of `Arrivals`.
* `RowsTellTheTruth`: `Spec => RowsAreTrue`.
* `CompleteLeavesNothing`: `Spec => []NothingLeftBehind`.

None is inductive. They come from the invariant of `MatrixProofs` together with `TruthInv`,
which does not rest on the order of the rows and holds for a CSV without its header too.
`Guarding`, `Undone`, `Told` and `PlainFiles` hold always, the rest as long as no run was
killed and no teardown failed:

* `Tidy`: an arm with a container or a file left has somebody who will take it down, a
  cell of it without a row (for which a later run brings the cluster up, and so takes it
  down) or the `try` or teardown the driver is in. At the end of a complete matrix neither
  is the case, so nothing is left. This is where `cluster_up` before the `try` is
  harmless: what it leaves belongs to an arm with a cell still to measure.
* `Guarding`: which places are inside the `try`. `Tidy` needs it, since an exception there
  ends in the teardown and elsewhere does not.
* `Undone`, `Removed`, `Told`, `PlainFiles`: what is wanted has no row; what a teardown half
  done has removed; that the mesh is told of no deletion of a cell still to be measured, so
  no copy vanishes under a watch; that experiment C brings nothing up.
* `Fresh`: a cell that is still wanted has no file, but for the one being measured or taken
  down. So the watch of a cell begins with nothing under its name.
* `OnePayload`: the copies of a cell are of one payload, so none is written over another
  and what `complete` accepts is whole.
* `Own`: while a cell is measured its copies are of its own payload, what was reported is
  there in full and stays, and nothing is there in full before the writer is done. A row is
  appended in such a state, and says converged only with every node reported.

**TablesProofs**

* `TablesTypeCorrect`: `Spec => []TypeOK`; a fan-out is never negative.
* `EntriesAreCells`, `BoundsAreDeadlines`: `Spec` implies always `OneCellPerEntry` and
  `BoundIsTheDeadline`, for every plan made of the arms and sizes of the experiments, any
  number of nodes, times and rows.

The invariant is that every row is what `summarise` made of some arrivals, or
`experiment_c` of some time. The figures rest on a lemma
that a finite set of naturals has a greatest element (`MaxExists`), the entries on one that
the keys of the tables tell the cells of the kept arms apart (`KeysTellCells`).

**TablesFigureProofs**

* `ReadersAgree`: `Spec => []TwoReadersAgree`. The groups of `summarise.py` and of
  `tex_tables.py` are made of the same rows (`SameRows`): the tuned arm has a key of its
  own in one and is left out of the other, and the two treat a missing time alike.
* `ProseIsTheTables`: `Spec => []ProseMatchesTables`. What a macro quotes is the median
  of the group behind the table's entry, because each key selects one group
  (`GroupOfKey`), and there is a median wherever there is a figure: the middle element of
  a non-empty finite family of naturals exists (`KthIsValue`, from `MinExists`: the least
  value with enough values up to it, in place of an induction).
* `CountsAgree`: `Spec => []DaggersAddUp`. The daggers of a table and the lines of the note
  both split the rows that failed into disjoint parts, by different keys; the sizes of the
  parts add up to the whole (`TotalOfParts`). `Total` is written as the size of a disjoint
  union, so that this is a bijection and not an induction.

The assumptions are those named in the modules: `TombstoneTtl` is a natural number, the
initial holders are nodes, the switches are Booleans, the budgets are naturals; a cluster
has two nodes or more (`NodeCountAssumption`), a plan has a cell and is sorted by arm
(`PlanAssumption`), the experiments are A, B and C (`MatrixAssumption`), the cells are ones
`run_matrix.py` can make and the times are naturals (`TablesAssumption`).

Only model-checked: every liveness property (`Converges`, `FallsSilent`, `DeletionSticks`,
`EveryCellRecorded`): fairness and `ENABLED` are outside what the provers handle. That `arm_ladder` is what the loop of `arm` computes is evaluated on small ladders
only: for every ladder it would be an induction.

## 5. Plan

Done: the daemon's core (Reconcile, Files, Protocol, Swarm) and the measurements (Poller,
Cluster, Matrix, Tables), their runs, two refinements and the theorems above. Left, in
order:

1. **Alerts**: `alert_ready`, libtorrent's alert queue and its notification, transfer,
   flush and stamp as separate steps, with edits between them. Properties: every landed
   file is stamped; no edit is stamped over; composed with the loop's stages.
2. **Monitor**: the event queue, the batch of sixteen, `wait`/`discard`, watches and their
   resync, the first listing taken before the watches. Refines `wake`: whatever changes
   the tree is eventually listed.
3. **Ladder** as a state machine: its operators are there and proved about; what is left is
   that each gap comes up in the end, over a bounded clock.
4. **Wire**: `encode`, `decode_*`, `for_each_entry`, `verb_of`, `address`, `parts_for`:
   round trips, truncated forms, dispatch by part count.
5. **Startup**: `discovery::parse`, `check_listen_address`, the port arithmetic.
6. An abstract last-write-wins register per path, and the condition under which Swarm
   implements it.
7. Proofs: the refinement of 2; `EqualHashesEqualFiles` with deletions beside the edit,
   and with several edits under a repair that does not pair a new time with an old
   announcement.

## 6. Not modelled

Contents and pieces, DHT and peer connections, torrent path and save path joining,
logging and statistics, the signal handler (a stop is a `Crash`; the code persists
nothing on its way out), exceptions other than as a `Crash`, directories and symbolic
links, tests and demos.

Of the measurements: `measure_peak.py` samples descriptors and statistics of daemons
until every file is there or its budget is spent, and `measure_digest.py` sends a state no
tree can match until a digest comes back. Each is one loop with a deadline around a figure
of the host, in the shape `Poller` already has, and what they provoke in the daemon is
Swarm's. Podman's networks, the EXAConf template, passwords, `observed_nofile`, argument
parsing and everything about how a figure is printed are left out as well.
