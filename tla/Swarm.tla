------------------------------- MODULE Swarm -------------------------------
(***************************************************************************)
(* The control plane of a set of syncfs daemons: sync_loop of              *)
(* src/src/syncfs.cpp with everything it calls, one instance a node, and   *)
(* the world around it: users changing files, libtorrent moving contents,  *)
(* and a publish-subscribe wire that drops messages without a word.        *)
(*                                                                         *)
(* One iteration of the loop is drain_alerts, the traversal, the state     *)
(* round, publish_repairs and at most one received message, in that order; *)
(* pc says how far a node is in its iteration.                             *)
(*                                                                         *)
(* The wall clock is one counter (no skew between nodes).  Every write and *)
(* every reading of the clock that the code orders by takes a tick of its  *)
(* own, unless Coarse lets two writes share one.                           *)
(***************************************************************************)
EXTENDS Protocol, Sequences

CONSTANTS
    InitialHolders,   \* the nodes that hold every path at the start
    Coarse,           \* may two writes fall on the same tick?
    Hasty,            \* may a round start while messages or transfers are under way?
    Paced,            \* may every pending repair wait for its place on the ladder?
    HighWater,        \* bursts a queue holds; more are dropped (announcement_backlog)
    Droppable,        \* the verbs Lose may drop
    Budget            \* how often each event below may happen in a behaviour

\* The events that are bounded, each by its entry of Budget.
Events == {"write", "delete", "restore", "tick", "short", "lose", "crash"}

ASSUME SwarmAssumption ==
    /\ InitialHolders \subseteq Nodes
    /\ Coarse \in BOOLEAN
    /\ Hasty \in BOOLEAN
    /\ Paced \in BOOLEAN
    /\ HighWater \in Nat \ {0}
    /\ Budget \in [Events -> Nat]

VARIABLES
    clock,        \* the wall clock, in ticks
    disk,         \* disk[n][p]: the file, or Absent
    torrent,      \* torrent[n][p]: the session's torrent for the path
    wake,         \* wake[n]: an inotify event that drives_sync is queued
    former,       \* former[n]: the listing of the last traversal, kept up by stamps
    tombstones,   \* tombstones[n]: the deletions remembered
    origins,      \* origins[n]: inbound_t::origins
    written,      \* written[n]: inbound_t::written
    applied,      \* applied[n][p]: repairs_t::applied and ::announcements
    pending,      \* pending[n]: the paths of repairs_t::pending
    peers,        \* peers[n]: rounds_t::peers, what each peer last hashed to
    pc,           \* pc[n]: the next stage of the loop
    up,           \* up[n]: the daemon runs
    net,          \* net[m][n]: what m published and n has not yet received
    unlinked,     \* unlinked[n]: paths a user deleted under n since it last looked
    budget        \* what is left of Budget

inbound == <<origins, written>>
repairs == <<applied, pending>>
vars == <<clock, disk, torrent, wake, former, tombstones, inbound, repairs,
          peers, pc, up, net, unlinked, budget>>

Stages == {"scan", "round", "repair", "receive"}

\* The content every path starts with.  The contents users write count down
\* from it, so that no two writes are of the same content.
Seed == [content |-> Budget["write"], time |-> 0]

TypeOK ==
    /\ clock \in Time
    /\ disk \in [Nodes -> [Paths -> File \cup {Absent}]]
    /\ torrent \in [Nodes -> [Paths -> Torrent \cup {NoTorrent}]]
    /\ wake \in [Nodes -> BOOLEAN]
    /\ former \in [Nodes -> TimeMap]
    /\ tombstones \in [Nodes -> TimeMap]
    /\ origins \in [Nodes -> TimeMap]
    /\ written \in [Nodes -> TimeMap]
    /\ applied \in [Nodes -> [Paths -> Applied \cup {NotApplied}]]
    /\ pending \in [Nodes -> SUBSET Paths]
    /\ peers \in [Nodes -> SUBSET [sender : Nodes, hashes : Hash]]
    /\ pc \in [Nodes -> Stages]
    /\ up \in [Nodes -> BOOLEAN]
    /\ net \in [Nodes -> [Nodes -> Seq(SUBSET Message)]]
    /\ unlinked \in [Nodes -> SUBSET Paths]
    /\ budget \in [Events -> Nat]

-----------------------------------------------------------------------------
(* files::list of a whole tree.                                            *)
Listing(files) == [p \in Paths |-> files[p].time]

\* Every daemon has just been started on its directory.
Started ==
    /\ clock = 0
    /\ disk = [n \in Nodes |-> [p \in Paths |->
                    IF n \in InitialHolders THEN Seed ELSE Absent]]
    /\ torrent = [n \in Nodes |-> [p \in Paths |-> NoTorrent]]
    /\ wake = [n \in Nodes |-> FALSE]
    /\ former = [n \in Nodes |-> Listing(disk[n])]
    /\ tombstones = [n \in Nodes |-> EmptyMap]
    /\ origins = [n \in Nodes |-> EmptyMap]
    /\ written = [n \in Nodes |-> EmptyMap]
    /\ applied = [n \in Nodes |-> [p \in Paths |-> NotApplied]]
    /\ pending = [n \in Nodes |-> {}]
    /\ peers = [n \in Nodes |-> {}]
    /\ pc = [n \in Nodes |-> "scan"]
    /\ up = [n \in Nodes |-> TRUE]
    /\ net = [m \in Nodes |-> [n \in Nodes |-> <<>>]]
    /\ unlinked = [n \in Nodes |-> {}]

Init == Started /\ budget = Budget

\* One of the bounded events happens.
Spend(event) ==
    /\ budget[event] > 0
    /\ budget' = [budget EXCEPT ![event] = @ - 1]

-----------------------------------------------------------------------------
(***************************************************************************)
(* The wire.  A PUB socket has one pipe for each subscriber, the publisher *)
(* itself included, ordered, and silently discards what a pipe has no room *)
(* for or no subscriber at its end.  What one call of send() puts on the   *)
(* wire is one burst, whose messages are about different paths; they may   *)
(* be received in any order.                                               *)
(***************************************************************************)
Enqueue(queue, burst, connected) ==
    IF burst = {} \/ ~ connected \/ Len(queue) >= HighWater
    THEN queue ELSE Append(queue, burst)

\* n publishes to every node k the burst bursts[k].
Publish(n, bursts) ==
    net' = [net EXCEPT ![n] = [k \in Nodes |-> Enqueue(@[k], bursts[k], up[k])]]

\* The queue without one of the messages of its first burst.
Dequeue(queue, msg) ==
    IF queue[1] = {msg} THEN Tail(queue)
    ELSE [queue EXCEPT ![1] = @ \ {msg}]

\* msg is the next thing n has received from m.
Arrived(m, n, msg) == net[m][n] # <<>> /\ msg \in net[m][n][1]
Consume(m, n, msg) == net' = [net EXCEPT ![m][n] = Dequeue(@, msg)]

\* A message is dropped: a slow joiner, a full queue, a broken connection.
Lose(m, n, msg) ==
    /\ Spend("lose")
    /\ Arrived(m, n, msg)
    /\ msg.verb \in Droppable
    /\ Consume(m, n, msg)
    /\ UNCHANGED <<clock, disk, torrent, wake, former, tombstones, inbound,
                   repairs, peers, pc, up, unlinked>>

-----------------------------------------------------------------------------
(* The users of the synced directories.                                    *)

\* A write, closed.  Under a running daemon inotify reports it.
UserWrite(n, p) ==
    /\ Spend("write")
    /\ \E t \in {clock + 1} \cup (IF Coarse THEN {clock} ELSE {}) :
        /\ clock' = t
        /\ disk' = [disk EXCEPT ![n][p] = [content |-> budget'["write"], time |-> t]]
    /\ wake' = [wake EXCEPT ![n] = up[n]]
    /\ unlinked' = [unlinked EXCEPT ![n] = @ \ {p}]
    /\ UNCHANGED <<torrent, former, tombstones, inbound, repairs, peers, pc,
                   up, net>>

UserDelete(n, p) ==
    /\ Spend("delete")
    /\ disk[n][p] # Absent
    /\ disk' = [disk EXCEPT ![n][p] = Absent]
    /\ wake' = [wake EXCEPT ![n] = up[n]]
    /\ unlinked' = [unlinked EXCEPT ![n] = IF up[n] THEN @ \cup {p} ELSE @]
    /\ UNCHANGED <<clock, torrent, former, tombstones, inbound, repairs, peers,
                   pc, up, net>>

\* A copy of the first version comes back with its own modification time
\* (cp -p, tar, a rename back into the tree).
UserRestore(n, p) ==
    /\ Spend("restore")
    /\ disk' = [disk EXCEPT ![n][p] = Seed]
    /\ wake' = [wake EXCEPT ![n] = up[n]]
    /\ unlinked' = [unlinked EXCEPT ![n] = @ \ {p}]
    /\ UNCHANGED <<clock, torrent, former, tombstones, inbound, repairs, peers,
                   pc, up, net>>

\* Time passes with nothing happening.
Tick ==
    /\ Spend("tick")
    /\ clock' = clock + 1
    /\ UNCHANGED <<disk, torrent, wake, former, tombstones, inbound, repairs,
                   peers, pc, up, net, unlinked>>

-----------------------------------------------------------------------------
(***************************************************************************)
(* libtorrent, and drain_alerts with stamp_and_remember.  A torrent that   *)
(* is not complete becomes so if the file on disk already is its content,  *)
(* or by fetching it from a node that has it complete and undisturbed.     *)
(* The transfer, the flush it triggers and the stamp that follows are one  *)
(* step here, so no edit falls between them and the branch of              *)
(* stamp_and_remember for such an edit is never taken.                     *)
(***************************************************************************)
\* Faulty variant: the listing is left to find out.
Faulty_Remember(n, p, time) ==
    /\ written' = [written EXCEPT ![n][p] = time]
    /\ former' = former

\* The tail of stamp_and_remember: the snapshot that suppresses the echo of
\* the transfer, and the listing, which no inotify event would bring up.
Remember(n, p, time) ==
    /\ written' = [written EXCEPT ![n][p] = time]
    /\ former' = [former EXCEPT ![n][p] = time]

Seeds(m, p, content) ==
    /\ up[m]
    /\ torrent[m][p] = [content |-> content, complete |-> TRUE]
    /\ disk[m][p].content = content

CanLand(n, p) ==
    LET wanted == torrent[n][p].content
    IN  /\ torrent[n][p] # NoTorrent
        /\ ~ torrent[n][p].complete
        /\ \/ disk[n][p].content = wanted
           \/ \E m \in Nodes \ {n} : Seeds(m, p, wanted)

Land(n, p) ==
    LET wanted  == torrent[n][p].content
        here    == disk[n][p].content = wanted
        moment  == IF here THEN disk[n][p].time ELSE clock + 1
        stamped == IF origins[n][p] # None THEN origins[n][p] ELSE moment
    IN
    /\ up[n]
    /\ pc[n] = "scan"
    /\ CanLand(n, p)
    /\ torrent' = [torrent EXCEPT ![n][p].complete = TRUE]
    /\ disk' = [disk EXCEPT ![n][p] = [content |-> wanted, time |-> stamped]]
    /\ clock' = IF here THEN clock ELSE clock + 1
    /\ wake' = [wake EXCEPT ![n] = @ \/ ~ here]
    /\ origins' = [origins EXCEPT ![n][p] = None]
    /\ Remember(n, p, stamped)
    /\ unlinked' = [unlinked EXCEPT ![n] = @ \ {p}]
    /\ UNCHANGED <<tombstones, repairs, peers, pc, up, net, budget>>

-----------------------------------------------------------------------------
(* The sync loop.                                                          *)

\* What goes out for the changes a traversal found: the deletions, at the
\* moment they are sent, and the new files, at the time they have now.
send(n, found, current, now) ==
    {remove(p, now) : p \in found.removed} \cup
    {create(p, disk[n][p].content, current[p]) : p \in found.put}

\* An event is queued: the tree is listed, what changed in it is announced,
\* the listing replaces the former one and spent marks are forgotten.  The
\* listing lacks the paths in "missed" when the walk met an error.
Traverse(n, missed) ==
    LET current == [p \in Paths |->
                        IF p \in missed THEN None ELSE disk[n][p].time]
        found   == local_changes(former[n], current, written[n],
                                 tombstones[n], clock + 1)
        now     == IF found.removed = {} THEN clock ELSE clock + 2
    IN
    /\ up[n]
    /\ pc[n] = "scan"
    /\ wake[n]
    /\ clock' = now
    /\ Publish(n, [k \in Nodes |-> send(n, found, current, now)])
    /\ former' = [former EXCEPT ![n] = current]
    /\ written' = [written EXCEPT ![n] = still_listed(@, current)]
    /\ tombstones' = [tombstones EXCEPT ![n] = expire(found.tombstones, now)]
    /\ wake' = [wake EXCEPT ![n] = FALSE]
    /\ unlinked' = [unlinked EXCEPT ![n] = {}]
    /\ pc' = [pc EXCEPT ![n] = "round"]
    /\ UNCHANGED <<disk, torrent, origins, repairs, peers, up>>

Scan(n) == Traverse(n, {}) /\ UNCHANGED budget

\* files::list came back short.
ShortScan(n) ==
    \E missed \in SUBSET {p \in Paths : disk[n][p] # Absent} :
        missed # {} /\ Traverse(n, missed) /\ Spend("short")

\* No event is queued, or no event that drives_sync.
NothingToScan(n) ==
    /\ up[n]
    /\ pc[n] = "scan"
    /\ ~ wake[n]
    /\ pc' = [pc EXCEPT ![n] = "round"]
    /\ UNCHANGED <<clock, disk, torrent, wake, former, tombstones, inbound,
                   repairs, peers, up, net, unlinked, budget>>

\* What n has published has been received or lost.  Rounds are at least a
\* period (seconds) apart and a queue drains at one message an iteration; as
\* a bound, unless Hasty, n starts no round before its queues are empty.
Drained(n) == \A k \in Nodes : net[n][k] = <<>>

(***************************************************************************)
(* state_due: a round is due a period after the last one if the directory  *)
(* is quiet and every torrent has settled, and a state_ceiling after it in *)
(* any case.  A ceiling is a minute: as a bound, unless Hasty, it passes   *)
(* only when no transfer of the node can finish meanwhile.                 *)
(***************************************************************************)
Settled(n) == \A p \in Paths : torrent[n][p] = NoTorrent \/ torrent[n][p].complete
Overdue(n) == Hasty \/ \A p \in Paths : ~ CanLand(n, p)
state_due(n) == (Settled(n) /\ ~ wake[n]) \/ Overdue(n)

\* The state round: the root hash goes out to every peer and a digest to one
\* whose last hash differed.  The peers in "silent" have said nothing for
\* peer_silence; a live peer is never among them.  The node's own state
\* comes back to it and is dropped there, so it is not sent.
Round(n) ==
    LET mine == hash(former[n], tombstones[n])
        said == {state(mine, n)}
        told == {digest(former[n], tombstones[n])}
    IN
    /\ up[n]
    /\ pc[n] = "round"
    /\ Hasty \/ Drained(n)
    /\ state_due(n)
    /\ \E silent \in SUBSET {m \in Nodes : ~ up[m]} :
        LET heard == {h \in peers[n] : h.sender \notin silent}
            asks  == candidates(heard, mine)
        IN
        /\ peers' = [peers EXCEPT ![n] = heard]
        /\ \/ /\ asks = {}
              /\ Publish(n, [k \in Nodes |-> IF k = n THEN {} ELSE said])
           \/ \E asked \in asks :
                Publish(n, [k \in Nodes |-> IF k = n THEN {}
                                            ELSE IF k = asked THEN said \cup told
                                            ELSE said])
    /\ pc' = [pc EXCEPT ![n] = "repair"]
    /\ UNCHANGED <<clock, disk, torrent, wake, former, tombstones, inbound,
                   repairs, up, unlinked, budget>>

\* Faulty variant: a path gone from the listing is repaired all the same.
Faulty_Listed(n, due) == due

\* Of the paths due, the ones there is something to repair with.
Listed(n, due) == {p \in due : former[n][p] # None}

\* Faulty variant: a path with no cached announcement is dropped.
Faulty_Blind(n, listed) == {}

\* Of those, the ones whose announcement has to be read off disk.
Blind(n, listed) == {p \in listed : applied[n][p] = NotApplied}

\* publish_repairs of the paths in "due", which the ladder of reconcile::arm
\* has chosen among the pending ones.  A gap armed on an empty ladder is due
\* at once, so with a single path no repair ever waits.  A path with a cached
\* announcement is announced again, at the time the listing has for it; of
\* the others one is read off disk, if it is still there, and the rest keep
\* waiting.
Repair(n) ==
    \E due \in Due(pending[n]) :
    LET listed == Listed(n, due)
        cached == {p \in listed : applied[n][p] # NotApplied}
        blind  == Blind(n, listed)
    IN
    /\ up[n]
    /\ pc[n] \in {"round", "repair"}
    /\ \E rebuilt \in SUBSET blind :
        /\ IF blind = {} THEN rebuilt = {} ELSE \E p \in blind : rebuilt = {p}
        /\ Publish(n, [k \in Nodes |->
                {create(p, applied[n][p].content, former[n][p]) : p \in cached} \cup
                {create(p, disk[n][p].content, former[n][p]) :
                    p \in {q \in rebuilt : disk[n][q] # Absent}}])
        /\ pending' = [pending EXCEPT ![n] = arm(@ \ due, blind \ rebuilt)]
    /\ pc' = [pc EXCEPT ![n] = "receive"]
    /\ UNCHANGED <<clock, disk, torrent, wake, former, tombstones, inbound,
                   applied, peers, up, unlinked, budget>>

\* The earlier stages of the iteration have been through.
MayReceive(n) ==
    /\ up[n]
    /\ pc[n] # "scan"
    /\ Paced \/ pending[n] = {} \/ pc[n] = "receive"

\* The last stage of an iteration: msg from m is received, or, when nothing
\* has arrived, the poll times out.
Receiving(m, n, msg) ==
    /\ MayReceive(n)
    /\ Arrived(m, n, msg)
    /\ Consume(m, n, msg)
    /\ pc' = [pc EXCEPT ![n] = "scan"]

ReceiveNothing(n) ==
    /\ MayReceive(n)
    /\ \A m \in Nodes : net[m][n] = <<>>
    /\ pc' = [pc EXCEPT ![n] = "scan"]
    /\ UNCHANGED <<clock, disk, torrent, wake, former, tombstones, inbound,
                   repairs, peers, up, net, unlinked, budget>>

\* Faulty variant: any announcement cancels a deletion.
Faulty_CreateIsDead(n, msg) == FALSE

\* The announced file was deleted since.
CreateIsDead(n, msg) ==
    /\ tombstones[n][msg.path] # None
    /\ beats(tombstones[n][msg.path], msg.origin)

IgnoreDeleted(m, n, msg) ==
    /\ Receiving(m, n, msg)
    /\ msg.verb = "create"
    /\ CreateIsDead(n, msg)
    /\ UNCHANGED <<clock, disk, torrent, wake, former, tombstones, inbound,
                   repairs, peers, up, unlinked, budget>>

\* The announced file cancels a deletion but not the copy on disk.
IgnoreNotNewer(m, n, msg) ==
    /\ Receiving(m, n, msg)
    /\ msg.verb = "create"
    /\ ~ CreateIsDead(n, msg)
    /\ ~ wins(applied[n][msg.path], disk[n][msg.path], msg.origin, msg.content)
    /\ tombstones' = [tombstones EXCEPT ![n][msg.path] = None]
    /\ UNCHANGED <<clock, disk, torrent, wake, former, inbound, repairs, peers,
                   up, unlinked, budget>>

\* The announced file is taken on.  A session that already has this very
\* torrent starts no transfer, so the origin time is stamped on the file
\* here, if there is a file.
ApplyCreate(m, n, msg) ==
    LET p     == msg.path
        held  == torrent[n][p].content = msg.content
        stamp == held /\ disk[n][p] # Absent
    IN
    /\ Receiving(m, n, msg)
    /\ msg.verb = "create"
    /\ ~ CreateIsDead(n, msg)
    /\ wins(applied[n][p], disk[n][p], msg.origin, msg.content)
    /\ tombstones' = [tombstones EXCEPT ![n][p] = None]
    /\ torrent' = [torrent EXCEPT ![n][p] =
                    IF held THEN @ ELSE [content |-> msg.content, complete |-> FALSE]]
    /\ disk' = [disk EXCEPT ![n][p].time = IF stamp THEN msg.origin ELSE @]
    /\ IF stamp THEN Remember(n, p, msg.origin) ELSE UNCHANGED <<former, written>>
    /\ origins' = [origins EXCEPT ![n][p] = IF stamp THEN None ELSE msg.origin]
    /\ applied' = [applied EXCEPT ![n][p] =
                    [origin |-> msg.origin, content |-> msg.content]]
    /\ pending' = [pending EXCEPT ![n] = @ \ {p}]
    /\ UNCHANGED <<clock, wake, peers, up, unlinked, budget>>

\* Faulty variant: the file goes and its torrent stays in the session.
Faulty_Erase(n, gone) ==
    /\ torrent' = torrent
    /\ disk' = [disk EXCEPT ![n] =
                    [p \in Paths |-> IF p \in gone THEN Absent ELSE @[p]]]
    /\ wake' = [wake EXCEPT ![n] = @ \/ \E p \in gone : disk[n][p] # Absent]
    /\ applied' = [applied EXCEPT ![n] =
                    [p \in Paths |-> IF p \in gone THEN NotApplied ELSE @[p]]]

\* protocol::erase and repairs_t::forget of the paths in "gone".
Erase(n, gone) ==
    /\ torrent' = [torrent EXCEPT ![n] =
                    [p \in Paths |-> IF p \in gone THEN NoTorrent ELSE @[p]]]
    /\ disk' = [disk EXCEPT ![n] =
                    [p \in Paths |-> IF p \in gone THEN Absent ELSE @[p]]]
    /\ wake' = [wake EXCEPT ![n] = @ \/ \E p \in gone : disk[n][p] # Absent]
    /\ applied' = [applied EXCEPT ![n] =
                    [p \in Paths |-> IF p \in gone THEN NotApplied ELSE @[p]]]

\* A deletion: the file goes, whatever its time, and the moment is kept.
ReceiveRemove(m, n, msg) ==
    /\ Receiving(m, n, msg)
    /\ msg.verb = "remove"
    /\ Erase(n, {msg.path})
    /\ tombstones' = [tombstones EXCEPT ![n] = mark(@, msg.path, msg.deleted)]
    /\ pending' = [pending EXCEPT ![n] = @ \ {msg.path}]
    /\ UNCHANGED <<clock, former, inbound, peers, up, unlinked, budget>>

\* A peer's root hash is filed away.
ReceiveState(m, n, msg) ==
    /\ Receiving(m, n, msg)
    /\ msg.verb = "state"
    /\ peers' = [peers EXCEPT ![n] =
                    {h \in @ : h.sender # msg.sender} \cup
                    {[sender |-> msg.sender, hashes |-> msg.hashes]}]
    /\ UNCHANGED <<clock, disk, torrent, wake, former, tombstones, inbound,
                   repairs, up, unlinked, budget>>

\* read_digest: the peer's deletions that are news are adopted first, and
\* what is listed here and missing there is taken on to be repaired.
ReceiveDigest(m, n, msg) ==
    LET adopted == adoptable(msg.deleted, former[n], tombstones[n], clock)
        gone    == {p \in adopted : former[n][p] # None}
        kept    == [p \in Paths |-> IF p \in gone THEN None ELSE former[n][p]]
        graves  == [p \in Paths |-> IF p \in adopted THEN msg.deleted[p]
                                    ELSE tombstones[n][p]]
    IN
    /\ Receiving(m, n, msg)
    /\ msg.verb = "digest"
    /\ Erase(n, gone)
    /\ former' = [former EXCEPT ![n] = kept]
    /\ tombstones' = [tombstones EXCEPT ![n] = graves]
    /\ pending' = [pending EXCEPT ![n] =
                    arm(@ \ gone, gaps(kept, graves, msg.held))]
    /\ UNCHANGED <<clock, inbound, peers, up, unlinked, budget>>

-----------------------------------------------------------------------------
(***************************************************************************)
(* A daemon stops, with everything it kept in memory, and is started again *)
(* on what its directory then holds.  What it published and was not yet    *)
(* received may or may not still arrive.                                   *)
(***************************************************************************)
Crash(n) ==
    /\ Spend("crash")
    /\ up[n]
    /\ up' = [up EXCEPT ![n] = FALSE]
    /\ \E delivered \in BOOLEAN :
        net' = [m \in Nodes |-> [k \in Nodes |->
                    IF k = n \/ (m = n /\ ~ delivered) THEN <<>> ELSE net[m][k]]]
    /\ torrent' = [torrent EXCEPT ![n] = [p \in Paths |-> NoTorrent]]
    /\ wake' = [wake EXCEPT ![n] = FALSE]
    /\ former' = [former EXCEPT ![n] = EmptyMap]
    /\ tombstones' = [tombstones EXCEPT ![n] = EmptyMap]
    /\ origins' = [origins EXCEPT ![n] = EmptyMap]
    /\ written' = [written EXCEPT ![n] = EmptyMap]
    /\ applied' = [applied EXCEPT ![n] = [p \in Paths |-> NotApplied]]
    /\ pending' = [pending EXCEPT ![n] = {}]
    /\ peers' = [peers EXCEPT ![n] = {}]
    /\ pc' = [pc EXCEPT ![n] = "scan"]
    /\ unlinked' = [unlinked EXCEPT ![n] = {}]
    /\ UNCHANGED <<clock, disk>>

Restart(n) ==
    /\ ~ up[n]
    /\ up' = [up EXCEPT ![n] = TRUE]
    /\ former' = [former EXCEPT ![n] = Listing(disk[n])]
    /\ UNCHANGED <<clock, disk, torrent, wake, tombstones, inbound, repairs,
                   peers, pc, net, unlinked, budget>>

-----------------------------------------------------------------------------
Receive(m, n) ==
    net[m][n] # <<>> /\ \E msg \in net[m][n][1] :
        \/ IgnoreDeleted(m, n, msg)
        \/ IgnoreNotNewer(m, n, msg)
        \/ ApplyCreate(m, n, msg)
        \/ ReceiveRemove(m, n, msg)
        \/ ReceiveState(m, n, msg)
        \/ ReceiveDigest(m, n, msg)

\* The steps by which the loop of n gets from one iteration to the next.
Iterate(n) ==
    \/ Scan(n)
    \/ NothingToScan(n)
    \/ ReceiveNothing(n)
    \/ \E m \in Nodes : Receive(m, n)

Daemon(n) == Iterate(n) \/ Round(n) \/ Repair(n) \/ \E p \in Paths : Land(n, p)

World ==
    \/ \E n \in Nodes, p \in Paths :
        UserWrite(n, p) \/ UserDelete(n, p) \/ UserRestore(n, p)
    \/ Tick
    \/ \E n \in Nodes : ShortScan(n) \/ Crash(n) \/ Restart(n)
    \/ \E m, n \in Nodes : net[m][n] # <<>> /\ \E msg \in net[m][n][1] : Lose(m, n, msg)

Next == (\E n \in Nodes : Daemon(n)) \/ World

Spec == Init /\ [][Next]_vars

(***************************************************************************)
(* The loop never blocks; a round is due at the latest a state_ceiling     *)
(* after the last one, whatever else happens; ZMQ queues fairly between    *)
(* publishers, so a node's own messages are received; a pending repair is  *)
(* made when its place on the ladder comes up; libtorrent completes a      *)
(* torrent that somebody keeps seeding; a daemon that stopped is started   *)
(* again.  Where fairness to some node is enough it is not asked of all.   *)
(***************************************************************************)
Fairness ==
    /\ \A n \in Nodes :
        /\ WF_vars(Iterate(n))
        /\ SF_vars(Round(n))
        /\ WF_vars(Restart(n))
    /\ SF_vars(\E n \in Nodes : Receive(n, n))
    /\ SF_vars(\E n \in Nodes : Repair(n))
    /\ SF_vars(\E n \in Nodes, p \in Paths : Land(n, p))

FairSpec == Spec /\ Fairness

-----------------------------------------------------------------------------
(* Safety.                                                                 *)

(***************************************************************************)
(* The listing a node hashes and repairs from is the tree it has, or an    *)
(* inotify event is queued that will bring it up.  Stamping a file raises  *)
(* no such event, so stamp_and_remember has to keep the listing itself.    *)
(***************************************************************************)
ListingHonest ==
    \A n \in Nodes : up[n] /\ former[n] # Listing(disk[n]) => wake[n]

(***************************************************************************)
(* local_changes gives a path a new moment of deletion only where a user   *)
(* deleted the file under this very node since its last traversal: what a  *)
(* peer had removed, what a transfer replaces and what is on its way never *)
(* becomes a deletion of this node's own.                                  *)
(***************************************************************************)
NoInventedDeletion ==
    [][\A n \in Nodes, p \in Paths :
            tombstones'[n][p] > clock => p \in unlinked[n]]_vars

(***************************************************************************)
(* A running node lets go of a deletion, or of its moment, only when it    *)
(* has outlived the time to live or when the node has, or is fetching, a   *)
(* file that the deletion does not beat.                                   *)
(***************************************************************************)
GraveYieldsOnlyToNewer ==
    [][\A n \in Nodes, p \in Paths :
            up'[n] /\ tombstones'[n][p] < tombstones[n][p] =>
                \/ clock' - tombstones[n][p] > TombstoneTtl
                \/ disk'[n][p].time >= tombstones[n][p]
                \/ origins'[n][p] >= tombstones[n][p]]_vars

(***************************************************************************)
(* Neither a traversal nor a repair announces a file that the publisher's  *)
(* own tombstones have already killed: such a file "stays unpublished"     *)
(* (SPEC.md:144).  publish_repairs does not look at the tombstones.        *)
(***************************************************************************)
DeadNeverAnnounced ==
    [][\A n, k \in Nodes :
            Len(net'[n][k]) > Len(net[n][k]) =>
                \A msg \in net'[n][k][Len(net'[n][k])] :
                    msg.verb = "create" =>
                        ~ beats(tombstones'[n][msg.path], msg.origin)]_vars

(***************************************************************************)
(* The only dead file a node announces is one whose repair was already     *)
(* waiting, and no repair is taken on for a file that is dead by then: a   *)
(* file goes out against its tombstone only if it was alive when a digest  *)
(* showed it missing and died before publish_repairs, which does not look  *)
(* at the tombstones again, got to it.                                     *)
(***************************************************************************)
DeadOnlyByLateRepair ==
    [][\A n \in Nodes :
        /\ \A k \in Nodes :
            Len(net'[n][k]) > Len(net[n][k]) =>
                \A msg \in net'[n][k][Len(net'[n][k])] :
                    /\ msg.verb = "create"
                    /\ beats(tombstones[n][msg.path], msg.origin)
                    => msg.path \in pending[n]
        /\ \A p \in pending'[n] \ pending[n] :
            ~ beats(tombstones'[n][p], former'[n][p])]_vars

(***************************************************************************)
(* A create that names the time of the file on the publisher's disk names  *)
(* the content of that file too.                                           *)
(***************************************************************************)
AnnouncesWhatItHolds ==
    [][\A n, k \in Nodes :
            Len(net'[n][k]) > Len(net[n][k]) =>
                \A msg \in net'[n][k][Len(net'[n][k])] :
                    msg.verb = "create" /\ msg.origin = disk[n][msg.path].time =>
                        msg.content = disk[n][msg.path].content]_vars

(***************************************************************************)
(* What a peer's deletion erases here is older than that deletion.         *)
(***************************************************************************)
NewerSurvives ==
    [][\A n \in Nodes, p \in Paths :
            budget' = budget /\ disk[n][p] # Absent /\ disk'[n][p] = Absent =>
                beats(tombstones'[n][p], disk[n][p].time)]_vars

\* The message n takes from m in this step is a remove of p.
Unlinks(m, n, p) ==
    /\ net[m][n] # <<>>
    /\ \E msg \in net[m][n][1] :
        msg.verb = "remove" /\ msg.path = p /\ Consume(m, n, msg)

(***************************************************************************)
(* What a node erases for a peer is erased with the deletion on record,    *)
(* and is older than that deletion unless it went on a remove, which act   *)
(* obeys without a look at the file, or in an adopt that judged the file   *)
(* by a listing it had outrun: an event saying so is then still queued.    *)
(***************************************************************************)
NewerGoesOnlyUnseen ==
    [][\A n \in Nodes, p \in Paths :
            budget' = budget /\ disk[n][p] # Absent /\ disk'[n][p] = Absent =>
                /\ tombstones'[n][p] # None
                /\ \/ beats(tombstones'[n][p], disk[n][p].time)
                   \/ former[n][p] # disk[n][p].time /\ wake[n]
                   \/ \E m \in Nodes : Unlinks(m, n, p)]_vars

(***************************************************************************)
(* As long as no user has deleted a file, every file there was at the      *)
(* start is still there.                                                   *)
(***************************************************************************)
NothingLostUnasked ==
    budget["delete"] = Budget["delete"] =>
        \A n \in InitialHolders, p \in Paths : disk[n][p] # Absent

\* Nothing is on its way: no message, no event, no repair, no transfer.
Quiet ==
    \A n \in Nodes :
        /\ up[n]
        /\ ~ wake[n]
        /\ pending[n] = {}
        /\ Settled(n)
        /\ Drained(n)

(***************************************************************************)
(* Two nodes whose root hashes agree at rest have the same files: nothing  *)
(* else would ever tell them to exchange a digest.                         *)
(***************************************************************************)
EqualHashesEqualFiles ==
    Quiet => \A m, n \in Nodes :
        hash(former[m], tombstones[m]) = hash(former[n], tombstones[n])
            => disk[m] = disk[n]

-----------------------------------------------------------------------------
(* Liveness.                                                               *)

\* Every node has the same files, and its listing says so.
Agreement ==
    /\ \A m, n \in Nodes : disk[m] = disk[n]
    /\ \A n \in Nodes : up[n] /\ former[n] = Listing(disk[n])

(***************************************************************************)
(* Once the users are done, all nodes end up with the same files, whatever *)
(* announcements were lost: the rounds repair them.                        *)
(***************************************************************************)
Converges == <>[]Agreement

(***************************************************************************)
(* And then they stop asking one another: a converged swarm ships no       *)
(* digest.                                                                 *)
(***************************************************************************)
FallsSilent == <>[](\A m, n \in Nodes : \A i \in 1..Len(net[m][n]) :
                        \A msg \in net[m][n][i] : msg.verb # "digest")

(***************************************************************************)
(* A deletion that a node has noticed reaches every node and sticks.       *)
(***************************************************************************)
DeletionSticks ==
    \A p \in Paths :
        (\E n \in Nodes : tombstones[n][p] # None)
            ~> [](\A n \in Nodes : disk[n][p] = Absent)

=============================================================================
