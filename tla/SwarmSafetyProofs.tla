------------------------- MODULE SwarmSafetyProofs -------------------------
(***************************************************************************)
(* Further theorems about Swarm, for every set of nodes and paths, every   *)
(* budget of events and every setting of its switches: what a node may     *)
(* announce, what equal root hashes say, which files may be lost, and what *)
(* is erased for a peer.                                                   *)
(***************************************************************************)
EXTENDS SwarmProofs

-----------------------------------------------------------------------------
(***************************************************************************)
(* What is announced.  A queue grows only at its end and only by a         *)
(* publication, so what a step announces is the burst it published.        *)
(***************************************************************************)
LEMMA PublishGrows ==
    ASSUME TypeOK, NEW n \in Nodes, NEW bursts, Publish(n, bursts),
           NEW i \in Nodes, NEW k \in Nodes, Len(net'[i][k]) > Len(net[i][k])
    PROVE  i = n /\ net'[i][k][Len(net'[i][k])] = bursts[k]
<1>1. /\ net'[n] = [j \in Nodes |-> Enqueue(net[n][j], bursts[j], up[j])]
      /\ i # n => net'[i] = net[i]
  BY DEF Publish, TypeOK
<1>2. net[i][k] \in Seq(SUBSET Message) /\ Len(net[i][k]) \in Nat
  BY DEF TypeOK
<1>3. i = n
  BY <1>1, <1>2
<1>4. net'[i][k] = Enqueue(net[i][k], bursts[k], up[k])
  BY <1>1, <1>3
<1>5. net'[i][k] = Append(net[i][k], bursts[k])
  BY <1>2, <1>4 DEF Enqueue
<1> QED BY <1>2, <1>3, <1>5

LEMMA ConsumeShrinks ==
    ASSUME TypeOK, NEW m \in Nodes, NEW n \in Nodes, NEW msg,
           Arrived(m, n, msg), Consume(m, n, msg), NEW i \in Nodes, NEW k \in Nodes
    PROVE  ~ (Len(net'[i][k]) > Len(net[i][k]))
<1>0. net[m][n] # <<>>
  BY DEF Arrived
<1>0a. net[m][n] \in Seq(SUBSET Message) /\ net[i][k] \in Seq(SUBSET Message)
  BY DEF TypeOK
<1>1. /\ net[m][n] \in Seq(SUBSET Message)
      /\ net[m][n] # <<>>
      /\ net[i][k] \in Seq(SUBSET Message)
      /\ Len(net[i][k]) \in Nat
  BY <1>0, <1>0a
<1>2. net' = [net EXCEPT ![m] = [net[m] EXCEPT ![n] = Dequeue(net[m][n], msg)]]
  BY DEF Consume, TypeOK
<1>3. CASE i = m /\ k = n
  <2>1. net'[i][k] = Dequeue(net[i][k], msg)
    BY <1>2, <1>3 DEF TypeOK
  <2>2. Len(Tail(net[i][k])) = Len(net[i][k]) - 1
    BY <1>1, <1>3
  <2>3. Len([net[i][k] EXCEPT ![1] = @ \ {msg}]) = Len(net[i][k])
    BY <1>1, <1>3
  <2> QED BY <1>1, <2>1, <2>2, <2>3 DEF Dequeue
<1>4. CASE ~ (i = m /\ k = n)
  <2>1. net'[i][k] = net[i][k]
    BY <1>2, <1>4 DEF TypeOK
  <2> QED BY <1>1, <2>1
<1> QED BY <1>3, <1>4

\* publish_repairs announces paths that were waiting, and takes on none.
LEMMA RepairAnnounces ==
    ASSUME TypeOK, NEW n \in Nodes, Repair(n)
    PROVE  /\ \E burst : /\ Publish(n, [k \in Nodes |-> burst])
                         /\ \A msg \in burst : msg.path \in pending[n]
           /\ \A k \in Nodes : pending'[k] \subseteq pending[k]
<1>1. PICK due \in Due(pending[n]) :
        LET listed == Listed(n, due)
            cached == {p \in listed : applied[n][p] # NotApplied}
            blind  == Blind(n, listed)
        IN  \E rebuilt \in SUBSET blind :
            /\ Publish(n, [k \in Nodes |->
                    {create(p, applied[n][p].content, former[n][p]) : p \in cached} \cup
                    {create(p, disk[n][p].content, former[n][p]) :
                        p \in {q \in rebuilt : disk[n][q] # Absent}}])
            /\ pending' = [pending EXCEPT ![n] = arm(@ \ due, blind \ rebuilt)]
  BY DEF Repair
<1> DEFINE listed == Listed(n, due)
           cached == {p \in listed : applied[n][p] # NotApplied}
           blind  == Blind(n, listed)
<1>2. PICK rebuilt \in SUBSET blind :
        /\ Publish(n, [k \in Nodes |->
                {create(p, applied[n][p].content, former[n][p]) : p \in cached} \cup
                {create(p, disk[n][p].content, former[n][p]) :
                    p \in {q \in rebuilt : disk[n][q] # Absent}}])
        /\ pending' = [pending EXCEPT ![n] = arm(@ \ due, blind \ rebuilt)]
  BY <1>1
<1>3. due \subseteq pending[n]
  BY <1>1 DEF Due
<1>4. cached \subseteq pending[n] /\ blind \subseteq pending[n]
  BY <1>3 DEF Listed, Blind
<1> DEFINE burst == {create(p, applied[n][p].content, former[n][p]) : p \in cached} \cup
                    {create(p, disk[n][p].content, former[n][p]) :
                        p \in {q \in rebuilt : disk[n][q] # Absent}}
<1> HIDE DEF cached, blind
<1>5. \A msg \in burst : msg.path \in pending[n]
  BY <1>4 DEF create
<1>6. Publish(n, [k \in Nodes |-> burst])
  BY <1>2
<1> HIDE DEF burst
<1>7. \A k \in Nodes : pending'[k] \subseteq pending[k]
  BY <1>2, <1>4 DEF TypeOK, arm
<1> QED BY <1>5, <1>6, <1>7

\* The body of DeadOnlyByLateRepair, for one node.
AnnouncedDead(n, k) ==
    Len(net'[n][k]) > Len(net[n][k]) =>
        \A msg \in net'[n][k][Len(net'[n][k])] :
            /\ msg.verb = "create"
            /\ beats(tombstones[n][msg.path], msg.origin)
            => msg.path \in pending[n]

ArmedAlive(n) ==
    \A p \in pending'[n] \ pending[n] : ~ beats(tombstones'[n][p], former'[n][p])

LEMMA TraverseAnnouncesLiving ==
    ASSUME TypeOK, NEW n \in Nodes, NEW missed, Traverse(n, missed),
           NEW i \in Nodes, NEW k \in Nodes
    PROVE  AnnouncedDead(i, k)
<1> DEFINE found == Found(n, missed)
           burst == {remove(p, clock') : p \in found.removed} \cup
                    {create(p, disk[n][p].content, Seen(n, missed)[p]) :
                        p \in found.put}
<1>1. Publish(n, [j \in Nodes |-> burst])
  BY DEF Traverse, send, Seen, Found
<1>2. ASSUME NEW p \in found.put
      PROVE  ~ beats(tombstones[n][p], Seen(n, missed)[p])
  <2>1. /\ p \in Paths
        /\ disk[n][p] \in File
        /\ Seen(n, missed)[p] = disk[n][p].time
        /\ disk[n][p].time >= tombstones[n][p]
    BY TraverseFinds
  <2>2. disk[n][p].time \in Int
    BY <2>1 DEF File, Time
  <2>3. tombstones[n][p] \in Int
    BY <2>1 DEF TypeOK, TimeMap, MaybeTime, Time, None
  <2> QED BY <2>1, <2>2, <2>3 DEF beats
<1> HIDE DEF found
<1>3. \A msg \in burst : msg.verb = "create" => ~ beats(tombstones[n][msg.path], msg.origin)
  BY <1>2 DEF create, remove
<1> HIDE DEF burst
<1>4. Len(net'[i][k]) > Len(net[i][k]) => i = n /\ net'[i][k][Len(net'[i][k])] = burst
  BY <1>1, PublishGrows
<1> QED BY <1>3, <1>4 DEF AnnouncedDead

\* read_digest takes on files alive by the tombstones it leaves behind.
LEMMA DigestArmsLiving ==
    ASSUME TypeOK, NEW m \in Nodes, NEW n \in Nodes, NEW msg,
           ReceiveDigest(m, n, msg), NEW i \in Nodes
    PROVE  ArmedAlive(i)
<1> DEFINE adopted == adoptable(msg.deleted, former[n], tombstones[n], clock)
           gone    == {p \in adopted : former[n][p] # None}
           kept    == [p \in Paths |-> IF p \in gone THEN None ELSE former[n][p]]
           graves  == [p \in Paths |-> IF p \in adopted THEN msg.deleted[p]
                                       ELSE tombstones[n][p]]
<1>1. /\ former' = [former EXCEPT ![n] = kept]
      /\ tombstones' = [tombstones EXCEPT ![n] = graves]
      /\ pending' = [pending EXCEPT ![n] =
                        (@ \ gone) \cup gaps(kept, graves, msg.held)]
  BY DEF ReceiveDigest, arm
<1>2. former' [n] = kept /\ tombstones'[n] = graves
  BY <1>1 DEF TypeOK
<1>3. TypeOK'
  BY ReceiveDigestType
<1> HIDE DEF adopted, gone, kept, graves
<1>4. \A p \in gaps(kept, graves, msg.held) : ~ beats(graves[p], kept[p])
  <2>1. kept \in TimeMap /\ graves \in TimeMap
    BY <1>2, <1>3 DEF TypeOK
  <2> QED BY <2>1 DEF gaps, beats, TimeMap, MaybeTime, Time, None
<1>5. CASE i = n
  <2>1. pending'[n] \ pending[n] \subseteq gaps(kept, graves, msg.held)
    BY <1>1 DEF TypeOK
  <2> QED BY <1>2, <1>4, <1>5, <2>1 DEF ArmedAlive
<1>6. CASE i # n
  BY <1>1, <1>6 DEF ArmedAlive, TypeOK
<1> QED BY <1>5, <1>6

(***************************************************************************)
(* For any number of nodes, paths and events of every kind: local_changes  *)
(* announces no file its own tombstones have killed, read_digest takes on  *)
(* no repair of one, and so publish_repairs, which does not look at the    *)
(* tombstones again, is the only way a dead file goes out, and only when   *)
(* it died while its repair was waiting.                                   *)
(***************************************************************************)
THEOREM DeadOnlyWhileWaiting == Spec => DeadOnlyByLateRepair
<1> DEFINE Living == \A i \in Nodes : /\ \A k \in Nodes : AnnouncedDead(i, k)
                                      /\ ArmedAlive(i)
<1>1. TypeOK /\ [Next]_vars => [Living]_vars
  <2> SUFFICES ASSUME TypeOK, Next, NEW i \in Nodes, NEW k \in Nodes
               PROVE  AnnouncedDead(i, k) /\ ArmedAlive(i)
    OBVIOUS
  <2>1. Len(net[i][k]) \in Nat
    BY DEF TypeOK
  <2>2. UNCHANGED net => AnnouncedDead(i, k)
    BY <2>1 DEF AnnouncedDead
  <2>3. pending'[i] \subseteq pending[i] => ArmedAlive(i)
    BY DEF ArmedAlive
  <2>4. ASSUME NEW n \in Nodes, NEW p \in Paths,
               \/ UserWrite(n, p) \/ UserDelete(n, p) \/ UserRestore(n, p)
               \/ Land(n, p)
        PROVE  AnnouncedDead(i, k) /\ ArmedAlive(i)
    BY <2>2, <2>3, <2>4 DEF UserWrite, UserDelete, UserRestore, Land, repairs
  <2>5. ASSUME NEW n \in Nodes, Scan(n) \/ ShortScan(n)
        PROVE  AnnouncedDead(i, k) /\ ArmedAlive(i)
    <3>1. PICK missed : Traverse(n, missed)
      BY <2>5 DEF Scan, ShortScan
    <3>2. AnnouncedDead(i, k)
      BY <3>1, TraverseAnnouncesLiving
    <3>3. UNCHANGED pending
      BY <3>1 DEF Traverse, repairs
    <3> QED BY <2>3, <3>2, <3>3
  <2>6. ASSUME NEW n \in Nodes, NothingToScan(n) \/ ReceiveNothing(n) \/ Restart(n)
        PROVE  AnnouncedDead(i, k) /\ ArmedAlive(i)
    BY <2>2, <2>3, <2>6 DEF NothingToScan, ReceiveNothing, Restart, repairs
  <2>7. ASSUME NEW n \in Nodes, Round(n)
        PROVE  AnnouncedDead(i, k) /\ ArmedAlive(i)
    <3>1. PICK bursts : /\ Publish(n, bursts)
                        /\ \A j \in Nodes : bursts[j] \in SUBSET
                             (StateMessage \cup {digest(former[n], tombstones[n])})
      BY <2>7, RoundPublishes
    <3>2. \A msg \in bursts[k] : msg.verb # "create"
      BY <3>1 DEF StateMessage, digest
    <3>3. Len(net'[i][k]) > Len(net[i][k]) =>
            net'[i][k][Len(net'[i][k])] = bursts[k]
      BY <3>1, PublishGrows
    <3>4. UNCHANGED pending
      BY <2>7 DEF Round, repairs
    <3> QED BY <2>3, <3>2, <3>3, <3>4 DEF AnnouncedDead
  <2>8. ASSUME NEW n \in Nodes, Repair(n)
        PROVE  AnnouncedDead(i, k) /\ ArmedAlive(i)
    <3>1. PICK burst : /\ Publish(n, [j \in Nodes |-> burst])
                       /\ \A msg \in burst : msg.path \in pending[n]
      BY <2>8, RepairAnnounces
    <3>2. Len(net'[i][k]) > Len(net[i][k]) =>
            i = n /\ net'[i][k][Len(net'[i][k])] = burst
      BY <3>1, PublishGrows
    <3>3. pending'[i] \subseteq pending[i]
      BY <2>8, RepairAnnounces
    <3> QED BY <2>3, <3>1, <3>2, <3>3 DEF AnnouncedDead
  <2>9. ASSUME NEW m \in Nodes, NEW n \in Nodes, NEW msg,
               \/ IgnoreDeleted(m, n, msg) \/ IgnoreNotNewer(m, n, msg)
               \/ ApplyCreate(m, n, msg) \/ ReceiveRemove(m, n, msg)
               \/ ReceiveState(m, n, msg) \/ ReceiveDigest(m, n, msg)
               \/ Lose(m, n, msg)
        PROVE  AnnouncedDead(i, k) /\ ArmedAlive(i)
    <3>1. Arrived(m, n, msg) /\ Consume(m, n, msg)
      BY <2>9 DEF IgnoreDeleted, IgnoreNotNewer, ApplyCreate, ReceiveRemove,
                  ReceiveState, ReceiveDigest, Lose, Receiving
    <3>2. AnnouncedDead(i, k)
      BY <3>1, ConsumeShrinks DEF AnnouncedDead
    <3>3. CASE ReceiveDigest(m, n, msg)
      BY <3>2, <3>3, DigestArmsLiving
    <3>4. CASE ApplyCreate(m, n, msg) \/ ReceiveRemove(m, n, msg)
      <4>1. pending' = [pending EXCEPT ![n] = @ \ {msg.path}]
        BY <3>4 DEF ApplyCreate, ReceiveRemove
      <4> QED BY <2>3, <3>2, <4>1 DEF TypeOK
    <3>5. CASE \/ IgnoreDeleted(m, n, msg) \/ IgnoreNotNewer(m, n, msg)
               \/ ReceiveState(m, n, msg) \/ Lose(m, n, msg)
      <4>1. UNCHANGED pending
        BY <3>5 DEF IgnoreDeleted, IgnoreNotNewer, ReceiveState, Lose, repairs
      <4> QED BY <2>3, <3>2, <4>1
    <3> QED BY <2>9, <3>3, <3>4, <3>5
  <2>10. ASSUME NEW n \in Nodes, Crash(n)
         PROVE  AnnouncedDead(i, k) /\ ArmedAlive(i)
    <3>1. net'[i][k] \in {<<>>, net[i][k]}
      BY <2>10 DEF Crash
    <3>2. AnnouncedDead(i, k)
      BY <2>1, <3>1 DEF AnnouncedDead
    <3>3. pending'[i] \subseteq pending[i]
      BY <2>10 DEF Crash, TypeOK
    <3> QED BY <2>3, <3>2, <3>3
  <2>11. CASE Tick
    BY <2>2, <2>3, <2>11 DEF Tick, repairs
  <2> QED
    BY <2>4, <2>5, <2>6, <2>7, <2>8, <2>9, <2>10, <2>11, StepCases
<1>2. Spec => [][Living]_vars
  BY <1>1, TypeCorrect, PTL DEF Spec
<1>3. [Living]_vars <=>
        [\A n \in Nodes :
            /\ \A k \in Nodes :
                Len(net'[n][k]) > Len(net[n][k]) =>
                    \A msg \in net'[n][k][Len(net'[n][k])] :
                        /\ msg.verb = "create"
                        /\ beats(tombstones[n][msg.path], msg.origin)
                        => msg.path \in pending[n]
            /\ \A p \in pending'[n] \ pending[n] :
                ~ beats(tombstones'[n][p], former'[n][p])]_vars
  BY DEF AnnouncedDead, ArmedAlive
<1> QED BY <1>2, <1>3, PTL DEF DeadOnlyByLateRepair

-----------------------------------------------------------------------------
(***************************************************************************)
(* As long as every traversal sees the whole tree, two nodes at rest whose *)
(* root hashes agree have the same paths at the same times on disk, for    *)
(* any number of nodes, paths and other events: the hash is taken from     *)
(* listings, and at rest those are the trees.  That equal times are equal  *)
(* contents is the other half of EqualHashesEqualFiles; the hash does not  *)
(* cover contents and the half does not hold in general.                   *)
(***************************************************************************)
THEOREM EqualHashesEqualTimes ==
    ASSUME Budget["short"] = 0
    PROVE  Spec => [](Quiet => \A m, n \in Nodes :
                hash(former[m], tombstones[m]) = hash(former[n], tombstones[n])
                    => Listing(disk[m]) = Listing(disk[n]))
<1>1. ListingHonest => (Quiet => \A m, n \in Nodes :
                hash(former[m], tombstones[m]) = hash(former[n], tombstones[n])
                    => Listing(disk[m]) = Listing(disk[n]))
  <2> SUFFICES ASSUME ListingHonest, Quiet, NEW m \in Nodes, NEW n \in Nodes,
                      hash(former[m], tombstones[m]) = hash(former[n], tombstones[n])
               PROVE  Listing(disk[m]) = Listing(disk[n])
    OBVIOUS
  <2>1. former[m] = Listing(disk[m]) /\ former[n] = Listing(disk[n])
    BY Zenon DEF ListingHonest, Quiet
  <2>2. former[m] = former[n]
    BY DEF hash
  <2> QED BY <2>1, <2>2
<1>2. Spec => []ListingHonest
  BY ListingIsHonest
<1> QED BY <1>1, <1>2, PTL

-----------------------------------------------------------------------------
(***************************************************************************)
(* Nothing is lost unasked.  Until the first deletion by a user there is   *)
(* no record of a deletion anywhere, in a node's memory or on the wire;    *)
(* VanishedIsMarked then says that no traversal finds a file gone, so none *)
(* begins, and without one nothing is erased.                              *)
(***************************************************************************)
\* The messages that speak of no deletion.
Graveless ==
    {msg \in Message :
        /\ msg.verb # "remove"
        /\ msg.verb = "digest" => \A p \in Paths : msg.deleted[p] = None}

Undeleted == budget["delete"] = Budget["delete"]

Unburied ==
    /\ \A n \in Nodes : unlinked[n] = {}
    /\ \A n \in Nodes, p \in Paths : tombstones[n][p] = None
    /\ net \in Wire(Graveless)

HoldersKeep == \A n \in InitialHolders, p \in Paths : disk[n][p] # Absent

\* The deletions left to the users never become more.
Fewer == budget'["delete"] \in {budget["delete"], budget["delete"] - 1}

LEMMA DeletesLeft ==
    ASSUME TypeOK, [Next]_vars
    PROVE  Fewer
<1>1. ASSUME NEW e \in Events, Spend(e)
      PROVE  Fewer
  BY <1>1 DEF Spend, TypeOK, Events, Fewer
<1>2. CASE UNCHANGED budget
  BY <1>2 DEF Fewer
<1>3. CASE UNCHANGED vars
  BY <1>2, <1>3 DEF vars
<1>4. ASSUME NEW n \in Nodes, NEW p \in Paths,
             \/ UserWrite(n, p) \/ UserDelete(n, p) \/ UserRestore(n, p)
             \/ Land(n, p)
      PROVE  Fewer
  BY <1>1, <1>2, <1>4 DEF UserWrite, UserDelete, UserRestore, Land, Events
<1>5. ASSUME NEW n \in Nodes,
             \/ Scan(n) \/ NothingToScan(n) \/ Round(n) \/ Repair(n)
             \/ ReceiveNothing(n) \/ Restart(n)
      PROVE  Fewer
  BY <1>2, <1>5 DEF Scan, NothingToScan, Round, Repair, ReceiveNothing, Restart
<1>6. ASSUME NEW n \in Nodes, ShortScan(n) \/ Crash(n)
      PROVE  Fewer
  BY <1>1, <1>6 DEF ShortScan, Crash, Events
<1>7. ASSUME NEW m \in Nodes, NEW n \in Nodes, NEW msg,
             \/ IgnoreDeleted(m, n, msg) \/ IgnoreNotNewer(m, n, msg)
             \/ ApplyCreate(m, n, msg) \/ ReceiveRemove(m, n, msg)
             \/ ReceiveState(m, n, msg) \/ ReceiveDigest(m, n, msg)
      PROVE  Fewer
  BY <1>2, <1>7 DEF IgnoreDeleted, IgnoreNotNewer, ApplyCreate, ReceiveRemove,
                    ReceiveState, ReceiveDigest
<1>8. ASSUME NEW m \in Nodes, NEW n \in Nodes, NEW msg, Lose(m, n, msg)
      PROVE  Fewer
  BY <1>1, <1>8 DEF Lose, Events
<1>9. CASE Tick
  BY <1>1, <1>9 DEF Tick, Events
<1> QED BY <1>3, <1>4, <1>5, <1>6, <1>7, <1>8, <1>9, StepCases

\* A traversal with no deletion anywhere finds none, and announces none.
LEMMA UnburiedScan ==
    ASSUME TypeOK, VanishedIsMarked, Unburied, NEW n \in Nodes, Scan(n)
    PROVE  Unburied'
<1> DEFINE found == Found(n, {})
           burst == {remove(p, clock') : p \in found.removed} \cup
                    {create(p, disk[n][p].content, Seen(n, {})[p]) :
                        p \in found.put}
<1>0. Traverse(n, {})
  BY DEF Scan
<1>1. /\ Publish(n, [k \in Nodes |-> burst])
      /\ tombstones' = [tombstones EXCEPT ![n] = expire(found.tombstones, clock')]
      /\ unlinked' = [unlinked EXCEPT ![n] = {}]
      /\ up[n]
  BY <1>0 DEF Traverse, send, Seen, Found
<1>2. ASSUME NEW p \in found.removed
      PROVE  FALSE
  <2>1. /\ p \in Paths
        /\ former[n][p] # None
        /\ Seen(n, {})[p] = None
        /\ tombstones[n][p] = None
    BY TraverseFinds
  <2>2. disk[n][p] = Absent
    BY <2>1 DEF Seen, TypeOK, File, Time, None
  <2>3. Vanished(n, p)
    BY <1>1, <2>1, <2>2 DEF Vanished, Unburied
  <2> QED BY <2>1, <2>3 DEF VanishedIsMarked
<1>3. found.tombstones \in TimeMap /\ \A p \in Paths : found.tombstones[p] = None
  <2>1. \A p \in Paths :
            found.tombstones[p] # tombstones[n][p] =>
                p \in found.removed \/ found.tombstones[p] = None
    BY TraverseFinds
  <2>2. found.tombstones \in TimeMap
    BY TraverseFinds
  <2> HIDE DEF found
  <2> QED BY <1>2, <2>1, <2>2 DEF Unburied
<1>4. clock' \in Time
  BY <1>0, TraversePublishes
<1>5. ASSUME NEW p \in found.put
      PROVE  create(p, disk[n][p].content, Seen(n, {})[p]) \in Graveless
  <2>1. /\ p \in Paths
        /\ disk[n][p].content \in Content
        /\ Seen(n, {})[p] \in Time
    BY TraverseFinds DEF File
  <2>2. create(p, disk[n][p].content, Seen(n, {})[p]) \in CreateMessage
    BY <2>1, MessageTypes
  <2> QED BY <2>2 DEF Graveless, Message, create
<1> HIDE DEF found
<1>6. burst \in SUBSET Graveless
  BY <1>2, <1>5
<1> HIDE DEF burst
<1>7. net' \in Wire(Graveless)
  BY <1>1, <1>6, PublishKeeps DEF Unburied
<1>8. \A p \in Paths : expire(found.tombstones, clock')[p] = None
  BY <1>3, <1>4, ExpireType
<1>9. \A k \in Nodes, p \in Paths : tombstones'[k][p] = None
  BY <1>1, <1>8 DEF Unburied, TypeOK
<1>10. \A k \in Nodes : unlinked'[k] = {}
  BY <1>1 DEF Unburied, TypeOK
<1> QED BY <1>7, <1>9, <1>10 DEF Unburied

LEMMA UnburiedReceive ==
    ASSUME TypeOK, Unburied, NEW m \in Nodes, NEW n \in Nodes, NEW msg,
           \/ IgnoreDeleted(m, n, msg) \/ IgnoreNotNewer(m, n, msg)
           \/ ApplyCreate(m, n, msg) \/ ReceiveRemove(m, n, msg)
           \/ ReceiveState(m, n, msg) \/ ReceiveDigest(m, n, msg)
           \/ Lose(m, n, msg)
    PROVE  /\ Unburied'
           /\ \A k \in Nodes, p \in Paths : disk[k][p] # Absent => disk'[k][p] # Absent
<1>1. /\ Arrived(m, n, msg)
      /\ Consume(m, n, msg)
      /\ UNCHANGED unlinked
  BY DEF IgnoreDeleted, IgnoreNotNewer, ApplyCreate, ReceiveRemove,
         ReceiveState, ReceiveDigest, Lose, Receiving
<1>2. msg \in Graveless /\ net' \in Wire(Graveless)
  BY <1>1, ConsumeKeeps DEF Unburied
<1>3. ~ ReceiveRemove(m, n, msg)
  BY <1>2 DEF ReceiveRemove, Graveless
<1>4. CASE \/ IgnoreDeleted(m, n, msg) \/ ReceiveState(m, n, msg) \/ Lose(m, n, msg)
  <2>1. UNCHANGED <<tombstones, disk>>
    BY <1>4 DEF IgnoreDeleted, ReceiveState, Lose
  <2> QED BY <1>1, <1>2, <2>1 DEF Unburied
<1>5. CASE IgnoreNotNewer(m, n, msg)
  <2>1. tombstones' = [tombstones EXCEPT ![n][msg.path] = None] /\ UNCHANGED disk
    BY <1>5 DEF IgnoreNotNewer
  <2>2. \A k \in Nodes, p \in Paths : tombstones'[k][p] = None
    BY <2>1 DEF Unburied, TypeOK, TimeMap
  <2> QED BY <1>1, <1>2, <2>1, <2>2 DEF Unburied
<1>6. CASE ApplyCreate(m, n, msg)
  <2>1. tombstones' = [tombstones EXCEPT ![n][msg.path] = None]
    BY <1>6 DEF ApplyCreate
  <2>2. \A k \in Nodes, p \in Paths : tombstones'[k][p] = None
    BY <2>1 DEF Unburied, TypeOK, TimeMap
  <2>3. PICK t : disk' = [disk EXCEPT ![n][msg.path].time = t]
    BY <1>6 DEF ApplyCreate
  <2>4. ASSUME NEW k \in Nodes, NEW p \in Paths, disk[k][p] # Absent
        PROVE  disk'[k][p] # Absent
    <3>1. disk[k][p] \in File
      BY <2>4 DEF TypeOK
    <3>2. disk'[k][p].content = disk[k][p].content
      BY <2>3, <3>1 DEF TypeOK, File
    <3> QED BY <3>1, <3>2 DEF File, Absent, Content, None
  <2> QED BY <1>1, <1>2, <2>2, <2>4 DEF Unburied
<1>7. CASE ReceiveDigest(m, n, msg)
  <2> DEFINE adopted == adoptable(msg.deleted, former[n], tombstones[n], clock)
             gone    == {p \in adopted : former[n][p] # None}
  <2>1. adopted = {}
    BY <1>2, <1>7 DEF ReceiveDigest, Graveless, adoptable
  <2>2. /\ Erase(n, gone)
        /\ tombstones' = [tombstones EXCEPT ![n] =
                [p \in Paths |-> IF p \in adopted THEN msg.deleted[p]
                                 ELSE tombstones[n][p]]]
    BY <1>7 DEF ReceiveDigest
  <2>3. gone = {}
    BY <2>1
  <2> HIDE DEF adopted, gone
  <2>4. \A k \in Nodes, p \in Paths : tombstones'[k][p] = None
    BY <2>1, <2>2 DEF Unburied, TypeOK
  <2>5. \A k \in Nodes, p \in Paths : disk'[k][p] = disk[k][p]
    BY <2>2, <2>3 DEF Erase, TypeOK
  <2> QED BY <1>1, <1>2, <2>4, <2>5 DEF Unburied
<1> QED BY <1>3, <1>4, <1>5, <1>6, <1>7

LEMMA UnburiedStep ==
    ASSUME TypeOK, NoShort, VanishedIsMarked, Unburied, Next,
           \A n \in Nodes, p \in Paths : ~ UserDelete(n, p)
    PROVE  /\ Unburied'
           /\ \A k \in Nodes, p \in Paths : disk[k][p] # Absent => disk'[k][p] # Absent
<1> DEFINE Kept == /\ Unburied'
                   /\ \A k \in Nodes, p \in Paths :
                        disk[k][p] # Absent => disk'[k][p] # Absent
<1>1. \A n \in Nodes : ~ ShortScan(n)
  BY NoShortStep
<1>2. CASE UNCHANGED <<unlinked, tombstones, net, disk>>
  BY <1>2 DEF Unburied
<1>3. ASSUME NEW n \in Nodes, NEW p \in Paths, UserWrite(n, p) \/ UserRestore(n, p)
      PROVE  Kept
  <2>1. /\ unlinked' = [unlinked EXCEPT ![n] = @ \ {p}]
        /\ UNCHANGED <<tombstones, net>>
    BY <1>3 DEF UserWrite, UserRestore
  <2>2. PICK c, t : /\ disk' = [disk EXCEPT ![n][p] = [content |-> c, time |-> t]]
                    /\ c \in Content
    <3>1. Budget["write"] \in Nat
      BY SwarmAssumption DEF Events
    <3>2. CASE UserRestore(n, p)
      BY <3>1, <3>2 DEF UserRestore, Seed, Content
    <3>3. CASE UserWrite(n, p)
      <4>1. budget'["write"] \in Nat
        BY <3>3, SpendType DEF UserWrite, TypeOK, Events
      <4> QED BY <3>3, <4>1 DEF UserWrite, Content
    <3> QED BY <1>3, <3>2, <3>3
  <2>3. \A k \in Nodes, q \in Paths : disk[k][q] # Absent => disk'[k][q] # Absent
    BY <2>2 DEF TypeOK, Absent, Content, None
  <2>4. Unburied'
    BY <2>1 DEF Unburied, TypeOK
  <2> QED BY <2>3, <2>4
<1>4. ASSUME NEW n \in Nodes, NEW p \in Paths, Land(n, p)
      PROVE  Kept
  <2>1. /\ unlinked' = [unlinked EXCEPT ![n] = @ \ {p}]
        /\ UNCHANGED <<tombstones, net>>
    BY <1>4 DEF Land
  <2>2. torrent[n][p].content \in Content
    <3>1. torrent[n][p] # NoTorrent
      BY <1>4 DEF Land, CanLand
    <3> QED BY <3>1 DEF TypeOK, Torrent
  <2>3. PICK t : disk' = [disk EXCEPT ![n][p] =
                            [content |-> torrent[n][p].content, time |-> t]]
    BY <1>4 DEF Land
  <2>4. \A k \in Nodes, q \in Paths : disk[k][q] # Absent => disk'[k][q] # Absent
    BY <2>2, <2>3 DEF TypeOK, Absent, Content, None
  <2>5. Unburied'
    BY <2>1 DEF Unburied, TypeOK
  <2> QED BY <2>4, <2>5
<1>5. ASSUME NEW n \in Nodes, Scan(n)
      PROVE  Kept
  <2>1. UNCHANGED disk
    BY <1>5 DEF Scan, Traverse
  <2> QED BY <1>5, <2>1, UnburiedScan
<1>6. ASSUME NEW n \in Nodes, NothingToScan(n) \/ ReceiveNothing(n) \/ Restart(n)
      PROVE  Kept
  BY <1>2, <1>6 DEF NothingToScan, ReceiveNothing, Restart
<1>7. ASSUME NEW n \in Nodes, Round(n)
      PROVE  Kept
  <2>1. PICK bursts : /\ Publish(n, bursts)
                      /\ \A k \in Nodes : bursts[k] \in SUBSET
                            (StateMessage \cup {digest(former[n], tombstones[n])})
    BY <1>7, RoundPublishes
  <2>2. digest(former[n], tombstones[n]) \in Graveless
    <3>1. digest(former[n], tombstones[n]) \in DigestMessage
      BY MessageTypes DEF TypeOK
    <3> QED BY <3>1 DEF Unburied, Graveless, digest, Message
  <2>3. StateMessage \subseteq Graveless
    BY DEF StateMessage, Graveless, Message
  <2>4. \A k \in Nodes : bursts[k] \in SUBSET Graveless
    BY <2>1, <2>2, <2>3
  <2>5. net' \in Wire(Graveless)
    BY <2>1, <2>4, PublishKeeps DEF Unburied
  <2>6. UNCHANGED <<unlinked, tombstones, disk>>
    BY <1>7 DEF Round
  <2> QED BY <2>5, <2>6 DEF Unburied
<1>8. ASSUME NEW n \in Nodes, Repair(n)
      PROVE  Kept
  <2>1. PICK burst \in SUBSET CreateMessage : Publish(n, [k \in Nodes |-> burst])
    BY <1>8, RepairPublishes
  <2>2. CreateMessage \subseteq Graveless
    BY DEF CreateMessage, Graveless, Message
  <2>3. net' \in Wire(Graveless)
    BY <2>1, <2>2, PublishKeeps DEF Unburied
  <2>4. UNCHANGED <<unlinked, tombstones, disk>>
    BY <1>8 DEF Repair
  <2> QED BY <2>3, <2>4 DEF Unburied
<1>9. ASSUME NEW n \in Nodes, Crash(n)
      PROVE  Kept
  <2>1. net' \in Wire(Graveless)
    BY <1>9 DEF Crash, Wire, Unburied
  <2>2. \A k \in Nodes : unlinked'[k] = {}
    BY <1>9 DEF Crash, Unburied, TypeOK
  <2>3. \A k \in Nodes, p \in Paths : tombstones'[k][p] = None
    BY <1>9 DEF Crash, Unburied, TypeOK, EmptyMap
  <2>4. UNCHANGED disk
    BY <1>9 DEF Crash
  <2> QED BY <2>1, <2>2, <2>3, <2>4 DEF Unburied
<1>10. ASSUME NEW m \in Nodes, NEW n \in Nodes, NEW msg,
             \/ IgnoreDeleted(m, n, msg) \/ IgnoreNotNewer(m, n, msg)
             \/ ApplyCreate(m, n, msg) \/ ReceiveRemove(m, n, msg)
             \/ ReceiveState(m, n, msg) \/ ReceiveDigest(m, n, msg)
             \/ Lose(m, n, msg)
      PROVE  Kept
  BY <1>10, UnburiedReceive
<1>11. ASSUME Tick
       PROVE  Kept
  BY <1>2, <1>11 DEF Tick
<1>12. Kept
  <2> HIDE DEF Kept
  <2> QED BY <1>1, <1>3, <1>4, <1>5, <1>6, <1>7, <1>8, <1>9, <1>10, <1>11, StepCases
<1> QED BY <1>12

(***************************************************************************)
(* As long as every traversal sees the whole tree and no user has deleted  *)
(* a file, every file there was at the start is still there: no order of   *)
(* edits, transfers, losses, crashes and restarts makes a daemon take a    *)
(* file for deleted.  The run short_listing shows that the condition on    *)
(* files::list is needed: one short listing is enough to lose a file.      *)
(***************************************************************************)
THEOREM NothingIsLostUnasked ==
    ASSUME Budget["short"] = 0
    PROVE  Spec => []NothingLostUnasked
<1> DEFINE Inv == /\ TypeOK /\ NoShort /\ VanishedIsMarked
                  /\ budget["delete"] <= Budget["delete"]
                  /\ Undeleted => Unburied /\ HoldersKeep
<1>0. Budget["delete"] \in Nat /\ Budget["write"] \in Nat
  BY SwarmAssumption DEF Events
<1>1. Init => Inv
  <2> SUFFICES ASSUME Init PROVE Inv
    OBVIOUS
  <2>1. TypeOK /\ NoShort
    BY InitType DEF Init, Started, NoShort
  <2>2. VanishedIsMarked
    BY DEF Init, Started, VanishedIsMarked, Vanished, Listing, Absent
  <2>3. Unburied
    <3>1. net \in Wire(Graveless)
      BY DEF Init, Started, Wire
    <3> QED BY <3>1 DEF Init, Started, Unburied, EmptyMap
  <2>4. HoldersKeep
    <3>1. Seed.content \in Nat
      BY <1>0 DEF Seed
    <3>2. Seed # Absent
      BY <3>1 DEF Absent, None
    <3>3. \A n \in InitialHolders, p \in Paths : disk[n][p] = Seed
      BY SwarmAssumption DEF Init, Started
    <3> QED BY <3>2, <3>3 DEF HoldersKeep
  <2>5. budget["delete"] <= Budget["delete"]
    BY <1>0 DEF Init, Started
  <2> QED BY <2>1, <2>2, <2>3, <2>4, <2>5
<1>2. Inv /\ [Next]_vars => Inv'
  <2> SUFFICES ASSUME Inv, [Next]_vars PROVE Inv'
    OBVIOUS
  <2>1. TypeOK' /\ NoShort'
    BY StepType, NoShortStep
  <2>2. VanishedIsMarked'
    BY MarkedStep DEF VanishedIsMarked, Marked
  <2>3. budget["delete"] \in Nat
    BY DEF TypeOK, Events
  <2>4. /\ budget'["delete"] <= Budget["delete"]
        /\ Undeleted' => Undeleted
    BY <1>0, <2>3, DeletesLeft DEF Fewer, Undeleted
  <2>5. ASSUME Undeleted'
        PROVE  Unburied' /\ HoldersKeep'
    <3>1. Undeleted /\ Unburied /\ HoldersKeep
      BY <2>4, <2>5
    <3>2. CASE UNCHANGED vars
      BY <3>1, <3>2 DEF vars, Unburied, HoldersKeep
    <3>3. CASE Next
      <4>1. \A n \in Nodes, p \in Paths : ~ UserDelete(n, p)
        BY <1>0, <2>3, <2>5, <3>1 DEF UserDelete, Spend, Undeleted, TypeOK, Events
      <4>2. /\ Unburied'
            /\ \A k \in Nodes, p \in Paths : disk[k][p] # Absent => disk'[k][p] # Absent
        BY <3>1, <3>3, <4>1, UnburiedStep
      <4> QED BY <3>1, <4>2, SwarmAssumption DEF HoldersKeep
    <3> QED BY <3>2, <3>3
  <2> QED BY <2>1, <2>2, <2>4, <2>5
<1>3. Inv => NothingLostUnasked
  BY DEF Undeleted, HoldersKeep, NothingLostUnasked
<1> QED BY <1>1, <1>2, <1>3, PTL DEF Spec

-----------------------------------------------------------------------------
(***************************************************************************)
(* What is erased for a peer.  A short listing may lack files, but what a  *)
(* listing does say of a file is right, or an event is queued; unlike      *)
(* ListingHonest this needs no assumption on the listings.                 *)
(***************************************************************************)
ListedTruly(n, p) ==
    up[n] /\ former[n][p] # None /\ former[n][p] # disk[n][p].time => wake[n]

\* A step that leaves a node's file, its entry, event and daemon alone.
LEMMA TrulyFrame ==
    ASSUME NEW k \in Nodes, NEW q \in Paths, ListedTruly(k, q),
           up'[k] = up[k], former'[k][q] = former[k][q],
           disk'[k][q] = disk[k][q], wake[k] => wake'[k]
    PROVE  ListedTruly(k, q)'
BY DEF ListedTruly

LEMMA TrulyUser ==
    ASSUME TypeOK, NEW n \in Nodes, NEW p \in Paths,
           NEW k \in Nodes, NEW q \in Paths, ListedTruly(k, q),
           UserWrite(n, p) \/ UserDelete(n, p) \/ UserRestore(n, p)
    PROVE  ListedTruly(k, q)'
<1>1. up' = up /\ former' = former /\ wake' = [wake EXCEPT ![n] = up[n]]
  BY DEF UserWrite, UserDelete, UserRestore
<1>2. CASE k = n
  BY <1>1, <1>2 DEF ListedTruly, TypeOK
<1>3. CASE k # n
  <2>1. disk'[k] = disk[k] /\ wake'[k] = wake[k]
    BY <1>1, <1>3 DEF UserWrite, UserDelete, UserRestore, TypeOK
  <2> QED BY <1>1, <2>1, TrulyFrame
<1> QED BY <1>2, <1>3

LEMMA TrulyLand ==
    ASSUME TypeOK, NEW n \in Nodes, NEW p \in Paths,
           NEW k \in Nodes, NEW q \in Paths, ListedTruly(k, q), Land(n, p)
    PROVE  ListedTruly(k, q)'
<1> DEFINE wanted  == torrent[n][p].content
           here    == disk[n][p].content = wanted
           moment  == IF here THEN disk[n][p].time ELSE clock + 1
           stamped == IF origins[n][p] # None THEN origins[n][p] ELSE moment
<1>1. /\ up' = up
      /\ disk' = [disk EXCEPT ![n][p] = [content |-> wanted, time |-> stamped]]
      /\ former' = [former EXCEPT ![n][p] = stamped]
      /\ wake' = [wake EXCEPT ![n] = @ \/ ~ here]
  BY DEF Land, Remember
<1> HIDE DEF wanted, here, moment, stamped
<1>2. wake[k] => wake'[k]
  BY <1>1 DEF TypeOK
<1>3. CASE k = n /\ q = p
  <2>1. former'[k][q] = stamped /\ disk'[k][q].time = stamped
    BY <1>1, <1>3 DEF TypeOK, TimeMap
  <2> QED BY <2>1 DEF ListedTruly
<1>4. CASE ~ (k = n /\ q = p)
  <2>1. disk'[k][q] = disk[k][q] /\ former'[k][q] = former[k][q]
    BY <1>1, <1>4 DEF TypeOK, TimeMap
  <2> QED BY <1>1, <1>2, <2>1, TrulyFrame
<1> QED BY <1>3, <1>4

LEMMA TrulyApply ==
    ASSUME TypeOK, NEW m \in Nodes, NEW n \in Nodes, NEW msg,
           NEW k \in Nodes, NEW q \in Paths, ListedTruly(k, q),
           ApplyCreate(m, n, msg)
    PROVE  ListedTruly(k, q)'
<1> DEFINE p     == msg.path
           stamp == torrent[n][p].content = msg.content /\ disk[n][p] # Absent
<1>1. p \in Paths
  BY ReceivingType, Verbs DEF ApplyCreate, CreateMessage
<1>2. /\ up' = up
      /\ wake' = wake
      /\ disk' = [disk EXCEPT ![n][p].time = IF stamp THEN msg.origin ELSE @]
      /\ former' = IF stamp THEN [former EXCEPT ![n][p] = msg.origin] ELSE former
  BY DEF ApplyCreate, Remember
<1> HIDE DEF p, stamp
<1>3. CASE k = n /\ q = p
  <2>1. disk'[k][q].time = IF stamp THEN msg.origin ELSE disk[k][q].time
    <3>1. disk[n][p] \in File \cup {Absent}
      BY <1>1 DEF TypeOK
    <3>2. disk'[n][p] = [disk[n][p] EXCEPT !.time = IF stamp THEN msg.origin ELSE @]
      BY <1>1, <1>2 DEF TypeOK
    <3> QED BY <1>3, <3>1, <3>2 DEF File, Absent
  <2>2. former'[k][q] = IF stamp THEN msg.origin ELSE former[k][q]
    BY <1>1, <1>2, <1>3 DEF TypeOK, TimeMap
  <2> QED BY <1>2, <2>1, <2>2 DEF ListedTruly
<1>4. CASE ~ (k = n /\ q = p)
  <2>1. disk'[k][q] = disk[k][q] /\ former'[k][q] = former[k][q]
    BY <1>1, <1>2, <1>4 DEF TypeOK, TimeMap
  <2> QED BY <1>2, <2>1, TrulyFrame
<1> QED BY <1>3, <1>4

LEMMA TrulyErase ==
    ASSUME TypeOK, NEW n \in Nodes, NEW gone \in SUBSET Paths, Erase(n, gone),
           up' = up, NEW k \in Nodes, NEW q \in Paths, ListedTruly(k, q),
           former'[k][q] \in {None, former[k][q]}
    PROVE  ListedTruly(k, q)'
<1>1. /\ disk' = [disk EXCEPT ![n] = [p \in Paths |-> IF p \in gone THEN Absent
                                                     ELSE disk[n][p]]]
      /\ wake' = [wake EXCEPT ![n] = wake[n] \/ \E p \in gone : disk[n][p] # Absent]
  BY DEF Erase
<1>2. wake[k] => wake'[k]
  BY <1>1 DEF TypeOK
<1>3. CASE former'[k][q] = None
  BY <1>3 DEF ListedTruly
<1>4. CASE k = n /\ q \in gone /\ disk[n][q] # Absent
  BY <1>1, <1>4 DEF ListedTruly, TypeOK
<1>5. CASE ~ (k = n /\ q \in gone /\ disk[n][q] # Absent) /\ former'[k][q] # None
  <2>1. disk'[k][q] = disk[k][q]
    BY <1>1, <1>5 DEF TypeOK
  <2> QED BY <1>2, <1>5, <2>1, TrulyFrame
<1> QED BY <1>3, <1>4, <1>5

LEMMA TrulyStep ==
    ASSUME TypeOK, [Next]_vars, NEW k \in Nodes, NEW q \in Paths, ListedTruly(k, q)
    PROVE  ListedTruly(k, q)'
<1>1. CASE UNCHANGED <<up, former, disk, wake>>
  BY <1>1, TrulyFrame
<1>2. CASE UNCHANGED vars
  BY <1>1, <1>2 DEF vars
<1>3. ASSUME NEW n \in Nodes, NEW p \in Paths,
             \/ UserWrite(n, p) \/ UserDelete(n, p) \/ UserRestore(n, p)
             \/ Land(n, p)
      PROVE  ListedTruly(k, q)'
  BY <1>3, TrulyUser, TrulyLand
<1>4. ASSUME NEW n \in Nodes, Scan(n) \/ ShortScan(n)
      PROVE  ListedTruly(k, q)'
  <2>1. PICK missed : Traverse(n, missed)
    BY <1>4 DEF Scan, ShortScan
  <2>2. /\ former' = [former EXCEPT ![n] = [p \in Paths |->
                        IF p \in missed THEN None ELSE disk[n][p].time]]
        /\ disk' = disk /\ up' = up
        /\ wake' = [wake EXCEPT ![n] = FALSE]
    BY <2>1 DEF Traverse
  <2>3. CASE k = n
    BY <2>2, <2>3 DEF ListedTruly, TypeOK
  <2>4. CASE k # n
    <3>1. former'[k] = former[k] /\ wake'[k] = wake[k]
      BY <2>2, <2>4 DEF TypeOK
    <3> QED BY <2>2, <3>1, TrulyFrame
  <2> QED BY <2>3, <2>4
<1>5. ASSUME NEW n \in Nodes,
             \/ NothingToScan(n) \/ Round(n) \/ Repair(n) \/ ReceiveNothing(n)
      PROVE  UNCHANGED <<up, former, disk, wake>>
  BY <1>5 DEF NothingToScan, Round, Repair, ReceiveNothing
<1>6. ASSUME NEW n \in Nodes, Crash(n)
      PROVE  ListedTruly(k, q)'
  <2>1. CASE k = n
    BY <1>6, <2>1 DEF Crash, ListedTruly, TypeOK
  <2>2. CASE k # n
    <3>1. /\ up'[k] = up[k] /\ former'[k] = former[k]
          /\ disk'[k] = disk[k] /\ wake'[k] = wake[k]
      BY <1>6, <2>2 DEF Crash, TypeOK
    <3> QED BY <3>1, TrulyFrame
  <2> QED BY <2>1, <2>2
<1>7. ASSUME NEW n \in Nodes, Restart(n)
      PROVE  ListedTruly(k, q)'
  <2>1. disk' = disk /\ wake' = wake
    BY <1>7 DEF Restart
  <2>2. CASE k = n
    BY <1>7, <2>1, <2>2 DEF Restart, ListedTruly, Listing, TypeOK
  <2>3. CASE k # n
    <3>1. up'[k] = up[k] /\ former'[k] = former[k]
      BY <1>7, <2>3 DEF Restart, TypeOK
    <3> QED BY <2>1, <3>1, TrulyFrame
  <2> QED BY <2>2, <2>3
<1>8. ASSUME NEW m \in Nodes, NEW n \in Nodes, NEW msg,
             \/ IgnoreDeleted(m, n, msg) \/ IgnoreNotNewer(m, n, msg)
             \/ ReceiveState(m, n, msg) \/ Lose(m, n, msg)
      PROVE  UNCHANGED <<up, former, disk, wake>>
  BY <1>8 DEF IgnoreDeleted, IgnoreNotNewer, ReceiveState, Lose
<1>9. ASSUME NEW m \in Nodes, NEW n \in Nodes, NEW msg, ReceiveRemove(m, n, msg)
      PROVE  ListedTruly(k, q)'
  <2>1. msg.path \in Paths
    BY <1>9, ReceivingType, Verbs DEF ReceiveRemove, RemoveMessage
  <2> QED BY <1>9, <2>1, TrulyErase DEF ReceiveRemove
<1>10. ASSUME NEW m \in Nodes, NEW n \in Nodes, NEW msg, ReceiveDigest(m, n, msg)
       PROVE  ListedTruly(k, q)'
  <2> DEFINE gone == {p \in adoptable(msg.deleted, former[n], tombstones[n], clock) :
                        former[n][p] # None}
  <2>1. gone \in SUBSET Paths
    BY DEF adoptable
  <2>2. /\ Erase(n, gone)
        /\ up' = up
        /\ former' = [former EXCEPT ![n] =
                        [p \in Paths |-> IF p \in gone THEN None ELSE former[n][p]]]
    BY <1>10 DEF ReceiveDigest
  <2> HIDE DEF gone
  <2>3. former'[k][q] \in {None, former[k][q]}
    BY <2>2 DEF TypeOK
  <2> QED BY <2>1, <2>2, <2>3, TrulyErase
<1>11. ASSUME NEW m \in Nodes, NEW n \in Nodes, NEW msg, ApplyCreate(m, n, msg)
       PROVE  ListedTruly(k, q)'
  BY <1>11, TrulyApply
<1>12. CASE Tick
  BY <1>1, <1>12 DEF Tick
<1> QED
  BY <1>1, <1>2, <1>3, <1>4, <1>5, <1>6, <1>7, <1>8, <1>9, <1>10, <1>11, <1>12,
     StepCases


\* The body of NewerGoesOnlyUnseen, for one node and one path.
GoesOnlyUnseen(n, p) ==
    budget' = budget /\ disk[n][p] # Absent /\ disk'[n][p] = Absent =>
        /\ tombstones'[n][p] # None
        /\ \/ beats(tombstones'[n][p], disk[n][p].time)
           \/ former[n][p] # disk[n][p].time /\ wake[n]
           \/ \E m \in Nodes : Unlinks(m, n, p)

LEMMA RemoveGoesOnlyUnseen ==
    ASSUME TypeOK, NEW m \in Nodes, NEW n \in Nodes, NEW msg,
           ReceiveRemove(m, n, msg), NEW k \in Nodes, NEW q \in Paths
    PROVE  GoesOnlyUnseen(k, q)
<1>1. msg.path \in Paths /\ msg.deleted \in Time
  BY ReceivingType, Verbs DEF ReceiveRemove, RemoveMessage
<1>2. disk' = [disk EXCEPT ![n] = [p \in Paths |-> IF p \in {msg.path} THEN Absent
                                                   ELSE disk[n][p]]]
  BY DEF ReceiveRemove, Erase
<1>3. CASE k = n /\ q = msg.path
  <2>1. Unlinks(m, k, q)
    BY <1>3 DEF ReceiveRemove, Receiving, Arrived, Unlinks
  <2>2. tombstones'[k][q] # None
    <3>1. tombstones[n] \in TimeMap
      BY DEF TypeOK
    <3>2. tombstones'[n] = mark(tombstones[n], msg.path, msg.deleted)
      BY DEF ReceiveRemove, TypeOK
    <3>3. tombstones[n][q] \in MaybeTime
      BY <3>1 DEF TimeMap
    <3>4. tombstones'[n][q] = IF tombstones[n][q] < msg.deleted THEN msg.deleted
                              ELSE tombstones[n][q]
      BY <1>1, <1>3, <3>1, <3>2 DEF mark, TimeMap
    <3> QED BY <1>1, <1>3, <3>3, <3>4 DEF MaybeTime, Time, None
  <2> QED BY <2>1, <2>2 DEF GoesOnlyUnseen
<1>4. CASE ~ (k = n /\ q = msg.path)
  <2>1. disk'[k][q] = disk[k][q]
    BY <1>2, <1>4 DEF TypeOK
  <2> QED BY <2>1 DEF GoesOnlyUnseen
<1> QED BY <1>3, <1>4

LEMMA DigestGoesOnlyUnseen ==
    ASSUME TypeOK, NEW m \in Nodes, NEW n \in Nodes, NEW msg,
           ReceiveDigest(m, n, msg), NEW k \in Nodes, NEW q \in Paths,
           ListedTruly(k, q)
    PROVE  GoesOnlyUnseen(k, q)
<1> DEFINE adopted == adoptable(msg.deleted, former[n], tombstones[n], clock)
           gone    == {p \in adopted : former[n][p] # None}
<1>1. msg \in Message /\ msg.verb = "digest" /\ up[n]
  BY ReceivingType DEF ReceiveDigest, Receiving, MayReceive
<1>2. /\ disk' = [disk EXCEPT ![n] = [p \in Paths |-> IF p \in gone THEN Absent
                                                      ELSE disk[n][p]]]
      /\ tombstones' = [tombstones EXCEPT ![n] =
                          [p \in Paths |-> IF p \in adopted THEN msg.deleted[p]
                                           ELSE tombstones[n][p]]]
  BY DEF ReceiveDigest, Erase
<1>3. q \in gone => /\ former[n][q] # None
                    /\ msg.deleted[q] # None
                    /\ beats(msg.deleted[q], former[n][q])
                    /\ q \in adopted
  BY DEF adoptable
<1> HIDE DEF adopted, gone
<1>4. CASE k = n /\ q \in gone
  <2>1. tombstones'[n][q] = msg.deleted[q]
    BY <1>2, <1>3, <1>4 DEF TypeOK
  <2>2. CASE former[n][q] = disk[n][q].time
    BY <1>3, <1>4, <2>1, <2>2 DEF GoesOnlyUnseen
  <2>3. CASE former[n][q] # disk[n][q].time
    BY <1>1, <1>3, <1>4, <2>1, <2>3 DEF GoesOnlyUnseen, ListedTruly
  <2> QED BY <2>2, <2>3
<1>5. CASE ~ (k = n /\ q \in gone)
  <2>1. disk'[k][q] = disk[k][q]
    BY <1>2, <1>5 DEF TypeOK
  <2> QED BY <2>1 DEF GoesOnlyUnseen
<1> QED BY <1>4, <1>5

\* Nothing else takes a file away, except its user.
LEMMA OthersTakeNothing ==
    ASSUME TypeOK, NEW k \in Nodes, NEW q \in Paths, disk[k][q] # Absent,
           \/ \E n \in Nodes, p \in Paths : UserWrite(n, p) \/ UserRestore(n, p)
           \/ \E n \in Nodes, p \in Paths : Land(n, p)
           \/ \E m \in Nodes, n \in Nodes : \E msg : ApplyCreate(m, n, msg)
    PROVE  disk'[k][q] # Absent
<1>1. ASSUME NEW n \in Nodes, NEW p \in Paths, UserWrite(n, p)
      PROVE  disk'[k][q] # Absent
  <2>1. PICK t \in {clock + 1} \cup (IF Coarse THEN {clock} ELSE {}) :
            disk' = [disk EXCEPT ![n][p] = [content |-> budget'["write"], time |-> t]]
    BY <1>1 DEF UserWrite
  <2>2. t \in Nat
    BY <2>1 DEF TypeOK, Time
  <2>3. [content |-> budget'["write"], time |-> t] # Absent
    BY <2>2 DEF Absent, None
  <2> QED BY <2>1, <2>3 DEF TypeOK
<1>2. ASSUME NEW n \in Nodes, NEW p \in Paths, UserRestore(n, p)
      PROVE  disk'[k][q] # Absent
  <2>1. disk' = [disk EXCEPT ![n][p] = Seed]
    BY <1>2 DEF UserRestore
  <2>2. Seed # Absent
    BY DEF Seed, Absent, None
  <2> QED BY <2>1, <2>2 DEF TypeOK
<1>3. ASSUME NEW n \in Nodes, NEW p \in Paths, Land(n, p)
      PROVE  disk'[k][q] # Absent
  <2>1. PICK t : disk' = [disk EXCEPT ![n][p] = [content |-> torrent[n][p].content, time |-> t]]
    BY <1>3 DEF Land
  <2>2. torrent[n][p].content \in Nat
    <3>1. torrent[n][p] \in Torrent
      BY <1>3 DEF Land, CanLand, TypeOK
    <3> QED BY <3>1 DEF Torrent, Content
  <2>3. [content |-> torrent[n][p].content, time |-> t] # Absent
    BY <2>2 DEF Absent, None
  <2> QED BY <2>1, <2>3 DEF TypeOK
<1>4. ASSUME NEW m \in Nodes, NEW n \in Nodes, NEW msg, ApplyCreate(m, n, msg)
      PROVE  disk'[k][q] # Absent
  <2>1. msg.path \in Paths
    BY <1>4, ReceivingType, Verbs DEF ApplyCreate, CreateMessage
  <2>2. PICK t : disk' = [disk EXCEPT ![n][msg.path].time = t]
    BY <1>4 DEF ApplyCreate
  <2>3. disk[k][q] \in File
    BY DEF TypeOK
  <2>4. disk'[k][q].content = disk[k][q].content
    <3>1. disk'[k][q] = disk[k][q] \/ disk'[k][q] = [disk[k][q] EXCEPT !.time = t]
      BY <2>1, <2>2 DEF TypeOK
    <3> QED BY <2>3, <3>1 DEF File
  <2> QED BY <2>3, <2>4 DEF File, Content, Absent, None
<1> QED BY <1>1, <1>2, <1>3, <1>4

(***************************************************************************)
(* For any number of nodes, paths and events of every kind, short listings *)
(* included: nothing but a remove and an adopted deletion takes a file     *)
(* away behind its user's back, each leaves a tombstone, and an adoption   *)
(* takes a file newer than the deletion only where the file changed after  *)
(* the last traversal.                                                     *)
(***************************************************************************)
THEOREM NewerIsLostOnlyUnseen == Spec => NewerGoesOnlyUnseen
<1> DEFINE Truly  == \A k \in Nodes, q \in Paths : ListedTruly(k, q)
           Unseen == \A k \in Nodes, q \in Paths : GoesOnlyUnseen(k, q)
<1>1. Init => Truly
  BY DEF Init, Started, Listing, ListedTruly
<1>2. TypeOK /\ Truly /\ [Next]_vars => Truly'
  BY TrulyStep
<1>3. Spec => []Truly
  BY <1>1, <1>2, TypeCorrect, PTL DEF Spec
<1>4. TypeOK /\ Truly /\ [Next]_vars => [Unseen]_vars
  <2> SUFFICES ASSUME TypeOK, Truly, Next, NEW k \in Nodes, NEW q \in Paths
               PROVE  GoesOnlyUnseen(k, q)
    OBVIOUS
  <2>1. disk' = disk \/ disk'[k][q] # Absent \/ disk[k][q] = Absent => GoesOnlyUnseen(k, q)
    BY DEF GoesOnlyUnseen
  <2>2. ASSUME NEW n \in Nodes, NEW p \in Paths,
               UserWrite(n, p) \/ UserRestore(n, p) \/ Land(n, p)
        PROVE  GoesOnlyUnseen(k, q)
    BY <2>1, <2>2, OthersTakeNothing
  <2>3. ASSUME NEW n \in Nodes, NEW p \in Paths, UserDelete(n, p)
        PROVE  GoesOnlyUnseen(k, q)
    <3>1. budget["delete"] > 0 /\ budget' = [budget EXCEPT !["delete"] = @ - 1]
      BY <2>3 DEF UserDelete, Spend
    <3>2. budget["delete"] \in Nat /\ budget'["delete"] = budget["delete"] - 1
      BY <3>1 DEF TypeOK, Events
    <3>3. budget' # budget
      BY <3>2
    <3> QED BY <3>3 DEF GoesOnlyUnseen
  <2>4. ASSUME NEW n \in Nodes,
               \/ Scan(n) \/ ShortScan(n) \/ NothingToScan(n) \/ Round(n)
               \/ Repair(n) \/ ReceiveNothing(n) \/ Crash(n) \/ Restart(n)
        PROVE  disk' = disk
    BY <2>4 DEF Scan, ShortScan, Traverse, NothingToScan, Round, Repair,
                ReceiveNothing, Crash, Restart
  <2>5. ASSUME NEW m \in Nodes, NEW n \in Nodes, NEW msg,
               \/ IgnoreDeleted(m, n, msg) \/ IgnoreNotNewer(m, n, msg)
               \/ ReceiveState(m, n, msg) \/ Lose(m, n, msg)
        PROVE  disk' = disk
    BY <2>5 DEF IgnoreDeleted, IgnoreNotNewer, ReceiveState, Lose
  <2>6. ASSUME NEW m \in Nodes, NEW n \in Nodes, NEW msg, ApplyCreate(m, n, msg)
        PROVE  GoesOnlyUnseen(k, q)
    BY <2>1, <2>6, OthersTakeNothing
  <2>7. ASSUME NEW m \in Nodes, NEW n \in Nodes, NEW msg,
               ReceiveRemove(m, n, msg) \/ ReceiveDigest(m, n, msg)
        PROVE  GoesOnlyUnseen(k, q)
    BY <2>7, RemoveGoesOnlyUnseen, DigestGoesOnlyUnseen
  <2>8. CASE Tick
    BY <2>1, <2>8 DEF Tick
  <2> QED
    BY <2>1, <2>2, <2>3, <2>4, <2>5, <2>6, <2>7, <2>8, StepCases
<1>5. Spec => [][Unseen]_vars
  BY <1>3, <1>4, TypeCorrect, PTL DEF Spec
<1>6. [Unseen]_vars <=>
        [\A n \in Nodes, p \in Paths :
            budget' = budget /\ disk[n][p] # Absent /\ disk'[n][p] = Absent =>
                /\ tombstones'[n][p] # None
                /\ \/ beats(tombstones'[n][p], disk[n][p].time)
                   \/ former[n][p] # disk[n][p].time /\ wake[n]
                   \/ \E m \in Nodes : Unlinks(m, n, p)]_vars
  BY DEF GoesOnlyUnseen
<1> QED BY <1>5, <1>6, PTL DEF NewerGoesOnlyUnseen

=============================================================================
