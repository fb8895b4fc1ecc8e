---------------------------- MODULE SwarmProofs ----------------------------
(***************************************************************************)
(* Theorems about Swarm, for every set of nodes and paths, every budget of *)
(* events and every setting of its switches.                               *)
(***************************************************************************)
EXTENDS Swarm, ReconcileProofs

(***************************************************************************)
(* The wire carries what was put on it: a queue of bursts of messages out  *)
(* of S stays one.                                                         *)
(***************************************************************************)
LEMMA EnqueueKeeps ==
    ASSUME NEW S, NEW queue \in Seq(SUBSET S), NEW burst \in SUBSET S,
           NEW connected
    PROVE  Enqueue(queue, burst, connected) \in Seq(SUBSET S)
BY DEF Enqueue

LEMMA DequeueKeeps ==
    ASSUME NEW S, NEW queue \in Seq(SUBSET S), queue # <<>>, NEW msg
    PROVE  Dequeue(queue, msg) \in Seq(SUBSET S)
<1>1. Len(queue) \in Nat \ {0}
  OBVIOUS
<1>2. Tail(queue) \in Seq(SUBSET S)
  BY <1>1
<1>3. [queue EXCEPT ![1] = @ \ {msg}] \in Seq(SUBSET S)
  BY <1>1
<1> QED BY <1>2, <1>3 DEF Dequeue

\* The queues of the whole swarm, of messages out of S.
Wire(S) == [Nodes -> [Nodes -> Seq(SUBSET S)]]

LEMMA PublishKeeps ==
    ASSUME NEW S, net \in Wire(S), NEW n \in Nodes, NEW bursts,
           \A k \in Nodes : bursts[k] \in SUBSET S, Publish(n, bursts)
    PROVE  net' \in Wire(S)
<1>1. \A k \in Nodes : net[n][k] \in Seq(SUBSET S)
  BY DEF Wire
<1>2. \A k \in Nodes : Enqueue(net[n][k], bursts[k], up[k]) \in Seq(SUBSET S)
  BY <1>1, EnqueueKeeps
<1>3. net' = [net EXCEPT ![n] =
                [k \in Nodes |-> Enqueue(net[n][k], bursts[k], up[k])]]
  BY DEF Publish, Wire
<1> QED BY <1>2, <1>3 DEF Wire

LEMMA ConsumeKeeps ==
    ASSUME NEW S, net \in Wire(S), NEW m \in Nodes, NEW n \in Nodes, NEW msg,
           Arrived(m, n, msg), Consume(m, n, msg)
    PROVE  msg \in S /\ net' \in Wire(S)
<1>1. net[m][n] \in Seq(SUBSET S) /\ net[m][n] # <<>> /\ msg \in net[m][n][1]
  BY DEF Wire, Arrived
<1>2. Dequeue(net[m][n], msg) \in Seq(SUBSET S)
  BY <1>1, DequeueKeeps
<1>3. msg \in S
  <2>1. Len(net[m][n]) \in Nat \ {0}
    BY <1>1
  <2>2. net[m][n][1] \in SUBSET S
    BY <1>1, <2>1
  <2> QED BY <1>1, <2>2
<1>4. net' = [net EXCEPT ![m] = [net[m] EXCEPT ![n] = Dequeue(net[m][n], msg)]]
  BY DEF Consume, Wire
<1>5. net' \in Wire(S)
  BY <1>2, <1>4 DEF Wire
<1> QED BY <1>3, <1>5

LEMMA SpendType ==
    ASSUME budget \in [Events -> Nat], NEW e \in Events, Spend(e)
    PROVE  budget' \in [Events -> Nat]
BY DEF Spend

LEMMA MessageTypes ==
    /\ \A p \in Paths, c \in Content, o \in Time : create(p, c, o) \in CreateMessage
    /\ \A p \in Paths, d \in Time : remove(p, d) \in RemoveMessage
    /\ \A h \in Hash, n \in Nodes : state(h, n) \in StateMessage
    /\ \A h \in TimeMap, d \in TimeMap : digest(h, d) \in DigestMessage
BY DEF create, remove, state, digest, CreateMessage, RemoveMessage, StateMessage,
       DigestMessage

\* A message is one of the four kinds, told apart by its verb.
LEMMA Verbs ==
    ASSUME NEW msg \in Message
    PROVE  /\ msg.verb = "create" => msg \in CreateMessage
           /\ msg.verb = "remove" => msg \in RemoveMessage
           /\ msg.verb = "state"  => msg \in StateMessage
           /\ msg.verb = "digest" => msg \in DigestMessage
BY DEF Message, CreateMessage, RemoveMessage, StateMessage, DigestMessage

-----------------------------------------------------------------------------
(***************************************************************************)
(* Type correctness.                                                       *)
(***************************************************************************)
LEMMA InitType == Init => TypeOK
<1> SUFFICES ASSUME Init PROVE TypeOK
  OBVIOUS
<1>1. Seed \in File
  BY SwarmAssumption DEF Seed, File, Content, Time, Events
<1>2. disk \in [Nodes -> [Paths -> File \cup {Absent}]]
  BY <1>1 DEF Init, Started
<1>3. \A n \in Nodes : Listing(disk[n]) \in TimeMap
  BY <1>2 DEF Listing, TimeMap, MaybeTime, File, Absent
<1>4. EmptyMap \in TimeMap
  BY DEF EmptyMap, TimeMap, MaybeTime
<1>5. net \in [Nodes -> [Nodes -> Seq(SUBSET Message)]]
  BY DEF Init, Started
<1> QED
  BY <1>2, <1>3, <1>4, <1>5, SwarmAssumption DEF Init, Started, TypeOK, Time, Stages

\* The wire, and the node's place in its iteration, after a message.
LEMMA ReceivingType ==
    ASSUME TypeOK, NEW m \in Nodes, NEW n \in Nodes, NEW msg, Receiving(m, n, msg)
    PROVE  /\ msg \in Message
           /\ net' \in [Nodes -> [Nodes -> Seq(SUBSET Message)]]
           /\ pc' \in [Nodes -> Stages]
           /\ up[n]
<1>1. net \in Wire(Message)
  BY DEF TypeOK, Wire
<1>2. msg \in Message /\ net' \in Wire(Message)
  BY <1>1, ConsumeKeeps DEF Receiving
<1> QED BY <1>2 DEF Wire, Receiving, MayReceive, TypeOK, Stages

LEMMA UserWriteType ==
    ASSUME TypeOK, NEW n \in Nodes, NEW p \in Paths, UserWrite(n, p)
    PROVE  TypeOK'
<1>1. budget' \in [Events -> Nat]
  BY SpendType DEF TypeOK, UserWrite, Events
<1>2. PICK t \in {clock + 1} \cup (IF Coarse THEN {clock} ELSE {}) :
        /\ clock' = t
        /\ disk' = [disk EXCEPT ![n][p] = [content |-> budget'["write"], time |-> t]]
  BY DEF UserWrite
<1>3. t \in Time
  BY <1>2 DEF TypeOK, Time
<1>4. [content |-> budget'["write"], time |-> t] \in File
  BY <1>1, <1>3 DEF File, Content, Events
<1>5. disk' \in [Nodes -> [Paths -> File \cup {Absent}]]
  BY <1>2, <1>4 DEF TypeOK
<1>6. wake' \in [Nodes -> BOOLEAN] /\ unlinked' \in [Nodes -> SUBSET Paths]
  BY DEF TypeOK, UserWrite
<1> QED BY <1>1, <1>2, <1>3, <1>5, <1>6 DEF TypeOK, UserWrite, inbound, repairs

LEMMA UserDeleteType ==
    ASSUME TypeOK, NEW n \in Nodes, NEW p \in Paths, UserDelete(n, p)
    PROVE  TypeOK'
<1>1. budget' \in [Events -> Nat]
  BY SpendType DEF TypeOK, UserDelete, Events
<1>2. disk' \in [Nodes -> [Paths -> File \cup {Absent}]]
  BY DEF TypeOK, UserDelete
<1>3. wake' \in [Nodes -> BOOLEAN] /\ unlinked' \in [Nodes -> SUBSET Paths]
  BY DEF TypeOK, UserDelete
<1> QED BY <1>1, <1>2, <1>3 DEF TypeOK, UserDelete, inbound, repairs

LEMMA UserRestoreType ==
    ASSUME TypeOK, NEW n \in Nodes, NEW p \in Paths, UserRestore(n, p)
    PROVE  TypeOK'
<1>1. budget' \in [Events -> Nat]
  BY SpendType DEF TypeOK, UserRestore, Events
<1>2. Seed \in File
  BY SwarmAssumption DEF Seed, File, Content, Time, Events
<1>3. disk' \in [Nodes -> [Paths -> File \cup {Absent}]]
  BY <1>2 DEF TypeOK, UserRestore
<1> QED BY <1>1, <1>3 DEF TypeOK, UserRestore, inbound, repairs

LEMMA LandType ==
    ASSUME TypeOK, NEW n \in Nodes, NEW p \in Paths, Land(n, p)
    PROVE  TypeOK'
<1> DEFINE wanted  == torrent[n][p].content
           here    == disk[n][p].content = wanted
           moment  == IF here THEN disk[n][p].time ELSE clock + 1
           stamped == IF origins[n][p] # None THEN origins[n][p] ELSE moment
<1>1. torrent[n][p] \in Torrent /\ wanted \in Content
  <2>1. torrent[n][p] # NoTorrent
    BY DEF Land, CanLand
  <2>2. torrent[n][p] \in Torrent \cup {NoTorrent}
    BY DEF TypeOK
  <2> QED BY <2>1, <2>2 DEF Torrent
<1>2. moment \in Time
  <2>1. disk[n][p] \in File \cup {Absent}
    BY DEF TypeOK
  <2>2. here => disk[n][p].time \in Time
    BY <1>1, <2>1 DEF File, Absent, Content, None
  <2> QED BY <2>2 DEF TypeOK, Time
<1>3. origins[n][p] \in MaybeTime
  BY DEF TypeOK, TimeMap
<1>4. stamped \in Time
  BY <1>2, <1>3 DEF MaybeTime
<1>5. [content |-> wanted, time |-> stamped] \in File
  BY <1>1, <1>4 DEF File
<1>6. /\ torrent' = [torrent EXCEPT ![n][p].complete = TRUE]
      /\ disk' = [disk EXCEPT ![n][p] = [content |-> wanted, time |-> stamped]]
      /\ clock' = IF here THEN clock ELSE clock + 1
      /\ wake' = [wake EXCEPT ![n] = @ \/ ~ here]
      /\ origins' = [origins EXCEPT ![n][p] = None]
      /\ written' = [written EXCEPT ![n][p] = stamped]
      /\ former' = [former EXCEPT ![n][p] = stamped]
      /\ unlinked' = [unlinked EXCEPT ![n] = @ \ {p}]
      /\ UNCHANGED <<tombstones, repairs, peers, pc, up, net, budget>>
  BY DEF Land, Remember
<1> HIDE DEF wanted, here, moment, stamped
<1>7. torrent' \in [Nodes -> [Paths -> Torrent \cup {NoTorrent}]]
  BY <1>1, <1>6 DEF TypeOK, Torrent
<1>8. disk' \in [Nodes -> [Paths -> File \cup {Absent}]]
  BY <1>5, <1>6 DEF TypeOK
<1>9. /\ former' \in [Nodes -> TimeMap]
      /\ written' \in [Nodes -> TimeMap]
      /\ origins' \in [Nodes -> TimeMap]
  BY <1>4, <1>6 DEF TypeOK, TimeMap, MaybeTime
<1>10. clock' \in Time
  BY <1>6 DEF TypeOK, Time
<1> QED BY <1>6, <1>7, <1>8, <1>9, <1>10 DEF TypeOK, repairs

\* The listing of a traversal, and the changes found in it.
Seen(n, missed) ==
    [p \in Paths |-> IF p \in missed THEN None ELSE disk[n][p].time]
Found(n, missed) ==
    local_changes(former[n], Seen(n, missed), written[n], tombstones[n], clock + 1)

\* What a traversal finds and leaves behind.
LEMMA TraverseFinds ==
    ASSUME TypeOK, NEW n \in Nodes, NEW missed
    PROVE  /\ Seen(n, missed) \in TimeMap
           /\ Found(n, missed).tombstones \in TimeMap
           /\ \A p \in Found(n, missed).put :
                /\ p \in Paths
                /\ disk[n][p] \in File
                /\ Seen(n, missed)[p] = disk[n][p].time
                /\ disk[n][p].time >= tombstones[n][p]
           /\ \A p \in Found(n, missed).removed :
                /\ p \in Paths
                /\ former[n][p] # None
                /\ Seen(n, missed)[p] = None
                /\ tombstones[n][p] = None
           /\ \A p \in Paths :
                Found(n, missed).tombstones[p] # tombstones[n][p] =>
                    \/ /\ p \in Found(n, missed).removed
                       /\ Found(n, missed).tombstones[p] = clock + 1
                    \/ /\ p \in Found(n, missed).put
                       /\ Found(n, missed).tombstones[p] = None
<1> DEFINE new   == Seen(n, missed)
           found == Found(n, missed)
<1>1. \A p \in Paths : disk[n][p] \in File \cup {Absent}
  BY DEF TypeOK
<1>2. new \in TimeMap
  BY <1>1 DEF Seen, TimeMap, MaybeTime, File, Absent
<1>3. /\ former[n] \in TimeMap
      /\ written[n] \in TimeMap
      /\ tombstones[n] \in TimeMap
      /\ clock + 1 \in Time
  BY DEF TypeOK, Time
<1> DEFINE noticed == clock + 1
<1>4. /\ noticed \in Time
      /\ found = local_changes(former[n], new, written[n], tombstones[n], noticed)
  BY <1>3 DEF Found
<1> HIDE DEF new, found, noticed
<1>5. /\ \A p \in found.put :
            p \in Paths /\ new[p] # None /\ new[p] >= tombstones[n][p]
      /\ \A p \in found.removed :
            /\ p \in Paths
            /\ former[n][p] # None
            /\ new[p] = None
            /\ tombstones[n][p] = None
      /\ found.tombstones \in TimeMap
      /\ \A p \in Paths :
            found.tombstones[p] # tombstones[n][p] =>
                \/ p \in found.removed /\ found.tombstones[p] = noticed
                \/ p \in found.put /\ found.tombstones[p] = None
  BY <1>2, <1>3, <1>4, LocalChanges
<1>6. \A p \in Paths : new[p] # None =>
        disk[n][p] \in File /\ new[p] = disk[n][p].time
  BY <1>1 DEF new, Seen, Absent
<1>7. \A p \in found.put : /\ p \in Paths
                          /\ disk[n][p] \in File
                          /\ new[p] = disk[n][p].time
                          /\ disk[n][p].time >= tombstones[n][p]
  BY <1>5, <1>6
<1> QED BY <1>2, <1>5, <1>7 DEF new, found, noticed

\* A traversal announces files, and deletions of the moment it ends.
LEMMA TraversePublishes ==
    ASSUME TypeOK, NEW n \in Nodes, NEW missed, Traverse(n, missed)
    PROVE  /\ clock' \in Time
           /\ \E burst \in SUBSET (CreateMessage \cup
                                    {msg \in RemoveMessage : msg.deleted = clock'}) :
                Publish(n, [k \in Nodes |-> burst])
<1> DEFINE found == Found(n, missed)
           burst == {remove(p, clock') : p \in found.removed} \cup
                    {create(p, disk[n][p].content, Seen(n, missed)[p]) :
                        p \in found.put}
<1>1. /\ clock' = IF found.removed = {} THEN clock ELSE clock + 2
      /\ Publish(n, [k \in Nodes |-> burst])
  BY DEF Traverse, send, Seen, Found
<1>2. clock' \in Time
  BY <1>1 DEF TypeOK, Time
<1>3. \A p \in found.removed : /\ remove(p, clock') \in RemoveMessage
                              /\ remove(p, clock').deleted = clock'
  BY <1>2, TraverseFinds, MessageTypes DEF remove
<1>4. \A p \in found.put :
        create(p, disk[n][p].content, Seen(n, missed)[p]) \in CreateMessage
  <2>1. \A p \in found.put : /\ p \in Paths
                            /\ disk[n][p].content \in Content
                            /\ Seen(n, missed)[p] \in Time
    BY TraverseFinds DEF File
  <2> HIDE DEF found
  <2> QED BY <2>1, MessageTypes
<1> HIDE DEF found
<1>5. burst \in SUBSET (CreateMessage \cup {msg \in RemoveMessage : msg.deleted = clock'})
  BY <1>3, <1>4
<1> QED BY <1>1, <1>2, <1>5

LEMMA TraverseType ==
    ASSUME TypeOK, NEW n \in Nodes, NEW missed, Traverse(n, missed),
           budget' \in [Events -> Nat]
    PROVE  TypeOK'
<1> DEFINE current == Seen(n, missed)
           found   == Found(n, missed)
<1>1. /\ former' = [former EXCEPT ![n] = current]
      /\ written' = [written EXCEPT ![n] = still_listed(@, current)]
      /\ tombstones' = [tombstones EXCEPT ![n] = expire(found.tombstones, clock')]
      /\ wake' = [wake EXCEPT ![n] = FALSE]
      /\ unlinked' = [unlinked EXCEPT ![n] = {}]
      /\ pc' = [pc EXCEPT ![n] = "round"]
      /\ UNCHANGED <<disk, torrent, origins, repairs, peers, up>>
  BY DEF Traverse, Seen, Found
<1>2. current \in TimeMap /\ found.tombstones \in TimeMap
  BY TraverseFinds
<1>3. clock' \in Time
  BY TraversePublishes
<1> HIDE DEF current, found
<1>4. net' \in Wire(Message)
  <2>1. PICK burst \in SUBSET (CreateMessage \cup
                                {msg \in RemoveMessage : msg.deleted = clock'}) :
            Publish(n, [k \in Nodes |-> burst])
    BY TraversePublishes
  <2>2. burst \in SUBSET Message
    BY DEF Message
  <2> QED BY <2>1, <2>2, PublishKeeps DEF TypeOK, Wire
<1>5. expire(found.tombstones, clock') \in TimeMap
  BY <1>2, <1>3, ExpireType
<1>6. written[n] \in TimeMap /\ still_listed(written[n], current) \in TimeMap
  BY <1>2 DEF TypeOK, still_listed, TimeMap, MaybeTime
<1> QED
  BY <1>1, <1>2, <1>3, <1>4, <1>5, <1>6 DEF TypeOK, Wire, Stages, repairs

\* A round says where the node stands, and tells one peer what it has.
LEMMA RoundPublishes ==
    ASSUME TypeOK, NEW n \in Nodes, Round(n)
    PROVE  \E bursts : /\ Publish(n, bursts)
                       /\ \A k \in Nodes : bursts[k] \in SUBSET
                            (StateMessage \cup {digest(former[n], tombstones[n])})
<1> DEFINE mine == hash(former[n], tombstones[n])
           said == {state(mine, n)}
           told == {digest(former[n], tombstones[n])}
<1>1. former[n] \in TimeMap /\ tombstones[n] \in TimeMap
  BY DEF TypeOK
<1>2. said \in SUBSET StateMessage
  BY <1>1, MessageTypes DEF hash, Hash
<1> HIDE DEF said, told
<1>3. CASE Publish(n, [k \in Nodes |-> IF k = n THEN {} ELSE said])
  <2> WITNESS [k \in Nodes |-> IF k = n THEN {} ELSE said]
  <2> QED BY <1>2, <1>3
<1>4. ASSUME NEW asked,
             Publish(n, [k \in Nodes |-> IF k = n THEN {}
                                         ELSE IF k = asked THEN said \cup told
                                         ELSE said])
      PROVE  \E bursts : /\ Publish(n, bursts)
                         /\ \A k \in Nodes : bursts[k] \in SUBSET
                              (StateMessage \cup {digest(former[n], tombstones[n])})
  <2> WITNESS [k \in Nodes |-> IF k = n THEN {}
                               ELSE IF k = asked THEN said \cup told
                               ELSE said]
  <2> QED BY <1>2, <1>4 DEF told
<1> QED BY <1>3, <1>4 DEF Round, said, told

LEMMA RoundType ==
    ASSUME TypeOK, NEW n \in Nodes, Round(n)
    PROVE  TypeOK'
<1>1. PICK bursts : /\ Publish(n, bursts)
                    /\ \A k \in Nodes : bursts[k] \in SUBSET
                            (StateMessage \cup {digest(former[n], tombstones[n])})
  BY RoundPublishes
<1>2. digest(former[n], tombstones[n]) \in Message
  BY MessageTypes DEF TypeOK, Message
<1>3. \A k \in Nodes : bursts[k] \in SUBSET Message
  BY <1>1, <1>2 DEF Message
<1>4. net' \in Wire(Message)
  BY <1>1, <1>3, PublishKeeps DEF TypeOK, Wire
<1>5. peers' \in [Nodes -> SUBSET [sender : Nodes, hashes : Hash]]
  BY DEF TypeOK, Round
<1>6. pc' \in [Nodes -> Stages]
  BY DEF TypeOK, Round, Stages
<1> QED BY <1>4, <1>5, <1>6 DEF TypeOK, Round, Wire, inbound, repairs

\* publish_repairs announces files only.
LEMMA RepairPublishes ==
    ASSUME TypeOK, NEW n \in Nodes, Repair(n)
    PROVE  /\ \E burst \in SUBSET CreateMessage : Publish(n, [k \in Nodes |-> burst])
           /\ pending' \in [Nodes -> SUBSET Paths]
<1>1. PICK due \in Due(pending[n]) :
        LET listed == Listed(n, due)
            cached == {p \in listed : applied[n][p] # NotApplied}
            blind  == Blind(n, listed)
        IN  \E rebuilt \in SUBSET blind :
            /\ Publish(n, [k \in Nodes |->
                    {create(p, applied[n][p].content, former[n][p]) : p \in cached} \cup
                    {create(p, disk[n][p].content, former[n][p]) :
                        p \in {q \in rebuilt : disk[n][q] # Absent}}])
            /\ pending' = [pending EXCEPT ![n] = arm(@ \ due, blind \ rebuilt)]
  BY DEF Repair
<1> DEFINE listed == Listed(n, due)
           cached == {p \in listed : applied[n][p] # NotApplied}
           blind  == Blind(n, listed)
<1>2. PICK rebuilt \in SUBSET blind :
        /\ Publish(n, [k \in Nodes |->
                {create(p, applied[n][p].content, former[n][p]) : p \in cached} \cup
                {create(p, disk[n][p].content, former[n][p]) :
                    p \in {q \in rebuilt : disk[n][q] # Absent}}])
        /\ pending' = [pending EXCEPT ![n] = arm(@ \ due, blind \ rebuilt)]
  BY <1>1
<1>2a. due \subseteq pending[n]
  BY <1>1 DEF Due
<1>3. /\ listed \subseteq Paths
      /\ \A p \in listed : former[n][p] \in Time
      /\ blind \subseteq listed
  BY <1>2a DEF Listed, Blind, TypeOK, TimeMap, MaybeTime
<1>4. \A p \in cached : applied[n][p].content \in Content
  BY <1>3 DEF TypeOK, Applied
<1>5. \A p \in listed : disk[n][p] # Absent => disk[n][p].content \in Content
  BY <1>3 DEF TypeOK, File
<1> DEFINE burst == {create(p, applied[n][p].content, former[n][p]) : p \in cached} \cup
                    {create(p, disk[n][p].content, former[n][p]) :
                        p \in {q \in rebuilt : disk[n][q] # Absent}}
<1>6. burst \in SUBSET CreateMessage
  BY <1>3, <1>4, <1>5, MessageTypes
<1>7. Publish(n, [k \in Nodes |-> burst])
  BY <1>2
<1> HIDE DEF burst
<1>8. pending' \in [Nodes -> SUBSET Paths]
  BY <1>2, <1>3 DEF TypeOK, arm
<1> QED BY <1>6, <1>7, <1>8

LEMMA RepairType ==
    ASSUME TypeOK, NEW n \in Nodes, Repair(n)
    PROVE  TypeOK'
<1>1. PICK burst \in SUBSET CreateMessage : Publish(n, [k \in Nodes |-> burst])
  BY RepairPublishes
<1>2. burst \in SUBSET Message
  BY DEF Message
<1>3. net' \in Wire(Message)
  BY <1>1, <1>2, PublishKeeps DEF TypeOK, Wire
<1>4. pending' \in [Nodes -> SUBSET Paths]
  BY RepairPublishes
<1>5. /\ pc' \in [Nodes -> Stages]
      /\ UNCHANGED <<clock, disk, torrent, wake, former, tombstones, inbound,
                     applied, peers, up, unlinked, budget>>
  BY DEF TypeOK, Repair, Stages
<1> QED BY <1>3, <1>4, <1>5 DEF TypeOK, Wire, inbound

LEMMA IgnoreType ==
    ASSUME TypeOK, NEW m \in Nodes, NEW n \in Nodes, NEW msg,
           IgnoreDeleted(m, n, msg) \/ IgnoreNotNewer(m, n, msg)
    PROVE  TypeOK'
<1>1. Receiving(m, n, msg) /\ msg.verb = "create"
  BY DEF IgnoreDeleted, IgnoreNotNewer
<1>2. /\ net' \in [Nodes -> [Nodes -> Seq(SUBSET Message)]]
      /\ pc' \in [Nodes -> Stages]
      /\ msg \in CreateMessage
  BY <1>1, ReceivingType, Verbs
<1>3. CASE IgnoreDeleted(m, n, msg)
  BY <1>2, <1>3 DEF TypeOK, IgnoreDeleted, inbound, repairs
<1>4. CASE IgnoreNotNewer(m, n, msg)
  <2>1. tombstones' \in [Nodes -> TimeMap]
    BY <1>2, <1>4 DEF TypeOK, IgnoreNotNewer, CreateMessage, TimeMap, MaybeTime
  <2> QED BY <1>2, <1>4, <2>1 DEF TypeOK, IgnoreNotNewer, inbound, repairs
<1> QED BY <1>3, <1>4

LEMMA ApplyCreateType ==
    ASSUME TypeOK, NEW m \in Nodes, NEW n \in Nodes, NEW msg,
           ApplyCreate(m, n, msg)
    PROVE  TypeOK'
<1> DEFINE p     == msg.path
           held  == torrent[n][p].content = msg.content
           stamp == held /\ disk[n][p] # Absent
<1>1. /\ net' \in [Nodes -> [Nodes -> Seq(SUBSET Message)]]
      /\ pc' \in [Nodes -> Stages]
      /\ msg \in CreateMessage
  BY ReceivingType, Verbs DEF ApplyCreate
<1>2. p \in Paths /\ msg.content \in Content /\ msg.origin \in Time
  BY <1>1 DEF CreateMessage
<1>3. /\ tombstones' = [tombstones EXCEPT ![n][p] = None]
      /\ torrent' = [torrent EXCEPT ![n][p] =
                    IF held THEN @ ELSE [content |-> msg.content, complete |-> FALSE]]
      /\ disk' = [disk EXCEPT ![n][p].time = IF stamp THEN msg.origin ELSE @]
      /\ \/ /\ former' = [former EXCEPT ![n][p] = msg.origin]
            /\ written' = [written EXCEPT ![n][p] = msg.origin]
         \/ former' = former /\ written' = written
      /\ origins' = [origins EXCEPT ![n][p] = IF stamp THEN None ELSE msg.origin]
      /\ applied' = [applied EXCEPT ![n][p] =
                    [origin |-> msg.origin, content |-> msg.content]]
      /\ pending' = [pending EXCEPT ![n] = @ \ {p}]
      /\ UNCHANGED <<clock, wake, peers, up, unlinked, budget>>
  BY DEF ApplyCreate, Remember
<1>4. /\ tombstones' \in [Nodes -> TimeMap]
      /\ former' \in [Nodes -> TimeMap]
      /\ written' \in [Nodes -> TimeMap]
      /\ origins' \in [Nodes -> TimeMap]
  <2> HIDE DEF p, stamp
  <2>1. tombstones' \in [Nodes -> TimeMap]
    BY <1>2, <1>3 DEF TypeOK, TimeMap, MaybeTime
  <2>2. former' \in [Nodes -> TimeMap] /\ written' \in [Nodes -> TimeMap]
    <3>1. /\ [former EXCEPT ![n][p] = msg.origin] \in [Nodes -> TimeMap]
          /\ [written EXCEPT ![n][p] = msg.origin] \in [Nodes -> TimeMap]
      BY <1>2 DEF TypeOK, TimeMap, MaybeTime
    <3> QED BY <1>3, <3>1 DEF TypeOK
  <2>3. origins' \in [Nodes -> TimeMap]
    BY <1>2, <1>3 DEF TypeOK, TimeMap, MaybeTime
  <2> QED BY <2>1, <2>2, <2>3
<1>5. torrent' \in [Nodes -> [Paths -> Torrent \cup {NoTorrent}]]
  <2> HIDE DEF p, held
  <2> QED BY <1>2, <1>3 DEF TypeOK, Torrent
<1>6. disk' \in [Nodes -> [Paths -> File \cup {Absent}]]
  <2> DEFINE here  == disk[n][p]
             after == [here EXCEPT !.time = IF stamp THEN msg.origin ELSE @]
  <2>1. here \in File \cup {Absent}
    BY <1>2 DEF TypeOK
  <2>2. after \in File \cup {Absent}
    <3>1. CASE here \in File
      BY <1>2, <3>1 DEF File
    <3>2. CASE here = Absent
      BY <3>2 DEF Absent
    <3> QED BY <2>1, <3>1, <3>2
  <2>3. disk' = [disk EXCEPT ![n] = [disk[n] EXCEPT ![p] = after]]
    BY <1>3
  <2> HIDE DEF p, after
  <2> QED BY <1>2, <2>2, <2>3 DEF TypeOK
<1>7. applied' \in [Nodes -> [Paths -> Applied \cup {NotApplied}]]
  <2> HIDE DEF p
  <2> QED BY <1>2, <1>3 DEF TypeOK, Applied
<1>8. pending' \in [Nodes -> SUBSET Paths]
  BY <1>3 DEF TypeOK
<1> QED BY <1>1, <1>3, <1>4, <1>5, <1>6, <1>7, <1>8 DEF TypeOK

LEMMA EraseType ==
    ASSUME TypeOK, NEW n \in Nodes, NEW gone, Erase(n, gone)
    PROVE  /\ torrent' \in [Nodes -> [Paths -> Torrent \cup {NoTorrent}]]
           /\ disk' \in [Nodes -> [Paths -> File \cup {Absent}]]
           /\ wake' \in [Nodes -> BOOLEAN]
           /\ applied' \in [Nodes -> [Paths -> Applied \cup {NotApplied}]]
BY DEF TypeOK, Erase

LEMMA ReceiveRemoveType ==
    ASSUME TypeOK, NEW m \in Nodes, NEW n \in Nodes, NEW msg,
           ReceiveRemove(m, n, msg)
    PROVE  TypeOK'
<1>1. /\ net' \in [Nodes -> [Nodes -> Seq(SUBSET Message)]]
      /\ pc' \in [Nodes -> Stages]
      /\ msg \in RemoveMessage
  BY ReceivingType, Verbs DEF ReceiveRemove
<1>2. tombstones' \in [Nodes -> TimeMap]
  <2>1. mark(tombstones[n], msg.path, msg.deleted) \in TimeMap
    BY <1>1, MarkType DEF TypeOK, RemoveMessage
  <2> QED BY <2>1 DEF TypeOK, ReceiveRemove
<1>3. /\ torrent' \in [Nodes -> [Paths -> Torrent \cup {NoTorrent}]]
      /\ disk' \in [Nodes -> [Paths -> File \cup {Absent}]]
      /\ wake' \in [Nodes -> BOOLEAN]
      /\ applied' \in [Nodes -> [Paths -> Applied \cup {NotApplied}]]
  BY EraseType DEF ReceiveRemove
<1>4. pending' \in [Nodes -> SUBSET Paths]
  BY DEF TypeOK, ReceiveRemove
<1> QED BY <1>1, <1>2, <1>3, <1>4 DEF TypeOK, ReceiveRemove, inbound

LEMMA ReceiveStateType ==
    ASSUME TypeOK, NEW m \in Nodes, NEW n \in Nodes, NEW msg,
           ReceiveState(m, n, msg)
    PROVE  TypeOK'
<1>1. /\ net' \in [Nodes -> [Nodes -> Seq(SUBSET Message)]]
      /\ pc' \in [Nodes -> Stages]
      /\ msg \in StateMessage
  BY ReceivingType, Verbs DEF ReceiveState
<1>2. peers' \in [Nodes -> SUBSET [sender : Nodes, hashes : Hash]]
  <2>1. [sender |-> msg.sender, hashes |-> msg.hashes] \in [sender : Nodes, hashes : Hash]
    BY <1>1 DEF StateMessage
  <2>2. peers[n] \in SUBSET [sender : Nodes, hashes : Hash]
    BY DEF TypeOK
  <2>3. {h \in peers[n] : h.sender # msg.sender} \cup
        {[sender |-> msg.sender, hashes |-> msg.hashes]}
            \in SUBSET [sender : Nodes, hashes : Hash]
    BY <2>1, <2>2, Zenon
  <2> QED BY <2>3 DEF TypeOK, ReceiveState
<1> QED BY <1>1, <1>2 DEF TypeOK, ReceiveState, inbound, repairs

LEMMA ReceiveDigestType ==
    ASSUME TypeOK, NEW m \in Nodes, NEW n \in Nodes, NEW msg,
           ReceiveDigest(m, n, msg)
    PROVE  TypeOK'
<1> DEFINE adopted == adoptable(msg.deleted, former[n], tombstones[n], clock)
           gone    == {p \in adopted : former[n][p] # None}
           kept    == [p \in Paths |-> IF p \in gone THEN None ELSE former[n][p]]
           graves  == [p \in Paths |-> IF p \in adopted THEN msg.deleted[p]
                                       ELSE tombstones[n][p]]
<1>1. /\ net' \in [Nodes -> [Nodes -> Seq(SUBSET Message)]]
      /\ pc' \in [Nodes -> Stages]
      /\ msg \in DigestMessage
  BY ReceivingType, Verbs DEF ReceiveDigest, arm
<1>2. /\ msg.deleted \in TimeMap
      /\ former[n] \in TimeMap
      /\ tombstones[n] \in TimeMap
  BY <1>1 DEF DigestMessage, TypeOK
<1>3. kept \in TimeMap /\ graves \in TimeMap
  BY <1>2 DEF TimeMap, MaybeTime
<1>4. gaps(kept, graves, msg.held) \subseteq Paths
  BY DEF gaps
<1>5. /\ Erase(n, gone)
      /\ former' = [former EXCEPT ![n] = kept]
      /\ tombstones' = [tombstones EXCEPT ![n] = graves]
      /\ pending' = [pending EXCEPT ![n] =
                        (@ \ gone) \cup gaps(kept, graves, msg.held)]
      /\ UNCHANGED <<clock, inbound, peers, up, unlinked, budget>>
  BY DEF ReceiveDigest, arm
<1> HIDE DEF gone, kept, graves
<1>6. /\ torrent' \in [Nodes -> [Paths -> Torrent \cup {NoTorrent}]]
      /\ disk' \in [Nodes -> [Paths -> File \cup {Absent}]]
      /\ wake' \in [Nodes -> BOOLEAN]
      /\ applied' \in [Nodes -> [Paths -> Applied \cup {NotApplied}]]
  BY <1>5, EraseType
<1>7. pending' \in [Nodes -> SUBSET Paths]
  BY <1>4, <1>5 DEF TypeOK
<1> QED BY <1>1, <1>3, <1>5, <1>6, <1>7 DEF TypeOK, inbound

LEMMA CrashType ==
    ASSUME TypeOK, NEW n \in Nodes, Crash(n)
    PROVE  TypeOK'
<1>1. budget' \in [Events -> Nat]
  BY SpendType DEF TypeOK, Crash, Events
<1>2. EmptyMap \in TimeMap
  BY DEF EmptyMap, TimeMap, MaybeTime
<1>3. net' \in [Nodes -> [Nodes -> Seq(SUBSET Message)]]
  BY DEF TypeOK, Crash
<1>4. up' \in [Nodes -> BOOLEAN] /\ wake' \in [Nodes -> BOOLEAN]
  BY DEF TypeOK, Crash
<1> QED BY <1>1, <1>2, <1>3, <1>4 DEF TypeOK, Crash, Stages

LEMMA RestartType ==
    ASSUME TypeOK, NEW n \in Nodes, Restart(n)
    PROVE  TypeOK'
<1>1. Listing(disk[n]) \in TimeMap
  BY DEF TypeOK, Listing, TimeMap, MaybeTime, File, Absent
<1> QED BY <1>1 DEF TypeOK, Restart, inbound, repairs

LEMMA LoseType ==
    ASSUME TypeOK, NEW m \in Nodes, NEW n \in Nodes, NEW msg, Lose(m, n, msg)
    PROVE  TypeOK'
<1>1. budget' \in [Events -> Nat]
  BY SpendType DEF TypeOK, Lose, Events
<1>2. net' \in Wire(Message)
  BY ConsumeKeeps DEF TypeOK, Lose, Wire
<1> QED BY <1>1, <1>2 DEF TypeOK, Lose, Wire, inbound, repairs

-----------------------------------------------------------------------------
\* A step of the swarm is a step of one of these kinds.
LEMMA StepCases ==
    ASSUME Next
    PROVE  \/ \E n \in Nodes, p \in Paths :
                \/ UserWrite(n, p) \/ UserDelete(n, p) \/ UserRestore(n, p)
                \/ Land(n, p)
           \/ \E n \in Nodes :
                \/ Scan(n) \/ ShortScan(n) \/ NothingToScan(n) \/ Round(n)
                \/ Repair(n) \/ ReceiveNothing(n) \/ Crash(n) \/ Restart(n)
           \/ \E m \in Nodes, n \in Nodes : \E msg :
                \/ IgnoreDeleted(m, n, msg) \/ IgnoreNotNewer(m, n, msg)
                \/ ApplyCreate(m, n, msg) \/ ReceiveRemove(m, n, msg)
                \/ ReceiveState(m, n, msg) \/ ReceiveDigest(m, n, msg)
                \/ Lose(m, n, msg)
           \/ Tick
BY Zenon DEF Next, Daemon, Iterate, Receive, World

LEMMA StepType == TypeOK /\ [Next]_vars => TypeOK'
<1> SUFFICES ASSUME TypeOK, [Next]_vars PROVE TypeOK'
  OBVIOUS
<1>1. CASE UNCHANGED vars
  BY <1>1 DEF TypeOK, vars, inbound, repairs
<1>2. ASSUME NEW n \in Nodes, NEW p \in Paths,
             \/ UserWrite(n, p) \/ UserDelete(n, p) \/ UserRestore(n, p)
             \/ Land(n, p)
      PROVE  TypeOK'
  BY <1>2, UserWriteType, UserDeleteType, UserRestoreType, LandType
<1>3. ASSUME NEW n \in Nodes, Scan(n) \/ ShortScan(n)
      PROVE  TypeOK'
  <2>1. CASE Scan(n)
    BY <2>1, TraverseType DEF Scan, TypeOK
  <2>2. CASE ShortScan(n)
    BY <2>2, TraverseType, SpendType DEF ShortScan, TypeOK, Events
  <2> QED BY <1>3, <2>1, <2>2
<1>4. ASSUME NEW n \in Nodes, NothingToScan(n) \/ ReceiveNothing(n)
      PROVE  TypeOK'
  <2>1. pc' \in [Nodes -> Stages]
    BY <1>4 DEF TypeOK, NothingToScan, ReceiveNothing, Stages
  <2> QED BY <1>4, <2>1 DEF TypeOK, NothingToScan, ReceiveNothing, inbound, repairs
<1>5. ASSUME NEW n \in Nodes, Round(n) \/ Repair(n) \/ Crash(n) \/ Restart(n)
      PROVE  TypeOK'
  BY <1>5, RoundType, RepairType, CrashType, RestartType
<1>6. ASSUME NEW m \in Nodes, NEW n \in Nodes, NEW msg,
             \/ IgnoreDeleted(m, n, msg) \/ IgnoreNotNewer(m, n, msg)
             \/ ApplyCreate(m, n, msg) \/ ReceiveRemove(m, n, msg)
             \/ ReceiveState(m, n, msg) \/ ReceiveDigest(m, n, msg)
             \/ Lose(m, n, msg)
      PROVE  TypeOK'
  BY <1>6, IgnoreType, ApplyCreateType, ReceiveRemoveType, ReceiveStateType,
     ReceiveDigestType, LoseType
<1>7. CASE Tick
  <2>1. budget' \in [Events -> Nat]
    BY <1>7, SpendType DEF TypeOK, Tick, Events
  <2>2. clock' \in Time
    BY <1>7 DEF TypeOK, Tick, Time
  <2> QED BY <1>7, <2>1, <2>2 DEF TypeOK, Tick, inbound, repairs
<1> QED BY <1>1, <1>2, <1>3, <1>4, <1>5, <1>6, <1>7, StepCases

(***************************************************************************)
(* Every map, message and queue of every daemon has the shape the code     *)
(* gives it; in particular a create always names a file that was there     *)
(* when it was made: neither a traversal nor publish_repairs reads the     *)
(* time of a file that is gone.                                            *)
(***************************************************************************)
THEOREM TypeCorrect == Spec => []TypeOK
<1>1. Init => TypeOK
  BY InitType
<1>2. TypeOK /\ [Next]_vars => TypeOK'
  BY StepType
<1> QED BY <1>1, <1>2, PTL DEF Spec

-----------------------------------------------------------------------------
(***************************************************************************)
(* Deletions yield only to newer files.                                    *)
(***************************************************************************)
\* The body of the action property, for one node and one path.
GraveYields(n, p) ==
    up'[n] /\ tombstones'[n][p] < tombstones[n][p] =>
        \/ clock' - tombstones[n][p] > TombstoneTtl
        \/ disk'[n][p].time >= tombstones[n][p]
        \/ origins'[n][p] >= tombstones[n][p]

LEMMA TraverseYields ==
    ASSUME TypeOK, NEW n \in Nodes, NEW missed, Traverse(n, missed),
           NEW k \in Nodes, NEW p \in Paths
    PROVE  GraveYields(k, p)
<1> DEFINE found == Found(n, missed)
           now   == IF found.removed = {} THEN clock ELSE clock + 2
<1>1. /\ clock' = now
      /\ tombstones' = [tombstones EXCEPT ![n] = expire(found.tombstones, now)]
      /\ disk' = disk
  BY DEF Traverse, Found, Seen
<1>2. now \in Time
  BY DEF TypeOK, Time
<1>3. /\ found.tombstones \in TimeMap
      /\ tombstones[n] \in TimeMap
  BY TraverseFinds DEF TypeOK
<1>4. CASE k # n
  <2>1. tombstones'[k] = tombstones[k] /\ tombstones[k][p] \in Int
    BY <1>1, <1>4 DEF TypeOK, TimeMap, MaybeTime, Time, None
  <2> QED BY <2>1 DEF GraveYields
<1>5. CASE k = n /\ found.tombstones[p] # tombstones[n][p]
  <2>1. \/ found.tombstones[p] = clock + 1 /\ tombstones[n][p] = None
        \/ disk[n][p].time >= tombstones[n][p]
    BY <1>5, TraverseFinds
  <2>2. CASE disk[n][p].time >= tombstones[n][p]
    BY <1>1, <1>5, <2>2 DEF GraveYields
  <2>3. CASE tombstones[n][p] = None
    <3>1. expire(found.tombstones, now)[p] \in MaybeTime
      BY <1>2, <1>3, ExpireType DEF TimeMap
    <3>2. tombstones'[n][p] = expire(found.tombstones, now)[p]
      BY <1>1 DEF TypeOK
    <3> QED BY <1>5, <2>3, <3>1, <3>2 DEF GraveYields, MaybeTime, Time, None
  <2> QED BY <2>1, <2>2, <2>3
<1>6. CASE k = n /\ found.tombstones[p] = tombstones[n][p]
  <2>1. tombstones'[n][p] = expire(found.tombstones, now)[p]
    BY <1>1 DEF TypeOK
  <2> HIDE DEF found, now
  <2>2. expire(found.tombstones, now)[p] # found.tombstones[p] =>
            now - found.tombstones[p] > TombstoneTtl
    BY <1>2, <1>3, ExpireType
  <2>3. tombstones[n][p] \in Int
    BY <1>3 DEF TimeMap, MaybeTime, Time, None
  <2> QED BY <1>1, <1>6, <2>1, <2>2, <2>3 DEF GraveYields
<1> QED BY <1>4, <1>5, <1>6

LEMMA CreateYields ==
    ASSUME TypeOK, NEW m \in Nodes, NEW n \in Nodes, NEW msg,
           IgnoreNotNewer(m, n, msg) \/ ApplyCreate(m, n, msg),
           NEW k \in Nodes, NEW p \in Paths
    PROVE  GraveYields(k, p)
<1>1. msg \in CreateMessage
  BY ReceivingType, Verbs DEF IgnoreNotNewer, ApplyCreate
<1>2. msg.path \in Paths /\ msg.origin \in Time
  BY <1>1 DEF CreateMessage
<1>3. tombstones' = [tombstones EXCEPT ![n][msg.path] = None]
  BY DEF IgnoreNotNewer, ApplyCreate
<1>4. \A i \in Nodes, q \in Paths : tombstones[i][q] \in Int
  BY DEF TypeOK, TimeMap, MaybeTime, Time, None
<1>5. CASE k # n \/ p # msg.path
  BY <1>2, <1>3, <1>4, <1>5 DEF GraveYields, TypeOK, TimeMap
<1>6. CASE k = n /\ p = msg.path
  <2>1. msg.origin >= tombstones[n][p]
    <3>1. ~ CreateIsDead(n, msg)
      BY DEF IgnoreNotNewer, ApplyCreate
    <3> QED BY <1>2, <1>4, <1>6, <3>1 DEF CreateIsDead, beats, Time, None
  <2>2. CASE IgnoreNotNewer(m, n, msg)
    <3>1. disk[n][p] \in File \cup {Absent} /\ disk[n][p] # Absent /\ disk' = disk
      BY <1>6, <2>2 DEF IgnoreNotNewer, wins, TypeOK
    <3>2. disk[n][p].time \in Time
      BY <3>1 DEF File
    <3>3. ~ (msg.origin > disk[n][p].time)
      BY <1>6, <2>2 DEF IgnoreNotNewer, wins
    <3> QED BY <1>2, <1>4, <1>6, <2>1, <3>1, <3>2, <3>3 DEF GraveYields, Time
  <2>3. CASE ApplyCreate(m, n, msg)
    <3> DEFINE stamp == torrent[n][p].content = msg.content /\ disk[n][p] # Absent
    <3>1. /\ disk' = [disk EXCEPT ![n][p].time = IF stamp THEN msg.origin ELSE @]
          /\ origins' = [origins EXCEPT ![n][p] = IF stamp THEN None ELSE msg.origin]
      BY <1>6, <2>3 DEF ApplyCreate
    <3>2. CASE stamp
      <4>1. disk[n][p] \in File
        BY <3>2 DEF TypeOK
      <4>2. disk'[n][p].time = msg.origin
        BY <3>1, <3>2, <4>1 DEF TypeOK, File
      <4> QED BY <1>6, <2>1, <4>2 DEF GraveYields
    <3>3. CASE ~ stamp
      <4>1. origins'[n][p] = msg.origin
        BY <3>1, <3>3 DEF TypeOK, TimeMap
      <4> QED BY <1>6, <2>1, <4>1 DEF GraveYields
    <3> QED BY <3>2, <3>3
  <2> QED BY <2>2, <2>3
<1> QED BY <1>5, <1>6

(***************************************************************************)
(* A running node lets go of a deletion, or of its moment, only when it    *)
(* has outlived the time to live or when the node has, or is fetching, a   *)
(* file that the deletion does not beat: local_changes, forget_spent_marks,*)
(* act and adopt between them leave no other way, for any number of nodes  *)
(* and paths, whatever is lost, restarted or listed short.                 *)
(***************************************************************************)
THEOREM GravesYieldOnlyToNewer == Spec => GraveYieldsOnlyToNewer
<1> DEFINE Yields == \A n \in Nodes, p \in Paths : GraveYields(n, p)
<1>1. TypeOK /\ [Next]_vars => [Yields]_vars
  <2> SUFFICES ASSUME TypeOK, Next, NEW k \in Nodes, NEW p \in Paths
               PROVE  GraveYields(k, p)
    OBVIOUS
  <2>1. \A i \in Nodes, q \in Paths : tombstones[i][q] \in Int
    BY DEF TypeOK, TimeMap, MaybeTime, Time, None
  <2>2. CASE tombstones'[k][p] >= tombstones[k][p]
    <3>1. tombstones'[k][p] \in Int
      BY StepType DEF TypeOK, TimeMap, MaybeTime, Time, None
    <3> QED BY <2>1, <2>2, <3>1 DEF GraveYields
  <2>3. CASE UNCHANGED tombstones
    BY <2>1, <2>2, <2>3
  <2>4. ASSUME NEW n \in Nodes, Scan(n) \/ ShortScan(n)
        PROVE  GraveYields(k, p)
    BY <2>4, TraverseYields DEF Scan, ShortScan
  <2>5. ASSUME NEW n \in Nodes, Crash(n)
        PROVE  GraveYields(k, p)
    BY <2>1, <2>5 DEF GraveYields, Crash, TypeOK
  <2>6. ASSUME NEW m \in Nodes, NEW n \in Nodes, NEW msg,
               IgnoreNotNewer(m, n, msg) \/ ApplyCreate(m, n, msg)
        PROVE  GraveYields(k, p)
    BY <2>6, CreateYields
  <2>7. ASSUME NEW m \in Nodes, NEW n \in Nodes, NEW msg, ReceiveRemove(m, n, msg)
        PROVE  GraveYields(k, p)
    <3>1. msg \in RemoveMessage
      BY <2>7, ReceivingType, Verbs DEF ReceiveRemove
    <3>2. tombstones' = [tombstones EXCEPT ![n] = mark(tombstones[n], msg.path, msg.deleted)]
      BY <2>7 DEF ReceiveRemove, TypeOK
    <3>3. mark(tombstones[n], msg.path, msg.deleted)[p] >= tombstones[n][p]
      BY <3>1, MarkType DEF RemoveMessage, TypeOK
    <3>4. tombstones'[k][p] >= tombstones[k][p]
      BY <2>1, <3>2, <3>3 DEF TypeOK
    <3> QED BY <2>2, <3>4
  <2>8. ASSUME NEW m \in Nodes, NEW n \in Nodes, NEW msg, ReceiveDigest(m, n, msg)
        PROVE  GraveYields(k, p)
    <3> DEFINE adopted == adoptable(msg.deleted, former[n], tombstones[n], clock)
    <3>1. msg \in DigestMessage
      BY <2>8, ReceivingType, Verbs DEF ReceiveDigest
    <3>2. tombstones' = [tombstones EXCEPT ![n] =
                [q \in Paths |-> IF q \in adopted THEN msg.deleted[q]
                                 ELSE tombstones[n][q]]]
      BY <2>8 DEF ReceiveDigest
    <3>3. p \in adopted => msg.deleted[p] >= tombstones[n][p]
      BY <2>1, <3>1 DEF adoptable, DigestMessage, TimeMap, MaybeTime, Time, None
    <3> HIDE DEF adopted
    <3>4. tombstones'[k][p] >= tombstones[k][p]
      BY <2>1, <3>2, <3>3 DEF TypeOK
    <3> QED BY <2>2, <3>4
  <2>9. ASSUME NEW n \in Nodes, NEW q \in Paths,
               \/ UserWrite(n, q) \/ UserDelete(n, q) \/ UserRestore(n, q)
               \/ Land(n, q)
        PROVE  UNCHANGED tombstones
    BY <2>9 DEF UserWrite, UserDelete, UserRestore, Land
  <2>10. ASSUME NEW n \in Nodes,
                \/ NothingToScan(n) \/ Round(n) \/ Repair(n)
                \/ ReceiveNothing(n) \/ Restart(n)
         PROVE  UNCHANGED tombstones
    BY <2>10 DEF NothingToScan, Round, Repair, ReceiveNothing, Restart
  <2>11. ASSUME NEW m \in Nodes, NEW n \in Nodes, NEW msg,
                \/ IgnoreDeleted(m, n, msg) \/ ReceiveState(m, n, msg)
                \/ Lose(m, n, msg)
         PROVE  UNCHANGED tombstones
    BY <2>11 DEF IgnoreDeleted, ReceiveState, Lose
  <2>12. CASE Tick
    BY <2>3, <2>12 DEF Tick
  <2> QED
    BY <2>3, <2>4, <2>5, <2>6, <2>7, <2>8, <2>9, <2>10, <2>11, <2>12, StepCases
<1>2. Spec => [][Yields]_vars
  BY <1>1, TypeCorrect, PTL DEF Spec
<1> QED BY <1>2 DEF GraveYieldsOnlyToNewer, GraveYields

-----------------------------------------------------------------------------
(***************************************************************************)
(* Behaviours in which every traversal sees the whole tree.                *)
(***************************************************************************)
NoShort == budget["short"] = 0

LEMMA NoShortStep ==
    ASSUME TypeOK, NoShort, [Next]_vars
    PROVE  NoShort' /\ \A n \in Nodes : ~ ShortScan(n)
<1>1. \A n \in Nodes : ~ ShortScan(n)
  BY DEF ShortScan, Spend, NoShort
<1> SUFFICES NoShort'
  BY <1>1
<1>2. ASSUME NEW e \in Events \ {"short"}, Spend(e)
      PROVE  NoShort'
  BY <1>2 DEF Spend, NoShort, TypeOK, Events
<1>3. CASE UNCHANGED budget
  BY <1>3 DEF NoShort
<1>4. CASE UNCHANGED vars
  BY <1>3, <1>4 DEF vars
<1>5. ASSUME NEW n \in Nodes, NEW p \in Paths,
             \/ UserWrite(n, p) \/ UserDelete(n, p) \/ UserRestore(n, p)
             \/ Land(n, p)
      PROVE  NoShort'
  BY <1>2, <1>3, <1>5 DEF UserWrite, UserDelete, UserRestore, Land, Events
<1>6. ASSUME NEW n \in Nodes,
             \/ Scan(n) \/ NothingToScan(n) \/ Round(n) \/ Repair(n)
             \/ ReceiveNothing(n) \/ Restart(n)
      PROVE  NoShort'
  BY <1>3, <1>6 DEF Scan, NothingToScan, Round, Repair, ReceiveNothing, Restart
<1>7. ASSUME NEW n \in Nodes, Crash(n)
      PROVE  NoShort'
  BY <1>2, <1>7 DEF Crash, Events
<1>8. ASSUME NEW m \in Nodes, NEW n \in Nodes, NEW msg,
             \/ IgnoreDeleted(m, n, msg) \/ IgnoreNotNewer(m, n, msg)
             \/ ApplyCreate(m, n, msg) \/ ReceiveRemove(m, n, msg)
             \/ ReceiveState(m, n, msg) \/ ReceiveDigest(m, n, msg)
      PROVE  NoShort'
  BY <1>3, <1>8 DEF IgnoreDeleted, IgnoreNotNewer, ApplyCreate, ReceiveRemove,
                    ReceiveState, ReceiveDigest
<1>9. ASSUME NEW m \in Nodes, NEW n \in Nodes, NEW msg, Lose(m, n, msg)
      PROVE  NoShort'
  BY <1>2, <1>9 DEF Lose, Events
<1>10. CASE Tick
  BY <1>2, <1>10 DEF Tick, Events
<1> QED BY <1>1, <1>4, <1>5, <1>6, <1>7, <1>8, <1>9, <1>10, StepCases

LEMMA ScanSees ==
    ASSUME TypeOK, NEW n \in Nodes, Scan(n)
    PROVE  former' = [former EXCEPT ![n] = Listing(disk[n])]
BY DEF Scan, Traverse, Listing

\* What the daemon is about to look at again.
Honest(n) == up[n] /\ former[n] # Listing(disk[n]) => wake[n]

\* A step that leaves a node's files, listing, event and daemon alone.
LEMMA HonestFrame ==
    ASSUME NEW k \in Nodes, Honest(k), up'[k] = up[k], former'[k] = former[k],
           disk'[k] = disk[k], wake'[k] = wake[k]
    PROVE  Honest(k)'
BY DEF Honest, Listing

LEMMA HonestUser ==
    ASSUME TypeOK, NEW n \in Nodes, NEW p \in Paths, NEW k \in Nodes, Honest(k),
           UserWrite(n, p) \/ UserDelete(n, p) \/ UserRestore(n, p)
    PROVE  Honest(k)'
<1>1. up' = up /\ former' = former /\ wake' = [wake EXCEPT ![n] = up[n]]
  BY DEF UserWrite, UserDelete, UserRestore
<1>2. CASE k = n
  BY <1>1, <1>2 DEF Honest, TypeOK
<1>3. CASE k # n
  <2>1. disk'[k] = disk[k] /\ wake'[k] = wake[k]
    BY <1>1, <1>3 DEF UserWrite, UserDelete, UserRestore, TypeOK
  <2> QED BY <1>1, <2>1, HonestFrame
<1> QED BY <1>2, <1>3

LEMMA HonestLand ==
    ASSUME TypeOK, NEW n \in Nodes, NEW p \in Paths, NEW k \in Nodes, Honest(k),
           Land(n, p)
    PROVE  Honest(k)'
<1> DEFINE wanted  == torrent[n][p].content
           here    == disk[n][p].content = wanted
           moment  == IF here THEN disk[n][p].time ELSE clock + 1
           stamped == IF origins[n][p] # None THEN origins[n][p] ELSE moment
<1>1. /\ up' = up
      /\ disk' = [disk EXCEPT ![n][p] = [content |-> wanted, time |-> stamped]]
      /\ former' = [former EXCEPT ![n][p] = stamped]
      /\ wake' = [wake EXCEPT ![n] = @ \/ ~ here]
  BY DEF Land, Remember
<1> HIDE DEF wanted, here, moment, stamped
<1>2. CASE k # n
  <2>1. disk'[k] = disk[k] /\ wake'[k] = wake[k] /\ former'[k] = former[k]
    BY <1>1, <1>2 DEF TypeOK
  <2> QED BY <1>1, <2>1, HonestFrame
<1>3. CASE k = n
  <2>1. wake[n] => wake'[n]
    BY <1>1 DEF TypeOK
  <2>2. former[n] = Listing(disk[n]) => former'[n] = Listing(disk'[n])
    <3>1. \A q \in Paths \ {p} : disk'[n][q] = disk[n][q]
      BY <1>1 DEF TypeOK
    <3>2. disk'[n][p].time = stamped
      BY <1>1 DEF TypeOK
    <3>3. former'[n] = [former[n] EXCEPT ![p] = stamped]
      BY <1>1 DEF TypeOK
    <3> QED BY <3>1, <3>2, <3>3 DEF Listing
  <2> QED BY <1>1, <1>3, <2>1, <2>2 DEF Honest
<1> QED BY <1>2, <1>3

LEMMA HonestApply ==
    ASSUME TypeOK, NEW m \in Nodes, NEW n \in Nodes, NEW msg, NEW k \in Nodes,
           Honest(k), ApplyCreate(m, n, msg)
    PROVE  Honest(k)'
<1> DEFINE p     == msg.path
           stamp == torrent[n][p].content = msg.content /\ disk[n][p] # Absent
<1>1. p \in Paths
  BY ReceivingType, Verbs DEF ApplyCreate, CreateMessage
<1>2. /\ up' = up
      /\ wake' = wake
      /\ disk' = [disk EXCEPT ![n][p].time = IF stamp THEN msg.origin ELSE @]
      /\ former' = IF stamp THEN [former EXCEPT ![n][p] = msg.origin] ELSE former
  BY DEF ApplyCreate, Remember
<1> HIDE DEF p, stamp
<1>3. CASE k # n
  <2>1. disk'[k] = disk[k] /\ former'[k] = former[k]
    BY <1>2, <1>3 DEF TypeOK
  <2> QED BY <1>2, <2>1, HonestFrame
<1>4. CASE k = n
  <2>1. \A q \in Paths \ {p} : disk'[n][q] = disk[n][q]
    BY <1>2 DEF TypeOK
  <2>2. disk'[n][p].time = IF stamp THEN msg.origin ELSE disk[n][p].time
    <3>1. disk[n][p] \in File \cup {Absent}
      BY <1>1 DEF TypeOK
    <3>2. disk'[n][p] = [disk[n][p] EXCEPT !.time = IF stamp THEN msg.origin ELSE @]
      BY <1>1, <1>2 DEF TypeOK
    <3> QED BY <3>1, <3>2 DEF File, Absent
  <2>3. former'[n] = IF stamp THEN [former[n] EXCEPT ![p] = msg.origin] ELSE former[n]
    BY <1>2 DEF TypeOK
  <2>4. former[n] = Listing(disk[n]) => former'[n] = Listing(disk'[n])
    <3> SUFFICES ASSUME former[n] = Listing(disk[n])
                 PROVE  former'[n] = Listing(disk'[n])
      OBVIOUS
    <3>1. CASE stamp
      BY <1>1, <2>1, <2>2, <2>3, <3>1 DEF Listing
    <3>2. CASE ~ stamp
      BY <1>1, <2>1, <2>2, <2>3, <3>2 DEF Listing
    <3> QED BY <3>1, <3>2
  <2> QED BY <1>2, <1>4, <2>4 DEF Honest
<1> QED BY <1>3, <1>4

\* protocol::erase raises an event for every file it takes away.
LEMMA HonestErase ==
    ASSUME TypeOK, NEW n \in Nodes, NEW gone \in SUBSET Paths, Erase(n, gone),
           up' = up, NEW k \in Nodes, Honest(k),
           \/ former' = former
           \/ former' = [former EXCEPT ![n] =
                            [p \in Paths |-> IF p \in gone THEN None ELSE @[p]]]
    PROVE  Honest(k)'
<1>1. /\ disk' = [disk EXCEPT ![n] = [p \in Paths |-> IF p \in gone THEN Absent
                                                     ELSE disk[n][p]]]
      /\ wake' = [wake EXCEPT ![n] = wake[n] \/ \E p \in gone : disk[n][p] # Absent]
  BY DEF Erase
<1>2. CASE k # n
  <2>1. disk'[k] = disk[k] /\ former'[k] = former[k] /\ wake'[k] = wake[k]
    BY <1>1, <1>2 DEF TypeOK
  <2> QED BY <2>1, HonestFrame
<1>3. CASE k = n /\ \E p \in gone : disk[n][p] # Absent
  BY <1>1, <1>3 DEF Honest, TypeOK
<1>4. CASE k = n /\ ~ \E p \in gone : disk[n][p] # Absent
  <2>1. disk'[n] = disk[n]
    BY <1>1, <1>4 DEF TypeOK
  <2>2. wake[n] => wake'[n]
    BY <1>1 DEF TypeOK
  <2>3. former[n] = Listing(disk[n]) => former'[n] = former[n]
    <3>1. former[n] = Listing(disk[n]) =>
            [p \in Paths |-> IF p \in gone THEN None ELSE former[n][p]] = former[n]
      BY <1>4 DEF Listing, Absent
    <3> QED BY <3>1 DEF TypeOK
  <2> QED BY <1>4, <2>1, <2>2, <2>3 DEF Honest, Listing
<1> QED BY <1>2, <1>3, <1>4

LEMMA HonestStep ==
    ASSUME TypeOK, NoShort, [Next]_vars, NEW k \in Nodes, Honest(k)
    PROVE  Honest(k)'
<1>1. CASE UNCHANGED <<up, former, disk, wake>>
  BY <1>1, HonestFrame
<1>2. CASE UNCHANGED vars
  BY <1>1, <1>2 DEF vars
<1>3. ASSUME NEW n \in Nodes, NEW p \in Paths,
             \/ UserWrite(n, p) \/ UserDelete(n, p) \/ UserRestore(n, p)
             \/ Land(n, p)
      PROVE  Honest(k)'
  BY <1>3, HonestUser, HonestLand
<1>4. ASSUME NEW n \in Nodes, Scan(n)
      PROVE  Honest(k)'
  <2>1. /\ former' = [former EXCEPT ![n] = Listing(disk[n])]
        /\ disk' = disk /\ up' = up
        /\ wake' = [wake EXCEPT ![n] = FALSE]
    BY <1>4, ScanSees DEF Scan, Traverse
  <2>2. CASE k = n
    BY <2>1, <2>2 DEF Honest, TypeOK
  <2>3. CASE k # n
    <3>1. former'[k] = former[k] /\ wake'[k] = wake[k]
      BY <2>1, <2>3 DEF TypeOK
    <3> QED BY <2>1, <3>1, HonestFrame
  <2> QED BY <2>2, <2>3
<1>5. ASSUME NEW n \in Nodes,
             \/ NothingToScan(n) \/ Round(n) \/ Repair(n) \/ ReceiveNothing(n)
      PROVE  UNCHANGED <<up, former, disk, wake>>
  BY <1>5 DEF NothingToScan, Round, Repair, ReceiveNothing
<1>6. ASSUME NEW n \in Nodes, Crash(n)
      PROVE  Honest(k)'
  <2>1. CASE k = n
    BY <1>6, <2>1 DEF Crash, Honest, TypeOK
  <2>2. CASE k # n
    <3>1. /\ up'[k] = up[k] /\ former'[k] = former[k]
          /\ disk'[k] = disk[k] /\ wake'[k] = wake[k]
      BY <1>6, <2>2 DEF Crash, TypeOK
    <3> QED BY <3>1, HonestFrame
  <2> QED BY <2>1, <2>2
<1>7. ASSUME NEW n \in Nodes, Restart(n)
      PROVE  Honest(k)'
  <2>1. disk' = disk /\ wake' = wake
    BY <1>7 DEF Restart
  <2>2. CASE k = n
    BY <1>7, <2>1, <2>2 DEF Restart, Honest, TypeOK
  <2>3. CASE k # n
    <3>1. up'[k] = up[k] /\ former'[k] = former[k]
      BY <1>7, <2>3 DEF Restart, TypeOK
    <3> QED BY <2>1, <3>1, HonestFrame
  <2> QED BY <2>2, <2>3
<1>8. ASSUME NEW m \in Nodes, NEW n \in Nodes, NEW msg,
             \/ IgnoreDeleted(m, n, msg) \/ IgnoreNotNewer(m, n, msg)
             \/ ReceiveState(m, n, msg) \/ Lose(m, n, msg)
      PROVE  UNCHANGED <<up, former, disk, wake>>
  BY <1>8 DEF IgnoreDeleted, IgnoreNotNewer, ReceiveState, Lose
<1>9. ASSUME NEW m \in Nodes, NEW n \in Nodes, NEW msg, ReceiveRemove(m, n, msg)
      PROVE  Honest(k)'
  <2>1. msg.path \in Paths
    BY <1>9, ReceivingType, Verbs DEF ReceiveRemove, RemoveMessage
  <2> QED BY <1>9, <2>1, HonestErase DEF ReceiveRemove
<1>10. ASSUME NEW m \in Nodes, NEW n \in Nodes, NEW msg, ReceiveDigest(m, n, msg)
       PROVE  Honest(k)'
  <2> DEFINE gone == {p \in adoptable(msg.deleted, former[n], tombstones[n], clock) :
                        former[n][p] # None}
  <2>1. gone \in SUBSET Paths
    BY DEF adoptable
  <2>2. /\ Erase(n, gone)
        /\ up' = up
        /\ former' = [former EXCEPT ![n] =
                        [p \in Paths |-> IF p \in gone THEN None ELSE former[n][p]]]
    BY <1>10 DEF ReceiveDigest
  <2> HIDE DEF gone
  <2> QED BY <2>1, <2>2, HonestErase
<1>11. ASSUME NEW m \in Nodes, NEW n \in Nodes, NEW msg, ApplyCreate(m, n, msg)
       PROVE  Honest(k)'
  BY <1>11, HonestApply
<1>12. CASE Tick
  BY <1>1, <1>12 DEF Tick
<1>13. \A n \in Nodes : ~ ShortScan(n)
  BY NoShortStep
<1> QED
  BY <1>1, <1>2, <1>3, <1>4, <1>5, <1>6, <1>7, <1>8, <1>9, <1>10, <1>11, <1>12,
     <1>13, StepCases

(***************************************************************************)
(* As long as every traversal sees the whole tree, the listing a node      *)
(* hashes and repairs from is the tree it has, or an inotify event is      *)
(* queued that will bring it up: the places where sync_loop touches a file *)
(* without raising an event (stamp_and_remember, for a transfer and for an *)
(* announcement of what is already held) all keep the listing themselves.  *)
(***************************************************************************)
THEOREM ListingIsHonest ==
    ASSUME Budget["short"] = 0
    PROVE  Spec => []ListingHonest
<1> DEFINE Inv == TypeOK /\ NoShort /\ \A n \in Nodes : Honest(n)
<1>1. Init => Inv
  BY InitType DEF Init, Started, NoShort, Honest
<1>2. Inv /\ [Next]_vars => Inv'
  BY StepType, NoShortStep, HonestStep
<1>3. Inv => ListingHonest
  BY DEF Honest, ListingHonest
<1> QED BY <1>1, <1>2, <1>3, PTL DEF Spec

-----------------------------------------------------------------------------
(***************************************************************************)
(* No invented deletion.  NoInventedDeletion is about what a traversal may *)
(* do; what makes it true is what holds before one:                        *)
(*  - DeletionsPast: no record of a deletion, kept or on its way, is of a  *)
(*    moment still to come;                                                *)
(*  - VanishedIsMarked: a listed file that is gone, and that no user       *)
(*    deleted here, has a tombstone, and its node has nothing to do before *)
(*    the traversal that finds it gone: it is at the start of an iteration *)
(*    with an event queued, so no create can cancel that tombstone first.  *)
(***************************************************************************)
\* The messages that speak of no deletion later than c.
Timely(c) ==
    {msg \in Message :
        /\ msg.verb = "remove" => msg.deleted <= c
        /\ msg.verb = "digest" => \A p \in Paths : msg.deleted[p] <= c}

DeletionsPast ==
    /\ \A n \in Nodes, p \in Paths : tombstones[n][p] <= clock
    /\ net \in Wire(Timely(clock))

Vanished(n, p) ==
    up[n] /\ former[n][p] # None /\ disk[n][p] = Absent /\ p \notin unlinked[n]

VanishedIsMarked ==
    \A n \in Nodes, p \in Paths :
        Vanished(n, p) => pc[n] = "scan" /\ wake[n] /\ tombstones[n][p] # None

LEMMA TimelyGrows ==
    ASSUME NEW c \in Time, NEW d \in Time, c <= d
    PROVE  /\ Timely(c) \subseteq Timely(d)
           /\ Wire(Timely(c)) \subseteq Wire(Timely(d))
<1>1. Timely(c) \subseteq Timely(d)
  <2> SUFFICES ASSUME NEW msg \in Timely(c) PROVE msg \in Timely(d)
    OBVIOUS
  <2>1. msg \in Message
    BY DEF Timely
  <2>2. CASE msg.verb = "remove"
    BY <2>1, <2>2, Verbs DEF Timely, RemoveMessage, Time
  <2>3. CASE msg.verb = "digest"
    <3>1. \A p \in Paths : msg.deleted[p] \in Int
      BY <2>1, <2>3, Verbs DEF DigestMessage, TimeMap, MaybeTime, Time, None
    <3> QED BY <2>1, <2>3, <3>1 DEF Timely, Time
  <2> QED BY <2>1, <2>2, <2>3 DEF Timely
<1>2. \A q : q \in Seq(SUBSET Timely(c)) => q \in Seq(SUBSET Timely(d))
  BY <1>1
<1> QED BY <1>1, <1>2 DEF Wire

LEMMA ClockGrows ==
    ASSUME TypeOK, [Next]_vars
    PROVE  clock' \in Time /\ clock <= clock'
<1>1. clock \in Time /\ clock' \in Time
  BY StepType DEF TypeOK
<1>2. CASE UNCHANGED clock
  BY <1>1, <1>2 DEF Time
<1>3. CASE UNCHANGED vars
  BY <1>2, <1>3 DEF vars
<1>4. ASSUME NEW n \in Nodes, NEW p \in Paths,
             \/ UserWrite(n, p) \/ UserDelete(n, p) \/ UserRestore(n, p)
             \/ Land(n, p)
      PROVE  clock <= clock'
  <2>1. clock' \in {clock, clock + 1}
    BY <1>4 DEF UserWrite, UserDelete, UserRestore, Land
  <2> QED BY <1>1, <2>1 DEF Time
<1>5. ASSUME NEW n \in Nodes, Scan(n) \/ ShortScan(n)
      PROVE  clock <= clock'
  <2>1. clock' \in {clock, clock + 2}
    <3>1. PICK missed : Traverse(n, missed)
      BY <1>5 DEF Scan, ShortScan
    <3> QED BY <3>1 DEF Traverse
  <2> QED BY <1>1, <2>1 DEF Time
<1>6. ASSUME NEW n \in Nodes,
             \/ NothingToScan(n) \/ Round(n) \/ Repair(n) \/ ReceiveNothing(n)
             \/ Crash(n) \/ Restart(n)
      PROVE  UNCHANGED clock
  BY <1>6 DEF NothingToScan, Round, Repair, ReceiveNothing, Crash, Restart
<1>7. ASSUME NEW m \in Nodes, NEW n \in Nodes, NEW msg,
             \/ IgnoreDeleted(m, n, msg) \/ IgnoreNotNewer(m, n, msg)
             \/ ApplyCreate(m, n, msg) \/ ReceiveRemove(m, n, msg)
             \/ ReceiveState(m, n, msg) \/ ReceiveDigest(m, n, msg)
             \/ Lose(m, n, msg)
      PROVE  UNCHANGED clock
  BY <1>7 DEF IgnoreDeleted, IgnoreNotNewer, ApplyCreate, ReceiveRemove,
              ReceiveState, ReceiveDigest, Lose
<1>8. CASE Tick
  BY <1>1, <1>8 DEF Tick, Time
<1> QED BY <1>1, <1>2, <1>3, <1>4, <1>5, <1>6, <1>7, <1>8, StepCases

(***************************************************************************)
(* Where the tombstones of a step come from: a deletion noticed by a       *)
(* traversal, or one that was known or heard of before.                    *)
(***************************************************************************)
LEMMA TraverseMarks ==
    ASSUME TypeOK, DeletionsPast, NEW n \in Nodes, NEW missed, Traverse(n, missed),
           NEW k \in Nodes, NEW p \in Paths, tombstones'[k][p] > clock
    PROVE  /\ k = n
           /\ p \in Found(n, missed).removed
           /\ tombstones'[k][p] <= clock'
<1> DEFINE found == Found(n, missed)
<1>1. /\ tombstones' = [tombstones EXCEPT ![n] = expire(found.tombstones, clock')]
      /\ clock' = IF found.removed = {} THEN clock ELSE clock + 2
  BY DEF Traverse, Found, Seen
<1>2. clock \in Nat /\ tombstones[k][p] \in Int /\ tombstones[k][p] <= clock
  BY DEF TypeOK, DeletionsPast, TimeMap, MaybeTime, Time, None
<1>3. k = n
  BY <1>1, <1>2 DEF TypeOK
<1>4. /\ found.tombstones \in TimeMap
      /\ found.tombstones[p] # tombstones[n][p] =>
            \/ p \in found.removed /\ found.tombstones[p] = clock + 1
            \/ p \in found.put /\ found.tombstones[p] = None
  BY TraverseFinds
<1>5. clock' \in Time
  BY TraversePublishes
<1> HIDE DEF found
<1>6. expire(found.tombstones, clock')[p] \in {found.tombstones[p], None}
  BY <1>4, <1>5, ExpireType
<1>7. tombstones'[n][p] = found.tombstones[p]
  BY <1>1, <1>2, <1>3, <1>6 DEF TypeOK, None
<1>8. p \in found.removed /\ found.tombstones[p] = clock + 1
  BY <1>2, <1>3, <1>4, <1>7 DEF None
<1>9. clock' = clock + 2
  BY <1>1, <1>8
<1> QED BY <1>2, <1>3, <1>7, <1>8, <1>9 DEF found

LEMMA ReceivedTimely ==
    ASSUME TypeOK, DeletionsPast, NEW m \in Nodes, NEW n \in Nodes, NEW msg,
           Arrived(m, n, msg), Consume(m, n, msg)
    PROVE  msg \in Timely(clock) /\ net' \in Wire(Timely(clock))
BY ConsumeKeeps DEF DeletionsPast

LEMMA OthersMarkPast ==
    ASSUME TypeOK, DeletionsPast, Next, \A n \in Nodes : ~ Scan(n) /\ ~ ShortScan(n),
           NEW k \in Nodes, NEW p \in Paths
    PROVE  tombstones'[k][p] <= clock
<1>1. \A i \in Nodes, q \in Paths : /\ tombstones[i][q] \in Int
                                    /\ tombstones[i][q] <= clock
  BY DEF TypeOK, DeletionsPast, TimeMap, MaybeTime, Time, None
<1>2. clock \in Nat /\ None <= clock
  BY DEF TypeOK, Time, None
<1>3. CASE UNCHANGED tombstones
  BY <1>1, <1>3
<1>4. ASSUME NEW n \in Nodes, NEW q \in Paths,
             \/ UserWrite(n, q) \/ UserDelete(n, q) \/ UserRestore(n, q)
             \/ Land(n, q)
      PROVE  UNCHANGED tombstones
  BY <1>4 DEF UserWrite, UserDelete, UserRestore, Land
<1>5. ASSUME NEW n \in Nodes,
             \/ NothingToScan(n) \/ Round(n) \/ Repair(n)
             \/ ReceiveNothing(n) \/ Restart(n)
      PROVE  UNCHANGED tombstones
  BY <1>5 DEF NothingToScan, Round, Repair, ReceiveNothing, Restart
<1>6. ASSUME NEW n \in Nodes, Crash(n)
      PROVE  tombstones'[k][p] <= clock
  BY <1>1, <1>2, <1>6 DEF Crash, TypeOK, EmptyMap
<1>7. ASSUME NEW m \in Nodes, NEW n \in Nodes, NEW msg,
             \/ IgnoreDeleted(m, n, msg) \/ ReceiveState(m, n, msg)
             \/ Lose(m, n, msg)
      PROVE  UNCHANGED tombstones
  BY <1>7 DEF IgnoreDeleted, ReceiveState, Lose
<1>8. ASSUME NEW m \in Nodes, NEW n \in Nodes, NEW msg,
             IgnoreNotNewer(m, n, msg) \/ ApplyCreate(m, n, msg)
      PROVE  tombstones'[k][p] <= clock
  <2>1. tombstones' = [tombstones EXCEPT ![n][msg.path] = None]
    BY <1>8 DEF IgnoreNotNewer, ApplyCreate
  <2> QED BY <1>1, <1>2, <2>1 DEF TypeOK, TimeMap
<1>9. ASSUME NEW m \in Nodes, NEW n \in Nodes, NEW msg, ReceiveRemove(m, n, msg)
      PROVE  tombstones'[k][p] <= clock
  <2>1. msg \in RemoveMessage /\ msg.deleted <= clock
    BY <1>9, ReceivedTimely, ReceivingType, Verbs DEF ReceiveRemove, Receiving, Timely
  <2>2. tombstones' = [tombstones EXCEPT ![n] = mark(tombstones[n], msg.path, msg.deleted)]
    BY <1>9 DEF ReceiveRemove
  <2>3. mark(tombstones[n], msg.path, msg.deleted)[p] <= clock
    BY <1>1, <2>1 DEF mark, TypeOK, TimeMap
  <2> QED BY <1>1, <2>2, <2>3 DEF TypeOK
<1>10. ASSUME NEW m \in Nodes, NEW n \in Nodes, NEW msg, ReceiveDigest(m, n, msg)
       PROVE  tombstones'[k][p] <= clock
  <2>1. msg.deleted[p] <= clock
    BY <1>10, ReceivedTimely DEF ReceiveDigest, Receiving, Timely
  <2> DEFINE adopted == adoptable(msg.deleted, former[n], tombstones[n], clock)
  <2>2. tombstones' = [tombstones EXCEPT ![n] =
            [q \in Paths |-> IF q \in adopted THEN msg.deleted[q] ELSE tombstones[n][q]]]
    BY <1>10 DEF ReceiveDigest
  <2> HIDE DEF adopted
  <2> QED BY <1>1, <2>1, <2>2 DEF TypeOK
<1>11. CASE Tick
  BY <1>3, <1>11 DEF Tick
<1> QED
  BY <1>3, <1>4, <1>5, <1>6, <1>7, <1>8, <1>9, <1>10, <1>11, StepCases

LEMMA WireTimely ==
    ASSUME TypeOK, DeletionsPast, Next
    PROVE  net' \in Wire(Timely(clock'))
<1>1. clock \in Time /\ clock' \in Time /\ clock <= clock'
  BY ClockGrows DEF TypeOK
<1>2. /\ Timely(clock) \subseteq Timely(clock')
      /\ Wire(Timely(clock)) \subseteq Wire(Timely(clock'))
  BY <1>1, TimelyGrows
<1>3. net \in Wire(Timely(clock'))
  BY <1>2 DEF DeletionsPast
<1>4. CASE UNCHANGED net
  BY <1>3, <1>4
<1>5. ASSUME NEW n \in Nodes, NEW p \in Paths,
             \/ UserWrite(n, p) \/ UserDelete(n, p) \/ UserRestore(n, p)
             \/ Land(n, p)
      PROVE  UNCHANGED net
  BY <1>5 DEF UserWrite, UserDelete, UserRestore, Land
<1>6. ASSUME NEW n \in Nodes, NothingToScan(n) \/ ReceiveNothing(n) \/ Restart(n)
      PROVE  UNCHANGED net
  BY <1>6 DEF NothingToScan, ReceiveNothing, Restart
<1>7. CreateMessage \subseteq Timely(clock') /\ StateMessage \subseteq Timely(clock')
  BY DEF CreateMessage, StateMessage, Timely, Message
<1>8. ASSUME NEW n \in Nodes, Scan(n) \/ ShortScan(n)
      PROVE  net' \in Wire(Timely(clock'))
  <2>1. PICK missed : Traverse(n, missed)
    BY <1>8 DEF Scan, ShortScan
  <2>2. PICK burst \in SUBSET (CreateMessage \cup
                               {msg \in RemoveMessage : msg.deleted = clock'}) :
            Publish(n, [k \in Nodes |-> burst])
    BY <2>1, TraversePublishes
  <2>3. {msg \in RemoveMessage : msg.deleted = clock'} \subseteq Timely(clock')
    BY <1>1 DEF RemoveMessage, Timely, Message, Time
  <2>4. burst \in SUBSET Timely(clock')
    BY <1>7, <2>3
  <2> QED BY <1>3, <2>2, <2>4, PublishKeeps
<1>9. ASSUME NEW n \in Nodes, Round(n)
      PROVE  net' \in Wire(Timely(clock'))
  <2>1. PICK bursts : /\ Publish(n, bursts)
                      /\ \A k \in Nodes : bursts[k] \in SUBSET
                            (StateMessage \cup {digest(former[n], tombstones[n])})
    BY <1>9, RoundPublishes
  <2>2. digest(former[n], tombstones[n]) \in Timely(clock)
    <3>1. digest(former[n], tombstones[n]) \in DigestMessage
      BY MessageTypes DEF TypeOK
    <3> QED BY <3>1 DEF DeletionsPast, Timely, digest, Message
  <2>3. \A k \in Nodes : bursts[k] \in SUBSET Timely(clock')
    BY <1>2, <1>7, <2>1, <2>2
  <2> QED BY <1>3, <2>1, <2>3, PublishKeeps
<1>10. ASSUME NEW n \in Nodes, Repair(n)
       PROVE  net' \in Wire(Timely(clock'))
  <2>1. PICK burst \in SUBSET CreateMessage : Publish(n, [k \in Nodes |-> burst])
    BY <1>10, RepairPublishes
  <2>2. burst \in SUBSET Timely(clock')
    BY <1>7
  <2> QED BY <1>3, <2>1, <2>2, PublishKeeps
<1>11. ASSUME NEW m \in Nodes, NEW n \in Nodes, NEW msg,
              \/ IgnoreDeleted(m, n, msg) \/ IgnoreNotNewer(m, n, msg)
              \/ ApplyCreate(m, n, msg) \/ ReceiveRemove(m, n, msg)
              \/ ReceiveState(m, n, msg) \/ ReceiveDigest(m, n, msg)
              \/ Lose(m, n, msg)
       PROVE  net' \in Wire(Timely(clock'))
  <2>1. Arrived(m, n, msg) /\ Consume(m, n, msg)
    BY <1>11 DEF IgnoreDeleted, IgnoreNotNewer, ApplyCreate, ReceiveRemove,
                 ReceiveState, ReceiveDigest, Lose, Receiving
  <2> QED BY <1>2, <2>1, ReceivedTimely
<1>12. ASSUME NEW n \in Nodes, Crash(n)
       PROVE  net' \in Wire(Timely(clock'))
  BY <1>3, <1>12 DEF Crash, Wire
<1>13. CASE Tick
  BY <1>4, <1>13 DEF Tick
<1> QED
  BY <1>4, <1>5, <1>6, <1>8, <1>9, <1>10, <1>11, <1>12, <1>13, StepCases

LEMMA DeletionsPastStep ==
    ASSUME TypeOK, DeletionsPast, [Next]_vars
    PROVE  DeletionsPast'
<1>1. CASE UNCHANGED vars
  BY <1>1 DEF DeletionsPast, vars, Wire, Timely
<1>2. CASE Next
  <2>1. \A k \in Nodes, p \in Paths :
            /\ tombstones'[k][p] \in Int
            /\ clock \in Nat
            /\ clock' \in Nat
            /\ clock <= clock'
    <3>1. TypeOK'
      BY <1>2, StepType
    <3>2. clock <= clock'
      BY <1>2, ClockGrows
    <3> QED BY <3>1, <3>2 DEF TypeOK, TimeMap, MaybeTime, Time, None
  <2>2. ASSUME NEW k \in Nodes, NEW p \in Paths
        PROVE  tombstones'[k][p] <= clock'
    <3>1. CASE tombstones'[k][p] <= clock
      BY <2>1, <3>1
    <3>2. CASE tombstones'[k][p] > clock
      <4>1. PICK n \in Nodes : Scan(n) \/ ShortScan(n)
        BY <1>2, <2>1, <3>2, OthersMarkPast
      <4>2. PICK missed : Traverse(n, missed)
        BY <4>1 DEF Scan, ShortScan
      <4> QED BY <3>2, <4>2, TraverseMarks
    <3> QED BY <2>1, <3>1, <3>2
  <2> QED BY <1>2, <2>2, WireTimely DEF DeletionsPast
<1> QED BY <1>1, <1>2

\* Whether VanishedIsMarked holds of one path of one node.
Marked(n, p) ==
    Vanished(n, p) => pc[n] = "scan" /\ wake[n] /\ tombstones[n][p] # None

\* A step that only another node takes, or that touches nothing of this.
LEMMA MarkedFrame ==
    ASSUME NEW k \in Nodes, NEW p \in Paths, Marked(k, p),
           up'[k] = up[k], former'[k] = former[k], disk'[k] = disk[k],
           unlinked'[k] = unlinked[k], pc'[k] = pc[k], wake'[k] = wake[k],
           tombstones'[k] = tombstones[k]
    PROVE  Marked(k, p)'
BY DEF Marked, Vanished

LEMMA MarkedUser ==
    ASSUME TypeOK, NEW n \in Nodes, NEW p \in Paths, NEW k \in Nodes, NEW q \in Paths,
           Marked(k, q), UserWrite(n, p) \/ UserDelete(n, p) \/ UserRestore(n, p)
    PROVE  Marked(k, q)'
<1>1. /\ UNCHANGED <<up, former, pc, tombstones>>
      /\ wake' = [wake EXCEPT ![n] = up[n]]
  BY DEF UserWrite, UserDelete, UserRestore
<1>2. CASE k # n
  <2>1. disk'[k] = disk[k] /\ unlinked'[k] = unlinked[k] /\ wake'[k] = wake[k]
    BY <1>1, <1>2 DEF UserWrite, UserDelete, UserRestore, TypeOK
  <2> QED BY <1>1, <2>1, MarkedFrame
<1>3. CASE k = n /\ q # p
  <2>1. /\ disk'[n][q] = disk[n][q]
        /\ q \in unlinked[n] => q \in unlinked'[n]
        /\ up[n] => wake'[n]
    BY <1>1, <1>3 DEF UserWrite, UserDelete, UserRestore, TypeOK
  <2> QED BY <1>1, <1>3, <2>1 DEF Marked, Vanished
<1>4. CASE k = n /\ q = p
  <2>1. CASE UserDelete(n, p)
    <3>1. up[n] => p \in unlinked'[n]
      BY <2>1 DEF UserDelete, TypeOK
    <3> QED BY <1>1, <1>4, <3>1 DEF Marked, Vanished
  <2>2. CASE UserWrite(n, p) \/ UserRestore(n, p)
    <3>1. TypeOK'
      BY <2>2, UserWriteType, UserRestoreType
    <3>2. disk'[n][p].content \in Nat
      <4>1. CASE UserWrite(n, p)
        BY <3>1, <4>1 DEF UserWrite, TypeOK, Events
      <4>2. CASE UserRestore(n, p)
        BY <4>2, SwarmAssumption DEF UserRestore, TypeOK, Seed, Events
      <4> QED BY <2>2, <4>1, <4>2
    <3>3. disk'[n][p] # Absent
      BY <3>2 DEF Absent, None
    <3> QED BY <1>4, <3>3 DEF Marked, Vanished
  <2> QED BY <2>1, <2>2
<1> QED BY <1>2, <1>3, <1>4

LEMMA MarkedLand ==
    ASSUME TypeOK, NEW n \in Nodes, NEW p \in Paths, NEW k \in Nodes, NEW q \in Paths,
           Marked(k, q), Land(n, p)
    PROVE  Marked(k, q)'
<1>1. UNCHANGED <<up, pc, tombstones>>
  BY DEF Land
<1>2. CASE k # n
  <2>1. /\ disk'[k] = disk[k] /\ unlinked'[k] = unlinked[k]
        /\ wake'[k] = wake[k] /\ former'[k] = former[k]
    BY <1>2 DEF Land, Remember, TypeOK
  <2> QED BY <1>1, <2>1, MarkedFrame
<1>3. CASE k = n /\ q # p
  <2>1. /\ disk'[n][q] = disk[n][q]
        /\ former'[n][q] = former[n][q]
        /\ q \in unlinked[n] => q \in unlinked'[n]
    BY <1>3 DEF Land, Remember, TypeOK, TimeMap
  <2>2. wake[n] => wake'[n]
    BY DEF Land, TypeOK
  <2> QED BY <1>1, <1>3, <2>1, <2>2 DEF Marked, Vanished
<1>4. CASE k = n /\ q = p
  <2>1. torrent[n][p] \in Torrent
    <3>1. torrent[n][p] # NoTorrent
      BY DEF Land, CanLand
    <3> QED BY <3>1 DEF TypeOK
  <2>2. disk'[n][p].content = torrent[n][p].content
    BY DEF Land, TypeOK
  <2>3. disk'[n][p] # Absent
    BY <2>1, <2>2 DEF Torrent, Content, Absent, None
  <2> QED BY <1>4, <2>3 DEF Marked, Vanished
<1> QED BY <1>2, <1>3, <1>4

\* A node that receives is past its traversal: nothing has vanished there.
LEMMA NothingVanished ==
    ASSUME TypeOK, VanishedIsMarked, NEW n \in Nodes, pc[n] # "scan" \/ ~ wake[n],
           NEW q \in Paths
    PROVE  ~ Vanished(n, q)
BY DEF VanishedIsMarked

LEMMA MarkedReceive ==
    ASSUME TypeOK, VanishedIsMarked, NEW m \in Nodes, NEW n \in Nodes, NEW msg,
           Receiving(m, n, msg), NEW k \in Nodes, NEW q \in Paths,
           \/ IgnoreDeleted(m, n, msg) \/ IgnoreNotNewer(m, n, msg)
           \/ ApplyCreate(m, n, msg) \/ ReceiveRemove(m, n, msg)
           \/ ReceiveState(m, n, msg) \/ ReceiveDigest(m, n, msg)
    PROVE  Marked(k, q)'
<1>1. Marked(k, q)
  BY DEF VanishedIsMarked, Marked
<1>2. /\ up' = up
      /\ unlinked' = unlinked
      /\ pc' = [pc EXCEPT ![n] = "scan"]
      /\ pc[n] # "scan"
  BY DEF IgnoreDeleted, IgnoreNotNewer, ApplyCreate, ReceiveRemove, ReceiveState,
         ReceiveDigest, Receiving, MayReceive
<1>3. ~ Vanished(n, q)
  BY <1>2, NothingVanished
<1>4. pc'[n] = "scan" /\ (k # n => pc'[k] = pc[k])
  BY <1>2 DEF TypeOK
<1>5. CASE IgnoreDeleted(m, n, msg) \/ IgnoreNotNewer(m, n, msg) \/ ReceiveState(m, n, msg)
  <2>1. UNCHANGED <<former, disk, wake>>
    BY <1>5 DEF IgnoreDeleted, IgnoreNotNewer, ReceiveState
  <2>2. CASE k = n
    BY <1>2, <1>3, <2>1, <2>2 DEF Marked, Vanished
  <2>3. CASE k # n
    <3>1. tombstones'[k] = tombstones[k]
      BY <1>5, <2>3 DEF IgnoreDeleted, IgnoreNotNewer, ReceiveState, TypeOK
    <3> QED BY <1>1, <1>2, <1>4, <2>1, <2>3, <3>1, MarkedFrame
  <2> QED BY <2>2, <2>3
<1>6. CASE ApplyCreate(m, n, msg)
  <2> DEFINE p     == msg.path
             stamp == torrent[n][p].content = msg.content /\ disk[n][p] # Absent
  <2>1. p \in Paths
    BY <1>6, ReceivingType, Verbs DEF ApplyCreate, CreateMessage
  <2>2. /\ wake' = wake
        /\ tombstones' = [tombstones EXCEPT ![n][p] = None]
        /\ disk' = [disk EXCEPT ![n][p].time = IF stamp THEN msg.origin ELSE @]
        /\ former' = IF stamp THEN [former EXCEPT ![n][p] = msg.origin] ELSE former
    BY <1>6 DEF ApplyCreate, Remember
  <2>3. stamp => disk[n][p] \in File
    BY <2>1 DEF TypeOK
  <2> HIDE DEF p, stamp
  <2>4. CASE k # n
    <3>1. disk'[k] = disk[k] /\ former'[k] = former[k] /\ tombstones'[k] = tombstones[k]
      BY <2>2, <2>4 DEF TypeOK
    <3> QED BY <1>1, <1>2, <1>4, <2>2, <2>4, <3>1, MarkedFrame
  <2>5. CASE k = n /\ (q # p \/ ~ stamp)
    <3>1. former'[n][q] = former[n][q]
      BY <2>2, <2>5 DEF TypeOK, TimeMap
    <3>2. disk'[n][q] = disk[n][q]
      <4>1. CASE q # p
        BY <2>2, <4>1 DEF TypeOK
      <4>2. CASE q = p /\ ~ stamp
        <5>1. disk'[n][p] = [disk[n][p] EXCEPT !.time = disk[n][p].time]
          BY <2>1, <2>2, <4>2 DEF TypeOK
        <5>2. disk[n][p] \in File \cup {Absent}
          BY <2>1 DEF TypeOK
        <5> QED BY <4>2, <5>1, <5>2 DEF File, Absent
      <4> QED BY <2>5, <4>1, <4>2
    <3> QED BY <1>2, <1>3, <2>5, <3>1, <3>2 DEF Marked, Vanished
  <2>6. CASE k = n /\ q = p /\ stamp
    <3>1. disk'[n][p].content = disk[n][p].content
      BY <2>1, <2>2, <2>3, <2>6 DEF TypeOK, File
    <3>2. disk'[n][p] # Absent
      BY <2>3, <2>6, <3>1 DEF File, Content, Absent, None
    <3> QED BY <2>6, <3>2 DEF Marked, Vanished
  <2> QED BY <2>4, <2>5, <2>6
<1>7. CASE ReceiveRemove(m, n, msg)
  <2>1. msg.path \in Paths /\ msg.deleted \in Time
    BY <1>7, ReceivingType, Verbs DEF ReceiveRemove, RemoveMessage
  <2>2. /\ former' = former
        /\ tombstones' = [tombstones EXCEPT ![n] =
                            mark(tombstones[n], msg.path, msg.deleted)]
        /\ disk' = [disk EXCEPT ![n] =
                [p \in Paths |-> IF p \in {msg.path} THEN Absent ELSE disk[n][p]]]
        /\ wake' = [wake EXCEPT ![n] =
                wake[n] \/ \E p \in {msg.path} : disk[n][p] # Absent]
    BY <1>7 DEF ReceiveRemove, Erase
  <2>3. CASE k # n
    <3>1. disk'[k] = disk[k] /\ wake'[k] = wake[k] /\ tombstones'[k] = tombstones[k]
      BY <2>2, <2>3 DEF TypeOK
    <3> QED BY <1>1, <1>2, <1>4, <2>2, <2>3, <3>1, MarkedFrame
  <2>4. CASE k = n /\ disk'[n][q] = disk[n][q]
    BY <1>2, <1>3, <2>2, <2>4 DEF Marked, Vanished
  <2>5. CASE k = n /\ disk'[n][q] # disk[n][q]
    <3>1. q = msg.path /\ disk[n][q] # Absent
      BY <2>2, <2>5 DEF TypeOK
    <3>2. wake'[n]
      BY <2>2, <3>1 DEF TypeOK
    <3>3. mark(tombstones[n], msg.path, msg.deleted)[msg.path] # None
      BY <2>1, MarkType DEF TypeOK
    <3>4. tombstones'[n][q] # None
      BY <2>2, <3>1, <3>3 DEF TypeOK
    <3> QED BY <1>4, <2>5, <3>2, <3>4 DEF Marked
  <2> QED BY <2>3, <2>4, <2>5
<1>8. CASE ReceiveDigest(m, n, msg)
  <2> DEFINE gone == {p \in adoptable(msg.deleted, former[n], tombstones[n], clock) :
                        former[n][p] # None}
  <2>1. /\ former' = [former EXCEPT ![n] =
                [p \in Paths |-> IF p \in gone THEN None ELSE former[n][p]]]
        /\ disk' = [disk EXCEPT ![n] =
                [p \in Paths |-> IF p \in gone THEN Absent ELSE disk[n][p]]]
    BY <1>8 DEF ReceiveDigest, Erase
  <2> HIDE DEF gone
  <2>2. CASE k # n
    <3>1. /\ disk'[k] = disk[k] /\ former'[k] = former[k]
      BY <2>1, <2>2 DEF TypeOK
    <3>2. wake'[k] = wake[k] /\ tombstones'[k] = tombstones[k]
      BY <1>8, <2>2 DEF ReceiveDigest, Erase, TypeOK
    <3> QED BY <1>1, <1>2, <1>4, <2>2, <3>1, <3>2, MarkedFrame
  <2>3. CASE k = n /\ q \in gone
    <3>1. former'[n][q] = None
      BY <2>1, <2>3 DEF TypeOK
    <3> QED BY <2>3, <3>1 DEF Marked, Vanished
  <2>4. CASE k = n /\ q \notin gone
    <3>1. former'[n][q] = former[n][q] /\ disk'[n][q] = disk[n][q]
      BY <2>1, <2>4 DEF TypeOK
    <3> QED BY <1>2, <1>3, <2>4, <3>1 DEF Marked, Vanished
  <2> QED BY <2>2, <2>3, <2>4
<1> QED BY <1>5, <1>6, <1>7, <1>8

\* A listing names no file that is not there.
LEMMA ListingNoneVanish ==
    ASSUME NEW k \in Nodes, NEW q \in Paths, former'[k] = Listing(disk'[k])
    PROVE  Marked(k, q)'
BY DEF Marked, Vanished, Listing, Absent

LEMMA MarkedStep ==
    ASSUME TypeOK, NoShort, VanishedIsMarked, [Next]_vars,
           NEW k \in Nodes, NEW q \in Paths
    PROVE  Marked(k, q)'
<1>1. Marked(k, q)
  BY DEF VanishedIsMarked, Marked
<1>2. CASE UNCHANGED <<up, former, disk, unlinked, pc, wake, tombstones>>
  BY <1>1, <1>2, MarkedFrame
<1>3. CASE UNCHANGED vars
  BY <1>2, <1>3 DEF vars
<1>4. ASSUME NEW n \in Nodes, NEW p \in Paths,
             \/ UserWrite(n, p) \/ UserDelete(n, p) \/ UserRestore(n, p)
             \/ Land(n, p)
      PROVE  Marked(k, q)'
  BY <1>1, <1>4, MarkedUser, MarkedLand
<1>5. ASSUME NEW n \in Nodes, Scan(n)
      PROVE  Marked(k, q)'
  <2>1. /\ former' = [former EXCEPT ![n] = Listing(disk[n])]
        /\ disk' = disk
        /\ up' = up
    BY <1>5, ScanSees DEF Scan, Traverse
  <2>2. CASE k = n
    BY <2>1, <2>2, ListingNoneVanish DEF TypeOK
  <2>3. CASE k # n
    <3>1. /\ former'[k] = former[k] /\ unlinked'[k] = unlinked[k]
          /\ pc'[k] = pc[k] /\ wake'[k] = wake[k]
          /\ tombstones'[k] = tombstones[k]
      BY <1>5, <2>1, <2>3 DEF Scan, Traverse, TypeOK
    <3> QED BY <1>1, <2>1, <3>1, MarkedFrame
  <2> QED BY <2>2, <2>3
<1>6. ASSUME NEW n \in Nodes,
             \/ NothingToScan(n) \/ Round(n) \/ Repair(n) \/ ReceiveNothing(n)
      PROVE  Marked(k, q)'
  <2>1. /\ UNCHANGED <<up, former, disk, unlinked, wake, tombstones>>
        /\ pc[n] # "scan" \/ ~ wake[n]
    BY <1>6 DEF NothingToScan, Round, Repair, ReceiveNothing, MayReceive
  <2>2. k # n => pc'[k] = pc[k]
    BY <1>6 DEF NothingToScan, Round, Repair, ReceiveNothing, TypeOK
  <2>3. CASE k # n
    BY <1>1, <2>1, <2>2, <2>3, MarkedFrame
  <2>4. CASE k = n
    BY <2>1, <2>4, NothingVanished DEF Marked, Vanished
  <2> QED BY <2>3, <2>4
<1>7. ASSUME NEW n \in Nodes, Crash(n)
      PROVE  Marked(k, q)'
  <2>1. CASE k = n
    BY <1>7, <2>1 DEF Crash, Marked, Vanished, TypeOK
  <2>2. CASE k # n
    <3>1. /\ up'[k] = up[k] /\ former'[k] = former[k] /\ disk'[k] = disk[k]
          /\ unlinked'[k] = unlinked[k] /\ pc'[k] = pc[k]
          /\ wake'[k] = wake[k] /\ tombstones'[k] = tombstones[k]
      BY <1>7, <2>2 DEF Crash, TypeOK
    <3> QED BY <1>1, <3>1, MarkedFrame
  <2> QED BY <2>1, <2>2
<1>8. ASSUME NEW n \in Nodes, Restart(n)
      PROVE  Marked(k, q)'
  <2>1. CASE k = n
    BY <1>8, <2>1, ListingNoneVanish DEF Restart, TypeOK
  <2>2. CASE k # n
    <3>1. /\ up'[k] = up[k] /\ former'[k] = former[k]
          /\ UNCHANGED <<disk, unlinked, pc, wake, tombstones>>
      BY <1>8, <2>2 DEF Restart, TypeOK
    <3> QED BY <1>1, <3>1, MarkedFrame
  <2> QED BY <2>1, <2>2
<1>9. ASSUME NEW m \in Nodes, NEW n \in Nodes, NEW msg,
             \/ IgnoreDeleted(m, n, msg) \/ IgnoreNotNewer(m, n, msg)
             \/ ApplyCreate(m, n, msg) \/ ReceiveRemove(m, n, msg)
             \/ ReceiveState(m, n, msg) \/ ReceiveDigest(m, n, msg)
      PROVE  Marked(k, q)'
  <2>1. Receiving(m, n, msg)
    BY <1>9 DEF IgnoreDeleted, IgnoreNotNewer, ApplyCreate, ReceiveRemove,
                ReceiveState, ReceiveDigest
  <2> QED BY <1>9, <2>1, MarkedReceive
<1>10. ASSUME NEW m \in Nodes, NEW n \in Nodes, NEW msg, Lose(m, n, msg)
       PROVE  UNCHANGED <<up, former, disk, unlinked, pc, wake, tombstones>>
  BY <1>10 DEF Lose
<1>11. CASE Tick
  BY <1>2, <1>11 DEF Tick
<1>12. \A n \in Nodes : ~ ShortScan(n)
  BY NoShortStep
<1> QED
  BY <1>2, <1>3, <1>4, <1>5, <1>6, <1>7, <1>8, <1>9, <1>10, <1>11, <1>12, StepCases

(***************************************************************************)
(* As long as every traversal sees the whole tree, local_changes gives a   *)
(* path a new moment of deletion only where a user deleted the file under  *)
(* this very node since its last traversal.  What a peer had removed, what *)
(* a transfer replaces and what a digest killed never becomes a deletion   *)
(* of this node's own, in whatever order messages, events and transfers    *)
(* come, for any number of nodes and paths and any losses and restarts.    *)
(***************************************************************************)
THEOREM DeletionsAreNotInvented ==
    ASSUME Budget["short"] = 0
    PROVE  Spec => NoInventedDeletion
<1> DEFINE Inv    == TypeOK /\ NoShort /\ DeletionsPast /\ VanishedIsMarked
           Asked  == \A n \in Nodes, p \in Paths :
                        tombstones'[n][p] > clock => p \in unlinked[n]
<1>1. Init => Inv
  <2> SUFFICES ASSUME Init PROVE Inv
    OBVIOUS
  <2>1. TypeOK /\ NoShort
    BY InitType DEF Init, Started, NoShort
  <2>2. DeletionsPast
    <3>1. net \in Wire(Timely(clock))
      BY DEF Init, Started, Wire
    <3> QED BY <3>1 DEF Init, Started, DeletionsPast, EmptyMap, None
  <2>3. VanishedIsMarked
    BY DEF Init, Started, VanishedIsMarked, Vanished, Listing, Absent
  <2> QED BY <2>1, <2>2, <2>3
<1>2. Inv /\ [Next]_vars => Inv'
  <2> SUFFICES ASSUME Inv, [Next]_vars PROVE Inv'
    OBVIOUS
  <2>1. VanishedIsMarked'
    BY MarkedStep DEF VanishedIsMarked, Marked
  <2> QED BY <2>1, StepType, NoShortStep, DeletionsPastStep
<1>3. Inv /\ [Next]_vars => [Asked]_vars
  <2> SUFFICES ASSUME Inv, Next, NEW k \in Nodes, NEW p \in Paths,
                      tombstones'[k][p] > clock
               PROVE  p \in unlinked[k]
    OBVIOUS
  <2>1. \A n \in Nodes : ~ ShortScan(n)
    BY NoShortStep
  <2>2. tombstones'[k][p] \in Int /\ clock \in Int
    <3>1. TypeOK'
      BY StepType
    <3> QED BY <3>1 DEF TypeOK, TimeMap, MaybeTime, Time, None
  <2>3. PICK n \in Nodes : Scan(n)
    BY <2>1, <2>2, OthersMarkPast
  <2>4. k = n /\ p \in Found(n, {}).removed
    BY <2>3, TraverseMarks DEF Scan
  <2>5. former[n][p] # None /\ Seen(n, {})[p] = None /\ tombstones[n][p] = None
    BY <2>4, TraverseFinds
  <2>6. disk[n][p] = Absent
    BY <2>5 DEF Seen, TypeOK, File, Time, None
  <2>7. up[n]
    BY <2>3 DEF Scan, Traverse
  <2> QED BY <2>4, <2>5, <2>6, <2>7 DEF VanishedIsMarked, Vanished
<1>4. Spec => [][Asked]_vars
  BY <1>1, <1>2, <1>3, PTL DEF Spec
<1> QED BY <1>4 DEF NoInventedDeletion

=============================================================================
