-------------------------- MODULE SwarmHashProofs --------------------------
(***************************************************************************)
(* What the root hash does not cover.  It is taken over paths and times    *)
(* and stands for the contents only as long as a time tells one content    *)
(* from another.  Here that is proved for one edit anywhere among nodes    *)
(* that started out alike, with any number of nodes, paths, losses and     *)
(* ticks; further edits, deletions and crashes are known to break it.      *)
(***************************************************************************)
EXTENDS SwarmSafetyProofs

\* At most one edit, and no other change of the files by their users.
OneEdit ==
    /\ InitialHolders \in {{}, Nodes}
    /\ Coarse = FALSE
    /\ Budget["write"] = 1
    /\ \A e \in {"delete", "restore", "short", "crash"} : Budget[e] = 0

\* What every node starts with for a path, and what a listing says of it.
Start == IF InitialHolders = {} THEN Absent ELSE Seed
Base  == IF InitialHolders = {} THEN None ELSE 0

\* A time of the start, or of the edit or one of its copies.
Dated(time) == time = Base \/ time >= 1

\* The content of the one edit.
Edit == 0

\* The messages there are: a create is of the edit and dated after the start.
EditMessages ==
    {msg \in Graveless :
        /\ msg.verb = "create" => msg.content = Edit /\ msg.origin >= 1
        /\ msg.verb = "digest" => \A p \in Paths : Dated(msg.held[p])}

(***************************************************************************)
(* What a node knows of one path.  The last part says which file it may    *)
(* have: the one of the start, the edit, or, while the edit is on its way, *)
(* the file of the start under the time of the edit.  The others are what  *)
(* keeps that third file from being announced or taken for complete.       *)
(***************************************************************************)
Known(n, p) ==
    /\ Dated(former[n][p])
    /\ former[n][p] >= 1 => disk[n][p].time >= 1
    /\ p \in pending[n] => former[n][p] >= 1
    /\ origins[n][p] = None \/ origins[n][p] >= 1
    /\ \/ torrent[n][p] = NoTorrent
       \/ torrent[n][p].content = Edit /\ applied[n][p] # NotApplied
    /\ applied[n][p] = NotApplied \/ applied[n][p].content = Edit
    /\ torrent[n][p].complete => disk[n][p].content = Edit
    /\ \/ disk[n][p] = Start
       \/ disk[n][p].time >= 1 /\ disk[n][p].content = Edit
       \/ /\ disk[n][p].time >= 1
          /\ torrent[n][p] = [content |-> Edit, complete |-> FALSE]
          /\ former[n][p] = disk[n][p].time

Spared ==
    /\ \A e \in {"delete", "restore", "short", "crash"} : budget[e] = 0
    /\ budget["write"] <= 1

Steady ==
    /\ TypeOK /\ Unburied /\ Spared
    /\ net \in Wire(EditMessages)
    /\ \A n \in Nodes, p \in Paths : Known(n, p)

LEMMA StartFacts ==
    ASSUME OneEdit
    PROVE  /\ Start.time = Base
           /\ Base \in {None, 0}
           /\ Start.content # Edit
           /\ \A n \in Nodes, p \in Paths :
                (IF n \in InitialHolders THEN Seed ELSE Absent) = Start
BY DEF OneEdit, Start, Base, Seed, Absent, None, Edit

\* What is left to the users never becomes more.
Shrinks(e) == budget'[e] <= budget[e]

LEMMA BudgetShrinks ==
    ASSUME TypeOK, [Next]_vars, NEW e \in Events
    PROVE  Shrinks(e)
<1>0. \A d \in Events : budget[d] \in Nat
  BY DEF TypeOK
<1>1. ASSUME NEW d \in Events, Spend(d)
      PROVE  Shrinks(e)
  BY <1>0, <1>1 DEF Spend, TypeOK, Shrinks
<1>2. CASE UNCHANGED budget
  BY <1>0, <1>2 DEF Shrinks
<1>3. CASE UNCHANGED vars
  BY <1>2, <1>3 DEF vars
<1>4. ASSUME NEW n \in Nodes, NEW p \in Paths,
             \/ UserWrite(n, p) \/ UserDelete(n, p) \/ UserRestore(n, p)
             \/ Land(n, p)
      PROVE  Shrinks(e)
  BY <1>1, <1>2, <1>4 DEF UserWrite, UserDelete, UserRestore, Land, Events
<1>5. ASSUME NEW n \in Nodes,
             \/ Scan(n) \/ NothingToScan(n) \/ Round(n) \/ Repair(n)
             \/ ReceiveNothing(n) \/ Restart(n)
      PROVE  Shrinks(e)
  BY <1>2, <1>5 DEF Scan, NothingToScan, Round, Repair, ReceiveNothing, Restart
<1>6. ASSUME NEW n \in Nodes, ShortScan(n) \/ Crash(n)
      PROVE  Shrinks(e)
  BY <1>1, <1>6 DEF ShortScan, Crash, Events
<1>7. ASSUME NEW m \in Nodes, NEW n \in Nodes, NEW msg,
             \/ IgnoreDeleted(m, n, msg) \/ IgnoreNotNewer(m, n, msg)
             \/ ApplyCreate(m, n, msg) \/ ReceiveRemove(m, n, msg)
             \/ ReceiveState(m, n, msg) \/ ReceiveDigest(m, n, msg)
      PROVE  Shrinks(e)
  BY <1>2, <1>7 DEF IgnoreDeleted, IgnoreNotNewer, ApplyCreate, ReceiveRemove,
                    ReceiveState, ReceiveDigest
<1>8. ASSUME NEW m \in Nodes, NEW n \in Nodes, NEW msg, Lose(m, n, msg)
      PROVE  Shrinks(e)
  BY <1>1, <1>8 DEF Lose, Events
<1>9. CASE Tick
  BY <1>1, <1>9 DEF Tick, Events
<1> QED BY <1>3, <1>4, <1>5, <1>6, <1>7, <1>8, <1>9, StepCases

\* In a steady state the other events of the users do not happen.
LEMMA SparedStep ==
    ASSUME TypeOK, Spared, [Next]_vars
    PROVE  /\ Spared'
           /\ NoShort
           /\ \A n \in Nodes, p \in Paths : ~ UserDelete(n, p) /\ ~ UserRestore(n, p)
           /\ \A n \in Nodes : ~ ShortScan(n) /\ ~ Crash(n)
<1>1. \A e \in Events : budget[e] \in Nat /\ budget'[e] \in Nat
  BY StepType DEF TypeOK
<1>2. \A e \in Events : budget'[e] <= budget[e]
  BY BudgetShrinks DEF Shrinks
<1>3. Spared'
  BY <1>1, <1>2 DEF Spared, Events
<1>4. NoShort
  BY DEF Spared, NoShort
<1>5. \A n \in Nodes, p \in Paths : ~ UserDelete(n, p) /\ ~ UserRestore(n, p)
  BY DEF Spared, UserDelete, UserRestore, Spend
<1>6. \A n \in Nodes : ~ ShortScan(n) /\ ~ Crash(n)
  BY DEF Spared, ShortScan, Crash, Spend
<1> QED BY <1>3, <1>4, <1>5, <1>6

\* A step that leaves a node's knowledge of a path alone.
LEMMA KnownFrame ==
    ASSUME NEW n \in Nodes, NEW p \in Paths, Known(n, p),
           former'[n][p] = former[n][p], disk'[n][p] = disk[n][p],
           origins'[n][p] = origins[n][p], torrent'[n][p] = torrent[n][p],
           applied'[n][p] = applied[n][p],
           p \in pending'[n] => p \in pending[n] \/ former[n][p] >= 1
    PROVE  Known(n, p)'
BY DEF Known

LEMMA KnownWrite ==
    ASSUME OneEdit, Steady, NEW n \in Nodes, NEW p \in Paths, UserWrite(n, p),
           NEW k \in Nodes, NEW q \in Paths
    PROVE  Known(k, q)'
<1>1. Known(k, q) /\ TypeOK
  BY DEF Steady
<1>2. PICK t \in {clock + 1} :
        disk' = [disk EXCEPT ![n][p] = [content |-> budget'["write"], time |-> t]]
  BY DEF UserWrite, OneEdit
<1>3. t \in Nat /\ t >= 1
  BY <1>1, <1>2 DEF TypeOK, Time
<1>4. budget'["write"] = Edit
  <2>1. budget["write"] \in Nat /\ budget["write"] <= 1 /\ budget["write"] > 0
    BY <1>1 DEF Steady, Spared, UserWrite, Spend, TypeOK, Events
  <2>2. budget'["write"] = budget["write"] - 1
    BY <1>1 DEF UserWrite, Spend, TypeOK, Events
  <2> QED BY <2>1, <2>2 DEF Edit
<1>5. UNCHANGED <<former, origins, torrent, applied, pending>>
  BY DEF UserWrite, inbound, repairs
<1>6. CASE k = n /\ q = p
  <2>1. disk'[k][q] = [content |-> Edit, time |-> t]
    BY <1>1, <1>2, <1>4, <1>6 DEF TypeOK
  <2>2. disk'[k][q].content = Edit /\ disk'[k][q].time >= 1
    BY <1>3, <2>1
  <2> QED BY <1>1, <1>5, <2>2 DEF Known
<1>7. CASE ~ (k = n /\ q = p)
  <2>1. disk'[k][q] = disk[k][q]
    BY <1>1, <1>2, <1>7 DEF TypeOK
  <2> QED BY <1>1, <1>5, <2>1, KnownFrame
<1> QED BY <1>6, <1>7

LEMMA KnownLand ==
    ASSUME OneEdit, Steady, NEW n \in Nodes, NEW p \in Paths, Land(n, p),
           NEW k \in Nodes, NEW q \in Paths
    PROVE  Known(k, q)'
<1> DEFINE wanted  == torrent[n][p].content
           here    == disk[n][p].content = wanted
           moment  == IF here THEN disk[n][p].time ELSE clock + 1
           stamped == IF origins[n][p] # None THEN origins[n][p] ELSE moment
<1>1. TypeOK /\ Known(n, p) /\ Known(k, q)
  BY DEF Steady
<1>2. /\ torrent[n][p] # NoTorrent
      /\ torrent' = [torrent EXCEPT ![n][p].complete = TRUE]
      /\ disk' = [disk EXCEPT ![n][p] = [content |-> wanted, time |-> stamped]]
      /\ former' = [former EXCEPT ![n][p] = stamped]
      /\ origins' = [origins EXCEPT ![n][p] = None]
      /\ UNCHANGED <<applied, pending>>
  BY DEF Land, CanLand, Remember, repairs
<1>3. wanted = Edit /\ applied[n][p] # NotApplied
  BY <1>1, <1>2 DEF Known
<1>4. here => disk[n][p].time >= 1
  BY <1>1, <1>3, StartFacts DEF Known
<1>5. clock + 1 >= 1
  BY <1>1 DEF TypeOK, Time
<1>6. stamped >= 1
  BY <1>1, <1>4, <1>5 DEF Known
<1> HIDE DEF wanted, here, moment, stamped
<1>7. CASE k = n /\ q = p
  <2>1. disk'[k][q] = [content |-> wanted, time |-> stamped]
    BY <1>1, <1>2, <1>7 DEF TypeOK
  <2>2. former'[k][q] = stamped /\ origins'[k][q] = None
    BY <1>1, <1>2, <1>7 DEF TypeOK, TimeMap
  <2>3. torrent[n][p] \in Torrent
    BY <1>1, <1>2 DEF TypeOK
  <2>4. torrent'[k][q] = [torrent[n][p] EXCEPT !.complete = TRUE]
    BY <1>1, <1>2, <1>7 DEF TypeOK
  <2>5. torrent'[k][q].content = Edit
    BY <1>3, <2>3, <2>4 DEF wanted, Torrent
  <2>6. disk'[k][q].content = Edit /\ disk'[k][q].time >= 1
    BY <1>3, <1>6, <2>1
  <2> QED
    BY <1>1, <1>2, <1>3, <1>6, <1>7, <2>2, <2>5, <2>6 DEF Known, Dated
<1>8. CASE ~ (k = n /\ q = p)
  <2>1. /\ disk'[k][q] = disk[k][q] /\ former'[k][q] = former[k][q]
        /\ origins'[k][q] = origins[k][q] /\ torrent'[k][q] = torrent[k][q]
    BY <1>1, <1>2, <1>8 DEF TypeOK, TimeMap
  <2> QED BY <1>1, <1>2, <2>1, KnownFrame
<1> QED BY <1>7, <1>8

\* What arrives is about the edit.
LEMMA Heard ==
    ASSUME Steady, NEW m \in Nodes, NEW n \in Nodes, NEW msg,
           Arrived(m, n, msg), Consume(m, n, msg)
    PROVE  msg \in EditMessages /\ msg \in Message /\ net' \in Wire(EditMessages)
<1>1. msg \in EditMessages /\ net' \in Wire(EditMessages)
  BY ConsumeKeeps DEF Steady
<1> QED BY <1>1 DEF EditMessages, Graveless

\* The edit is announced: a file there is takes its time at once, and keeps
\* its content only while the torrent of the edit is not complete.
LEMMA KnownApply ==
    ASSUME OneEdit, Steady, NEW m \in Nodes, NEW n \in Nodes, NEW msg,
           ApplyCreate(m, n, msg), NEW k \in Nodes, NEW q \in Paths
    PROVE  Known(k, q)'
<1> DEFINE p     == msg.path
           held  == torrent[n][p].content = msg.content
           stamp == held /\ disk[n][p] # Absent
<1>0. TypeOK /\ Known(k, q)
  BY DEF Steady
<1>1. msg \in EditMessages /\ msg \in Message /\ msg.verb = "create"
  BY Heard DEF ApplyCreate, Receiving
<1>2. /\ p \in Paths
      /\ msg.content = Edit
      /\ msg.origin \in Nat
      /\ msg.origin >= 1
  BY <1>1, Verbs DEF EditMessages, CreateMessage, Time
<1>3. /\ torrent' = [torrent EXCEPT ![n][p] =
                IF held THEN @ ELSE [content |-> msg.content, complete |-> FALSE]]
      /\ disk' = [disk EXCEPT ![n][p].time = IF stamp THEN msg.origin ELSE @]
      /\ former' = IF stamp THEN [former EXCEPT ![n][p] = msg.origin] ELSE former
      /\ origins' = [origins EXCEPT ![n][p] = IF stamp THEN None ELSE msg.origin]
      /\ applied' = [applied EXCEPT ![n][p] =
                [origin |-> msg.origin, content |-> msg.content]]
      /\ pending' = [pending EXCEPT ![n] = @ \ {p}]
  BY DEF ApplyCreate, Remember
<1> HIDE DEF p, held, stamp
<1>4. CASE k = n /\ q = p
  <2>1. Known(n, p)
    BY <1>0, <1>4
  <2>2. /\ torrent'[n][p] = IF held THEN torrent[n][p]
                            ELSE [content |-> Edit, complete |-> FALSE]
        /\ former'[n][p] = IF stamp THEN msg.origin ELSE former[n][p]
        /\ origins'[n][p] = IF stamp THEN None ELSE msg.origin
        /\ p \notin pending'[n]
    BY <1>0, <1>2, <1>3 DEF TypeOK, TimeMap
  <2>3. applied'[n][p] = [origin |-> msg.origin, content |-> Edit]
    BY <1>0, <1>2, <1>3 DEF TypeOK
  <2>3a. applied'[n][p].content = Edit /\ applied'[n][p] # NotApplied
    BY <2>3 DEF NotApplied, Edit, None
  <2>4. /\ disk'[n][p].time = IF stamp THEN msg.origin ELSE disk[n][p].time
        /\ disk'[n][p].content = disk[n][p].content
        /\ ~ stamp => disk'[n][p] = disk[n][p]
    <3>1. disk[n][p] \in File \cup {Absent}
      BY <1>0, <1>2 DEF TypeOK
    <3>2. disk'[n][p] = [disk[n][p] EXCEPT !.time = IF stamp THEN msg.origin ELSE @]
      BY <1>0, <1>2, <1>3 DEF TypeOK
    <3> QED BY <3>1, <3>2 DEF File, Absent
  <2>5. torrent[n][p] = NoTorrent \/ torrent[n][p] \in Torrent
    BY <1>0, <1>2 DEF TypeOK
  <2>6. held <=> torrent[n][p] # NoTorrent
    BY <1>2, <2>1, <2>5 DEF held, p, Known, NoTorrent, Edit, None
  <2>7. ~ NoTorrent.complete
    BY DEF NoTorrent
  <2>8. CASE stamp
    <3>1. held /\ torrent'[n][p] = torrent[n][p]
      BY <2>2, <2>8 DEF stamp
    <3>2. torrent[n][p].content = Edit /\ torrent[n][p] \in Torrent
      BY <2>1, <2>5, <2>6, <3>1 DEF Known
    <3>3. ~ torrent[n][p].complete =>
            torrent[n][p] = [content |-> Edit, complete |-> FALSE]
      BY <3>2 DEF Torrent
    <3>4. former'[n][p] = msg.origin /\ disk'[n][p].time = msg.origin
      BY <2>2, <2>4, <2>8
    <3> QED
      BY <1>2, <1>4, <2>1, <2>2, <2>3a, <2>4, <2>8, <3>1, <3>2, <3>3, <3>4
      DEF Known, Dated
  <2>9. CASE ~ stamp
    <3>1. former'[n][p] = former[n][p] /\ disk'[n][p] = disk[n][p]
      BY <2>2, <2>4, <2>9
    <3>2. CASE held
      BY <1>2, <1>4, <2>1, <2>2, <2>3a, <2>9, <3>1, <3>2 DEF Known
    <3>3. CASE ~ held
      <4>1. torrent[n][p] = NoTorrent
        BY <2>6, <3>3
      <4>2. \/ disk[n][p] = Start
            \/ disk[n][p].time >= 1 /\ disk[n][p].content = Edit
        BY <2>1, <4>1 DEF Known, NoTorrent, Edit, None
      <4>3. torrent'[n][p] = [content |-> Edit, complete |-> FALSE]
        BY <2>2, <3>3
      <4>4. torrent'[n][p].content = Edit /\ ~ torrent'[n][p].complete
        BY <4>3
      <4> QED BY <1>2, <1>4, <2>1, <2>2, <2>3a, <2>9, <3>1, <4>2, <4>4 DEF Known
    <3> QED BY <3>2, <3>3
  <2> QED BY <2>8, <2>9
<1>5. CASE ~ (k = n /\ q = p)
  <2>1. /\ disk'[k][q] = disk[k][q] /\ former'[k][q] = former[k][q]
        /\ origins'[k][q] = origins[k][q] /\ torrent'[k][q] = torrent[k][q]
        /\ applied'[k][q] = applied[k][q]
        /\ q \in pending'[k] => q \in pending[k]
    BY <1>0, <1>2, <1>3, <1>5 DEF TypeOK, TimeMap
  <2> QED BY <1>0, <2>1, KnownFrame
<1> QED BY <1>4, <1>5

\* The node lists its tree anew.
LEMMA KnownListed ==
    ASSUME OneEdit, Steady, NEW n \in Nodes,
           former' = [former EXCEPT ![n] = Listing(disk[n])],
           UNCHANGED <<disk, origins, torrent, applied, pending>>,
           NEW k \in Nodes, NEW q \in Paths
    PROVE  Known(k, q)'
<1>0. TypeOK /\ Known(k, q)
  BY DEF Steady
<1>1. CASE k = n
  <2>1. former'[k][q] = disk[k][q].time
    BY <1>0, <1>1 DEF TypeOK, Listing
  <2>2. Dated(disk[k][q].time)
    BY <1>0, StartFacts DEF Known, Dated
  <2> QED BY <1>0, <2>1, <2>2 DEF Known
<1>2. CASE k # n
  <2>1. former'[k][q] = former[k][q]
    BY <1>0, <1>2 DEF TypeOK
  <2> QED BY <1>0, <2>1, KnownFrame
<1> QED BY <1>1, <1>2

\* A traversal announces only what its listing has at another time.
LEMMA PutIsNew ==
    ASSUME TypeOK, NEW n \in Nodes, NEW p \in Found(n, {}).put
    PROVE  p \in Paths /\ former[n][p] # disk[n][p].time
<1> DEFINE old == former[n]
           new == Seen(n, {})
<1>1. old \in TimeMap /\ new \in TimeMap
  BY TraverseFinds DEF TypeOK
<1>2. p \in create_diff(old, new).created \cup create_diff(old, new).modified
  BY DEF Found, local_changes
<1> HIDE DEF old, new
<1>3. p \in Paths /\ old[p] # new[p]
  BY <1>1, <1>2, DiffSplits
<1> QED BY <1>3 DEF old, new, Seen

\* What a create has to be to be of the edit.
LEMMA EditAnnounced ==
    ASSUME NEW p \in Paths, NEW origin \in Nat, origin >= 1
    PROVE  create(p, Edit, origin) \in EditMessages
<1>1. create(p, Edit, origin) \in CreateMessage
  BY MessageTypes DEF Time, Content, Edit
<1>2. create(p, Edit, origin) \in Graveless
  BY <1>1 DEF Graveless, Message, create
<1> QED BY <1>2 DEF EditMessages, create

LEMMA ScanAnnouncesEdit ==
    ASSUME OneEdit, Steady, VanishedIsMarked, NEW n \in Nodes, Scan(n)
    PROVE  net' \in Wire(EditMessages)
<1> DEFINE found == Found(n, {})
           burst == {remove(p, clock') : p \in found.removed} \cup
                    {create(p, disk[n][p].content, Seen(n, {})[p]) :
                        p \in found.put}
<1>0. TypeOK /\ Unburied
  BY DEF Steady
<1>1. Publish(n, [k \in Nodes |-> burst]) /\ up[n]
  BY DEF Scan, Traverse, send, Seen, Found
<1>2. ASSUME NEW p \in found.removed
      PROVE  FALSE
  <2>1. /\ p \in Paths
        /\ former[n][p] # None
        /\ Seen(n, {})[p] = None
        /\ tombstones[n][p] = None
    BY <1>0, TraverseFinds
  <2>2. disk[n][p] = Absent
    BY <1>0, <2>1 DEF Seen, TypeOK, File, Time, None
  <2>3. Vanished(n, p)
    BY <1>0, <1>1, <2>1, <2>2 DEF Vanished, Unburied
  <2> QED BY <2>1, <2>3 DEF VanishedIsMarked
<1>3. ASSUME NEW p \in found.put
      PROVE  create(p, disk[n][p].content, Seen(n, {})[p]) \in EditMessages
  <2>1. /\ p \in Paths
        /\ disk[n][p].time \in Nat
        /\ Seen(n, {})[p] = disk[n][p].time
        /\ former[n][p] # disk[n][p].time
    BY <1>0, TraverseFinds, PutIsNew DEF File, Time
  <2>2. Known(n, p)
    BY <2>1 DEF Steady
  <2>3. disk[n][p] # Start
    <3> SUFFICES ASSUME disk[n][p] = Start PROVE FALSE
      OBVIOUS
    <3>1. disk[n][p].time = Base /\ Base \in {None, 0}
      BY StartFacts
    <3>2. former[n][p] >= 1
      BY <2>1, <2>2, <3>1 DEF Known, Dated
    <3>3. disk[n][p].time >= 1
      BY <2>2, <3>2 DEF Known
    <3> QED BY <3>1, <3>3 DEF None
  <2>4. disk[n][p].time >= 1 /\ disk[n][p].content = Edit
    BY <2>1, <2>2, <2>3 DEF Known
  <2> QED BY <2>1, <2>4, EditAnnounced
<1> HIDE DEF found
<1>4. burst \in SUBSET EditMessages
  BY <1>2, <1>3
<1> HIDE DEF burst
<1> QED BY <1>1, <1>4, PublishKeeps DEF Steady

LEMMA RoundTellsDated ==
    ASSUME OneEdit, Steady, NEW n \in Nodes, Round(n)
    PROVE  net' \in Wire(EditMessages)
<1>0. TypeOK /\ Unburied /\ \A p \in Paths : Dated(former[n][p])
  BY DEF Steady, Known
<1>1. PICK bursts : /\ Publish(n, bursts)
                    /\ \A k \in Nodes : bursts[k] \in SUBSET
                            (StateMessage \cup {digest(former[n], tombstones[n])})
  BY <1>0, RoundPublishes
<1>2. digest(former[n], tombstones[n]) \in EditMessages
  <2>1. digest(former[n], tombstones[n]) \in DigestMessage
    BY <1>0, MessageTypes DEF TypeOK
  <2>2. digest(former[n], tombstones[n]) \in Graveless
    BY <1>0, <2>1 DEF Unburied, Graveless, digest, Message
  <2> QED BY <1>0, <2>2 DEF EditMessages, digest
<1>3. StateMessage \subseteq EditMessages
  BY DEF StateMessage, EditMessages, Graveless, Message
<1>4. \A k \in Nodes : bursts[k] \in SUBSET EditMessages
  BY <1>1, <1>2, <1>3
<1> QED BY <1>1, <1>4, PublishKeeps DEF Steady

\* Only the edit is ever missing anywhere, so only the edit is repaired, and
\* a node that repairs from its disk has the edit there.
LEMMA RepairAnnouncesEdit ==
    ASSUME OneEdit, Steady, NEW n \in Nodes, Repair(n)
    PROVE  /\ net' \in Wire(EditMessages)
           /\ \A k \in Nodes : pending'[k] \subseteq pending[k]
<1>0. TypeOK /\ \A p \in Paths : Known(n, p)
  BY DEF Steady
<1>1. PICK due \in Due(pending[n]) :
        LET listed == Listed(n, due)
            cached == {p \in listed : applied[n][p] # NotApplied}
            blind  == Blind(n, listed)
        IN  \E rebuilt \in SUBSET blind :
            /\ Publish(n, [k \in Nodes |->
                    {create(p, applied[n][p].content, former[n][p]) : p \in cached} \cup
                    {create(p, disk[n][p].content, former[n][p]) :
                        p \in {q \in rebuilt : disk[n][q] # Absent}}])
            /\ pending' = [pending EXCEPT ![n] = arm(@ \ due, blind \ rebuilt)]
  BY DEF Repair
<1> DEFINE listed == Listed(n, due)
           cached == {p \in listed : applied[n][p] # NotApplied}
           blind  == Blind(n, listed)
<1>2. PICK rebuilt \in SUBSET blind :
        /\ Publish(n, [k \in Nodes |->
                {create(p, applied[n][p].content, former[n][p]) : p \in cached} \cup
                {create(p, disk[n][p].content, former[n][p]) :
                    p \in {q \in rebuilt : disk[n][q] # Absent}}])
        /\ pending' = [pending EXCEPT ![n] = arm(@ \ due, blind \ rebuilt)]
  BY <1>1
<1>3. due \subseteq pending[n] /\ blind \subseteq due /\ listed \subseteq due
  BY <1>1 DEF Due, Listed, Blind
<1>4. ASSUME NEW p \in listed
      PROVE  p \in Paths /\ former[n][p] \in Nat /\ former[n][p] >= 1
  <2>1. p \in Paths /\ p \in pending[n]
    BY <1>0, <1>3 DEF TypeOK
  <2>2. former[n][p] >= 1
    BY <1>0, <2>1 DEF Known
  <2> QED BY <1>0, <2>1, <2>2 DEF TypeOK, TimeMap, MaybeTime, Time, None
<1>5. ASSUME NEW p \in cached
      PROVE  create(p, applied[n][p].content, former[n][p]) \in EditMessages
  <2>1. p \in listed /\ applied[n][p] # NotApplied
    OBVIOUS
  <2>2. p \in Paths /\ former[n][p] \in Nat /\ former[n][p] >= 1
    BY <1>4, <2>1
  <2>3. applied[n][p].content = Edit
    BY <1>0, <2>1, <2>2 DEF Known
  <2> QED BY <2>2, <2>3, EditAnnounced
<1>6. ASSUME NEW p \in blind
      PROVE  create(p, disk[n][p].content, former[n][p]) \in EditMessages
  <2>1. p \in listed /\ applied[n][p] = NotApplied
    BY DEF Blind
  <2>2. p \in Paths /\ former[n][p] \in Nat /\ former[n][p] >= 1
    BY <1>4, <2>1
  <2>3. torrent[n][p] = NoTorrent /\ disk[n][p].time >= 1
    BY <1>0, <2>1, <2>2 DEF Known
  <2>4. disk[n][p] # Start
    BY <2>3, StartFacts DEF None
  <2>5. disk[n][p].content = Edit
    BY <1>0, <2>2, <2>3, <2>4 DEF Known, NoTorrent, Edit, None
  <2> QED BY <2>2, <2>5, EditAnnounced
<1> DEFINE burst == {create(p, applied[n][p].content, former[n][p]) : p \in cached} \cup
                    {create(p, disk[n][p].content, former[n][p]) :
                        p \in {q \in rebuilt : disk[n][q] # Absent}}
<1>7. Publish(n, [k \in Nodes |-> burst])
  BY <1>2
<1>8. \A k \in Nodes : pending'[k] \subseteq pending[k]
  BY <1>0, <1>2, <1>3 DEF TypeOK, arm
<1> HIDE DEF listed, cached, blind
<1>9. burst \in SUBSET EditMessages
  BY <1>5, <1>6
<1> HIDE DEF burst
<1> QED BY <1>7, <1>8, <1>9, PublishKeeps DEF Steady

\* A digest tells of no deletion, and what it lacks is the edit.
LEMMA KnownDigest ==
    ASSUME OneEdit, Steady, NEW m \in Nodes, NEW n \in Nodes, NEW msg,
           ReceiveDigest(m, n, msg), NEW k \in Nodes, NEW q \in Paths
    PROVE  Known(k, q)'
<1> DEFINE adopted == adoptable(msg.deleted, former[n], tombstones[n], clock)
           gone    == {p \in adopted : former[n][p] # None}
           kept    == [p \in Paths |-> IF p \in gone THEN None ELSE former[n][p]]
           graves  == [p \in Paths |-> IF p \in adopted THEN msg.deleted[p]
                                       ELSE tombstones[n][p]]
<1>0. TypeOK /\ Known(k, q)
  BY DEF Steady
<1>1. msg \in EditMessages /\ msg \in Message /\ msg.verb = "digest"
  BY Heard DEF ReceiveDigest, Receiving
<1>2. /\ \A p \in Paths : msg.deleted[p] = None /\ Dated(msg.held[p])
      /\ msg.held \in TimeMap
  BY <1>1, Verbs DEF EditMessages, Graveless, DigestMessage
<1>3. adopted = {}
  BY <1>2 DEF adoptable
<1>4. gone = {}
  BY <1>3
<1>5. /\ Erase(n, gone)
      /\ former' = [former EXCEPT ![n] = kept]
      /\ pending' = [pending EXCEPT ![n] =
                arm(@ \ gone, gaps(kept, graves, msg.held))]
      /\ UNCHANGED origins
  BY DEF ReceiveDigest, inbound
<1>6. kept = former[n]
  BY <1>0, <1>4 DEF TypeOK, TimeMap
<1> HIDE DEF adopted, gone, kept, graves
<1>7. /\ disk'[k][q] = disk[k][q]
      /\ torrent'[k][q] = torrent[k][q]
      /\ applied'[k][q] = applied[k][q]
  BY <1>0, <1>4, <1>5 DEF Erase, TypeOK
<1>8. former'[k][q] = former[k][q]
  BY <1>0, <1>5, <1>6 DEF TypeOK
<1>9. q \in pending'[k] => q \in pending[k] \/ former[k][q] >= 1
  <2> SUFFICES ASSUME q \in pending'[k], q \notin pending[k]
               PROVE  former[k][q] >= 1
    OBVIOUS
  <2>1. k = n /\ q \in gaps(kept, graves, msg.held)
    BY <1>0, <1>5 DEF TypeOK, arm
  <2>2. /\ former[k][q] # None
        /\ msg.held[q] = None \/ msg.held[q] < former[k][q]
    BY <1>6, <2>1 DEF gaps
  <2>3. former[k][q] \in Int /\ msg.held[q] \in Int
    BY <1>0, <1>2 DEF TypeOK, TimeMap, MaybeTime, Time, None
  <2> QED BY <1>0, <1>2, <2>2, <2>3, StartFacts DEF Known, Dated, None
<1> QED BY <1>0, <1>5, <1>7, <1>8, <1>9, KnownFrame

\* What is left to show of a step: the wire and what every node knows.
Stays ==
    /\ net' \in Wire(EditMessages)
    /\ \A k \in Nodes, q \in Paths : Known(k, q)'

LEMMA SteadyStep ==
    ASSUME OneEdit, Steady, VanishedIsMarked, Next
    PROVE  Stays
<1>0. TypeOK /\ Unburied /\ Spared /\ net \in Wire(EditMessages)
  BY DEF Steady
<1>1. /\ \A n \in Nodes, p \in Paths : ~ UserDelete(n, p) /\ ~ UserRestore(n, p)
      /\ \A n \in Nodes : ~ ShortScan(n) /\ ~ Crash(n)
  BY <1>0, SparedStep
<1>2. ASSUME UNCHANGED <<disk, former, origins, torrent, applied>>,
             \A k \in Nodes : pending'[k] \subseteq pending[k],
             NEW k \in Nodes, NEW q \in Paths
      PROVE  Known(k, q)'
  <2>1. Known(k, q)
    BY DEF Steady
  <2>2. /\ former'[k][q] = former[k][q] /\ disk'[k][q] = disk[k][q]
        /\ origins'[k][q] = origins[k][q] /\ torrent'[k][q] = torrent[k][q]
        /\ applied'[k][q] = applied[k][q]
        /\ q \in pending'[k] => q \in pending[k]
    BY <1>2
  <2> QED BY <2>1, <2>2, KnownFrame
<1>3. ASSUME NEW n \in Nodes, NEW p \in Paths, UserWrite(n, p) \/ Land(n, p)
      PROVE  Stays
  <2>1. UNCHANGED net
    BY <1>3 DEF UserWrite, Land
  <2>2. \A k \in Nodes, q \in Paths : Known(k, q)'
    BY <1>3, KnownWrite, KnownLand
  <2> QED BY <1>0, <2>1, <2>2 DEF Stays
<1>4. ASSUME NEW n \in Nodes, Scan(n)
      PROVE  Stays
  <2>1. former' = [former EXCEPT ![n] = Listing(disk[n])]
    BY <1>0, <1>4, ScanSees
  <2>2. UNCHANGED <<disk, origins, torrent, applied, pending>>
    BY <1>4 DEF Scan, Traverse, repairs
  <2>3. \A k \in Nodes, q \in Paths : Known(k, q)'
    BY <2>1, <2>2, KnownListed
  <2> QED BY <1>4, <2>3, ScanAnnouncesEdit DEF Stays
<1>5. ASSUME NEW n \in Nodes, Restart(n)
      PROVE  Stays
  <2>1. /\ former' = [former EXCEPT ![n] = Listing(disk[n])]
        /\ UNCHANGED <<disk, origins, torrent, applied, pending, net>>
    BY <1>5 DEF Restart, inbound, repairs
  <2>2. \A k \in Nodes, q \in Paths : Known(k, q)'
    BY <2>1, KnownListed
  <2> QED BY <1>0, <2>1, <2>2 DEF Stays
<1>6. ASSUME NEW n \in Nodes, NothingToScan(n) \/ ReceiveNothing(n)
      PROVE  Stays
  <2>1. UNCHANGED <<disk, former, origins, torrent, applied, pending, net>>
    BY <1>6 DEF NothingToScan, ReceiveNothing, inbound, repairs
  <2>2. \A k \in Nodes, q \in Paths : Known(k, q)'
    BY <1>2, <2>1
  <2> QED BY <1>0, <2>1, <2>2 DEF Stays
<1>7. ASSUME NEW n \in Nodes, Round(n)
      PROVE  Stays
  <2>1. UNCHANGED <<disk, former, origins, torrent, applied, pending>>
    BY <1>7 DEF Round, inbound, repairs
  <2>2. \A k \in Nodes, q \in Paths : Known(k, q)'
    BY <1>2, <2>1
  <2> QED BY <1>7, <2>2, RoundTellsDated DEF Stays
<1>8. ASSUME NEW n \in Nodes, Repair(n)
      PROVE  Stays
  <2>1. UNCHANGED <<disk, former, origins, torrent, applied>>
    BY <1>8 DEF Repair, inbound
  <2>2. \A k \in Nodes, q \in Paths : Known(k, q)'
    BY <1>2, <1>8, <2>1, RepairAnnouncesEdit
  <2> QED BY <1>8, <2>2, RepairAnnouncesEdit DEF Stays
<1>9. ASSUME NEW m \in Nodes, NEW n \in Nodes, NEW msg,
             \/ IgnoreDeleted(m, n, msg) \/ IgnoreNotNewer(m, n, msg)
             \/ ReceiveState(m, n, msg) \/ Lose(m, n, msg)
      PROVE  Stays
  <2>1. /\ Arrived(m, n, msg) /\ Consume(m, n, msg)
        /\ UNCHANGED <<disk, former, origins, torrent, applied, pending>>
    BY <1>9 DEF IgnoreDeleted, IgnoreNotNewer, ReceiveState, Lose, Receiving,
                inbound, repairs
  <2>2. \A k \in Nodes, q \in Paths : Known(k, q)'
    BY <1>2, <2>1
  <2> QED BY <2>1, <2>2, Heard DEF Stays
<1>10. ASSUME NEW m \in Nodes, NEW n \in Nodes, NEW msg,
             ApplyCreate(m, n, msg) \/ ReceiveDigest(m, n, msg)
       PROVE  Stays
  <2>1. Arrived(m, n, msg) /\ Consume(m, n, msg)
    BY <1>10 DEF ApplyCreate, ReceiveDigest, Receiving
  <2>2. \A k \in Nodes, q \in Paths : Known(k, q)'
    BY <1>10, KnownApply, KnownDigest
  <2> QED BY <2>1, <2>2, Heard DEF Stays
<1>11. ASSUME NEW m \in Nodes, NEW n \in Nodes, NEW msg, ReceiveRemove(m, n, msg)
       PROVE  FALSE
  <2>1. msg \in Graveless
    BY <1>0, <1>11, ConsumeKeeps DEF ReceiveRemove, Receiving, Unburied
  <2> QED BY <1>11, <2>1 DEF ReceiveRemove, Graveless
<1>12. ASSUME Tick
       PROVE  Stays
  <2>1. UNCHANGED <<disk, former, origins, torrent, applied, pending, net>>
    BY <1>12 DEF Tick, inbound, repairs
  <2>2. \A k \in Nodes, q \in Paths : Known(k, q)'
    BY <1>2, <2>1
  <2> QED BY <1>0, <2>1, <2>2 DEF Stays
<1> QED
  BY <1>1, <1>3, <1>4, <1>5, <1>6, <1>7, <1>8, <1>9, <1>10, <1>11, <1>12, StepCases

\* At rest nothing is on its way, so a time tells the one file from the other.
LEMMA TimesTellFiles ==
    ASSUME OneEdit, Steady, Quiet, NEW m \in Nodes, NEW n \in Nodes, NEW p \in Paths,
           disk[m][p].time = disk[n][p].time
    PROVE  disk[m][p] = disk[n][p]
<1>1. ASSUME NEW k \in Nodes
      PROVE  \/ disk[k][p] = Start
             \/ /\ disk[k][p].time >= 1
                /\ disk[k][p] = [content |-> Edit, time |-> disk[k][p].time]
  <2>1. Known(k, p) /\ disk[k][p] \in File \cup {Absent}
    BY DEF Steady, TypeOK
  <2>2. torrent[k][p] # [content |-> Edit, complete |-> FALSE]
    <3>1. torrent[k][p] = NoTorrent \/ torrent[k][p].complete
      BY DEF Quiet, Settled
    <3> QED BY <3>1 DEF NoTorrent, Edit, None
  <2>3. \/ disk[k][p] = Start
        \/ disk[k][p].time >= 1 /\ disk[k][p].content = Edit
    BY <2>1, <2>2 DEF Known
  <2> QED BY <2>1, <2>3 DEF File, Absent
<1>2. ~ (Start.time >= 1)
  BY StartFacts DEF None
<1> QED BY <1>1, <1>2

(***************************************************************************)
(* Two nodes at rest whose root hashes agree have the same files, contents *)
(* included, when the nodes started out alike and at most one edit was     *)
(* made anywhere: in whatever order the announcement, the transfers, the   *)
(* rounds and the repairs come, and whatever is lost, stamp_and_remember   *)
(* gives the time of the edit to nothing that would stay the old file.     *)
(***************************************************************************)
THEOREM OneEditHashesTellFiles ==
    ASSUME OneEdit
    PROVE  Spec => []EqualHashesEqualFiles
<1> DEFINE Inv == Steady /\ VanishedIsMarked /\ ListingHonest
<1>1. Init => Inv
  <2> SUFFICES ASSUME Init PROVE Inv
    OBVIOUS
  <2>1. TypeOK
    BY InitType
  <2>2. VanishedIsMarked
    BY DEF Init, Started, VanishedIsMarked, Vanished, Listing, Absent
  <2>3. Unburied
    <3>1. net \in Wire(Graveless)
      BY DEF Init, Started, Wire
    <3> QED BY <3>1 DEF Init, Started, Unburied, EmptyMap
  <2>4. Spared
    BY DEF Init, Started, Spared, OneEdit
  <2>5. net \in Wire(EditMessages)
    BY DEF Init, Started, Wire
  <2>6. ASSUME NEW n \in Nodes, NEW p \in Paths
        PROVE  Known(n, p)
    <3>1. disk[n][p] = Start /\ former[n][p] = disk[n][p].time
      BY StartFacts DEF Init, Started, Listing
    <3>2. former[n][p] = Base /\ ~ (Base >= 1)
      BY <3>1, StartFacts DEF None
    <3>3. /\ torrent[n][p] = NoTorrent /\ applied[n][p] = NotApplied
          /\ origins[n][p] = None /\ p \notin pending[n]
      BY DEF Init, Started, EmptyMap
    <3>4. ~ torrent[n][p].complete
      BY <3>3 DEF NoTorrent
    <3>5. Dated(former[n][p]) /\ ~ (former[n][p] >= 1)
      BY <3>2 DEF Dated
    <3> QED BY Zenon, <3>1, <3>3, <3>4, <3>5 DEF Known
  <2>7. ListingHonest
    BY DEF Init, Started, ListingHonest
  <2> QED BY <2>1, <2>2, <2>3, <2>4, <2>5, <2>6, <2>7 DEF Steady
<1>2. Inv /\ [Next]_vars => Inv'
  <2> SUFFICES ASSUME Inv, [Next]_vars PROVE Inv'
    OBVIOUS
  <2>0. TypeOK /\ Unburied /\ Spared
    BY DEF Steady
  <2>1. TypeOK' /\ Spared' /\ NoShort
    BY <2>0, StepType, SparedStep
  <2>2. VanishedIsMarked'
    BY <2>0, <2>1, MarkedStep DEF VanishedIsMarked, Marked
  <2>3. ListingHonest'
    BY <2>0, <2>1, HonestStep DEF ListingHonest, Honest
  <2>4. CASE UNCHANGED vars
    BY <2>1, <2>2, <2>3, <2>4 DEF vars, inbound, repairs, Steady, Unburied, Known
  <2>5. CASE Next
    <3>1. \A n \in Nodes, p \in Paths : ~ UserDelete(n, p)
      BY <2>0, SparedStep
    <3>2. Unburied'
      BY <2>0, <2>1, <2>5, <3>1, UnburiedStep
    <3>3. Stays
      BY <2>5, SteadyStep
    <3> QED BY <2>1, <2>2, <2>3, <3>2, <3>3 DEF Stays, Steady
  <2> QED BY <2>4, <2>5
<1>3. Inv => EqualHashesEqualFiles
  <2> SUFFICES ASSUME Inv, Quiet, NEW m \in Nodes, NEW n \in Nodes,
                      hash(former[m], tombstones[m]) = hash(former[n], tombstones[n])
               PROVE  disk[m] = disk[n]
    BY DEF EqualHashesEqualFiles
  <2>1. former[m] = Listing(disk[m]) /\ former[n] = Listing(disk[n])
    BY Zenon DEF ListingHonest, Quiet
  <2>2. former[m] = former[n]
    BY DEF hash
  <2>3. ASSUME NEW p \in Paths
        PROVE  disk[m][p].time = disk[n][p].time
    <3>1. Listing(disk[m]) = Listing(disk[n])
      BY <2>1, <2>2
    <3>2. /\ Listing(disk[m])[p] = disk[m][p].time
          /\ Listing(disk[n])[p] = disk[n][p].time
      BY DEF Listing
    <3> QED BY <3>1, <3>2
  <2>4. \A p \in Paths : disk[m][p] = disk[n][p]
    BY <2>3, TimesTellFiles
  <2> QED BY <2>4 DEF Steady, TypeOK
<1> QED BY <1>1, <1>2, <1>3, PTL DEF Spec

=============================================================================
