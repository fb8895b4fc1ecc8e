-------------------------- MODULE ReconcileProofs --------------------------
(***************************************************************************)
(* What the operations of Reconcile, Files and Ladder promise for every    *)
(* set of paths and every time to live.                                    *)
(***************************************************************************)
EXTENDS Protocol, Ladder, TLAPS, FiniteSetTheorems

(***************************************************************************)
(* Types.                                                                  *)
(***************************************************************************)
\* reconcile::mark returns a map, whose entry is the later of the moments.
LEMMA MarkType ==
    ASSUME NEW t \in TimeMap, NEW p \in Paths, NEW d \in Time
    PROVE  /\ mark(t, p, d) \in TimeMap
           /\ mark(t, p, d)[p] # None
           /\ \A q \in Paths : mark(t, p, d)[q] >= t[q]
BY DEF mark, TimeMap, MaybeTime, Time, None

\* reconcile::expire returns a map, which only lacks entries.
LEMMA ExpireType ==
    ASSUME NEW t \in TimeMap, NEW now \in Time
    PROVE  /\ expire(t, now) \in TimeMap
           /\ \A p \in Paths : expire(t, now)[p] \in {t[p], None}
           /\ \A p \in Paths :
                expire(t, now)[p] # t[p] => now - t[p] > TombstoneTtl
BY TtlAssumption DEF expire, TimeMap, MaybeTime, Time, None

\* create_diff splits the names on which two listings differ in three.
LEMMA DiffSplits ==
    ASSUME NEW old \in TimeMap, NEW new \in TimeMap
    PROVE  LET d == create_diff(old, new)
           IN  /\ d.removed = {p \in Paths : old[p] # None /\ new[p] = None}
               /\ d.created = {p \in Paths : old[p] = None /\ new[p] # None}
               /\ d.modified = {p \in Paths : /\ old[p] # None
                                              /\ new[p] # None
                                              /\ old[p] # new[p]}
BY DEF create_diff, diff, diff_name, intersection_name, Names, TimeMap,
       MaybeTime, Time, None

\* What local_changes announces, and the tombstones it leaves: a path that
\* is put is listed and its tombstone, if any, does not beat it; a path that
\* is removed was listed, is not any more and had no tombstone.
LEMMA LocalChanges ==
    ASSUME NEW old, NEW new, NEW w, NEW t, NEW noticed, NEW found,
           found = local_changes(old, new, w, t, noticed),
           old \in TimeMap, new \in TimeMap, t \in TimeMap, noticed \in Time
    PROVE  /\ \A p \in found.put :
                p \in Paths /\ new[p] # None /\ new[p] >= t[p]
           /\ \A p \in found.removed :
                p \in Paths /\ old[p] # None /\ new[p] = None /\ t[p] = None
           /\ found.tombstones \in TimeMap
           /\ \A p \in Paths :
                found.tombstones[p] # t[p] =>
                    \/ p \in found.removed /\ found.tombstones[p] = noticed
                    \/ p \in found.put /\ found.tombstones[p] = None
<1> DEFINE d     == create_diff(old, new)
           fresh == {p \in d.created \cup d.modified : ~ is_echo(p, w, new)}
           put   == {p \in fresh : ~ loses_to_tombstone(p, t, new)}
           rem   == {p \in d.removed : t[p] = None}
<1>1. /\ found.put = put
      /\ found.removed = rem
      /\ found.tombstones = [p \in Paths |-> IF p \in rem THEN noticed
                                             ELSE IF p \in put THEN None
                                             ELSE t[p]]
  BY DEF local_changes
<1>2. /\ rem = {p \in Paths : old[p] # None /\ new[p] = None /\ t[p] = None}
      /\ \A p \in put : p \in Paths /\ new[p] # None
  BY DiffSplits
<1>3. \A p \in put : new[p] >= t[p]
  BY <1>2 DEF loses_to_tombstone, beats, TimeMap, MaybeTime, Time, None
<1> HIDE DEF d, fresh, put, rem
<1>4. found.tombstones \in TimeMap
  BY <1>1 DEF TimeMap, MaybeTime, Time, None
<1> QED
  BY <1>1, <1>2, <1>3, <1>4

-----------------------------------------------------------------------------
(***************************************************************************)
(* The order in which deletions are heard of does not matter: mark keeps   *)
(* the latest moment of each path, so two removes received in either order *)
(* leave the same tombstones, and one received twice leaves nothing more.  *)
(***************************************************************************)
THEOREM DeletionsCommute ==
    ASSUME NEW t \in TimeMap, NEW p \in Paths, NEW q \in Paths,
           NEW d \in Time, NEW e \in Time
    PROVE  /\ mark(mark(t, p, d), q, e) = mark(mark(t, q, e), p, d)
           /\ mark(mark(t, p, d), p, d) = mark(t, p, d)
<1>1. ASSUME NEW s \in TimeMap, NEW x \in Paths, NEW m \in Time
      PROVE  mark(s, x, m) = [y \in Paths |-> IF y = x /\ s[y] < m THEN m ELSE s[y]]
  BY <1>1 DEF mark, TimeMap, MaybeTime, Time, None
<1>2. /\ mark(t, p, d) \in TimeMap
      /\ mark(t, q, e) \in TimeMap
  BY MarkType
<1>3. /\ mark(mark(t, p, d), q, e) =
            [y \in Paths |-> IF y = q /\ mark(t, p, d)[y] < e THEN e ELSE mark(t, p, d)[y]]
      /\ mark(mark(t, q, e), p, d) =
            [y \in Paths |-> IF y = p /\ mark(t, q, e)[y] < d THEN d ELSE mark(t, q, e)[y]]
      /\ mark(mark(t, p, d), p, d) =
            [y \in Paths |-> IF y = p /\ mark(t, p, d)[y] < d THEN d ELSE mark(t, p, d)[y]]
  BY <1>1, <1>2
<1>4. /\ \A y \in Paths : mark(t, p, d)[y] = IF y = p /\ t[y] < d THEN d ELSE t[y]
      /\ \A y \in Paths : mark(t, q, e)[y] = IF y = q /\ t[y] < e THEN e ELSE t[y]
  BY <1>1
<1>5. mark(mark(t, p, d), q, e) = mark(mark(t, q, e), p, d)
  BY <1>3, <1>4 DEF TimeMap, MaybeTime, Time, None
<1>6. mark(mark(t, p, d), p, d) = mark(t, p, d)
  <2>1. mark(t, p, d) = [y \in Paths |-> IF y = p /\ t[y] < d THEN d ELSE t[y]]
    BY <1>1
  <2> QED BY <1>3, <1>4, <2>1 DEF TimeMap, MaybeTime, Time, None
<1> QED BY <1>5, <1>6

(***************************************************************************)
(* A digest is read once: with what it tells taken over, the same digest   *)
(* holds no news, and nothing it killed is left to be handed back to the   *)
(* peer that said so (read_digest adopts before it looks for gaps).        *)
(***************************************************************************)
THEOREM DigestReadOnce ==
    ASSUME NEW theirs \in TimeMap, NEW deleted \in TimeMap, NEW held \in TimeMap,
           NEW mine \in TimeMap, NEW now \in Time
    PROVE  LET adopted == adoptable(deleted, held, mine, now)
               kept    == [p \in Paths |-> IF p \in adopted /\ held[p] # None
                                           THEN None ELSE held[p]]
               graves  == [p \in Paths |-> IF p \in adopted THEN deleted[p]
                                           ELSE mine[p]]
           IN  /\ adoptable(deleted, kept, graves, now) = {}
               /\ gaps(kept, graves, theirs) \cap adopted = {}
<1> DEFINE adopted == adoptable(deleted, held, mine, now)
           kept    == [p \in Paths |-> IF p \in adopted /\ held[p] # None
                                       THEN None ELSE held[p]]
           graves  == [p \in Paths |-> IF p \in adopted THEN deleted[p]
                                       ELSE mine[p]]
<1>1. \A p \in Paths : p \in adopted => graves[p] = deleted[p] /\ kept[p] = None
  OBVIOUS
<1>2. \A p \in Paths : p \notin adopted => graves[p] = mine[p] /\ kept[p] = held[p]
  OBVIOUS
<1>3. adopted = {p \in Paths :
        /\ deleted[p] # None
        /\ mine[p] # None => mine[p] < deleted[p]
        /\ now - deleted[p] <= TombstoneTtl
        /\ held[p] # None => beats(deleted[p], held[p])}
  BY DEF adoptable
<1>4. adoptable(deleted, kept, graves, now) = {p \in Paths :
        /\ deleted[p] # None
        /\ graves[p] # None => graves[p] < deleted[p]
        /\ now - deleted[p] <= TombstoneTtl
        /\ kept[p] # None => beats(deleted[p], kept[p])}
  BY DEF adoptable
<1>5. gaps(kept, graves, theirs) \cap adopted = {}
  BY <1>1 DEF gaps
<1> HIDE DEF adopted, kept, graves
<1>6. adoptable(deleted, kept, graves, now) = {}
  BY <1>1, <1>2, <1>3, <1>4 DEF TimeMap, MaybeTime, Time, None
<1> QED BY <1>5, <1>6 DEF adopted, kept, graves

(***************************************************************************)
(* Two nodes that read each other's digests never both take on the repair  *)
(* of a path: at most one of them holds it newer.                          *)
(***************************************************************************)
THEOREM GapsAreOneSided ==
    ASSUME NEW m \in TimeMap, NEW n \in TimeMap, NEW t \in TimeMap, NEW u \in TimeMap
    PROVE  gaps(m, t, n) \cap gaps(n, u, m) = {}
BY DEF gaps, TimeMap, MaybeTime, Time, None

(***************************************************************************)
(* Create against create: of two different files each of which its node    *)
(* knows the announcement of, exactly one replaces the other, so the       *)
(* exchange of the two announcements leaves both nodes with the same file  *)
(* (wins is no oscillator).                                                *)
(***************************************************************************)
THEOREM OneCopyWins ==
    ASSUME NEW x \in File, NEW y \in File, x # y
    PROVE  LET known(z) == [origin |-> z.time, content |-> z.content]
           IN  wins(known(x), x, y.time, y.content)
                    <=> ~ wins(known(y), y, x.time, x.content)
<1>1. x # Absent /\ y # Absent
  BY DEF File, Absent, Content, Time, None
<1>2. x.content # y.content \/ x.time # y.time
  BY DEF File
<1> QED BY <1>1, <1>2 DEF wins, File, Content, Time

-----------------------------------------------------------------------------
(***************************************************************************)
(* The ladder of repairs.                                                  *)
(***************************************************************************)
LEMMA LadderType ==
    ASSUME NEW ladder \in Ladders
    PROVE  /\ DOMAIN ladder \subseteq Paths
           /\ IsFiniteSet(DOMAIN ladder)
           /\ ladder \in [DOMAIN ladder -> Nat]
BY DEF Ladders

\* A finite set of naturals has a greatest element.
LEMMA GreatestExists ==
    ASSUME NEW S \in SUBSET Nat, IsFiniteSet(S), S # {}
    PROVE  \E x \in S : \A y \in S : x >= y
<1> DEFINE Topless == {U \in SUBSET S : U # {} /\ ~ \E x \in U : \A y \in U : x >= y}
<1> SUFFICES ASSUME S \in Topless PROVE FALSE
  OBVIOUS
<1>1. IsWellFoundedOn(StrictSubsetOrdering(S), SUBSET S)
  BY FS_StrictSubsetOrderingWellFounded, FS_FiniteSubsetsOfFinite
<1>2. PICK U \in Topless : \A V \in Topless : ~ (<<V, U>> \in StrictSubsetOrdering(S))
  <2>1. Topless \subseteq SUBSET S /\ Topless # {}
    OBVIOUS
  <2> HIDE DEF Topless
  <2> QED BY <1>1, <2>1, WFMin, Zenon
<1>3. PICK u \in U : u \in Nat
  OBVIOUS
<1>4. U \ {u} \notin Topless
  <2>1. /\ <<U \ {u}, U>> \in (SUBSET S) \X (SUBSET S)
        /\ <<U \ {u}, U>>[1] = U \ {u} /\ <<U \ {u}, U>>[2] = U
        /\ U \ {u} \subseteq U /\ U \ {u} # U
    BY <1>3
  <2>2. <<U \ {u}, U>> \in StrictSubsetOrdering(S)
    BY <2>1, Zenon DEF StrictSubsetOrdering
  <2> QED BY <1>2, <2>2
<1>5. CASE U \ {u} = {}
  BY <1>2, <1>3, <1>5
<1>6. CASE U \ {u} # {}
  <2>1. PICK w \in U \ {u} : \A y \in U \ {u} : w >= y
    BY <1>4, <1>6
  <2>2. w \in Nat /\ u \in Nat /\ \A y \in U : y \in Nat
    OBVIOUS
  <2>3. (w >= u => \A y \in U : w >= y) /\ (u >= w => \A y \in U : u >= y)
    BY <2>1, <2>2
  <2> QED BY <1>2, <1>3, <2>2, <2>3
<1> QED BY <1>5, <1>6

\* Where arm starts: not before now, and a pace behind all that wait.
LEMMA NextRung ==
    ASSUME NEW ladder \in Ladders, NEW now \in Nat
    PROVE  /\ next_rung(ladder, now) \in Nat
           /\ next_rung(ladder, now) >= now
           /\ \A p \in DOMAIN ladder : next_rung(ladder, now) >= ladder[p] + pace
<1> DEFINE D == DOMAIN ladder
           f == [p \in D |-> ladder[p] + pace]
           I == {ladder[p] + pace : p \in D}
           S == {now} \cup I
<1>1. IsFiniteSet(D) /\ \A p \in D : ladder[p] \in Nat
  BY LadderType
<1>2. I \in SUBSET Nat /\ S \in SUBSET Nat /\ S # {}
  BY <1>1 DEF pace
<1>3. f \in Surjection(D, I)
  BY DEF Surjection
<1> HIDE DEF D, f
<1>4. IsFiniteSet(I)
  BY <1>1, <1>3, FS_Surjection
<1>5. IsFiniteSet(S)
  <2> HIDE DEF I
  <2>1. IsFiniteSet(I \cup {now})
    BY <1>4, FS_AddElement
  <2>2. S = I \cup {now}
    OBVIOUS
  <2> QED BY <2>1, <2>2
<1>6. \E x \in S : \A y \in S : x >= y
  <2> HIDE DEF S
  <2> QED BY <1>2, <1>5, GreatestExists
<1>7. next_rung(ladder, now) = Max(S)
  BY DEF next_rung, D
<1>8. Max(S) \in S /\ \A y \in S : Max(S) >= y
  <2> HIDE DEF S
  <2> QED BY <1>6, Zenon DEF Max
<1>9. now \in S /\ \A p \in D : ladder[p] + pace \in S
  OBVIOUS
<1> QED BY <1>2, <1>7, <1>8, <1>9 DEF D

\* The gaps taken on before a gap, and the moment it gets.
Ahead(ladder, missing, p) ==
    {q \in DOMAIN missing \ DOMAIN ladder : missing[q] < missing[p]}
Rung(ladder, missing, now, p) ==
    next_rung(ladder, now) + pace * Cardinality(Ahead(ladder, missing, p))

LEMMA AheadGrows ==
    ASSUME NEW ladder \in Ladders, NEW missing \in Vectors,
           NEW p \in DOMAIN missing \ DOMAIN ladder,
           NEW q \in DOMAIN missing \ DOMAIN ladder
    PROVE  /\ Cardinality(Ahead(ladder, missing, p)) \in Nat
           /\ missing[p] < missing[q] =>
                Cardinality(Ahead(ladder, missing, q)) >=
                    Cardinality(Ahead(ladder, missing, p)) + 1
<1> DEFINE A(r) == Ahead(ladder, missing, r)
<1>1. /\ IsFiniteSet(DOMAIN missing)
      /\ \A r \in DOMAIN missing : missing[r] \in Nat
  BY LadderType DEF Vectors
<1>2. ASSUME NEW r
      PROVE  IsFiniteSet(A(r)) /\ Cardinality(A(r)) \in Nat
  <2>1. A(r) \in SUBSET DOMAIN missing
    BY DEF Ahead
  <2> HIDE DEF A
  <2>2. IsFiniteSet(A(r))
    BY <1>1, <2>1, FS_Subset
  <2> QED BY <2>2, FS_CardinalityType
<1>3. ASSUME missing[p] < missing[q]
      PROVE  Cardinality(A(q)) >= Cardinality(A(p)) + 1
  <2>1. p \notin A(p) /\ A(p) \cup {p} \in SUBSET A(q)
    BY <1>1, <1>3 DEF Ahead
  <2> HIDE DEF A
  <2>2. Cardinality(A(p) \cup {p}) = Cardinality(A(p)) + 1
    BY <1>2, <2>1, FS_AddElement
  <2>3. Cardinality(A(p) \cup {p}) <= Cardinality(A(q))
    BY <1>2, <2>1, FS_Subset
  <2> QED BY <1>2, <2>2, <2>3
<1> QED BY <1>2, <1>3

(***************************************************************************)
(* arm and due, seen without their moments, are the arm and Due of         *)
(* Reconcile that Swarm is built on; and a gap that waits keeps its        *)
(* moment however often it turns up again, so that it does come up.        *)
(***************************************************************************)
THEOREM LadderRefines ==
    ASSUME NEW ladder \in Ladders, NEW missing \in Vectors, NEW now \in Nat
    PROVE  /\ arm_ladder(ladder, missing, now) \in Ladders
           /\ DOMAIN arm_ladder(ladder, missing, now) =
                arm(DOMAIN ladder, DOMAIN missing)
           /\ \A p \in DOMAIN ladder :
                arm_ladder(ladder, missing, now)[p] = ladder[p]
           /\ \A p \in DOMAIN missing \ DOMAIN ladder :
                arm_ladder(ladder, missing, now)[p] = Rung(ladder, missing, now, p)
           /\ due_rungs(ladder, now) \in Due(DOMAIN ladder) \cup {{}}
<1> DEFINE after == arm_ladder(ladder, missing, now)
<1>1. after = [p \in DOMAIN ladder \cup DOMAIN missing |->
                IF p \in DOMAIN ladder THEN ladder[p]
                ELSE Rung(ladder, missing, now, p)]
  BY DEF arm_ladder, Rung, Ahead
<1>2. /\ DOMAIN ladder \subseteq Paths /\ DOMAIN missing \subseteq Paths
      /\ IsFiniteSet(DOMAIN ladder) /\ IsFiniteSet(DOMAIN missing)
      /\ \A p \in DOMAIN ladder : ladder[p] \in Nat
  BY LadderType DEF Vectors
<1>3. ASSUME NEW p \in DOMAIN missing \ DOMAIN ladder
      PROVE  Rung(ladder, missing, now, p) \in Nat
  <2>1. /\ next_rung(ladder, now) \in Nat
        /\ Cardinality(Ahead(ladder, missing, p)) \in Nat
    BY NextRung, AheadGrows
  <2> QED BY <2>1 DEF Rung, pace
<1>4. after \in [DOMAIN ladder \cup DOMAIN missing -> Nat]
  BY <1>1, <1>2, <1>3
<1>5. IsFiniteSet(DOMAIN ladder \cup DOMAIN missing)
  BY <1>2, FS_Union
<1>6. after \in Ladders
  BY <1>2, <1>4, <1>5 DEF Ladders
<1> QED BY <1>1, <1>6 DEF arm, due_rungs, Due

(***************************************************************************)
(* The paths on the ladder stay a pace apart, and none comes up earlier:   *)
(* when gaps are taken on, in the digest's turn or again by                *)
(* publish_repairs, when a path is forgotten and when repairs are made.    *)
(***************************************************************************)
THEOREM LadderStaysSpaced ==
    ASSUME NEW ladder \in Ladders, NEW since \in Nat, Spaced(ladder, since),
           NEW now \in Nat, now >= since
    PROVE  /\ \A missing \in Vectors : Spaced(arm_ladder(ladder, missing, now), since)
           /\ \A gone : /\ without(ladder, gone) \in Ladders
                        /\ Spaced(without(ladder, gone), since)
           /\ \A waiting \in Vectors : Spaced(publish_ladder(ladder, waiting, now), now)
<1>1. ASSUME NEW lad \in Ladders, NEW from \in Nat, Spaced(lad, from), now >= from,
             NEW missing \in Vectors
      PROVE  Spaced(arm_ladder(lad, missing, now), from)
  <2> DEFINE after == arm_ladder(lad, missing, now)
             N     == next_rung(lad, now)
             c(p)  == Cardinality(Ahead(lad, missing, p))
             fresh == DOMAIN missing \ DOMAIN lad
  <2>1. /\ N \in Nat /\ N >= now
        /\ \A p \in DOMAIN lad : lad[p] \in Nat /\ N >= lad[p] + pace /\ lad[p] >= from
    BY <1>1, NextRung, LadderType DEF Spaced
  <2>2. /\ DOMAIN after = DOMAIN lad \cup fresh
        /\ \A p \in DOMAIN lad : after[p] = lad[p]
        /\ \A p \in fresh : after[p] = N + pace * c(p)
    <3>1. /\ DOMAIN after = arm(DOMAIN lad, DOMAIN missing)
          /\ \A p \in DOMAIN lad : after[p] = lad[p]
          /\ \A p \in fresh : after[p] = Rung(lad, missing, now, p)
      BY LadderRefines
    <3> HIDE DEF after
    <3> QED BY <3>1 DEF arm, Rung
  <2>3. \A p \in fresh : c(p) \in Nat
    BY AheadGrows
  <2>4. \A p \in fresh : after[p] \in Nat /\ after[p] >= N
    BY <2>1, <2>2, <2>3 DEF pace
  <2>5. ASSUME NEW p \in fresh, NEW q \in fresh, p # q
        PROVE  after[p] - after[q] >= pace \/ after[q] - after[p] >= pace
    <3>1. missing[p] \in Nat /\ missing[q] \in Nat /\ missing[p] # missing[q]
      BY <2>5, LadderType DEF Vectors
    <3>2. /\ missing[p] < missing[q] => c(q) >= c(p) + 1
          /\ missing[q] < missing[p] => c(p) >= c(q) + 1
      BY AheadGrows
    <3> HIDE DEF c, N, after, fresh
    <3>3. c(p) >= c(q) + 1 \/ c(q) >= c(p) + 1
      BY <3>1, <3>2
    <3>4. c(p) \in Nat /\ c(q) \in Nat
      BY <2>3, <2>5
    <3> QED BY <2>1, <2>2, <2>5, <3>3, <3>4 DEF pace
  <2> HIDE DEF c, N, after, fresh
  <2>6. \A p \in DOMAIN after : after[p] >= from
    BY <1>1, <2>1, <2>2, <2>4
  <2>7. ASSUME NEW p \in DOMAIN after, NEW q \in DOMAIN after, p # q
        PROVE  after[p] - after[q] >= pace \/ after[q] - after[p] >= pace
    <3>1. CASE p \in DOMAIN lad /\ q \in DOMAIN lad
      BY <1>1, <2>2, <2>7, <3>1 DEF Spaced
    <3>2. CASE p \in DOMAIN lad /\ q \in fresh
      BY <2>1, <2>2, <2>4, <3>2 DEF pace
    <3>3. CASE p \in fresh /\ q \in DOMAIN lad
      BY <2>1, <2>2, <2>4, <3>3 DEF pace
    <3>4. CASE p \in fresh /\ q \in fresh
      BY <2>5, <2>7, <3>4
    <3> QED BY <2>2, <2>7, <3>1, <3>2, <3>3, <3>4
  <2> QED BY <2>6, <2>7 DEF Spaced, after
<1>2. ASSUME NEW gone
      PROVE  /\ without(ladder, gone) \in Ladders
             /\ Spaced(without(ladder, gone), since)
  <2>1. /\ DOMAIN ladder \ gone \in SUBSET Paths
        /\ DOMAIN ladder \ gone \in SUBSET DOMAIN ladder
        /\ \A p \in DOMAIN ladder : ladder[p] \in Nat
    BY LadderType
  <2>2. IsFiniteSet(DOMAIN ladder \ gone)
    BY <2>1, LadderType, FS_Subset
  <2> QED BY <2>1, <2>2 DEF without, Ladders, Spaced
<1>3. ASSUME NEW waiting \in Vectors
      PROVE  Spaced(publish_ladder(ladder, waiting, now), now)
  <2> DEFINE left == without(ladder, due_rungs(ladder, now))
  <2>1. left \in Ladders /\ Spaced(left, since)
    BY <1>2
  <2>2. \A p \in DOMAIN left : left[p] >= now
    BY LadderType DEF without, due_rungs
  <2>3. Spaced(left, now)
    BY <2>1, <2>2 DEF Spaced
  <2> HIDE DEF left
  <2>4. Spaced(arm_ladder(left, waiting, now), now)
    BY <1>1, <2>1, <2>3
  <2> QED BY <2>4 DEF publish_ladder, left
<1> QED BY <1>1, <1>2, <1>3

\* Moments a pace apart fall in different slots of the time that passed.
LEMMA Slots ==
    /\ \A x, y \in Nat : x - y >= 20 => (x \div 20) # (y \div 20)
    /\ \A x, y \in Nat : x <= y => (x \div 20) <= (y \div 20)
    /\ \A x \in Nat : x \div 20 \in Nat
OBVIOUS

(***************************************************************************)
(* However many gaps wait, one call of publish_repairs takes no more of    *)
(* them than fit, a pace apart, in the time since the last one, and one.   *)
(***************************************************************************)
THEOREM RepairsArePaced ==
    ASSUME NEW ladder \in Ladders, NEW since \in Nat, Spaced(ladder, since),
           NEW now \in Nat, now >= since
    PROVE  Cardinality(due_rungs(ladder, now)) <= (now - since) \div pace + 1
<1> DEFINE D    == due_rungs(ladder, now)
           last == (now - since) \div pace
           slot == [p \in D |-> (ladder[p] - since) \div pace]
<1>1. ASSUME NEW p \in D
      PROVE  /\ ladder[p] - since \in Nat
             /\ now - since \in Nat
             /\ ladder[p] - since <= now - since
  BY LadderType DEF due_rungs, Spaced
<1>2. last \in Nat
  BY Slots DEF pace
<1>3. ASSUME NEW p \in D
      PROVE  slot[p] \in 0..last
  <2>1. /\ (ladder[p] - since) \div 20 <= (now - since) \div 20
        /\ (ladder[p] - since) \div 20 \in Nat
    BY <1>1, Slots
  <2> QED BY <1>2, <2>1 DEF pace
<1>4. ASSUME NEW p \in D, NEW q \in D, slot[p] = slot[q]
      PROVE  p = q
  <2> SUFFICES ASSUME p # q PROVE FALSE
    OBVIOUS
  <2>1. /\ p \in DOMAIN ladder /\ q \in DOMAIN ladder
        /\ ladder[p] \in Nat /\ ladder[q] \in Nat
    BY LadderType DEF due_rungs
  <2>2. ladder[p] - ladder[q] >= 20 \/ ladder[q] - ladder[p] >= 20
    BY <2>1 DEF Spaced, pace
  <2>3. (ladder[p] - since) - (ladder[q] - since) >= 20
        \/ (ladder[q] - since) - (ladder[p] - since) >= 20
    BY <2>1, <2>2
  <2>4. (ladder[p] - since) \div 20 = (ladder[q] - since) \div 20
    BY <1>4 DEF pace
  <2> QED BY <1>1, <2>3, <2>4, Slots
<1>5. slot \in Injection(D, 0..last)
  <2>1. slot \in [D -> 0..last]
    BY <1>3
  <2> QED BY <1>4, <2>1 DEF Injection, IsInjective
<1> HIDE DEF D, slot, last
<1>6. /\ IsFiniteSet(0..last)
      /\ Cardinality(0..last) = last + 1
  BY <1>2, FS_Interval
<1>7. Cardinality(D) <= last + 1
  BY <1>5, <1>6, FS_Injection
<1> QED BY <1>7 DEF D, last

=============================================================================
