----------------------------- MODULE Reconcile -----------------------------
(***************************************************************************)
(* The pure operations of namespace reconcile (src/src/reconcile.cpp): the *)
(* rules by which a deletion is ordered against a file, remembered,        *)
(* forgotten and taken over from a peer, and by which one node finds what  *)
(* another one lacks.                                                      *)
(*                                                                         *)
(* A std::map from paths to a moment is a function that is None where the  *)
(* map has no entry.  File times and deletion times are ticks of one wall  *)
(* clock: beats() brings both sides to the wire form before it compares    *)
(* them (utils::to_ticks).                                                 *)
(***************************************************************************)
EXTENDS Integers

CONSTANTS
    Paths,          \* the file names under the sync root
    TombstoneTtl    \* reconcile::tombstone_ttl, in ticks

ASSUME TtlAssumption == TombstoneTtl \in Nat

None == -1
Time == Nat
MaybeTime == Time \cup {None}

\* files::file_map_t and reconcile::tombstone_map_t.
TimeMap == [Paths -> MaybeTime]
EmptyMap == [p \in Paths |-> None]

\* A deletion beats a file only if it is strictly newer.
beats(deleted, written) == deleted > written

\* Records a deletion, keeping the later moment if there already is one.
mark(tombstones, path, deleted) ==
    [tombstones EXCEPT ![path] = IF @ < deleted THEN deleted ELSE @]

\* Faulty variant: the time to live is reached, not outlived.
Faulty_expire(tombstones, now) ==
    [p \in Paths |->
        IF tombstones[p] # None /\ now - tombstones[p] >= TombstoneTtl
        THEN None ELSE tombstones[p]]

\* Forgets the deletions that have outlived the time to live.
expire(tombstones, now) ==
    [p \in Paths |->
        IF tombstones[p] # None /\ now - tombstones[p] > TombstoneTtl
        THEN None ELSE tombstones[p]]

\* Faulty variant: the times of the files are left out of the hash.
Faulty_hash(held, deleted) ==
    [held |-> {p \in Paths : held[p] # None}, deleted |-> deleted]

\* The root hash: injective in the listing and the deletions, which are
\* hashed apart.  It does not cover the contents of the files.
hash(held, deleted) == [held |-> held, deleted |-> deleted]
Hash == [held : TimeMap, deleted : TimeMap]

\* Faulty variant: only a path unknown here is news, whatever its moment.
Faulty_adoptable_unknown(theirs, held, mine, now) ==
    {p \in Paths :
        /\ theirs[p] # None
        /\ mine[p] = None
        /\ now - theirs[p] <= TombstoneTtl
        /\ held[p] # None => beats(theirs[p], held[p])}

\* Faulty variant: the file here is not compared with the deletion.
Faulty_adoptable_undated(theirs, held, mine, now) ==
    {p \in Paths :
        /\ theirs[p] # None
        /\ mine[p] # None => mine[p] < theirs[p]
        /\ now - theirs[p] <= TombstoneTtl}

\* The paths whose deletion, as a peer's digest tells it, is news here.
adoptable(theirs, held, mine, now) ==
    {p \in Paths :
        /\ theirs[p] # None
        /\ mine[p] # None => mine[p] < theirs[p]
        /\ now - theirs[p] <= TombstoneTtl
        /\ held[p] # None => beats(theirs[p], held[p])}

\* Faulty variant: an older copy is not a gap.
Faulty_gaps_absent(mine, tombstones, theirs) ==
    {p \in Paths :
        /\ mine[p] # None
        /\ tombstones[p] # None => ~ beats(tombstones[p], mine[p])
        /\ theirs[p] = None}

\* The paths held here, and not dead here, that a peer lacks or holds older.
gaps(mine, tombstones, theirs) ==
    {p \in Paths :
        /\ mine[p] # None
        /\ tombstones[p] # None => ~ beats(tombstones[p], mine[p])
        /\ theirs[p] = None \/ theirs[p] < mine[p]}

\* Faulty variant: a peer that agrees is asked as well.
Faulty_candidates(peers, mine) == {h.sender : h \in peers}

\* Faulty variant: the listings are compared only if the deletions agree.
Faulty_candidates_undeleted(peers, mine) ==
    {h.sender : h \in {g \in peers : g.hashes.deleted = mine.deleted /\ g.hashes # mine}}

\* The peers Partner::pick draws among: those whose last hash is not ours.
\* "peers" is the state_map_t, a set of entries with one entry a sender.
candidates(peers, mine) == {h.sender : h \in {g \in peers : g.hashes # mine}}

\* The ladder of repairs, without its moments: every gap not yet waiting is
\* taken on, and of what waits any part may be due, taken out together.
arm(waiting, missing) == waiting \cup missing
Due(waiting) == (SUBSET waiting) \ {{}}

=============================================================================
