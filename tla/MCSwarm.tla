------------------------------ MODULE MCSwarm ------------------------------
(***************************************************************************)
(* Instances of Swarm for TLC: two daemons, a and b, and one or two paths. *)
(* A configuration names the budget of events it is about.  Every run also *)
(* evaluates LadderIsLoop, on ladders of up to three gaps.                 *)
(***************************************************************************)
EXTENDS Swarm, Ladder, TLC

CONSTANTS a, b, f, g

\* No event happens but those given, each as often as given.
Only(given) == given @@ [e \in Events |-> 0]

BudgetLoop      == Only([write |-> 1, delete |-> 1])
BudgetAging     == Only([delete |-> 1, restore |-> 1, tick |-> 1, short |-> 1])
BudgetRestore   == Only([delete |-> 1, restore |-> 1])
BudgetShort     == Only([write |-> 1, short |-> 1])
BudgetTwoWrites == Only([write |-> 2])

\* One of three mishaps, chosen at the start: any one message lost after an edit
\* or after one deletion or two, or a daemon that stops once.  BudgetMend is what
\* they have in common as a bound.
Mishaps    == {Only([write |-> 1, lose |-> 1]), Only([delete |-> 2, lose |-> 1]),
               Only([write |-> 1, crash |-> 1])}
BudgetMend == Only([write |-> 1, delete |-> 2, lose |-> 1, crash |-> 1])
MendInit   == Started /\ budget \in Mishaps
MendSpec   == MendInit /\ [][Next]_vars /\ Fairness

\* Both nodes, and both paths, start out alike.
Symmetry == Permutations(Nodes) \cup Permutations(Paths)

-----------------------------------------------------------------------------
SeqExt == INSTANCE SequencesExt

\* reconcile::arm as its loop goes through the vector.
arm_loop(ladder, vector, now) ==
    LET place(so_far, path) ==
            IF path \in DOMAIN so_far.ladder THEN so_far
            ELSE [ladder |-> so_far.ladder @@ (path :> so_far.next),
                  next   |-> so_far.next + pace]
    IN  SeqExt!FoldLeft(place, [ladder |-> ladder, next |-> next_rung(ladder, now)],
                        vector).ladder

Gaps    == 1..3
Moments == {0, 7, 20, 45}
Distinct == {v \in SeqExt!SeqOf(Gaps, 3) : \A i, j \in DOMAIN v : v[i] = v[j] => i = j}
PlaceIn(v) == [p \in {v[i] : i \in DOMAIN v} |-> CHOOSE i \in DOMAIN v : v[i] = p]

\* arm_ladder says at once what the loop of reconcile::arm comes to, and what
\* comes up at a moment is in step with the pace.
ASSUME LadderIsLoop ==
    \A ladder \in UNION {[S -> Moments] : S \in SUBSET Gaps}, now \in Moments :
        /\ \A v \in Distinct :
            /\ arm_ladder(ladder, PlaceIn(v), now) = arm_loop(ladder, v, now)
            /\ Spaced(ladder, 0) => Spaced(arm_ladder(ladder, PlaceIn(v), now), 0)
        /\ Spaced(ladder, 0) =>
            Cardinality(due_rungs(ladder, now)) <= now \div pace + 1

=============================================================================
