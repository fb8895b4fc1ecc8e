------------------------------- MODULE Ladder -------------------------------
(***************************************************************************)
(* The ladder of repairs with its moments (reconcile::arm and ::due): when *)
(* each gap that waits is due.  Swarm keeps only which gaps wait.          *)
(*                                                                         *)
(* repairs_t::pending is a function from the paths that wait to moments of *)
(* the steady clock, in milliseconds.  The vector of missing paths is the  *)
(* place of each path in it: gaps and due list each path once.             *)
(***************************************************************************)
EXTENDS Reconcile, FiniteSetsExt

pace == 20

Ladders == UNION {[S -> Nat] : S \in {T \in SUBSET Paths : IsFiniteSet(T)}}
Vectors == {v \in Ladders : \A p, q \in DOMAIN v : v[p] = v[q] => p = q}

\* Behind everything that waits.
next_rung(ladder, now) ==
    Max({now} \cup {ladder[p] + pace : p \in DOMAIN ladder})

\* A gap that waits keeps its moment; the others follow, a pace apart.
arm_ladder(ladder, missing, now) ==
    LET fresh    == DOMAIN missing \ DOMAIN ladder
        ahead(p) == {q \in fresh : missing[q] < missing[p]}
    IN  [p \in DOMAIN ladder \cup DOMAIN missing |->
            IF p \in DOMAIN ladder THEN ladder[p]
            ELSE next_rung(ladder, now) + pace * Cardinality(ahead(p))]

\* The repairs whose wait is over, and the ladder without some of its paths.
due_rungs(ladder, now) == {p \in DOMAIN ladder : ladder[p] <= now}
without(ladder, gone) == [p \in DOMAIN ladder \ gone |-> ladder[p]]

\* What publish_repairs leaves behind when "waiting" of the paths due have no
\* announcement in hand and cannot be read off disk in this iteration.
publish_ladder(ladder, waiting, now) ==
    arm_ladder(without(ladder, due_rungs(ladder, now)), waiting, now)

\* The paths of a ladder come up one pace apart, none before "since".
Spaced(ladder, since) ==
    /\ \A p \in DOMAIN ladder : ladder[p] >= since
    /\ \A p, q \in DOMAIN ladder :
        p # q => ladder[p] - ladder[q] >= pace \/ ladder[q] - ladder[p] >= pace

=============================================================================
