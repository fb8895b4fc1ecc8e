------------------------------ MODULE MCTables ------------------------------
(***************************************************************************)
(* Instances of Tables for TLC: a plan with every arm, the two node counts *)
(* the requirements compare, two file counts and the plain file.           *)
(***************************************************************************)
EXTENDS Tables

OfA(arm, nodes, size) ==
    [experiment |-> "A", arm |-> arm, nodes |-> nodes, size |-> size, count |-> 1]
OfB(count) ==
    [experiment |-> "B", arm |-> <<"syncfs", "default">>, nodes |-> 2, size |-> SMALL_FILE,
     count |-> count]

SmallPlan ==
    {OfA(<<"syncfs", "default">>, 10, KIB), OfA(<<"syncfs", "default">>, 10, GIB),
     OfA(<<"syncfs", "default">>, 20, GIB),
     OfA(<<"bucketfs", "default">>, 2, GIB), OfA(<<"bucketfs", "tuned">>, 2, GIB),
     OfB(100), OfB(1000),
     [experiment |-> "C", arm |-> <<"plainfile", "baseline">>, nodes |-> 0, size |-> GIB,
      count |-> 1]}

=============================================================================
