------------------------------- MODULE Poller -------------------------------
(***************************************************************************)
(* src/tools/measure/bucketfs/poller.py: what one look at a node's copy    *)
(* says, and the loop that looks at every node until all have been seen or *)
(* the deadline has passed.  watch, watch_absent and the two wait_ready of *)
(* the cluster scripts are this loop around different looks.               *)
(*                                                                         *)
(* A copy is the payload it holds, numbered in the order the payloads were *)
(* made, and how much of it is there.  A tree of files (experiment B) is   *)
(* one copy: whole when every file of it is.                               *)
(***************************************************************************)
EXTENDS Integers, FiniteSets

CONSTANT NodeCount   \* the nodes of a cluster, N

ASSUME NodeCountAssumption == NodeCount \in Nat \ {0, 1}

\* The ids count up from the first; every loop over nodes goes in this order.
Nodes == 1 .. NodeCount
First(S) == CHOOSE n \in S : \A m \in S : n <= m

\* "growing": being written in place, shorter than it should be.  "sparse":
\* allocated by libtorrent at its full size, with bytes still missing.  "mixed":
\* the payload is being written over an older one, whose blocks are all there.
Copy == [payload : Nat, fill : {"none", "growing", "sparse", "mixed", "whole"}]
Missing == [payload |-> 0, fill |-> "none"]

-----------------------------------------------------------------------------
(* One look.                                                               *)

\* file_size, as watch_absent uses it: anything but -1.
there(c) == c.fill # "none"

\* st_size alone, the check that complete() replaced.
Faulty_complete(c) == c.fill \in {"sparse", "mixed", "whole"}

\* complete, and tree_size with its count: size and allocated blocks, which
\* cannot tell a copy that is overwritten in place from one that is whole.
complete(c) == c.fill \in {"mixed", "whole"}

\* What hashing node n's copy yields.  Two nodes that hold the same payload in
\* full agree; a copy that is not whole hashes like no other.
sha256(n, c) == [payload |-> c.payload, torn |-> IF c.fill = "whole" THEN 0 ELSE n]

-----------------------------------------------------------------------------
(* The loop.                                                               *)

VARIABLES
    pending,   \* the nodes not yet seen
    todo,      \* the nodes this pass has still to look at
    expired    \* the deadline has passed

wait == <<pending, todo, expired>>

\* Ids counted from zero.
Faulty_BeginWait(nodes) ==
    /\ pending' = {n - 1 : n \in nodes}
    /\ todo' = {}
    /\ expired' = FALSE

BeginWait(nodes) ==
    /\ pending' = nodes
    /\ todo' = {}
    /\ expired' = FALSE

\* While anything is pending.
Faulty_BeginPass ==
    /\ todo = {}
    /\ pending # {}
    /\ todo' = pending
    /\ UNCHANGED <<pending, expired>>

\* The head of the loop: the only place the clock is read.
BeginPass ==
    /\ todo = {}
    /\ pending # {}
    /\ ~expired
    /\ todo' = pending
    /\ UNCHANGED <<pending, expired>>

\* The next node of the pass is looked at, and seen or not.
Look(n, seen) ==
    /\ todo # {}
    /\ n = First(todo)
    /\ todo' = todo \ {n}
    /\ pending' = IF seen THEN pending \ {n} ELSE pending
    /\ UNCHANGED expired

WaitOver ==
    /\ todo = {}
    /\ pending = {} \/ expired

\* Time goes on while the loop looks and sleeps.
DeadlinePasses ==
    /\ ~expired
    /\ expired' = TRUE
    /\ UNCHANGED <<pending, todo>>

\* A loop over every node that waits for nothing.
ForEachNode ==
    /\ pending' = {}
    /\ todo' = Nodes
    /\ expired' = FALSE

=============================================================================
