------------------------------- MODULE Files -------------------------------
(***************************************************************************)
(* How a traversal turns two listings of the tree into the changes a node  *)
(* announces: create_diff and local_changes of src/src/syncfs.cpp, on the  *)
(* set operations of src/src/files.cpp.                                    *)
(***************************************************************************)
EXTENDS Reconcile

\* Entries of left that are not entries of right (files::diff), entries of
\* left whose name right does not have (files::diff_name), and entries of
\* left whose name right has (files::intersection_name).
diff(left, right) ==
    [p \in Paths |-> IF left[p] # right[p] THEN left[p] ELSE None]
diff_name(left, right) ==
    [p \in Paths |-> IF right[p] = None THEN left[p] ELSE None]
intersection_name(left, right) ==
    [p \in Paths |-> IF right[p] # None THEN left[p] ELSE None]

Names(m) == {p \in Paths : m[p] # None}

\* Faulty variant: an edited file counts as removed as well.
Faulty_create_diff(former, current) ==
    LET removed  == diff(former, current)
        created  == diff(current, former)
        modified == intersection_name(removed, created)
    IN  [removed  |-> Names(removed),
         created  |-> Names(diff_name(created, modified)),
         modified |-> Names(modified)]

create_diff(former, current) ==
    LET removed  == diff(former, current)
        created  == diff(current, former)
        modified == intersection_name(removed, created)
    IN  [removed  |-> Names(diff_name(removed, modified)),
         created  |-> Names(diff_name(created, modified)),
         modified |-> Names(modified)]

\* A file still as libtorrent left it is the echo of a transfer.
is_echo(p, written, current) ==
    written[p] # None /\ written[p] = current[p]

\* Faulty variant: a file that came back is new, however old it is.
Faulty_loses_to_tombstone(p, tombstones, current) == FALSE

\* A file that came back no newer than the deletion this node remembers.
loses_to_tombstone(p, tombstones, current) ==
    tombstones[p] # None /\ beats(tombstones[p], current[p])

\* Faulty variant: a deletion a peer asked for is published again.
Faulty_local_changes(former, current, written, tombstones, noticed) ==
    LET d       == create_diff(former, current)
        fresh   == {p \in d.created \cup d.modified : ~ is_echo(p, written, current)}
        put     == {p \in fresh : ~ loses_to_tombstone(p, tombstones, current)}
    IN  [put        |-> put,
         removed    |-> d.removed,
         tombstones |-> [p \in Paths |->
                            IF p \in d.removed THEN noticed
                            ELSE IF p \in put THEN None
                            ELSE tombstones[p]]]

(***************************************************************************)
(* The changes worth announcing, and the tombstones after they were found: *)
(* a file at least as new as its tombstone cancels it, and a path that     *)
(* vanished without a tombstone is this node's own deletion.               *)
(***************************************************************************)
local_changes(former, current, written, tombstones, noticed) ==
    LET d       == create_diff(former, current)
        fresh   == {p \in d.created \cup d.modified : ~ is_echo(p, written, current)}
        put     == {p \in fresh : ~ loses_to_tombstone(p, tombstones, current)}
        removed == {p \in d.removed : tombstones[p] = None}
    IN  [put        |-> put,
         removed    |-> removed,
         tombstones |-> [p \in Paths |->
                            IF p \in removed THEN noticed
                            ELSE IF p \in put THEN None
                            ELSE tombstones[p]]]

\* forget_spent_marks, the part of it about the transfers' snapshots.
still_listed(written, current) ==
    [p \in Paths |-> IF current[p] = None THEN None ELSE written[p]]

=============================================================================
