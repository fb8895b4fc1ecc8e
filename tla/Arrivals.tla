----------------------------- MODULE Arrivals -----------------------------
(***************************************************************************)
(* What a probe of a cluster promises, whatever loop it runs: a node is    *)
(* reported when the file is there in full and at no other moment, once    *)
(* and for good, and the report is closed only when every node is in it or *)
(* the deadline has passed.                                                *)
(***************************************************************************)
CONSTANT Nodes

VARIABLES
    phase,      \* "idle", "open" while the probe looks, "told" once it has reported
    held,       \* the nodes that hold the file in full at this moment
    late,       \* the deadline has passed
    reported    \* the nodes reported to have it

report == <<phase, reported>>

Init == phase = "idle" /\ reported = {}

\* A new probe begins with nothing reported.
Open == phase = "idle" /\ phase' = "open" /\ reported' = {}

Report(n) ==
    /\ phase = "open"
    /\ n \in held \ reported
    /\ reported' = reported \cup {n}
    /\ UNCHANGED phase

Tell ==
    /\ phase = "open"
    /\ reported = Nodes \/ late
    /\ phase' = "told"
    /\ UNCHANGED reported

\* The report has been read, or whoever asked for it is gone.
Leave == phase # "idle" /\ phase' = "idle" /\ reported' = {}

Next == Open \/ Tell \/ Leave \/ \E n \in Nodes : Report(n)

\* The files come and go without the probe's doing.
Spec == Init /\ [][Next]_report

=============================================================================
