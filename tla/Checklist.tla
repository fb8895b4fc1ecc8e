----------------------------- MODULE Checklist -----------------------------
(***************************************************************************)
(* What a resumable experiment promises: whatever interrupts it and        *)
(* however often it is started again, its log is the plan read from the    *)
(* front, each cell once.                                                  *)
(***************************************************************************)
EXTENDS Naturals, Sequences

CONSTANT CellCount

VARIABLE log

Init == log = <<>>

Record ==
    /\ Len(log) < CellCount
    /\ log' = Append(log, Len(log) + 1)

Spec == Init /\ [][Record]_log

=============================================================================
