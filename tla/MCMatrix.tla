------------------------------ MODULE MCMatrix ------------------------------
(***************************************************************************)
(* Instances of Matrix for TLC: two nodes and a plan of two cells.         *)
(***************************************************************************)
EXTENDS Matrix

\* Two cells on one cluster.
OneArm == <<1, 1>>

=============================================================================
