---------------------------- MODULE MCGraphRuns ----------------------------
(* Small instances of GraphRuns for TLC. *)
EXTENDS GraphRuns, TLC

CONSTANTS g1, g2, c1, c2, s1
=============================================================================
