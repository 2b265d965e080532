------------------------- MODULE MCArchitectureRun -------------------------
(* Small instances of ArchitectureRun for TLC. *)
EXTENDS ArchitectureRun, TLC

CONSTANTS a, b, c, q, t, db, os, pk, pl, cx, cy, cm, cn

MCSymmetry == Permutations({a, b, c}) \cup Permutations({q, t})
=============================================================================
