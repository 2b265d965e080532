-------------------------- MODULE MCProjectRefresh --------------------------
(* Small instances of ProjectRefresh for TLC. *)
EXTENDS ProjectRefresh, TLC

CONSTANTS r1, d1, o1, o2

MCSymmetry == Permutations(Options)
=============================================================================
