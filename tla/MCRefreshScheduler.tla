------------------------- MODULE MCRefreshScheduler -------------------------
(* Small instances of RefreshScheduler for TLC. *)
EXTENDS RefreshScheduler, TLC

CONSTANTS p1, p2, manual, r1, r2, w1, w2

MCSymmetry == Permutations({p1, p2}) \cup Permutations({r1, r2}) \cup Permutations({w1, w2})
=============================================================================
