------------------------ MODULE MCRepositoryLimiter ------------------------
(* Small instances of RepositoryLimiter for TLC. *)
EXTENDS RepositoryLimiter, TLC

CONSTANTS p1, p2, o1, o2, o3, a1, a2

\* Two operations of p1, one of p2.
MCProjectOf == (o1 :> p1) @@ (o2 :> p1) @@ (o3 :> p2)
=============================================================================
