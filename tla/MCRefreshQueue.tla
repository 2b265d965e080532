--------------------------- MODULE MCRefreshQueue ---------------------------
(* Small instances of RefreshQueue for TLC. *)
EXTENDS RefreshQueue, TLC

CONSTANTS
    p1, p2, manual, d1, g1, r1, r2, r3,
    MaxAttempts     \* bound: attempts of all jobs together

\* Ids are random and projects are alike, so both may be permuted.
MCSymmetry == Permutations({p1, p2}) \cup Permutations({r1, r2, r3})

\* One job comes to its ceiling while others wait or were cancelled waiting, or
\* three have had an attempt each; a state beyond is checked, not continued.
MCFewAttempts ==
    Cardinality(UNION {{id} \X DOMAIN jobs[id].attempts : id \in Recorded}) <= MaxAttempts
=============================================================================
