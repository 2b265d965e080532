-------------------------- MODULE MCExtractorRuns --------------------------
(* Small instances of ExtractorRuns for TLC: all starts in one second, so that
   they, like the requests, may be permuted. *)
EXTENDS ExtractorRuns, TLC

CONSTANTS s1, s2, q1, q2, r1

MCSecondOf == [s \in Starts |-> 1]
MCSymmetry == Permutations(Starts) \cup Permutations(Requests)
=============================================================================
