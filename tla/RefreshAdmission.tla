-------------------------- MODULE RefreshAdmission --------------------------
(***************************************************************************)
(* What the refresh queue promises, with its bookkeeping left out: a set   *)
(* of at most Capacity admitted requests, of which at most one per project *)
(* executes at any time.  A request leaves by being settled, may be        *)
(* admitted again only against free capacity, and never again once it has  *)
(* been achieved.  RefreshQueue implements this specification.             *)
(***************************************************************************)
EXTENDS Integers, FiniteSets

CONSTANTS Projects, Requests, Capacity

VARIABLES
    waiting,     \* admitted <<project, request>> pairs not executing
    executing,   \* admitted pairs being executed
    given_up,    \* settled pairs that may be admitted again
    achieved     \* settled pairs whose work was done

admissionVars == <<waiting, executing, given_up, achieved>>

Pair    == Projects \X Requests
HasRoom == Cardinality(waiting \cup executing) < Capacity

Init == waiting = {} /\ executing = {} /\ given_up = {} /\ achieved = {}

Admit(r) ==
    /\ HasRoom
    /\ r \notin waiting \cup executing \cup achieved
    /\ waiting' = waiting \cup {r}
    /\ given_up' = given_up \ {r}
    /\ UNCHANGED <<executing, achieved>>

Start(r) ==
    /\ r \in waiting
    /\ \A other \in executing : other[1] # r[1]
    /\ waiting' = waiting \ {r}
    /\ executing' = executing \cup {r}
    /\ UNCHANGED <<given_up, achieved>>

\* The work is put back and keeps its place among the admitted.
Yield(r) ==
    /\ r \in executing
    /\ executing' = executing \ {r}
    /\ waiting' = waiting \cup {r}
    /\ UNCHANGED <<given_up, achieved>>

GiveUp(r) ==
    /\ r \in waiting \cup executing
    /\ waiting' = waiting \ {r}
    /\ executing' = executing \ {r}
    /\ given_up' = given_up \cup {r}
    /\ UNCHANGED achieved

Achieve(r) ==
    /\ r \in executing
    /\ executing' = executing \ {r}
    /\ achieved' = achieved \cup {r}
    /\ UNCHANGED <<waiting, given_up>>

Next == \E r \in Pair : Admit(r) \/ Start(r) \/ Yield(r) \/ GiveUp(r) \/ Achieve(r)

Spec == Init /\ [][Next]_admissionVars

=============================================================================
