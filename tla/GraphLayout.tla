---------------------------- MODULE GraphLayout ----------------------------
(***************************************************************************)
(* The ranks a saved architecture graph is drawn with                      *)
(* (internal/workspace/archgraph: buildLayout, layoutConstraints,          *)
(* layoutRanks).  The edges become constraints one after the other, those  *)
(* of data that is read turned round, and one that would close a cycle is  *)
(* dropped; then passes over the constraints push nodes to the right until *)
(* nothing moves, or as many passes were made as there are nodes.          *)
(*                                                                         *)
(* Edges and constraints are taken in any order, of which the sorted one   *)
(* of the code is one.  The order of the nodes of one rank, their sizes    *)
(* and their clusters are left out.                                        *)
(***************************************************************************)
EXTENDS ArchitectureGraph

VARIABLES
    wanted,     \* constraints not yet looked at: <<left node, right node>>
    kept,       \* constraints the ranks must satisfy
    dropped,    \* constraints that would have closed a cycle
    nodes,      \* the nodes of the graph
    rank,
    left,       \* constraints the pass has still to look at
    passes,     \* passes made
    moved,      \* the pass has moved a node
    drawing     \* "none", "constraints", "ranks" or "ranked"

layout == <<wanted, kept, dropped, nodes, rank, left, passes, moved, drawing>>

InitLayout ==
    /\ wanted = {} /\ kept = {} /\ dropped = {} /\ nodes = {} /\ rank = << >>
    /\ left = {} /\ passes = 0 /\ moved = FALSE /\ drawing = "none"

DropLayout ==
    /\ wanted' = {} /\ kept' = {} /\ dropped' = {} /\ nodes' = {} /\ rank' = << >>
    /\ left' = {} /\ passes' = 0 /\ moved' = FALSE /\ drawing' = "none"

\* The label of a data edge says whether the data is read.
Wanted(e, read) == IF e \in read THEN <<e.to, e.from>> ELSE <<e.from, e.to>>

BeginLayout(edges) ==
    /\ drawing = "none"
    /\ \E read \in SUBSET {e \in edges : e.to \in Resources} :
           wanted' = {Wanted(e, read) : e \in edges}
    /\ nodes' = Services \cup UNION {{e.from, e.to} : e \in edges}
    /\ rank' = [n \in nodes' |-> 0]
    /\ drawing' = "constraints"
    /\ UNCHANGED <<kept, dropped, left, passes, moved>>

Reaches(constraints, from, to) ==
    to \in Within([n \in nodes |-> {c[2] : c \in {x \in constraints : x[1] = n}}], {from}, Cardinality(nodes))

Constrain ==
    /\ drawing = "constraints"
    /\ \E c \in wanted :
        /\ wanted' = wanted \ {c}
        /\ IF Reaches(kept, c[2], c[1])
           THEN dropped' = dropped \cup {c} /\ UNCHANGED kept
           ELSE kept' = kept \cup {c} /\ UNCHANGED dropped
    /\ UNCHANGED <<nodes, rank, left, passes, moved, drawing>>

BeginRanks ==
    /\ drawing = "constraints" /\ wanted = {}
    /\ left' = kept /\ drawing' = "ranks"
    /\ UNCHANGED <<wanted, kept, dropped, nodes, rank, passes, moved>>

Push ==
    /\ drawing = "ranks"
    /\ \E c \in left :
        /\ left' = left \ {c}
        /\ IF rank[c[2]] < rank[c[1]] + 1
           THEN rank' = [rank EXCEPT ![c[2]] = rank[c[1]] + 1] /\ moved' = TRUE
           ELSE UNCHANGED <<rank, moved>>
    /\ UNCHANGED <<wanted, kept, dropped, nodes, passes, drawing>>

\* Mutant of Enough: two passes are taken for enough.
TwoAreEnough == ~moved \/ passes + 1 = 2

Enough == ~moved \/ passes + 1 = Cardinality(nodes)

EndPass ==
    /\ drawing = "ranks" /\ left = {}
    /\ IF Enough
       THEN drawing' = "ranked" /\ UNCHANGED <<left, passes, moved>>
       ELSE left' = kept /\ passes' = passes + 1 /\ moved' = FALSE /\ UNCHANGED drawing
    /\ UNCHANGED <<wanted, kept, dropped, nodes, rank>>

LayoutStep == Constrain \/ BeginRanks \/ Push \/ EndPass
-----------------------------------------------------------------------------
(***************************************************************************)
(* When the ranks are done, every constraint that was kept points to the   *)
(* right, a dropped one would have closed a cycle of such constraints, and *)
(* no node stands further right than the longest chain before it demands:  *)
(* the number of passes is enough, in whatever order the edges come.       *)
(***************************************************************************)
EdgesPointRight ==
    drawing = "ranked" =>
        /\ \A c \in kept : rank[c[1]] < rank[c[2]]
        /\ \A c \in dropped : Reaches(kept, c[2], c[1])
        /\ \A n \in nodes : rank[n] > 0 => \E c \in kept : c[2] = n /\ rank[c[1]] = rank[n] - 1
=============================================================================
