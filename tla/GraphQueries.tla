---------------------------- MODULE GraphQueries ----------------------------
(***************************************************************************)
(* The walks over a saved architecture graph: the dependency path of       *)
(* internal/workspace/query/trace.go, and the impact and the flow view of  *)
(* internal/workspace/archgraph.  Each is a breadth-first search with a    *)
(* depth limit and a node budget that says how much its answer is worth;   *)
(* one action takes the head of its queue, another follows one edge.       *)
(*                                                                         *)
(* The edges of a node are followed in any order, of which the sorted one  *)
(* of the code is one.  In a flow view an edge may enter a service at the  *)
(* entrypoint it was matched to (entered), and a visit to an entrypoint or *)
(* to a whole service may have connections of it, which perform some of    *)
(* the edges that leave the service (performed: visit -> edges, for the    *)
(* visits that have one); one entrypoint per service stands for all.       *)
(***************************************************************************)
EXTENDS ArchitectureGraph, Sequences

CONSTANTS
    Depths,       \* the depth limits asked for
    Budgets,      \* the node budgets asked for
    SubHops       \* subscription hops a flow follows between queues

(* None is no visit. *)
ASSUME QueryAssumption ==
    /\ Depths \subseteq Nat /\ Budgets \subseteq Nat /\ SubHops \in Nat
    /\ None \notin [at : Nodes, entry : {None, "entry"}, depth : Nat]

VARIABLES
    graph,      \* the edges of the saved graph
    entered, performed,
    query,      \* the query under way
    queue,      \* what is still to be visited: <<[at, entry, depth]>>
    current,    \* what is being visited
    pending,    \* the edges still to be followed, with their hops between queues
    seen,       \* the nodes (path, impact) or visits (flow) met
    reached,    \* the depth at which a service was met (impact, flow)
    parents,    \* the edge each node was met by (path)
    shown,      \* the nodes in the answer (impact, flow)
    links,      \* the edges in the answer (impact, flow)
    cut,        \* something was left out: limited, truncated
    status

walk    == <<queue, current, pending, seen, reached, parents, shown, links, cut>>
queries == <<graph, entered, performed, query, walk, status>>

Visit(n, x, d) == [at |-> n, entry |-> x, depth |-> d]
Out(n) == {e \in graph : e.from = n}
Unhopped(E) == {[edge |-> e, hops |-> 0] : e \in E}

Query ==
    [kind : {"path"}, from : Nodes, to : Nodes, entry : {None}, depth : Depths, budget : Budgets]
    \cup [kind : {"impact"}, from : Nodes, to : {None}, entry : {None}, depth : Depths, budget : Budgets]
    \cup [kind : {"flow"}, from : Services, to : {None}, entry : {None, "entry"}, depth : Depths, budget : Budgets]

InitQueries ==
    /\ graph = {} /\ entered = {} /\ performed = << >>
    /\ query = None /\ status = "none"
    /\ queue = <<>> /\ current = None /\ pending = {} /\ seen = {} /\ reached = <<>>
    /\ parents = <<>> /\ shown = {} /\ links = {} /\ cut = FALSE

(* A query starts at its first node; a node the graph does not have is     *)
(* refused, and a path to itself needs no search.                          *)
Ask(q) ==
    /\ query' = q
    /\ status' = IF q.from = q.to THEN "found" ELSE "running"
    /\ queue' = <<Visit(q.from, q.entry, 0)>>
    /\ current' = None /\ pending' = {} /\ links' = {}
    /\ cut' = (q.kind = "impact" /\ q.from \in Services /\ q.budget <= 1)
    /\ seen' = IF q.kind = "flow" THEN {} ELSE {q.from}
    /\ shown' = IF q.kind = "impact" THEN {q.from} ELSE {}
    /\ reached' = IF q.kind = "impact" THEN [n \in {q.from} \cap Services |-> 0] ELSE <<>>
    /\ parents' = <<>>

Stop(s) == status' = s /\ queue' = <<>> /\ pending' = {}

Walking(kind) == status = "running" /\ query.kind = kind
AtHead(kind)  == Walking(kind) /\ pending = {} /\ queue # <<>>
AtEnd(kind)   == Walking(kind) /\ pending = {} /\ queue = <<>>

(* addNode: a full answer takes no node and says so, even when the node is *)
(* already in it.  The depth of a service is kept all the same.            *)
Full(nodes) == Cardinality(nodes) >= query.budget
Added(nodes, n) == IF Full(nodes) THEN nodes ELSE nodes \cup {n}
Show(n, d) ==
    /\ shown' = Added(shown, n)
    /\ reached' = [m \in DOMAIN reached \cup ({n} \cap Services) |->
                    IF m = n /\ (n \in DOMAIN reached => d < reached[n]) THEN d ELSE reached[m]]
-----------------------------------------------------------------------------
(***************************************************************************)
(* FindPath.  A neighbour not yet seen is never entered beyond the depth   *)
(* limit, which makes the answer "limited"; the budget ends the search.    *)
(***************************************************************************)
PathVisit ==
    /\ AtHead("path")
    /\ current' = Head(queue) /\ queue' = Tail(queue)
    /\ pending' = Unhopped(Out(Head(queue).at))
    /\ UNCHANGED <<graph, entered, performed, query, seen, reached, parents, shown, links, cut, status>>

FollowPath ==
    /\ Walking("path")
    /\ \E p \in pending : LET e == p.edge IN
        \/ /\ e.to \in seen
           /\ pending' = pending \ {p}
           /\ UNCHANGED <<queue, seen, parents, cut, status>>
        \/ /\ e.to \notin seen /\ current.depth >= query.depth
           /\ pending' = pending \ {p} /\ cut' = TRUE
           /\ UNCHANGED <<queue, seen, parents, status>>
        \/ /\ e.to \notin seen /\ current.depth < query.depth
           /\ Cardinality(seen) >= query.budget
           /\ Stop("limited")
           /\ UNCHANGED <<seen, parents, cut>>
        \/ /\ e.to \notin seen /\ current.depth < query.depth
           /\ Cardinality(seen) < query.budget
           /\ seen' = seen \cup {e.to}
           /\ parents' = [n \in DOMAIN parents \cup {e.to} |-> IF n = e.to THEN e ELSE parents[n]]
           /\ IF e.to = query.to
              THEN Stop("found")
              ELSE /\ queue' = Append(queue, Visit(e.to, None, current.depth + 1))
                   /\ pending' = pending \ {p} /\ UNCHANGED status
           /\ UNCHANGED cut
    /\ UNCHANGED <<graph, entered, performed, query, current, reached, shown, links>>

(* Mutant: a search that met its limits claims absence. *)
PathEndsUnlimited ==
    /\ AtEnd("path")
    /\ status' = "not_found"
    /\ UNCHANGED <<graph, entered, performed, query, walk>>

PathEnds ==
    /\ AtEnd("path")
    /\ status' = IF cut THEN "limited" ELSE "not_found"
    /\ UNCHANGED <<graph, entered, performed, query, walk>>
-----------------------------------------------------------------------------
(***************************************************************************)
(* BuildImpactView: what is affected by a change of a node.  Calls and     *)
(* data accesses are followed against their direction, messages with it.   *)
(* A service is added twice: the one that fills the answer cuts it.        *)
(***************************************************************************)
Affected(n) == {e \in graph : \/ e.type \in Forward /\ e.from = n
                              \/ e.type \in Reverse /\ e.to = n}
Other(e) == IF e.type \in Forward THEN e.to ELSE e.from

ImpactCut ==      \* at the depth limit: the node is not expanded
    /\ AtHead("impact") /\ Head(queue).depth >= query.depth
    /\ queue' = Tail(queue) /\ cut' = TRUE
    /\ UNCHANGED <<graph, entered, performed, query, current, pending, seen, reached, parents, shown, links, status>>

ImpactFull ==     \* at the node budget: the walk ends
    /\ AtHead("impact") /\ Head(queue).depth < query.depth /\ Full(shown)
    /\ queue' = <<>> /\ cut' = TRUE
    /\ UNCHANGED <<graph, entered, performed, query, current, pending, seen, reached, parents, shown, links, status>>

ImpactVisit ==
    /\ AtHead("impact") /\ Head(queue).depth < query.depth /\ ~Full(shown)
    /\ current' = Head(queue) /\ queue' = Tail(queue)
    /\ Show(Head(queue).at, Head(queue).depth)
    /\ pending' = Unhopped(Affected(Head(queue).at))
    /\ UNCHANGED <<graph, entered, performed, query, seen, parents, links, cut, status>>

FollowImpact ==
    /\ Walking("impact")
    /\ \E p \in pending :
        LET e == p.edge  n == Other(e) IN
        /\ pending' = pending \ {p}
        /\ Show(n, current.depth + 1)
        /\ cut' = (cut \/ Full(shown) \/ (n \in Services /\ Full(Added(shown, n))))
        /\ links' = links \cup {e}
        /\ seen' = seen \cup {n}
        /\ queue' = IF n \in seen THEN queue ELSE Append(queue, Visit(n, None, current.depth + 1))
    /\ UNCHANGED <<graph, entered, performed, query, current, parents, status>>

ImpactEnds ==
    /\ AtEnd("impact")
    /\ status' = IF cut THEN "truncated" ELSE "complete"
    /\ UNCHANGED <<graph, entered, performed, query, walk>>
-----------------------------------------------------------------------------
(***************************************************************************)
(* BuildFlowView: from an entrypoint along the edges its connections       *)
(* perform, or along all of its service's edges if it has no connection,   *)
(* into the entrypoints they were matched to, through queues and, for a    *)
(* bounded number of hops, from queue to subscribed queue.  The objects of *)
(* local flows are not shown apart from their service.                     *)
(***************************************************************************)
HasFlow(v) == <<v.at, v.entry>> \in DOMAIN performed
Related(v) == IF HasFlow(v) THEN Out(v.at) \cap performed[v.at, v.entry] ELSE Out(v.at)

FlowVisit ==
    /\ AtHead("flow")
    /\ queue' = Tail(queue)
    /\ LET v == Head(queue) IN
       \/ /\ <<v.at, v.entry>> \in seen
          /\ UNCHANGED <<current, pending, seen, shown, cut, reached>>
       \/ /\ <<v.at, v.entry>> \notin seen
          /\ seen' = seen \cup {<<v.at, v.entry>>}
          /\ current' = v /\ pending' = Unhopped(Related(v))
          /\ Show(v.at, v.depth)
          /\ cut' = (cut \/ Full(shown))
    /\ UNCHANGED <<graph, entered, performed, query, parents, links, status>>

(* Behind a queue wait its consumers and, hops permitting, the queues that *)
(* subscribe to it.                                                        *)
Behind(q, hops) ==
    {[edge |-> e, hops |-> hops] : e \in {x \in Out(q) :
        x.type = "queue_consume" \/ (x.type = "queue_subscription" /\ hops < SubHops)}}

(* A service is entered where the edge was matched to one of its entries,  *)
(* unless that visit was made (a cycle) or lies beyond the depth limit.    *)
(* Mutant: one level more than the limit is entered. *)
EntersNowTooLate(e) ==
    /\ e.to \in Services /\ e \in entered
    /\ <<e.to, "entry">> \notin seen
    /\ current.depth <= query.depth

EntersNow(e) ==
    /\ e.to \in Services /\ e \in entered
    /\ <<e.to, "entry">> \notin seen
    /\ current.depth < query.depth

FollowFlow ==
    /\ Walking("flow")
    /\ \E p \in pending :
        LET e == p.edge IN
        /\ Show(e.to, current.depth + 1)
        /\ cut' = (cut \/ Full(shown))
        /\ links' = links \cup {e}
        /\ queue' = IF EntersNow(e) THEN Append(queue, Visit(e.to, "entry", current.depth + 1)) ELSE queue
        /\ pending' = (pending \ {p}) \cup
              (IF e.to \notin Queues THEN {}
               ELSE Behind(e.to, IF e.from \in Queues THEN p.hops + 1 ELSE 0))
    /\ UNCHANGED <<graph, entered, performed, query, current, seen, parents, status>>

FlowEnds ==
    /\ AtEnd("flow")
    /\ status' = CASE cut -> "truncated"
                   [] ~cut /\ (\E v \in seen : v \notin DOMAIN performed) -> "partial"
                   [] OTHER -> "complete"
    /\ UNCHANGED <<graph, entered, performed, query, walk>>

QueryStep ==
    \/ PathVisit \/ FollowPath \/ PathEnds
    \/ ImpactCut \/ ImpactFull \/ ImpactVisit \/ FollowImpact \/ ImpactEnds
    \/ FlowVisit \/ FollowFlow \/ FlowEnds

Answered == status \notin {"none", "running"}
-----------------------------------------------------------------------------
(* next[n] leads from the first of "from" to n in exactly d steps at least *)
AtDistance(next, from, n, d) ==
    n \in Within(next, from, d) /\ (d > 0 => n \notin Within(next, from, d - 1))

(***************************************************************************)
(* A search answers what it says.  A path it found is in the graph and no  *)
(* shorter one exists; "not_found" means there is none at all, however     *)
(* long; and a limit of the depth alone means none is that short (trace.go:*)
(* "A bounded search never claims absence when it has not exhausted the    *)
(* graph").  An impact view that says it is complete shows everything a    *)
(* change can reach and nothing else, at its least distance, and every     *)
(* link between two nodes it shows (impact.go: "what is affected if this   *)
(* changes?").                                                             *)
(***************************************************************************)
Successors == [n \in Nodes |-> {e.to : e \in Out(n)}]

FoundPath ==      \* the parents lead back from the goal in the fewest steps
    \E d \in 1..query.depth :
        LET back[i \in 0..d] == IF i = 0 THEN query.to ELSE parents[back[i - 1]].from
        IN /\ AtDistance(Successors, {query.from}, query.to, d)
           /\ \A i \in 0..(d - 1) : parents[back[i]] \in graph /\ parents[back[i]].to = back[i]
           /\ back[d] = query.from

PathIsTrue ==
    query.from # query.to =>
        /\ status = "found" => FoundPath
        /\ status = "not_found" => query.to \notin Within(Successors, {query.from}, Cardinality(Nodes))
        /\ (status = "limited" /\ Cardinality(seen) < query.budget) =>
               query.to \notin Within(Successors, {query.from}, query.depth)

Impacts == [n \in Nodes |->
    {e.to : e \in {x \in Out(n) : x.type \in Forward}}
    \cup {e.from : e \in {x \in graph : x.to = n /\ x.type \in Reverse}}]

ImpactIsTrue ==
    /\ \A n \in DOMAIN reached : AtDistance(Impacts, {query.from}, n, reached[n])
    /\ status = "complete" =>
           /\ shown = Within(Impacts, {query.from}, Cardinality(Nodes))
           /\ DOMAIN reached = shown \cap Services
           /\ links = UNION {Affected(n) : n \in shown}

SearchesAreTrue ==
    Answered =>
        /\ query.kind = "path" => PathIsTrue
        /\ query.kind = "impact" => ImpactIsTrue

(***************************************************************************)
(* A flow view that is not truncated has entered exactly the entrypoints   *)
(* that the flow reaches within its depth, whatever the order of edges and *)
(* the cycles on the way, and draws no link to a node it does not show.    *)
(* The flow leaves a visit by every edge that its connections do not rule  *)
(* out: by all of the service's if there is no connection (views.go:311),  *)
(* and by none if there are connections and none of them performs one.     *)
(***************************************************************************)
BehindQueue(q) ==     \* the edges to consumers of q and of its subscribers
    LET sub == [r \in Queues |-> {e.to : e \in {x \in Out(r) : x.type = "queue_subscription"}}]
    IN {e \in graph : e.type = "queue_consume" /\ e.from \in Within(sub, {q}, SubHops)}
EntriesOf(v) ==
    LET out == {e \in graph : e.from = v[1] /\ (v \in DOMAIN performed => e \in performed[v])}
        all == out \cup UNION {BehindQueue(e.to) : e \in {x \in out : x.to \in Queues}}
    IN {<<e.to, "entry">> : e \in {x \in all \cap entered : x.to \in Services}}
FlowEntries == [v \in Services \X {None, "entry"} |-> EntriesOf(v)]

FlowIsWhole ==
    (Answered /\ query.kind = "flow" /\ ~cut) =>
        /\ seen = Within(FlowEntries, {<<query.from, query.entry>>}, query.depth)
        /\ \A e \in links : {e.from, e.to} \subseteq shown
=============================================================================
