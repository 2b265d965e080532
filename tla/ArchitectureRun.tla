--------------------------- MODULE ArchitectureRun ---------------------------
(***************************************************************************)
(* A run of the workspace from the dependencies of its services to the     *)
(* graph that queries walk: the resolver decides what a dependency means   *)
(* (DependencyResolution), the graph is drawn from its answer and from     *)
(* what the services expose, it is saved, and queries are asked about it   *)
(* (GraphQueries).  orchestrator/pipeline.go hands the matches of calls to *)
(* archgraph.BuildWithSupplements as targets.                              *)
(*                                                                         *)
(* One dependency is followed through the run.  The edges of all others    *)
(* are any edges, since nothing one dependency is resolved to restrains    *)
(* another; a dependency whose resolution fails, fails the run.            *)
(***************************************************************************)
EXTENDS DependencyResolution, GraphLayout, GraphQueries, KnowledgePacks

CONSTANT MaxOtherEdges      \* bound: edges of other dependencies

ASSUME RunAssumption == MaxOtherEdges \in Nat

VARIABLES
    phase,      \* "packs", "collection", "resolution", "drawn", "layout", "saved" or "failed"
    drawn       \* what was drawn for the dependency, and on what evidence

vars == <<packs, resolution, layout, queries, phase, drawn>>

Init ==
    /\ InitPacks /\ InitResolution /\ InitLayout /\ InitQueries
    /\ phase = "packs" /\ drawn = None

LoadPacks ==
    /\ phase = "packs"
    /\ PackStep
    /\ UNCHANGED <<resolution, layout, queries, phase, drawn>>

(* What becomes of the packs after the run has them does not matter to it. *)
DropPacks ==
    /\ lock' = << >> /\ dirs' = << >> /\ command' = [c \in Commands |-> Waiting]
    /\ load' = NoLoad /\ touched' = {}

PacksLoaded ==
    /\ phase = "packs" /\ Loaded
    /\ DropPacks
    /\ phase' = "collection"
    /\ UNCHANGED <<resolution, layout, queries, drawn>>

Collect ==
    /\ phase = "collection"
    /\ BeginResolution
    /\ phase' = "resolution"
    /\ UNCHANGED <<packs, layout, queries, drawn>>

Resolution ==
    /\ phase = "resolution"
    /\ ResolutionStep
    /\ UNCHANGED <<packs, layout, queries, phase, drawn>>

RunFails ==
    /\ \/ phase = "packs" /\ load.step = "refused"
       \/ phase = "resolution" /\ stage = "failed"
    /\ phase' = "failed"
    /\ UNCHANGED <<packs, resolution, layout, queries, drawn>>

(***************************************************************************)
(* Drawing: a call goes to the service it was resolved to; else to the     *)
(* service that its explicit target is an alias of (or to a node outside   *)
(* the model, or nowhere, if the target is marked as unresolved); else an  *)
(* HTTP call goes to the one service that exposes its very route, unless   *)
(* that is a route every service has.  Publications go to the queue and    *)
(* data operations to the resource, whatever the resolver found.           *)
(***************************************************************************)
Owners == {x.service : x \in SameRoute}
Call(s) == [from |-> dep.from, to |-> s, type |-> "call"]

Drawings ==
    CASE dep.kind = "publish" ->
            {[edge |-> [from |-> dep.from, to |-> q, type |-> "queue_publish"], by |-> "queue"] : q \in Queues}
      [] dep.kind = "data" ->
            {[edge |-> [from |-> dep.from, to |-> r, type |-> DataType(r)], by |-> "resource"] : r \in Resources}
      [] dep.kind \in {"http", "rpc"} /\ match # None ->
            {[edge |-> Call(match.service), by |-> match.by]}
      [] dep.kind \in {"http", "rpc"} /\ match = None /\ dep.target = "explicit" ->
            {[edge |-> Call(s), by |-> "alias"] : s \in Services \ {dep.from}} \cup {None}
      [] OTHER ->
            IF dep.route = "own" /\ Cardinality(Owners) = 1
            THEN {[edge |-> Call(s), by |-> "route"] : s \in Owners}
            ELSE {None}

Draw ==
    /\ phase = "resolution" /\ stage \in {"resolved", "unresolved"}
    /\ \E d \in Drawings :
        drawn' = [edges |-> IF d = None THEN {} ELSE {d.edge},
                  by |-> IF d = None THEN None ELSE d.by, route |-> dep.route]
    /\ DropResolution
    /\ phase' = "drawn"
    /\ UNCHANGED <<packs, layout, queries>>

(* The edges of the other dependencies and of the exposures, and with them *)
(* the local flows of the services.                                        *)
DrawOthers ==
    /\ phase = "drawn"
    /\ \E others \in UpTo(Edge, MaxOtherEdges) : graph' = drawn.edges \cup others
    /\ phase' = "layout" /\ drawn' = None
    /\ UNCHANGED <<packs, resolution, layout, entered, performed, query, walk, status>>

Layout ==
    /\ phase = "layout"
    /\ BeginLayout(graph) \/ LayoutStep
    /\ UNCHANGED <<packs, resolution, queries, phase, drawn>>

(* No query looks at the layout. *)
Save ==
    /\ phase = "layout" /\ drawing = "ranked"
    /\ DropLayout
    /\ phase' = "saved"
    /\ UNCHANGED <<packs, resolution, queries, drawn>>

(* A query of the saved run.  Which edges were matched to an entrypoint is *)
(* looked at by a flow only; so is which of the visits it may make have a  *)
(* connection of their service, and which edges these perform.  What an    *)
(* entrypoint has, its service has (matchingConnections).                  *)
Visitable(q, entries) == {<<q.from, q.entry>>} \cup {<<e.to, "entry">> : e \in entries}

LocalFlows(visits) ==
    UNION {{[v \in told |-> {e \in Out(v[1]) : <<v, e>> \in performs}] :
                performs \in SUBSET {x \in told \X graph : x[2].from = x[1][1]}} :
           told \in SUBSET visits}

ServiceHasItAll(flows, visits) ==
    \A v \in visits : LET entry == <<v[1], "entry">> IN
        entry \in DOMAIN flows => v \in DOMAIN flows /\ flows[entry] \subseteq flows[v]

StartQuery ==
    /\ phase = "saved" /\ query = None
    /\ \E q \in Query :
        /\ Ask(q)
        /\ IF q.kind = "flow"
           THEN /\ entered' \in SUBSET {e \in graph : e.to \in Services}
                /\ \E visits \in {Visitable(q, entered')} :
                    /\ performed' \in LocalFlows(visits)
                    /\ ServiceHasItAll(performed', visits)
           ELSE UNCHANGED <<entered, performed>>
    /\ UNCHANGED <<packs, resolution, layout, graph, phase, drawn>>

Querying ==
    /\ phase = "saved"
    /\ QueryStep
    /\ UNCHANGED <<packs, resolution, layout, phase, drawn>>

Next ==
    \/ LoadPacks \/ PacksLoaded \/ Collect \/ Resolution \/ RunFails
    \/ Draw \/ DrawOthers \/ Layout \/ Save
    \/ StartQuery \/ Querying

Spec == Init /\ [][Next]_vars
-----------------------------------------------------------------------------
(***************************************************************************)
(* What comments say and the code does not do.                             *)
(***************************************************************************)
(* impact.go:9-14: "Impact analysis answers "what is affected if this      *)
(* changes?" ... impact travels AGAINST those edges".  Nothing is affected *)
(* by a bucket: object_storage is in neither of the two sets behind it.    *)
BucketsAffectTheirUsers ==
    (Answered /\ query.kind = "impact" /\ status = "complete" /\ query.from \in Buckets) =>
        \A e \in graph : e.to = query.from => e.from \in shown

(***************************************************************************)
(* What archgraph.go says of the routes of logins, health checks and       *)
(* documentation: "Such paths cannot safely identify a target service even *)
(* when only one owner declared them."  No edge is drawn from one.         *)
(***************************************************************************)
GenericRoutesIdentifyNobody ==
    (phase = "drawn" /\ drawn.by = "route") => drawn.route # "generic"
=============================================================================
