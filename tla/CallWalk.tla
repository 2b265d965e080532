------------------------------ MODULE CallWalk ------------------------------
(***************************************************************************)
(* The walk of src/internal/extractor/ast/walker.go through the call graph *)
(* of a repository, from the symbol an exposure enters by to the symbols   *)
(* that are targets.  A walk is a record; WalkStep takes a node from its   *)
(* queue or follows the next call site of the node it is at.               *)
(*                                                                         *)
(* A graph maps each symbol to the sequence of its call sites, a call site *)
(* to the sequence of symbols it may call, in the order of the source.  A  *)
(* path is kept as the target it ends at, and as proper if none of its     *)
(* steps is noise; conditions, arguments and positions of its steps are    *)
(* data of the report.                                                     *)
(***************************************************************************)
EXTENDS Naturals, SequencesExt

CONSTANTS
    MaxDepth, MaxPathsPerTarget, MaxPathsTotal, MaxVisitedEdges, MaxQueuedNodes

\* A limit that is not given is that of the engine.
ASSUME WalkAssumption ==
    {MaxDepth, MaxPathsPerTarget, MaxPathsTotal, MaxVisitedEdges, MaxQueuedNodes} \subseteq Nat \ {0}

(* A code graph g: calls, the symbols defined in the project (local), and   *)
(* the calls that are noise: those in tests, or of a symbol whose name says *)
(* little (build, copy, toString).  The sites at which one symbol calls     *)
(* another are taken to be noise together.                                  *)
Node(s, visited, depth, proper) ==
    [symbol |-> s, visited |-> visited \cup {s}, depth |-> depth, proper |-> proper]

StartWalk(entry) ==
    [queue |-> <<Node(entry, {}, 0, TRUE)>>, node |-> Node(entry, {}, 0, TRUE), sites |-> <<>>,
     paths |-> <<>>, proper |-> {}, edges |-> 0, truncated |-> FALSE, done |-> FALSE]

(* isProductionCallPath, of the path to s by the node the walk is at.       *)
Proper(g, w, s) == w.node.proper /\ <<w.node.symbol, s>> \notin g.noise

Hits(w, t) == Cardinality({i \in DOMAIN w.paths : w.paths[i] = t})

(* A path to a target is recorded up to two limits, noise or not, and the  *)
(* walk does not go on behind a target.                                    *)
AtTarget(g, w, t) ==
    IF Hits(w, t) < MaxPathsPerTarget /\ Len(w.paths) < MaxPathsTotal
    THEN [w EXCEPT !.paths = Append(@, t),
                   !.proper = IF Proper(g, w, t) THEN @ \cup {Len(w.paths) + 1} ELSE @]
    ELSE w

QueueFullUnsaid(g, w, s) ==      \* mutant of Enqueue: the loss is not reported
    IF Len(w.queue) >= MaxQueuedNodes THEN w
    ELSE [w EXCEPT !.queue = Append(@, Node(s, w.node.visited, w.node.depth + 1, Proper(g, w, s)))]
Enqueue(g, w, s) ==
    IF Len(w.queue) >= MaxQueuedNodes
    THEN [w EXCEPT !.truncated = TRUE]
    ELSE [w EXCEPT !.queue = Append(@, Node(s, w.node.visited, w.node.depth + 1, Proper(g, w, s)))]

Visit(g, targets, w, s) ==
    CASE s \in w.node.visited -> w
      [] s \notin w.node.visited /\ s \in targets -> AtTarget(g, w, s)
      [] s \notin w.node.visited /\ s \notin targets /\ s \in g.local -> Enqueue(g, w, s)
      [] OTHER -> w

(* One call site: a limit met here says so, and a cancellation does not.   *)
FollowSite(g, targets, w) ==
    IF Len(w.paths) >= MaxPathsTotal
    THEN [w EXCEPT !.truncated = TRUE, !.sites = <<>>]
    ELSE IF w.edges + 1 > MaxVisitedEdges
    THEN [w EXCEPT !.truncated = TRUE, !.sites = <<>>, !.done = TRUE]
    ELSE FoldLeft(LAMBDA v, s : Visit(g, targets, v, s),
                  [w EXCEPT !.edges = @ + 1, !.sites = Tail(@)], Head(w.sites))

(* The next node of the queue; at the depth limit its calls are left out.  *)
TakeNode(g, w) ==
    LET n == Head(w.queue)
        deep == n.depth >= MaxDepth
    IN  IF Len(w.paths) >= MaxPathsTotal
        THEN [w EXCEPT !.truncated = TRUE, !.done = TRUE]
        ELSE [w EXCEPT !.queue = Tail(@), !.node = n,
                       !.sites = IF deep THEN <<>> ELSE g.calls[n.symbol],
                       !.truncated = @ \/ (deep /\ g.calls[n.symbol] # <<>>)]

WalkStep(g, targets, w, cancelled) ==
    IF cancelled \/ (w.sites = <<>> /\ w.queue = <<>>) THEN [w EXCEPT !.done = TRUE]
    ELSE IF w.sites # <<>> THEN FollowSite(g, targets, w) ELSE TakeNode(g, w)

(* A walk that nothing cancels, to its end: in no more steps than it may    *)
(* follow call sites, find nodes there and take them.                       *)
Widest(g) == Max({0} \cup {Len(c) : c \in UNION {ToSet(g.calls[s]) : s \in DOMAIN g.calls}})

Walked(g, targets, start) ==
    LET steps == MaxVisitedEdges * (Widest(g) + 1) + 3
        walk[n \in 0..steps] ==
            IF n = 0 THEN start
            ELSE LET w == walk[n - 1] IN IF w.done THEN w ELSE WalkStep(g, targets, w, FALSE)
    IN  walk[steps]

(* Targets whose limit was used up by noise.                                *)
Crowded(w) ==
    {t \in ToSet(w.paths) : Hits(w, t) >= MaxPathsPerTarget /\ \A i \in w.proper : w.paths[i] # t}
-----------------------------------------------------------------------------
(***************************************************************************)
(* The reference: the targets that calls lead to from an entry, none of    *)
(* them noise, through symbols of the project that are no targets.         *)
(***************************************************************************)
Callees(g, s) == {t \in UNION {ToSet(g.calls[s][i]) : i \in DOMAIN g.calls[s]} : <<s, t>> \notin g.noise}

Closed(g, targets, entry, S) ==
    entry \in S /\ \A s \in S \cap ({entry} \cup (g.local \ targets)) : Callees(g, s) \subseteq S

Reachable(g, targets, entry) ==
    {t \in targets \ {entry} : \A S \in SUBSET DOMAIN g.calls : Closed(g, targets, entry, S) => t \in S}
=============================================================================
