---------------------------- MODULE ExtractionRun ----------------------------
(***************************************************************************)
(* One run of the extraction pipeline (src/internal/extractor): the index  *)
(* is built, dependencies are discovered and merged, workers connect the   *)
(* exposures with the dependencies their code reaches, the result is       *)
(* reconciled and written.  The run may be cancelled at any point; only    *)
(* some steps look.                                                        *)
(*                                                                         *)
(* The workers share the lists of dependencies at each symbol, and the one *)
(* that must choose among them sorts the list where it is                  *)
(* (target_policy.go): a swap is three copies, between which others read   *)
(* and swap.  A copy of a record is one step here; Go promises less.       *)
(*                                                                         *)
(* What the code has is chosen at the start: which symbol calls which, and *)
(* what the detectors find where.  A row says at which symbols it is       *)
(* looked up (at), whether its name is that of a symbol (exact), in whose  *)
(* body its call site is (inside), whether its places are a few lines      *)
(* (narrow), how long its name is (length), which clients it names         *)
(* (through), and which data store it was told to be of (store).           *)
(* Detectors look before any name is resolved, so that a partial index     *)
(* only shows in a cancelled run, which discovers nothing.  The fallback   *)
(* for a repository without symbols matches details no detector fills in,  *)
(* and is left out.                                                        *)
(***************************************************************************)
EXTENDS CallWalk, ConfiguredStores, ServiceDocument

CONSTANTS
    Symbols,
    ClassOf,        \* the class of each symbol
    Exposures,
    Entries,        \* the symbols each exposure enters by
    Housed,         \* the classes at the first place of each exposure
    Workers,
    Sources,        \* the repositories considered
    Repository,     \* methods of repositories, each with the fact it stands for
    Meanings,       \* object, group and resource that exposures and facts may have
    Places          \* the places of each exposure and of each id of a row

RowFields == {"data", "id", "fact", "schema", "platform", "store", "through", "confidence", "at",
              "exact", "inside", "narrow", "length"}
IsRow(r) == DOMAIN r = RowFields /\ r.id \in Nat /\ r.confidence \in 0..100

\* Symbols are those that calls are resolved to; ids are hashes, which no two
\* rows are taken to share; detectors that name a platform are sure of their
\* row (Confidence 1.0), and none names a store.
ASSUME RunAssumption ==
    /\ IsFiniteSet(Symbols) /\ IsFiniteSet(Exposures)
    /\ Entries \in [Exposures -> Seq(Symbols)]
    /\ DOMAIN Repository \subseteq Symbols
    /\ \A s, t \in DOMAIN Repository :
          Repository[s].id \in Nat /\ (Repository[s].id = Repository[t].id => s = t)
    /\ \A c \in Sources :
          /\ c.graph.calls \in [Symbols -> Seq(Seq(Symbols))] /\ c.graph.local \subseteq Symbols
          /\ c.graph.noise \subseteq Symbols \X Symbols
          /\ IsFiniteSet(c.found)
          /\ \A r, q \in c.found :
                /\ IsRow(r) /\ r.store = Nothing /\ (r.platform # 0 => r.confidence = 100)
                /\ r.id = q.id => r = q
                /\ \A s \in DOMAIN Repository : r.id # Repository[s].id

\* Every entity has a place.  What an object is called tells what it is, but
\* for commands, those offered and those run; no resource is called like it.
Facts  == {Repository[s].fact : s \in DOMAIN Repository} \cup UNION {{r.fact : r \in c.found} : c \in Sources}
RowIds == {Repository[s].id : s \in DOMAIN Repository} \cup UNION {{r.id : r \in c.found} : c \in Sources}

ASSUME DocumentAssumption ==
    /\ \A x \in Exposures \cup RowIds : Places[x] \in Seq(ToSet(Places[x])) \ {<<>>}
    /\ \A m \in Meanings :
          /\ \A x \in Exposures : m[x].group \in Entrypoints
          /\ \A f \in Facts : m[f].group \in Dependents \cup {"execution"}
          /\ \A a, b \in Exposures \cup Facts :
                /\ m[a].object \notin {None, m[b].resource}
                /\ m[a].object = m[b].object =>
                      m[a].group = m[b].group \/ {m[a].group, m[b].group} = {"command", "execution"}

VARIABLES
    code,           \* the repository: its graph, what detectors find, configuration, clients
    phase,
    cancelled,
    dependencies,   \* the rows of the run
    targets,        \* depBySymbol
    jobs,           \* exposures no worker has taken
    worker,
    results,        \* what was found for each exposure
    exposures, connections, unresolved,
    files,          \* what is in the directory of the run
    event           \* the last event of the run

connecting == <<targets, jobs, worker, results>>
output     == <<exposures, connections, unresolved, files, event>>
vars       == <<code, phase, cancelled, dependencies, connecting, output>>

Idle == [pc |-> "idle", exposure |-> None, entries |-> <<>>, walk |-> None, links |-> <<>>,
         linked |-> {}, truncated |-> FALSE, crowded |-> {}, i |-> 0, j |-> 0, held |-> None]

Init ==
    /\ code \in Sources
    /\ phase = "index" /\ cancelled = FALSE
    /\ dependencies = <<>> /\ targets = [s \in Symbols |-> <<>>]
    /\ jobs = <<>> /\ worker = [w \in Workers |-> Idle] /\ results = [x \in Exposures |-> None]
    /\ exposures = {} /\ connections = {} /\ unresolved = {} /\ files = {} /\ event = "none"

Cancel ==
    /\ phase # "done" /\ ~cancelled
    /\ cancelled' = TRUE
    /\ UNCHANGED <<code, phase, dependencies, connecting, output>>

(* The index fails when a detector does, or when the cancellation is       *)
(* noticed while files are listed; a file whose parsing it ends is left    *)
(* out.                                                                    *)
IndexFails ==
    /\ phase = "index"
    /\ phase' = "done"
    /\ files' = {"failure"} /\ event' = IF cancelled THEN "cancelled" ELSE "failed"
    /\ UNCHANGED <<code, cancelled, dependencies, connecting, exposures, connections, unresolved>>

BuildIndex ==
    /\ phase = "index"
    /\ phase' = "discovery"
    /\ UNCHANGED <<code, cancelled, dependencies, connecting, output>>

(* A cancelled discovery finds nothing, and that is no error: there is      *)
(* nothing to connect then, and the empty result goes on to be written.     *)
Discover ==
    /\ phase = "discovery"
    /\ exposures' = IF cancelled THEN {} ELSE Exposures
    /\ dependencies' = IF cancelled THEN <<>> ELSE Dedupe(ById(code.found))
    /\ phase' = IF cancelled THEN "write" ELSE "derivation"
    /\ event' = IF cancelled THEN "cancelled" ELSE event
    /\ UNCHANGED <<code, cancelled, connecting, connections, unresolved, files>>

(***************************************************************************)
(* Calls of repositories that the exposures reach become rows of their     *)
(* own, unless the call is noise or a row has their name; they get the     *)
(* commonest platform.                                                     *)
(* (Methods in whose bodies a call of the store itself was found are none  *)
(* of Repository.  This walk has lower limits than that of the workers and *)
(* ignores that it was cut; here the two have the same.)                   *)
(***************************************************************************)
EntrySymbols == UNION {ToSet(Entries[x]) : x \in Exposures}
Named(rows)  == UNION {r.exact : r \in ToSet(rows)}

ProperTargets(w) == {w.paths[i] : i \in w.proper}
CallsOfRepositories ==
    UNION {ProperTargets(Walked(code.graph, DOMAIN Repository, StartWalk(e))) : e \in EntrySymbols}

(* It is looked up by its place, and repositories are taken to be where the *)
(* code looks for them (/repository/, /dao/).                               *)
DerivedRow(s, p) ==
    [data |-> TRUE, id |-> Repository[s].id, fact |-> Repository[s].fact, schema |-> "",
     platform |-> p, store |-> Nothing, through |-> <<ClassOf[s]>>, confidence |-> 97, at |-> {t \in Symbols : ClassOf[t] = ClassOf[s]}, exact |-> {},
     inside |-> {}, narrow |-> TRUE, length |-> 1]

Augment(rows, p) ==
    rows \o ById({DerivedRow(s, p) : s \in CallsOfRepositories \ Named(rows)})

TargetsOf(rows) == [s \in Symbols |-> Sublist(rows, {i \in DOMAIN rows : s \in rows[i].at})]

Derive ==
    /\ phase = "derivation"
    /\ \E p \in Commonest(dependencies), found \in DetectClients(code.clients) :
        \E resolved \in {Resolved(code.config, MergeClients(found))} :
            LET rows == Stamp(Augment(dependencies, p), InferConfigDBPlatform(code.config))
            IN  dependencies' = Dedupe(PropagateClientInstances(code.config, resolved, rows))
    /\ IF dependencies' = <<>>
       THEN phase' = "reconcile" /\ UNCHANGED <<targets, jobs, unresolved>>
       ELSE /\ phase' = "connections"
            /\ targets' = TargetsOf(dependencies')
            /\ jobs' = SetToSeq(Exposures)
            /\ unresolved' = {<<"dependency", r.id>> : r \in {d \in ToSet(dependencies') : d.at = {}}}
    /\ UNCHANGED <<code, cancelled, worker, results, exposures, connections, files, event>>

(***************************************************************************)
(* The workers (engine.go).  One takes an exposure, links what its entries *)
(* contain, then walks from each entry and links what it met there.  (What *)
(* was crowded out of a walk is no state of the code; a property is about  *)
(* it.)                                                                    *)
(***************************************************************************)
Link(s, direct) == [symbol |-> s, direct |-> direct]
Become(w, r) == worker' = [worker EXCEPT ![w] = r]
Yield(x, v) ==
    results' = [results EXCEPT ![x] = [linked |-> v.linked, truncated |-> v.truncated, crowded |-> v.crowded]]

Take(w) ==
    /\ phase = "connections" /\ worker[w].pc = "idle" /\ jobs # <<>>
    /\ jobs' = Tail(jobs)
    /\ LET x == Head(jobs)
       IN  IF cancelled
           THEN Yield(x, Idle) /\ UNCHANGED worker
           ELSE /\ Become(w, [Idle EXCEPT !.pc = "link", !.exposure = x, !.entries = Entries[x],
                        !.links = [i \in DOMAIN Entries[x] |-> Link(Entries[x][i], TRUE)]])
                /\ UNCHANGED results
    /\ UNCHANGED <<code, phase, cancelled, dependencies, targets, output>>

(* The next entry, unless the run is cancelled: what was linked so far is  *)
(* dropped then.  After the last one the exposure is done.                 *)
NextEntry(w) ==
    /\ worker[w].pc = "link" /\ worker[w].links = <<>>
    /\ LET v == worker[w]
       IN  IF v.entries = <<>> \/ cancelled
           THEN /\ Yield(v.exposure, IF v.entries = <<>> THEN v ELSE Idle)
                /\ Become(w, Idle)
           ELSE /\ Become(w, [v EXCEPT !.pc = "walk", !.entries = Tail(@), !.walk = StartWalk(Head(v.entries))])
                /\ UNCHANGED results
    /\ UNCHANGED <<code, phase, cancelled, dependencies, targets, jobs, output>>

IsTarget == {s \in Symbols : targets[s] # <<>>}
OwnClasses(x) == {ClassOf[s] : s \in ToSet(Entries[x])} \cup Housed[x]
Foreign(x, w) == Sublist(w.paths, {i \in w.proper : ClassOf[w.paths[i]] \notin OwnClasses(x)})

Walk(w) ==
    /\ worker[w].pc = "walk"
    /\ LET v == worker[w]
           next == WalkStep(code.graph, IsTarget, v.walk, cancelled)
           met == Foreign(v.exposure, next)
       IN  Become(w, IF next.done
                     THEN [v EXCEPT !.pc = "link", !.walk = None, !.truncated = @ \/ next.truncated,
                              !.crowded = @ \cup Crowded(next),
                              !.links = [i \in DOMAIN met |-> Link(met[i], FALSE)]]
                     ELSE [v EXCEPT !.walk = next])
    /\ UNCHANGED <<code, phase, cancelled, dependencies, targets, jobs, results, output>>

(* chooseDepsForSymbol: all rows named like the symbol, or all rows if     *)
(* their places are narrow; else the one with the longest name.            *)
Exact(s) == {r \in ToSet(targets[s]) : s \in r.exact}
NeedsSort(s) ==
    Len(targets[s]) > 1 /\ Exact(s) = {} /\ \E r \in ToSet(targets[s]) : ~r.narrow
Chosen(s) == IF Len(targets[s]) > 1 /\ Exact(s) # {} THEN Exact(s) ELSE ToSet(targets[s])

(* The rows to link: of those at an entry, the ones with a call site in it. *)
Linked(v, l, rows) ==
    [v EXCEPT !.pc = "link", !.links = Tail(@), !.i = 0, !.j = 0,
              !.linked = @ \cup {r.id : r \in {d \in rows : l.direct => l.symbol \in d.inside}}]

LinkNext(w) ==
    /\ worker[w].pc = "link" /\ worker[w].links # <<>>
    /\ LET v == worker[w]
           l == Head(v.links)
       IN  Become(w, IF NeedsSort(l.symbol) THEN [v EXCEPT !.pc = "sort", !.i = 2, !.j = 2]
                     ELSE Linked(v, l, Chosen(l.symbol)))
    /\ UNCHANGED <<code, phase, cancelled, dependencies, targets, jobs, results, output>>

(* The insertion sort of sort.SliceStable for short lists: row j sinks     *)
(* while it belongs before the one to its left.                            *)
Before(r, s) == r.length > s.length \/ (r.length = s.length /\ r.id < s.id)

Compare(w) ==
    /\ worker[w].pc = "sort"
    /\ LET v == worker[w]
           s == Head(v.links).symbol
       IN  Become(w, IF v.i > Len(targets[s]) THEN Linked(v, Head(v.links), {targets[s][1]})
                     ELSE IF v.j > 1 /\ Before(targets[s][v.j], targets[s][v.j - 1])
                     THEN [v EXCEPT !.pc = "copy", !.held = targets[s][v.j]]
                     ELSE [v EXCEPT !.i = @ + 1, !.j = v.i + 1])
    /\ UNCHANGED <<code, phase, cancelled, dependencies, targets, jobs, results, output>>

Copy(w) ==
    /\ worker[w].pc = "copy"
    /\ LET s == Head(worker[w].links).symbol
           j == worker[w].j
       IN  targets' = [targets EXCEPT ![s][j] = targets[s][j - 1]]
    /\ Become(w, [worker[w] EXCEPT !.pc = "store"])
    /\ UNCHANGED <<code, phase, cancelled, dependencies, jobs, results, output>>

Store(w) ==
    /\ worker[w].pc = "store"
    /\ LET s == Head(worker[w].links).symbol
       IN  targets' = [targets EXCEPT ![s][worker[w].j - 1] = worker[w].held]
    /\ Become(w, [worker[w] EXCEPT !.pc = "sort", !.j = @ - 1, !.held = None])
    /\ UNCHANGED <<code, phase, cancelled, dependencies, jobs, results, output>>

WorkerStep(w) ==
    Take(w) \/ NextEntry(w) \/ Walk(w) \/ LinkNext(w) \/ Compare(w) \/ Copy(w) \/ Store(w)

(***************************************************************************)
(* The results are collected when all workers have ended; the rows are     *)
(* merged again, connections without an end are reported and dropped, and  *)
(* the run is announced as completed or cancelled.  It is written either   *)
(* way, the manifest before the artifacts.                                 *)
(***************************************************************************)
Collect ==
    /\ phase = "connections" /\ jobs = <<>> /\ \A w \in Workers : worker[w].pc = "idle"
    /\ connections' = UNION {{<<x, d>> : d \in results[x].linked} : x \in Exposures}
    /\ unresolved' = unresolved \cup {<<"exposure", x>> : x \in {y \in Exposures : results[y].truncated}}
    /\ phase' = "reconcile"
    /\ UNCHANGED <<code, cancelled, dependencies, connecting, exposures, files, event>>

Kept(rows) == {r.id : r \in ToSet(rows)}

Reconcile ==
    /\ phase = "reconcile"
    /\ dependencies' = Dedupe(dependencies)
    /\ connections' = {c \in connections : c[2] \in Kept(dependencies')}
    /\ unresolved' = unresolved \cup {<<"connection", c>> : c \in {d \in connections : d[2] \notin Kept(dependencies')}}
    /\ event' = IF cancelled THEN "cancelled" ELSE "completed"
    /\ phase' = "write"
    /\ UNCHANGED <<code, cancelled, connecting, exposures, files>>

WriteManifest ==
    /\ phase = "write"
    /\ \/ files' = files \cup {"manifest"} /\ phase' = "artifacts"
       \/ UNCHANGED files /\ phase' = "done"
    /\ UNCHANGED <<code, cancelled, dependencies, connecting, exposures, connections, unresolved, event>>

(* The document says what each exposure and each row means (m).  One that   *)
(* is not valid is not written.                                             *)
Entity(m, kind, id, meant) ==
    [entity |-> <<kind, id>>, object |-> m[meant].object, group |-> m[meant].group,
     resource |-> m[meant].resource, places |-> Places[id]]
Exposed(m) == [i \in 1..Cardinality(exposures) |->
    LET x == SetToSeq(exposures)[i] IN Entity(m, "exposure", x, x)]
Needed(m) == [i \in DOMAIN dependencies |->
    Entity(m, "dependency", dependencies[i].id, dependencies[i].fact)]
Flowing == {<<<<"exposure", c[1]>>, <<"dependency", c[2]>>>> : c \in connections}
Document(m) == BuildDocument(Exposed(m), Needed(m), Flowing)

WriteArtifacts ==
    /\ phase = "artifacts"
    /\ \/ \E m \in Meanings : Valid(Document(m)) /\ files' = files \cup {"artifacts"}
       \/ UNCHANGED files
    /\ phase' = "done"
    /\ UNCHANGED <<code, cancelled, dependencies, connecting, exposures, connections, unresolved, event>>

Stage ==
    IndexFails \/ BuildIndex \/ Discover \/ Derive \/ Collect \/ Reconcile
    \/ WriteManifest \/ WriteArtifacts

Next == Cancel \/ Stage \/ \E w \in Workers : WorkerStep(w)

Spec == Init /\ [][Next]_vars
-----------------------------------------------------------------------------
(* What an exposure ought to meet, which is of no class of its own, and    *)
(* the rows that ought to be linked there: those named like the symbol;    *)
(* else all, if their places are narrow, or the longest named.             *)
Met(x) ==
    {s \in UNION {Reachable(code.graph, IsTarget, e) : e \in ToSet(Entries[x])} :
        ClassOf[s] \notin Housed[x] /\ \A e \in ToSet(Entries[x]) : ClassOf[s] # ClassOf[e]}
Row(d) == CHOOSE r \in ToSet(dependencies) : r.id = d
RowsAt(s) == {r \in ToSet(dependencies) : s \in r.at}
Longest(s) == {r \in RowsAt(s) : \A t \in RowsAt(s) \ {r} : Before(r, t)}
Owed(s) ==
    LET exact == {r \in RowsAt(s) : s \in r.exact}
    IN  IF exact # {} THEN exact
        ELSE IF \A r \in RowsAt(s) : r.narrow THEN RowsAt(s) ELSE Longest(s)
Linking == {x \in Exposures : phase = "reconcile" /\ results[x] # None}

\* What an exposure is connected with is what its code reaches: each of its
\* links leads to a dependency looked up at a symbol the calls lead to, or
\* one called in an entry itself; and no symbol they lead to stays without
\* its link, unless the walk was cut and says so, or the run is cancelled, or
\* noise used up the paths of that symbol.
ConnectionsAreReachable ==
    \A x \in Linking :
        /\ \A d \in results[x].linked :
              \/ \E e \in ToSet(Entries[x]) : e \in Row(d).at /\ e \in Row(d).inside
              \/ Row(d).at \cap Met(x) # {}
        /\ cancelled \/ results[x].truncated \/
           \A s \in Met(x) \ results[x].crowded :
              IF \E r \in RowsAt(s) : ~r.narrow
              THEN \E r \in RowsAt(s) : r.id \in results[x].linked
              ELSE \A r \in Owed(s) : r.id \in results[x].linked

\* Nothing found is lost on its way to the workspace.  Every data store the
\* detectors named is in the result, though merged three times with rows that
\* name none, and no connection loses its dependency to the last merge; and
\* the document tells the result, whatever its exposures and rows mean.
NothingFoundIsLost ==
    /\ event = "completed" =>
        /\ \A u \in unresolved : u[1] # "connection"
        /\ \A r \in code.found : r.platform # 0 =>
              \E d \in ToSet(dependencies) :
                  /\ d.fact = r.fact /\ d.platform = r.platform
                  /\ r.schema \in {"", d.schema}
    /\ phase = "artifacts" =>
        \A m \in Meanings : TellsTheResult(Document(m), Exposed(m), Needed(m), Flowing)

\* "The graph describes production" (config_resolve.go): where production
\* names a data store no row is told one that only another environment
\* names, through however many files, variables, clients and merges it came,
\* unless the repository itself turns that environment on, or an entry that
\* has a variable for its whole key shadows what production sets it to.
ProductionIsTheRecord ==
    phase = "write" /\ ActiveProfile(code.config) = {} =>
        \A d \in ToSet(dependencies) :
            d.store # Nothing /\ ~Shadowed(code.config, d.store.source) => ~OfAnotherEnvironment(code.config, d.store)

(***************************************************************************)
(* What comments say and the code does not do.                             *)
(***************************************************************************)
\* "A failed or cancelled run writes run_failure.json (and skips the
\* manifest until the retry succeeds)" (summarizeRun).
CancelledRunsPublishNothing == event = "cancelled" => "manifest" \notin files

FailedRunsAreReported ==
    (phase = "done" /\ "artifacts" \notin files) => "failure" \in files

\* "Hitting MaxPathsPerTarget is NOT truncation - the dependency is still
\* connected via an earlier path" (WalkVerbose): what an exposure leads to is
\* connected, where its walk was not cut.
PathLimitLosesNothing ==
    \A x \in Linking :
        cancelled \/ results[x].truncated
        \/ \A s \in Met(x) : \E r \in RowsAt(s) : r.id \in results[x].linked

\* "The same repository and locked pack content always produce the same
\* result" (docs/knowledge-packs.md): the row that is linked is the one a
\* worker alone would have chosen.
LinksAreDetermined ==
    \A x \in Linking : \A d \in results[x].linked :
        \/ \E e \in ToSet(Entries[x]) : e \in Row(d).at
        \/ \E s \in Met(x) : Row(d) \in Owed(s)

\* "An ambiguous guess would be worse than leaving the platform generic"
\* (InferConfigDBPlatform): no row names a data store that nothing in the
\* repository named for its fact.
NoStoreIsInvented ==
    event = "completed" =>
        \A d \in ToSet(dependencies) :
            d.platform \in {0, InferConfigDBPlatform(code.config)}
                \cup {c.engine : c \in Resolved(code.config, code.clients)}
                \cup {r.platform : r \in {f \in code.found : f.fact = d.fact}}

\* The same promise of docs/knowledge-packs.md: the clients that share a key
\* are told apart by the order of a map, and so are the stores their
\* operations get.
StoresAreDetermined ==
    phase = "derivation" =>
        \A f, g \in DetectClients(code.clients) : \A p \in Commonest(dependencies) :
            LET rows == Stamp(Augment(dependencies, p), InferConfigDBPlatform(code.config))
            IN  PropagateClientInstances(code.config, Resolved(code.config, MergeClients(f)), rows)
                = PropagateClientInstances(code.config, Resolved(code.config, MergeClients(g)), rows)

\* "Stamp nothing rather than guess" (resolveClientRef): an operation that
\* names a client whose store is unknown is told none.
UnknownStoresStayUnknown ==
    \A d \in ToSet(dependencies) : d.store # Nothing =>
        \A c \in code.clients : c.name \in ToSet(d.through) => ResolveClientRef(code.config, c) # Nothing

\* "Never cross-stamp" (stampDatastoreInstance): an operation is on the
\* platform of the store it is told.
StoresFitTheirPlatforms ==
    \A d \in ToSet(dependencies) :
        d.store # Nothing /\ d.platform # 0 => d.store.platform \in {0, d.platform}

\* "When per-environment overlays disagree the production overlay wins"
\* (EnvConfigValue): so it does where a .env file sets the variable as well.
ProductionSetsVariables ==
    phase = "write" /\ ActiveProfile(code.config) = {} =>
        \A d \in ToSet(dependencies) : d.store # Nothing => ~OfAnotherEnvironment(code.config, d.store)

\* The same sentence: what production names is what is told.
ProductionDecides ==
    \A d \in ToSet(dependencies) : d.store # Nothing /\ ActiveProfile(code.config) = {} =>
        LET production == UsesInAny(code.config, d.store.source, Production)
        IN  Cardinality(production) = 1 => d.store.name \in production
=============================================================================
