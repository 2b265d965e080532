# diffmind in TLA+

diffmind analyses the repositories of a project, stores what it finds and builds
an architecture graph from it. It runs as one long-lived server per home
directory: requests, webhooks and a ticker ask for refreshes; a durable queue
orders them; workers run them as ingestions; ingestions take repository slots,
start analysers and build graphs; the server may be stopped or killed at any
point and picks up what it finds on disk. Around it stand the extractor (the
analyser, which also has a dashboard of its own), a local agent that owns the
server, offline backups and an offline migration of the queue.

Paths below are relative to `src/internal/workspace/` unless they start with
`src/`. `PROJECT.json` maps each definition to the lines it stands for.

## 1. Inventory

| Component | State | Operations | Hard behaviour | Modelled |
|---|---|---|---|---|
| Refresh queue, `store/jobs.go`, `jobs_sqlite.go` | job table on disk (JSON files or SQLite), attempts per job | enqueue, claim, finish, cancel, retry, recover | two capacities, serialisation per project, requeue against cancel, attempt ceiling, webhook redelivery | `RefreshQueue` |
| Project limits, `store/limits.go` | `limits.json` with a revision | read, compare-and-swap save | lost updates, a write whose outcome is uncertain | `RefreshQueue`, `RepositoryLimiter` |
| Scheduler, `ui/operations.go` | worker goroutines, their contexts, `operationsError` | claim loop, watcher, run, fail, HTTP endpoints | cancellation, stop and result racing; one store failure stops everything | `RefreshScheduler` |
| Ingestions, `ui/ingestion.go`, `store/ingestion_history.go` | latest record per project, archive of attempts, active goroutine | launch, cancel, resume, recover | record and goroutine disagree after a crash; resume must respect cancellations | `RefreshScheduler` (phases collapsed) |
| Server life, `ui/server.go` | context of the process | recover, start workers, resume, drain | order of the steps, drains that could miss a signal | in each of the modules |
| Repository budget, `ui/limits.go` | two counters and a broadcast channel | acquire, release, notify | lost wakeups, slots lost to deletion or cancellation | `RepositoryLimiter` |
| Graph runs, `runmgr/runmgr.go`, `store/runs.go` | manifest on disk, run in memory, event history, live channels | start, finish, cancel, delete, subscribe, shutdown | stale write of a manifest, replay against live events, dropped events, waiting on a run | `GraphRuns` |
| Project refresh and reuse, `ui/refresh.go`, `ui/incremental.go`, `ui/handlers_workspace.go`, `ui/handlers_bulk.go` | `repo.json` with status and checkpoint, checkouts, runs of the analyser | sync, clone, analyse, reuse, checkpoint, recover | inputs that change under their fingerprint, work beside a pass, analysers that outlive the server | `ProjectRefresh` |
| Webhooks, `ui/webhook.go` | none (receipts are jobs) | accept a delivery | redelivery | in `RefreshQueue` |
| Extractor runner and event bus, `src/internal/extractor/runner`, `events`, `ui/handlers_run.go` | runs in memory, `run_state.json`, `events.jsonl`, subscribers | start, emit, finish, cancel, delete, stream, reconnect | memory and disk pass each other; end of a stream; one id for two starts | `ExtractorRuns` |
| Extractor pipeline, `src/internal/extractor/pipeline`, `stage/connections`, `stage/reconcile`, `ast/walker.go`, `artifacts`; `src/protocol`, `src/internal/workspace/artifacts` | dependencies, targets by symbol, results of the workers, artifacts | index, discover, merge, connect, reconcile, write | workers share lists they sort; walks cut by limits; merges that lose facts, in the result and in its document; environments that disagree about a data store | `ExtractionRun`, `CallWalk`, `EntityReconcile`, `ConfiguredStores`, `ServiceDocument` |
| Agent host, `agenthost/host.go`, `src/cmd/diffmind/agent.go` | owned backend process, settings | start, stop, configure, maintain, exit | deadlines, failures between two steps, orphans | `AgentHost` |
| Queue migration, `store/queue_migration.go` | staging directory, queue directory | migrate | loss of power between publication and sync | `QueueMigration` |
| Home lease, `homelock/` | lock of the operating system | acquire, release | who else is in the home | `QueueMigration`, `AgentHost`, `BackupCatalog` |
| Backups, `backup/` | marker, snapshots, receipts | rotate, list, create | failure or loss of power between any two of some twenty steps; files edited while copied | `BackupCatalog` |
| Resolver, `resolver/` | indexes built from Go maps | resolve a dependency | order of a map, ties | `DependencyResolution` |
| Architecture graph and queries, `archgraph/`, `query/` | saved graph | draw, rank, path, impact, flow | limits that cut an answer, cycles | `ArchitectureGraph`, `GraphLayout`, `GraphQueries`, `ArchitectureRun` |
| Tokens and access, `store/tokens.go`, `access.go` | registry | issue, revoke, authenticate | one mutex around each operation | no |
| Knowledge packs, `knowledge/lock.go` | `diffmind-packs.lock`, pack directories | install, enable, disable, load | nothing locks them; content read again after its check | `KnowledgePacks`, `ArchitectureRun` |
| Knowledge gaps, detectors of the extractor, SCIP, indexer builds, command line | files | sequential | none | no: functions of one input, parsing, rendering |

How they interact. Handlers and webhooks call the queue; a worker claims from it,
calls `launchIngestion` and polls; the ingestion goroutine syncs and analyses the
repositories under their slots (`ProjectRefresh`), writes its record and starts a
graph run, which resolves and draws (`ArchitectureRun`); the watcher turns a
persisted cancellation into a cancelled context. Shutdown ends one context from
which all of these descend and then waits: workers, ingestions, graph runs, slots.
After a crash `recoverInterruptedIngestions`, `RecoverJobs` and
`resumeInterruptedIngestions` rebuild the picture from disk. The analyser is a
process of its own; the runs it writes (`ExtractionRun`) are what
`DiscoverDiffMindRuns` lists. The agent starts, stops and restarts the server, and
runs migrations and backups while it is stopped; the lease of the home keeps them
apart, also after any of them has died.

What makes each part correct is listed with its properties in section 3; each
hazard with its line is in `PROJECT.json` under `hazards`.

## 2. Modules

* **`RefreshAdmission`** is the abstract promise: at most `Capacity` admitted
  requests, at most one executing per project, no readmission of what was achieved.
* **`RefreshQueue`** has one action per store operation. JSON holds `Store.mu` and
  SQLite a transaction from first read to last write, so an operation is atomic.
  `jobs` is the table, `limits` the policies, `projects` the projects that exist.
  The module ends with the instance of `RefreshAdmission`.
* **`RefreshScheduler`** extends `RefreshQueue` with workers (`worker[w].pc` is the
  line `operationsWorker`/`runQueuedRefresh` is at), watchers, ingestions
  (`ingestion` is `ingestion.json`, `outcome` the archived attempt that
  `GetIngestionAttempt` reads, `active` the goroutine and its context), direct
  work, and the life of the server (`down`, `recovering`, `up`, `stopping`).
  Cause of a context: the first cancellation stays, as with `context.Cause`.
* **`RepositoryLimiter`** models `acquireRepository`: one pass under
  `repositoryMu` is one action, and closing the channel moves all waiters (and the
  drain) back to the start of their loop. Policies are saved by administrators
  that read before they write.
* **`GraphRuns`** models a run's goroutine step by step (decide, save, announce,
  close streams, close `doneCh`), `Cancel` in its three separate steps, deletion,
  and the restart. A subscriber is the handler that reads (`step`) and the goroutine
  that feeds it (`pump`): replay, live channel, the event between the two, and the
  signal to stop.
* **`ProjectRefresh`** has the repositories (`record` is `repo.json`), their
  checkouts and branches, the analyser processes in the order of their start, one
  pass at a time over all repositories, and requests that sync, clone or analyse
  one repository beside it. A fingerprint is the versions of what an analysis
  reads and its options. `since` and `alone` are history: what was there when the
  pass began, and whether anybody else was at work on a repository of its.
* **`ExtractorRuns`** models every critical section and file operation of the run
  manager, the bus and the handlers as a step: `runs` and `bus` are the two maps,
  `run` the goroutine of each start, `disk` the directories, `stream` and `client`
  the two ends of an event stream over several connections.
* **`ExtractionRun`** is one run of the pipeline: `phase` is the stage, `targets` is
  `depBySymbol`, `worker[w].pc` is where a worker is between taking an exposure and
  the three copies by which a sort swaps two rows. It extends **`CallWalk`** (the
  breadth-first walk as a function from one state of it to the next, with its five
  limits, and with which of its paths lead through noise: calls in tests or of names that
  say little, which `engine.go` drops when the walk is over), **`EntityReconcile`** (schema qualification, the choice between
  duplicates, generic platforms, the platform given to derived rows),
  **`ConfiguredStores`** (what a configuration of several files and environments says
  of a key or a variable, which store each database client means after it, and which
  store each operation is therefore told) and **`ServiceDocument`**: how
  `protocolBuilder` turns the result into objects, numbered observations, shared
  evidence and flows, what `ValidateCanonical` demands of them, and what
  `protocolToArchitecture` reads back. (**`Sublists`** has the items of a list with
  given numbers, which two of them need.) What the exposures
  and facts mean, that is, which of them share an object, is one of `Meanings`,
  chosen where it first matters; the property quantifies over all of them.
* **`BackupCatalog`** models `Rotate` from the opening of the catalog to the removal
  of retired snapshots. `durable` is the set of directory contents that a loss of
  power may leave; `syncDirectory` shrinks it.
* **`QueueMigration`** is the home: leases, the job table in its two forms, and the
  migration command. **`AgentHost`** extends it with the controller, its `Host`
  (an operation is a list of pieces still to do, which an error changes), the
  backends, and the deaths and losses of power.
* **`ArchitectureGraph`** is the vocabulary of a graph. **`DependencyResolution`**
  is the resolver for one dependency: knowledge rules, routes, topics, then a scan
  of the identities in the order of a Go map. **`GraphQueries`** holds the three
  searches as steps (take a node, follow an edge) with their budgets; a flow leaves an
  entrypoint by the edges its connections perform, or by all of its service's if it has
  no connection (`traceRelatedEdges`).
  **`GraphLayout`** turns the edges into constraints and pushes nodes to the right,
  one constraint a step. **`KnowledgePacks`** has the commands that install and
  switch packs, one action per read, removal, rename and write, hand edits, and the
  three reads of a run: lock, check and manifest, digest for the record.
  **`ArchitectureRun`** composes them: load packs, resolve, draw, rank, save, ask.
  The phases hand over what the next one needs and forget the rest.
* **`RefreshSchedulerProofs`** (with the queue it drives), **`RepositoryProofs`** (the
  budget of repositories and the refresh of a project), **`GraphRunsProofs`**,
  **`ExtractorRunsProofs`**, **`BackupCatalogProofs`**, **`AgentHostProofs`** (the host and the home with its
  migration), **`ArchitectureRunProofs`** (packs, resolution, ranks, queries) and
  **`ExtractionRunProofs`** (walk, workers, merges, stores, document) hold the theorems
  and their proofs.
* **`MC*`** modules and `.cfg` files are the instances for TLC.

An operator whose comment calls it a *mutant* is a plausible mistake in the
definition that follows it. No specification uses it; it exists so that the
property named in `PROJECT.json` can be seen to fail when the code is wrong in
that way.

### Abstractions

The head of each module states its own; these cross modules or matter most.

* Time: `not_before` is the Boolean `due`, tickers are fairness, deadlines are steps
  that may come at any time.
* A cancelled parent context reaches its children in the same step. Go
  propagates it synchronously inside `cancel()`; what reacts later is separate.
* In `RefreshScheduler` an ingestion is one `working` phase: its import, repository
  and graph phases change its progress only. What a pass does inside it is
  `ProjectRefresh`. The projects have repositories: the early return of
  `runQueuedRefresh` that lets a refresh of an empty project succeed is left out.
* Reads of the store never fail on their own. A failed write is a fault, where the
  code reacts to it: the claim, the finish, the watcher, launch, checkpoint and
  last save, and the policy. A recovery that fails ends the start; the next start
  repeats it, and the model has it as a crash. In `ProjectRefresh` writes succeed.
* A run id of `GraphRuns` is the second of its creation, with a suffix while that
  directory exists; the model never gives the id of a deleted run to a new one.
  `ExtractorRuns` does: there a freed id may be allocated again.
* `projects` is fixed in `RefreshScheduler`; deletion is in `RefreshQueue` and
  `RepositoryLimiter`.
* `ProjectRefresh` leaves out infrastructure repositories (skipped by the pass),
  damaged artifacts (treated as missing), a graceful stop (the contexts of
  `RefreshScheduler`) and the ticker. No edit restores an earlier version.
* `BackupCatalog` has no files that appear while a backup runs and no edits that
  bring back earlier content; `Restore` and `Verify` read one archive alone.
* `KnowledgePacks` has no lint and no project-local packs; which rules the packs
  hold is not carried on: `DependencyResolution` takes any set of rules.
* `GraphLayout` stops at the ranks: order within a rank, sizes and clusters are
  drawing.
* `DependencyResolution` keeps of names only how they compare: resembling route,
  equal topic, tier and length of an identity. `GraphQueries` follows the edges of
  a node in any order, of which the sorted one of the code is one. Resources are
  databases or buckets; the code's impact views do not follow the edges of buckets.
* In `ExtractionRun` what the code is and what the detectors find is chosen at the
  start. A copy of a record by the sort is one step; Go promises less of a data
  race. The first walk (for calls of repositories) has the limits of the second. All
  sites at which one symbol calls another are noise or none is. A derived row is looked
  up by its place, taken to be where the code looks for repositories. `crowded` is no
  state of the code: it keeps which targets noise shut out of a walk.
* `EntityReconcile` counts how often rows name a platform; the code counts instances and
  databases of a platform apart. Of the details that a merge fills in it has the store
  only, and the rows that are never stamped, those of caches, have their platform.
* `ConfiguredStores` has database clients only; targets of queues and HTTP clients
  are found the same way with rules for names. Keys are equal or not; a template is
  its fixed part, a URL wrapped in a default is that URL. The `Instance` text of a
  row, which converges on the name of its `InstanceRef`, is left out, and URLs are of
  engines `dbPlatformFromConfigValue` knows. Clients are merged by their key; that
  `MergeClients` also drops those whose symbols or names end alike is left out: here
  clients with keys of their own have names of their own.
* `ServiceDocument` keeps of an id only whether it is another's and whether it looks
  like a source line (`Refused`). Every place of an entity is also its evidence.

## 3. Runs

| Run | Question | States |
|---|---|---|
| `queue` | One project, three jobs (one of a delivery), two slots, two attempts per admission and three per job, a cap that is set, deletion and return of the project: do attempts, allowance, status and receipts agree through every mix of requeue, deferral, cancel, retry and recovery, up to the ceiling, and is admission what `RefreshAdmission` promises? | 564 k |
| `scheduler` | One job, one worker, two pieces of direct work (so that an ingestion is also resumed by hand), a stop or crash and a failed write: do queue, worker and records agree, does every job settle, every cancellation take effect, every shutdown end? | 309 k |
| `limiter` | Three operations (two of one project) for two slots, two administrators, a deletion and a stop: wakeups, counters, updates, progress. | 146 k |
| `graph_runs` | One run, two cancellers or deleters, a subscriber whose two channels hold one event each, a stop, a log that cannot be opened: do manifests, goroutines and streams agree, and does each end? | 414 k |
| `project_refresh` | A repository, local or with a remote, passes forced or not with two options, requests beside them, pushes, edits, cancellations, crashes that leave an analyser: are checkpoints true, graphs current, and is nobody busy for nothing? | 4.3 M |
| `extractor_runs` | Two starts that may get one id, a canceller or deleter, a reader that comes back, any number of crashes: streams, outcomes, ids, deletions. | 3.6 M |
| `extraction` | Two workers, two exposures, 72 call graphs, half of them with noise, and 6 sets of rows with two configurations, 12 configurations with and without clients, a cancellation: are connections what the calls reach, does merging lose nothing, is no operation told another environment's store, and does the workspace read the result back from its document? | 1.4 M |
| `backup_catalog` | Three rotations that keep one snapshot, an edit, a kill, a loss of power at any step. | 1.1 M |
| `agent_host` | A controller with two backends, two migrations, two settings, three operations, two deaths, one loss of power. | 250 k |
| `architecture_run` | Two packs of two versions, two commands, hand edits beside the load; every dependency on every small set of rules, routes, topics and identities, drawn and ranked in every small graph; every query under depths that bind and that do not. | 5.4 M |
| `direct_cancel`, `stale_reuse` | Sentences of the documentation the code does not keep; section 5. | violated |

Properties that state a promise over several actors: `CheckpointsHoldAlone` (a
checkpoint names an analysis of exactly its inputs), `CompletedIsCurrent` (the
graph of a pass is of nothing older than its beginning), `StreamsFitTogether` (no
gap and no repetition over replays, live channels and reconnections),
`OutcomesAgree` (memory, last event, state file and log), `RetentionKeeps` and
`CatalogIsWhole` (through losses of power), `JobsSurvive` (no answered write is
lost to a migration), `SettingsAgree` and `NoBackendIsLost` (failures in a
configuration), `PacksAreAsLocked` (what a run uses is what the lock it read says,
for packs nobody touches meanwhile), `SearchesAreTrue` and `FlowIsWhole`
(against reference definitions by distance in the graph), `EdgesPointRight`,
`ConnectionsAreReachable` (against `Reachable`), `ProductionIsTheRecord` (over five
rules of precedence, two ways to look up a variable, and three merges).

Why the bounds suffice. The interactions are pairwise: two jobs of one project,
a worker and direct work, a waiter and a releaser, a canceller and a finisher, a
subscriber and an emitter, a pass and a request; each instance has both parties
and, where an order matters, a third. A buffer of one overflows as one of 256
does. A ceiling of three meets an allowance of two as 100 meets 3: an attempt that
fails is queued again, and the last admission grants less than it would. `queue` follows
a behaviour until its jobs have had more than three attempts together (`MaxAttempts`): one
job at its ceiling beside two that wait, or one attempt each. Two rotations
after the first are what retention needs to delete wrongly. A graph of three
services and two queues has every cycle through a queue and a subscription.
Larger instances that were tried finish too late for a routine run: two projects
in `queue`, two crashes or two workers in `scheduler` (638 k and 609 k states with
liveness); they showed nothing new as far as they went. For the safety properties of
all ten passing instances the bounds do not matter any more: section 4 proves them for
any number of everything, those of `extraction` under three hypotheses which
`MCExtractionRun` has TLC check of its instance (`MCSupposed`). One of them is that
`MaxPathsTotal` does not bind, because the code may meet it without saying so
(section 6); the other four limits of a walk do bind in the instance.

`CHECK_DEADLOCK FALSE` is set where the bounded inputs run out: all stops and
faults have been used, every operation, rotation, query or run is over. There
the system only waits for requests. `queue` and `project_refresh` check deadlock.

### Fairness

* `RefreshScheduler`: weak fairness of each worker's loop, of its watcher, of each
  ingestion, of the life steps: the Go runtime schedules goroutines and the tickers
  (20, 50 and 100 ms) fire. `IngestionStep` is fair on the assumption that the
  external analysers end or die with their context. `EndOtherWork`: repository
  actions and builds end. `Elapse`: delays are finite. A server that is down is
  started again by its supervisor (`src/compose.yaml:9`). Crashes, faults and
  requests are owed by nobody. A failed write of the queue stops the scheduler by
  design until a restart, so its liveness ends there. `MaxDirect` bounds direct
  work, which could otherwise keep a project busy whenever a worker looks: the
  code does not promise fairness between them.
* `RepositoryLimiter`: an operation that may take a pass takes it, one that holds a
  slot releases it (`release` is deferred around the subprocess, which ends or is
  killed with its context). Each operation is used once. The code promises no
  order among waiters, so with endless arrivals starvation would be possible and
  is not excluded here.
* `GraphRuns`: goroutines proceed, those that feed readers too, and the pipeline ends. Readers owe nothing: a
  subscriber that never reads must not keep a deletion or a shutdown waiting.
* `AgentHost`: the host's goroutine proceeds and its deadlines pass (`HostStep`); a
  backend without an owner proceeds, since it reads the end of its pipe; a command
  proceeds. A backend that has an owner may hang for ever.

## 4. Proofs

All for every value of the constants, under the named assumptions of the modules.

**`RefreshSchedulerProofs`**, the queue (`QueueAssumption`: positive capacity and
allowance, the allowance at most the ceiling, random ids and delivery ids differ). The
safety
properties are not inductive by themselves: a retry keeps the allowance only
because the history has not reached the ceiling, and a requeue keeps the history
because a running job has exactly one running attempt, its last. `IInv` adds to
`TypeOK` that the table is finite (cardinalities make no sense otherwise), that
each record is a `GoodJob` (budget, history, and no cancellation while it waits),
and the two table-wide invariants. The argument has two layers: each operation
produces a `GoodJob` (`ClaimedIsGood`, `FinishedIsGood`, ...), and writing a good
job keeps `IInv` if the project was idle or the capacity not exhausted
(`UpdateKeepsIInv`, `InsertKeepsIInv`). From it follow `TypeCorrect`,
`ProjectsAreSerialised`, `CapacityIsKept`, `AllowanceIsKept`,
`HistoriesAreConsistent`, `AttemptsAreAccounted` (the two together, the invariant
the run checks), `CancelledJobsDoNotWait`, `DeliveriesKeepTheirReceipts` (the action
property `ReceiptsAreKept`), and `RefinesAdmission`: every step of the queue is a step
of `RefreshAdmission` or a stutter.

**`RefreshSchedulerProofs`**, the scheduler (`SchedulerAssumption`: finitely many workers, and what
stands for direct work is no job). The queue keeps `IInv`, since every step of the
scheduler is an operation of the queue or leaves it alone (`SchedulerDrivesQueue`);
so the promises of the queue hold under its workers (`QueueHoldsUnderWorkers`). What
is added relates the four places that know of a job: table, worker, goroutine of its
ingestion, and the records that goroutine leaves. `WorkersHoldRunningJobs` is not
inductive: that a worker's job is running rests on `HoldersAreSingle` through every
pc and on recovery having emptied the table (`RunningIsHeld` speaks of a server that
recovers, too); `RecordsAreTrue` needs that success is read from the archive before
the job is ended and that the archive does not change afterwards
(`SuccessIsEarned`), which is why the ingestion of a job is the latest of its project
(`IngestionsAreTheirs`) and its worker waits for it (`DrainedBeforeRelease`). From it
follow `EveryRunningJobHasItsWorker`, `AnalysesStayWithinWorkers` and
`RecordsTellTheTruth`.

**`RepositoryProofs`**, the budget (`LimiterAssumption`: finitely many operations, a
positive budget). `BudgetIsKept` says the counters are the cardinalities of the
sets of holders; it makes `Release` safe to subtract. `NoWakeupIsLost` is the
theorem about the broadcast channel: a waiter has no room under the policy now on
disk, or, for a project that was deleted, somebody else's release is still to
come; it needs that every change that could make room also notifies, and
`DrainIsWoken` for the shutdown beside it. `ServerWorkEnds`: after the drain only
operations of requests hold slots. `NoPolicyIsOverwrittenUnseen` (an action property)
rests on the revision an administrator has read: if it is the one on disk, nobody
has saved since.

**`GraphRunsProofs`** (`RunsAssumption`: channels hold at least one event). Two
arguments over the life of a run. `ManifestsAgree`: whoever deletes a run works on
one whose goroutine is through (`CancellersKnow`), and an id is taken before there is
anything of the run (`IdsAreTaken`). `StreamsAreInOrder`: a stream is, at every
moment, its pieces put end to end (what was read, what the channel, the pump's hand
and the live channel hold, and what is left of the replay); a step of pump or reader moves the border
of two pieces, so that only an event of the run changes the whole (`StreamsAreWhole`).

**`RepositoryProofs`**, the refresh (`RefreshAssumption`: the names of repositories, requests
and options are apart). What the properties claim of a checkpoint or of the end of a
pass is known at each line of the goroutine before it: `AtWork` says what a pass
that is alone knows of its analysis at each line (`OwnRun`, `OwnResult`: that it
began after the fingerprint and that the checkout has stayed), `Left` what remains of
it once the pass has gone on, `BusyFits` who owes a status its end. The proof has a
layer for each kind of write (a step of a worker, of `repo.json`, of a checkout).
Results: `CheckpointsAlwaysHold`, `BusyAlwaysMeansWork`, and `CompletedPassesAreCurrent`,
an action property. That a listing has a newest run needs a greatest element
(`HasGreatest`), which is taken from a well-founded order, without induction.

**`ExtractorRunsProofs`** (`ExtractorAssumption`: every start has its second, names
are apart, history and channels hold at least one event). `ExtractorInv` has three
layers: each run and what the two maps say of it (`RunsFit`: the bus has every live
run, an entry of the manager is not replaced while its run executes); directories
and requests (`DiskFits`); readers (`ReadersFit`: what was read, what is still in the
channel and, in a replay, a position k in the log of which both are parts). Since a
freed id is given again, what is said of a directory or of a reader holds for ids
given to one start only (`Sole`), as in the properties. Results: `LiveRunsStayApart`,
`OutcomesAlwaysAgree`, `StreamsAlwaysFit`, `DeletionsAlwaysWait` (an action property).

**`BackupCatalogProofs`** (`CatalogAssumption`: finitely many files, at least one
snapshot is kept). A directory is worth what a loss of power leaves of it, so the
invariant speaks of the images in `durable`, of which the directory itself is one
(`ImagesHaveIt`). `SnapshotsAreSafe`: what any image calls a snapshot is complete and
of one moment. `LastIsKept`: of what was published as many are certain, in every
image a snapshot, as retention promises. `HolderKnows` says what the one rotation with
the lock knows at each of its steps; the counting is in lemmas about lists without
repetition. Results: `ArchivesAreOfOneMoment`, `CatalogStaysWhole`,
`RetentionKeepsEnough`.

**`AgentHostProofs`** (`HostAssumption`, `MigrationAssumption`: names are apart, the
default is one of the settings). An operation is a list of pieces, and an error
changes the list. The invariant says which lists there are (`Plain`, `Before`,
`Unsaved`) and for each how the settings of the host, of its backend and of the disk
stand to each other. For the home: whoever writes jobs shares the lease, so that what
a migration has imported is what it publishes (`CopiesAreCurrent`). Results:
`SettingsStayAgreed`, `EveryBackendHasItsHost`, `MigratedJobsSurvive`.

**`ArchitectureRunProofs`** (`GraphAssumption`, `ResolutionAssumption`, `RunAssumption`,
`QueryAssumption`: finitely many nodes of three kinds, bounds are numbers, `None` is
none of them). The four parts of a run hand over little, so each has an invariant of
its own. Packs: what the lock said of a pack nobody has touched since holds at the
check (`Stands`) and at the digest (`UsedAsLocked`). Resolution: `ScanFits` says what
the identities read so far decide, whichever they are. Ranks: a constraint that does
not hold starts at a node that was pushed in every pass, and no rank exceeds the number
of nodes before it in an order of the constraints (`RanksFit`), so the passes suffice.
Queries: `Within` is a recursive function, of which lemmas say how a ball grows, that
it covers all there is after as many steps as there are nodes (`WithinAll`), and how
its first step is taken apart (`WithinPeels`); each is shown by a least counterexample
(`HoldsOfAll`), not by induction. Paths and impact views are one kind of search
(`Search`: the queue is in order of distance, everything nearer than its front was met,
whoever does not wait was followed, unless a cut is reported); flow views mark on
visiting, so their queue may hold a visit twice, and are another (`Round`). The parents
of a path get nearer by one each (`ParentsFit`); the edges pending in a flow yield
together what is still to be entered, hops between queues included (`YieldOfQueue`).
Results: `PacksStayAsLocked`, `EveryOrderDecidesAlike`, `PassesAreEnough`,
`SearchesStayTrue`, `FlowsAreWhole`.

**`ExtractionRunProofs`** (`WalkAssumption`: the limits of a walk are positive;
`RunAssumption`: finitely many symbols and exposures, ids that are apart, a detector
that names a platform is sure of its row and none names a store;
`DocumentAssumption`: every entity has a place, and equal objects are of one group, as
the prefixes of `semanticObjectID` make them, but for commands that are offered and
commands that are run). Two invariants, both also checked by TLC.

`RunInv` is about the workers. Beside a sort whose swaps nobody locks, what can be said
of a shared list is little (`TargetsFit`): whatever stands in it belongs there, it never
gets empty, and a list nobody may sort stays whole. `WorkerFits` says that
what was linked is called in an entry or met on the way (`Sound`), and that everything an
entry leads to is still to be walked to, being walked to, about to be linked, answered, or
crowded out by noise (`SeesTo`). The proper paths of a walk follow nothing but calls that
are no noise (`WalkFits`), and they leave nothing out unless the walk says so or a target
gets no more paths (`WalkCovers`: the nodes expanded so far, what they call, what was met,
and what still waits). What an exposure ought to meet is stated without what the workers
filter by (`Met`, `MetIsMetIn`).
That a walk is a chain of such steps is `WalkedIsReachable`, and that following a call site
is one `FollowIsAChain`. Merging is a chain, too: it keeps one row for every id
(`DedupeIsKeyed`), like one it was given but for schema and store.

`RowsInv` is about the rows. What a sure detector said of a fact survives every merge
(`SureRowsStay`: of rows with one platform the surest stays, and a generic one never
displaces it); rows that one merge leaves apart, the next leaves apart (`Apart`, `Stable`,
`ApartStays`), so that the last merge of `reconcile` drops nothing; and what a row was
told of its store comes from a client or from the key of its data source (`ToldBy`).

Results. `RunInvariance` and `RowsInvariance`, the two invariants. `NoLinkIsInvented`,
without a hypothesis. `ConnectionsTellTheCalls` (`ConnectionsAreReachable`) under
`TotalIsAmple`: as many symbols as there are, times `MaxPathsPerTarget`, stay within
`MaxPathsTotal` (24 and 1,000,000 in `engine.go`); without it the statement is false
(section 6). `FoundIsKept`, the stores the detectors named, without a hypothesis, and
`FoundReachesTheWorkspace` (all of `NothingFoundIsLost`) under `FactsAreOfOneClass`, without
which TLC finds it violated (section 6). Its second half is about the document: adding
entities is a chain of which every part has objects with ids of their own, each observed,
observations and evidence numbered apart (`WellFormed`, `NumberingGoesOn`), and tells the
entities it was given (`Describes`); so `ValidateCanonical` refuses it for how its ids look or
not at all, and what `protocolToArchitecture` reads back is the result (`DocumentTells`).
`ProductionIsTold` (`ProductionIsTheRecord`) under `SpeaksPlainly`: of one key an environment
says one thing, a key that is set from a variable is set so everywhere, the URLs of a key
are of one engine, and a variable is set to a constant that is itself no key or placeholder.
The reference `OfAnotherEnvironment` follows no such chains and weighs no such
contradictions, so beyond the hypothesis it does not say what production means. It takes
what any entry sets a variable to, by its whole key or at the end of a longer one
(`Setting`), and so sees what the code's order of the two lookups hides; the property
excepts exactly that, keys whose production is `Shadowed` by an entry of another or no
environment, and section 5 has the property without the exception.

Proofs asked for more exact definitions in a few places: `FailOperations` and
`RecordSync` as disjuncts, `NewestFirst` as the one sorted list there is, `Wanted` by
`SelectSeq`, `Emit` without nested updates, `Walked` as a recursive function, `Reachable` by
closed sets, `ById` and `Sublist` by ranks, `MergeClients` as a set, `Observe` and the flows of
a document without folds, and the assumptions on constants, which name what must differ.
The runs check them as they are proved.

Proved, and therefore in no run of their own: the types of the components, as theorems
of their own or inside the invariants (`TypeOKScheduler`, `Types`, `CatalogTypes`,
`HostTypes`, `HomeTypes`, `LayoutTypes`), `OneRunningPerProject`, `PendingWithinCapacity`, `SuccessIsFinal`,
`NoCancelledJobWaits`, `CountersMatchHolders`, `WorkEndsWithServer`, `DrainIsWoken`.
Kept as definitions and checked earlier with a cfg of one more line: `HistoryIsKept`,
`ProjectCapBindsAdmission` (`RefreshQueue`), `StreamsEndWithTheRun` and
`ShutdownCompletes` (`GraphRuns`), and the `TypeOK` of the modules without proofs.

**Only model-checked**: liveness (fairness and `ENABLED` are beyond the prover). Every
invariant and every action property that a passing run checks is stated by a theorem.

## 5. Where documentation and code differ

Two are runs that TLC must refute:

* `direct_cancel`: a direct ingestion whose cancellation was accepted and
  persisted while the server was already stopping ends as *interrupted* (the stop
  was the first cause) and is resumed at the next start; "Explicit user
  cancellations stay stopped" (`ui/ingestion.go:433-434`).
* `stale_reuse`: a sync asked of a local repository whose direct analysis runs
  replaces `diffmind_running` by `synced`
  (`ui/handlers_workspace.go:393-398`), so the project looks idle; a pass that
  begins then takes the direct analysis, made with other options, for its own and
  stores it under its own fingerprint (`RequestRun`, `RequestSync`, `BeginPass`,
  two analyses, `Collect` in the trace; nothing is cloned); "Only a
  previously successful analysis with intact, matching artifacts can be reused."
  (`src/docs/ingestion.md:9-10`).

The others are definitions a cfg of one line refutes:

* `JobCancelStaysStopped`: a job's ingestion cancelled by itself is recovered as
  cancelled after a crash, but the requeued job resumes it; "a crash while
  cancellation drains cannot turn it into an automatically resumed job"
  (`store/store.go:157`).
* `FailedSchedulerAdmitsNothing`: `handleRetryJob` admits after the scheduler has
  failed; persistence errors "stop the scheduler and reject new admission"
  (`src/docs/operations.md:137`).
* `DrainLeavesNothing` (`RepositoryLimiter`): a direct sync runs under the context
  of its request and may take a slot after the drain; "Direct repository actions
  share this budget and the server context" (`ui/server.go:291`).
* `FinishedRunsStayFinished` (`GraphRuns`): `Cancel` writes back a manifest it read
  before the run ended; "Unknown/finished runs are a no-op"
  (`runmgr/runmgr.go:241`).
* `GenericRoutesIdentifyNobody` (`ArchitectureRun`): the resolver still lets a route
  of that kind decide; "Such paths cannot safely identify a target service even
  when only one owner declared them." (`archgraph/archgraph.go:1131-1132`).
* `CancelledRunsPublishNothing` (`ExtractionRun`): the pipeline looks at its context
  at the listing of files, before discovery and in the workers; a run cancelled
  later, or during discovery, is announced as cancelled and written as a complete
  one, manifest first. "A failed or cancelled run writes run_failure.json (and
  skips the manifest until the retry succeeds)"
  (`src/internal/extractor/ui/server.go:277-283`).
* `FailedRunsAreReported`: if the manifest has been written and an artifact cannot
  be, there is no `run_failure.json`; same comment.
* `LinksAreDetermined`: `chooseDepsForSymbol` sorts the shared list in place
  (`stage/connections/target_policy.go:241`) while other workers read and sort it,
  so that which dependency is linked depends on their order. With one worker the
  property holds. "The same repository and locked pack content always produce the
  same result." (`src/docs/knowledge-packs.md:6-7`).
* `NoStoreIsInvented`: rows derived from calls of repositories get the most frequent
  platform of all rows (and, in a tie, one of them by the order of a map); "an
  ambiguous guess would be worse than leaving the platform generic"
  (`stage/discovery/deterministic.go`, `InferConfigDBPlatform`).
* `StoresAreDetermined`: `DetectClients` ranges over a Go map and `MergeClients` keeps
  one client of each configuration key, so which repository class is known by name,
  and so which store an operation of another is told, depends on the order; again
  `src/docs/knowledge-packs.md:6-7`.
* `UnknownStoresStayUnknown`: a client whose store is unknown is left out of the
  candidates, so that its operations are told that of "the single client of the
  kind"; "stamp nothing rather than guess"
  (`stage/discovery/client_propagation.go:50`).
* `StoresFitTheirPlatforms`: a generic row that was told a store is merged into a row
  of another platform, which takes the store over; "never cross-stamp"
  (`stage/discovery/instance_ref.go:105`).
* `PathLimitLosesNothing`: paths through tests, or through symbols whose names say little,
  count for `MaxPathsPerTarget` and are dropped after the walk
  (`stage/connections/engine.go:693`), so that a target that proper calls lead to may stay
  without a connection, and nothing says so; "Hitting MaxPathsPerTarget is NOT
  truncation — the dependency is still connected via an earlier path."
  (`ast/walker.go:111-112`).
* `ProductionSetsVariables`: `ResolvePlaceholder` asks for an entry whose whole key is the
  variable before it asks for one that ends in it (`config_resolve.go:143-159`), so a `.env`
  file of no environment hides what production's values set; "when per-environment overlays
  disagree the production overlay wins" (lines 191-193).
* `BucketsAffectTheirUsers` (`ArchitectureRun`): edges to an object storage are in neither
  `impactReverseTypes` nor `impactForwardTypes`, so nothing is affected by a bucket; "what
  is affected if this changes?" (`archgraph/impact.go:9-14`).
* `ProductionDecides`: `EnvConfigValue` keeps the environment of one document for the
  entries that follow it in the file (`config_resolve.go:211-213`), so that a base
  document after one of production makes production disagree with itself; "the
  production overlay wins" (lines 191-193).

## 6. What no property covers

Seen while modelling, each at a line a property could be about:

* Policies: a project deleted and created again starts its revisions over, so an
  old read may match a new policy; `NoSilentOverwrite` leaves such projects out.
* Graph runs: a reader that leaves a *finished* run with more events to come than
  its channel takes (256) leaves the replaying goroutine behind for good
  (`runmgr/runmgr.go:312`, 374): `LeftStreamsEnd` speaks of live streams only, and a
  cfg of one line refutes `EveryPumpEnds`, which speaks of all.
* Deleting a project checks neither for active analyses nor wakes waiters; the
  first is modelled only as far as slots are concerned (`NoForgottenWaiter`).
* Extractor runs: the replay's `select` may take the end before events that are
  still buffered; `StartRun` closes the live run's log before it refuses; `Cancel`
  may persist *cancelling* after the end was persisted, and a deletion between two
  saves brings the directory back; after a crash `run_state.json` says *running*
  until it is deleted. `OutcomesAgree` and `DeletionsWait` state what holds beside
  these.
* Extraction: `MaxPathsTotal` met inside the last call site is not reported, against
  the comment of `WalkVerbose` (`ast/walker.go:107-112`, 190-201); targets whose paths noise
  used up are excepted (`results[x].crowded`); which of several rows of a list is linked
  `ConnectionsAreReachable` does not ask (`LinksAreDetermined` does); where methods of two
  classes stand for one fact and their clients have different engines, the last merge
  drops a derived row, and its connections with it (`FactsAreOfOneClass`); the first walk ignores that it was cut; a walk does not go on behind a target, so
  what only a target calls is not linked; merged rows keep the places of one of
  them, so an exposure that reaches only the others has no connection
  (`ConnectionsAreReachable` speaks of the rows that are left).
* Configuration: `EnvConfigValue` does not know the environment *live*; where production disagrees with itself, `configuredDBRefFromProfiles` goes on
  to the stage; the fourth rule of `ConfigValue` never decides, for base files that
  nobody contradicts have been agreed with before.
* Service document: the id of an operation names neither platform nor schema
  (`artifacts/protocol.go:943`), so of two stores read alike, which merging keeps
  apart, the document describes the first only; a command that a program runs is
  read back as an entry point, and its connections are dropped
  (`workspace/artifacts/protocol.go:79`, 244); a name like `line_1` in any id makes
  validation refuse the whole document (`protocol/validate.go:26`), and the workspace
  reads the run, which has its manifest, as a service without anything
  (`workspace/artifacts/reader.go:32`, for `readRunDir` looks for directories the
  extractor no longer writes). `NothingFoundIsLost` states what holds beside these.
* Knowledge packs: `Install` and `SetEnabled` read, change and write the lock file
  without a lock, so that of two at a time one is lost; `LoadEnabled` compares the
  digest of a pack and then reads the pack again, and `ActiveSetDigest` reads it a
  third time, so that a pack installed anew meanwhile is used unlocked or recorded
  as something it was not (`PacksAreAsLocked` excepts packs touched during the
  load). `docs/knowledge-packs.md:113-114` promises that edited content stops the
  run, `docs/ARCHITECTURE.md:136-137` that graph runs record the digest "for the
  exact pack content used".
* Resolution and queries: a topic several services consume goes to the first in the
  order of a map; a flow view cut by depth is not called truncated; `addEdge` keeps
  edges to nodes the budget refused; re-convergence is marked as a cycle; an impact
  view that fills its budget exactly may be called truncated.
* Agent: a maintenance command whose stop fails returns before it restores the
  backend (`agenthost/host.go:337-339`); a migration that finds a queue published by
  a killed one does not sync its directory, so a loss of power may still lose it
  (`JobsSurvive` excepts writes exposed that way); settings are renamed without a
  directory sync.
* Backups: the marker of a first rotation that died before its sync is not synced by
  the next, only by its next publication.
* Refresh: an edit that is undone during an analysis escapes both fingerprints;
  the manifest of a run is written before its artifacts, so a lister beside it may
  see an incomplete run.

### Not modelled, and why

Tokens, access, knowledge gaps and the extractor's catalog: each operation is one
step under one mutex, and what a property could say is its guard. Detectors, SCIP reading, parsing of
languages and of Terraform, comparison of graphs, rendering, indexer builds, the
command line: functions of one input, of a size (more than half of the code) and
kind (strings) that a model could only transcribe. `Restore` and `Verify`: one
archive, read alone. The impact of pull requests: a projection of one graph that
keeps no state. Parsing, validation and matching of packs: functions of files.
Phases of an ingestion's record: progress for display.

## 7. Plan

Done: the modules of section 2 and the theorems of section 4. Next:

1. The detectors' rules for names (junk tables, transports of queues), if they grow
   beyond one function: they decide which rows there are before `Dedupe` sees them.
2. The identities of queues and HTTP targets, beside the stores of `ConfiguredStores`.
