--------------------------- MODULE ProjectRefresh ---------------------------
(***************************************************************************)
(* One project's repositories, the pass of an ingestion or a refresh over  *)
(* them (internal/workspace/ui/refresh.go: runProjectRefreshWithControl),  *)
(* the reuse of earlier analyses by fingerprint (ui/incremental.go), and   *)
(* the requests that sync or analyse one repository by themselves          *)
(* (ui/handlers_workspace.go, ui/handlers_bulk.go).                        *)
(*                                                                         *)
(* A pass holds the project's operation to its end.  A request for an      *)
(* analysis holds it only until its goroutine is started; from there on    *)
(* the status of the repository alone says that there is work.             *)
(*                                                                         *)
(* Abstractions.  What an analysis reads is two versions: of the checkout  *)
(* and of everything else the fingerprint covers (configuration, packs,    *)
(* edits in place); no edit brings an earlier version back.  A fingerprint *)
(* is those versions and the options; one taken across an edit equals no   *)
(* later one, so it is taken in one step.  A digest names one analysis,    *)
(* and an analysis appears in the runs directory whole.  Store writes      *)
(* succeed, slots are always there, the server does not stop gracefully,   *)
(* and a repository's deletion and the graph's build are left out.         *)
(***************************************************************************)
EXTENDS Integers, Sequences, FiniteSets

CONSTANTS
    Repos,        \* the project's repositories
    Directs,      \* requests for work on one repository
    Options,      \* values of the options of an analysis
    None,         \* nobody, no fingerprint
    MaxVersion,   \* bound: versions of a remote branch
    MaxEdits,     \* bound: edits of the other inputs
    MaxAnalyses   \* bound: analyser processes

ASSUME RefreshAssumption ==
    /\ Repos \cap Directs = {}
    /\ {None, "pass"} \cap (Repos \cup Directs \cup Options) = {} /\ None # "pass"
    /\ MaxVersion \in Nat \ {0} /\ {MaxEdits, MaxAnalyses} \subseteq Nat

VARIABLES
    record,    \* repository -> repo.json: git_url, status, last run, checkpoint
    tree,      \* repository -> version of its checkout, 0 without one
    remote,    \* repository -> version of its branch
    edits,     \* version of the other inputs
    analyses,  \* the analyser processes, in the order of their StartedAt
    op,        \* who holds the project's operation
    pass,      \* the ingestion or refresh at work
    worker     \* goroutines: the pass has one per repository

outside == <<remote, edits>>
vars == <<record, tree, analyses, op, pass, worker, outside>>

Workers  == Repos \cup Directs
Busy     == {"syncing", "diffmind_running"}
Status   == Busy \cup {"none", "unknown", "sync_queued", "synced", "failed", "diffmind_completed", "diffmind_failed"}

NoRecord == [git |-> FALSE, status |-> "none", last |-> 0, fingerprint |-> None, digest |-> 0,
             alone |-> FALSE]
NoWorker == [kind |-> "none", repo |-> None, opts |-> None, step |-> "none", seen |-> NoRecord,
             fingerprint |-> None, run |-> 0]
NoPass   == [opts |-> None, force |-> FALSE, cancelled |-> FALSE, failed |-> FALSE, alone |-> FALSE,
             since |-> << >>]

Registered == {r \in Repos : record[r].status # "none"}
Managed    == {r \in Repos : record[r].git}   \* cloned and synced by the server
Inputs(r)  == [tree |-> tree[r], edits |-> edits]
At(w, step) == worker[w].step = step
Repo(w)    == worker[w].repo
OfPass(w)  == worker[w].kind = "pass"

\* The context of the goroutine has been cancelled: it gets no slot, and its
\* processes die.
Cancelled(w) == OfPass(w) /\ pass.cancelled

SetStatus(r, status) == record' = [record EXCEPT ![r].status = status]
Goto(w, step) == worker' = [worker EXCEPT ![w].step = step]

\* The goroutine ends; a handler releases the operation it has held.
End(w) ==
    /\ worker' = [worker EXCEPT ![w] = NoWorker]
    /\ op' = IF op = w THEN None ELSE op

\* What a goroutine does after syncGitRepo has failed.
AfterFailedSync(w) ==
    IF worker[w].kind \in {"pass", "run"} THEN Goto(w, "fail") /\ UNCHANGED op ELSE End(w)

(***************************************************************************)
(* Requests for one repository.  Each needs the operation, if only for the *)
(* time of its handler.                                                    *)
(***************************************************************************)
Employ(d, kind, r, opts, step) ==
    /\ worker[d].kind = "none"
    /\ worker' = [worker EXCEPT ![d] = [NoWorker EXCEPT !.kind = kind, !.repo = r, !.opts = opts, !.step = step]]

\* handleCreateRepo; importGitHubRepos, which leaves the clone to a goroutine.
Register(r) ==
    /\ op = None /\ record[r].status = "none"
    /\ \E git \in BOOLEAN :
           /\ record' = [record EXCEPT ![r].status = "unknown", ![r].git = git]
           /\ tree' = [tree EXCEPT ![r] = IF git THEN 0 ELSE 1]
    /\ UNCHANGED <<analyses, op, pass, worker, outside>>

Import(d, r) ==
    /\ op = None /\ record[r].status = "none"
    /\ record' = [record EXCEPT ![r].status = "sync_queued", ![r].git = TRUE]
    /\ Employ(d, "clone", r, None, "sync")
    /\ UNCHANGED <<tree, analyses, op, pass, outside>>

\* handleStartDiffMindRepoRun; each repository of a batch.
RequestRun(d, r, opts) ==
    /\ op = None /\ r \in Registered
    /\ SetStatus(r, "diffmind_running")
    /\ Employ(d, "run", r, opts, "stat")
    /\ UNCHANGED <<tree, analyses, op, pass, outside>>

\* handleSyncRepo keeps the operation until the sync has ended.
RequestSync(d, r) ==
    /\ op = None /\ r \in Registered
    /\ \/ /\ r \in Managed
          /\ Employ(d, "sync", r, None, "sync")
          /\ op' = d
          /\ UNCHANGED record
       \/ /\ r \notin Managed
          /\ SetStatus(r, "synced")
          /\ UNCHANGED <<worker, op>>
    /\ UNCHANGED <<tree, analyses, pass, outside>>

(***************************************************************************)
(* syncGitRepo                                                             *)
(***************************************************************************)
Sync(w) ==
    /\ At(w, "sync")
    /\ \/ /\ ~ Cancelled(w)
          /\ SetStatus(Repo(w), "syncing")
          /\ Goto(w, "fetch") /\ UNCHANGED op
       \/ /\ Cancelled(w)
          /\ AfterFailedSync(w)
          /\ UNCHANGED record
    /\ UNCHANGED <<tree, analyses, pass, outside>>

\* Clone or fetch, inspect, check out; any of them may fail.
Fetch(w) ==
    /\ At(w, "fetch")
    /\ \/ /\ ~ Cancelled(w)
          /\ tree' = [tree EXCEPT ![Repo(w)] = remote[Repo(w)]]
          /\ Goto(w, "synced") /\ UNCHANGED <<record, op>>
       \/ /\ SetStatus(Repo(w), "failed")
          /\ AfterFailedSync(w)
          /\ UNCHANGED tree
    /\ UNCHANGED <<analyses, pass, outside>>

RecordSync(w) ==
    /\ At(w, "synced")
    /\ SetStatus(Repo(w), "synced")
    /\ \/ /\ OfPass(w)
          /\ worker' = [worker EXCEPT ![w].step = "look", ![w].seen = record'[Repo(w)]]
          /\ UNCHANGED op
       \/ worker[w].kind = "run" /\ Goto(w, "analyse") /\ UNCHANGED op
       \/ worker[w].kind \in {"sync", "clone"} /\ End(w)
    /\ UNCHANGED <<tree, analyses, pass, outside>>

(***************************************************************************)
(* runDiffMindForRepoContext                                               *)
(***************************************************************************)
Stat(w) ==
    /\ At(w, "stat")
    /\ Goto(w, IF tree[Repo(w)] = 0 /\ Repo(w) \in Managed THEN "sync" ELSE "analyse")
    /\ UNCHANGED <<record, tree, analyses, op, pass, outside>>

\* The analyser starts to read; without a slot there is none.
Analyse(w) ==
    /\ At(w, "analyse")
    /\ \/ /\ ~ Cancelled(w)
          /\ Len(analyses) < MaxAnalyses
          /\ analyses' = Append(analyses, [repo |-> Repo(w), opts |-> worker[w].opts, state |-> "running",
                                           from |-> Inputs(Repo(w)), to |-> Inputs(Repo(w))])
          /\ worker' = [worker EXCEPT ![w].step = "wait", ![w].run = Len(analyses) + 1]
       \/ /\ Cancelled(w)
          /\ worker' = [worker EXCEPT ![w].step = "save"]
          /\ UNCHANGED analyses
    /\ UNCHANGED <<record, tree, op, pass, outside>>

\* An analyser ends by itself, its server alive or not.
EndAnalysis(i) ==
    /\ analyses[i].state = "running"
    /\ \/ analyses' = [analyses EXCEPT ![i].state = "published", ![i].to = Inputs(analyses[i].repo)]
       \/ analyses' = [analyses EXCEPT ![i].state = "failed"]
    /\ UNCHANGED <<record, tree, op, pass, worker, outside>>

Published(r) == {i \in DOMAIN analyses : analyses[i].repo = r /\ analyses[i].state = "published"}

\* The head of DiscoverDiffMindRunsByRepo: the latest StartedAt.
Newest(r) == CHOOSE i \in Published(r) : \A j \in Published(r) : i >= j

\* RunDiffMindContext returns, and the runs are listed: an analyser that
\* succeeded has published, so there is one that was not there before.
Collect(w) ==
    LET i == worker[w].run
    IN  /\ At(w, "wait")
        /\ \/ /\ Cancelled(w)
              /\ analyses' = [analyses EXCEPT ![i].state = IF @ = "running" THEN "failed" ELSE @]
              /\ worker' = [worker EXCEPT ![w].step = "save", ![w].run = 0]
           \/ /\ ~ Cancelled(w) /\ analyses[i].state # "running"
              /\ worker' = [worker EXCEPT ![w].step = "save",
                     ![w].run = IF analyses[i].state = "published" THEN Newest(Repo(w)) ELSE 0]
              /\ UNCHANGED analyses
        /\ UNCHANGED <<record, tree, op, pass, outside>>

SaveRun(w) ==
    LET r == Repo(w) run == worker[w].run
    IN  /\ At(w, "save")
        /\ record' = IF run = 0 THEN [record EXCEPT ![r].status = "diffmind_failed"]
                     ELSE [record EXCEPT ![r].status = "diffmind_completed", ![r].last = run]
        /\ IF OfPass(w) THEN Goto(w, "digest") /\ UNCHANGED op ELSE End(w)
        /\ UNCHANGED <<tree, analyses, pass, outside>>

Fail(w) ==
    /\ At(w, "fail")
    /\ SetStatus(Repo(w), "diffmind_failed")
    /\ pass' = [pass EXCEPT !.failed = @ \/ OfPass(w)]
    /\ End(w)
    /\ UNCHANGED <<tree, analyses, outside>>

(***************************************************************************)
(* The pass                                                                *)
(***************************************************************************)
\* projectHasActiveWork looks at the statuses.
HasActiveWork == \E r \in Repos : record[r].status \in Busy

\* History: nobody else is at work on a repository when the pass begins, and
\* nobody can begin while it has the operation.
BeginPass(opts, force) ==
    /\ op = None /\ ~ HasActiveWork /\ Registered # {}
    /\ op' = "pass"
    /\ pass' = [NoPass EXCEPT !.opts = opts, !.force = force,
                    !.alone = \A d \in Directs : worker[d].kind = "none",
                    !.since = [r \in Registered |->
                        [tree |-> IF r \in Managed THEN remote[r] ELSE tree[r], edits |-> edits]]]
    /\ worker' = [w \in Workers |-> IF w \in Registered
           THEN [NoWorker EXCEPT !.kind = "pass", !.repo = w, !.opts = opts, !.step = "begin",
                              !.seen = IF w \in Managed THEN NoRecord ELSE record[w]]
           ELSE worker[w]]
    /\ UNCHANGED <<record, tree, analyses, outside>>

\* handleCancelIngestion, or the end of the server's context.
CancelPass ==
    /\ op = "pass" /\ ~ pass.cancelled
    /\ pass' = [pass EXCEPT !.cancelled = TRUE]
    /\ UNCHANGED <<record, tree, analyses, op, worker, outside>>

Begin(w) ==
    /\ At(w, "begin")
    /\ IF pass.cancelled THEN End(w)
       ELSE Goto(w, IF Repo(w) \in Managed THEN "sync" ELSE "look") /\ UNCHANGED op
    /\ UNCHANGED <<record, tree, analyses, pass, outside>>

\* Dirty or unreadable inputs have no fingerprint.
Fingerprints(w) == {None, [inputs |-> Inputs(Repo(w)), opts |-> worker[w].opts]}

\* Mutant of Reusable: the artifacts of the last run are not compared.
ReusableByFingerprint(seen, fingerprint) ==
    /\ fingerprint # None /\ seen.fingerprint = fingerprint
    /\ seen.status \in {"diffmind_completed", "synced"}

\* reusableAnalysis, on the record as the goroutine has read it.
Reusable(seen, fingerprint) ==
    /\ fingerprint # None /\ seen.fingerprint = fingerprint
    /\ seen.status \in {"diffmind_completed", "synced"}
    /\ seen.digest # 0 /\ seen.digest = seen.last

Look(w) ==
    /\ At(w, "look")
    /\ \E fingerprint \in Fingerprints(w) :
           worker' = [worker EXCEPT ![w].fingerprint = fingerprint,
               ![w].step = IF ~ pass.force /\ Reusable(worker[w].seen, fingerprint) THEN "reuse" ELSE "mark"]
    /\ UNCHANGED <<record, tree, analyses, op, pass, outside>>

Reuse(w) ==
    /\ At(w, "reuse")
    /\ SetStatus(Repo(w), "diffmind_completed")
    /\ End(w)
    /\ UNCHANGED <<tree, analyses, pass, outside>>

\* The old checkpoint goes before the new analysis begins.
Mark(w) ==
    /\ At(w, "mark")
    /\ record' = [record EXCEPT ![Repo(w)] =
           [@ EXCEPT !.status = "diffmind_running", !.fingerprint = None, !.digest = 0, !.alone = FALSE]]
    /\ worker' = [worker EXCEPT ![w].step = "analyse", ![w].seen = NoRecord]
    /\ UNCHANGED <<tree, analyses, op, pass, outside>>

\* The record is read again, and the artifacts of the run that it names now.
Digest(w) ==
    /\ At(w, "digest")
    /\ worker' = [worker EXCEPT ![w].seen = record[Repo(w)],
           ![w].step = IF record[Repo(w)].status = "diffmind_completed" THEN "checkpoint" ELSE "fail"]
    /\ UNCHANGED <<record, tree, analyses, op, pass, outside>>

\* Mutant of Unchanged: the fingerprint is not taken again.
UnchangedUnseen(before, after) == before

Unchanged(before, after) == IF after = before THEN before ELSE None

Checkpoint(w) ==
    LET r == Repo(w)
    IN  /\ At(w, "checkpoint")
        /\ \E after \in Fingerprints(w) :
               record' = [record EXCEPT ![r].fingerprint = Unchanged(worker[w].fingerprint, after),
                              ![r].digest = worker[w].seen.last,
                              ![r].alone = pass.alone /\ Unchanged(worker[w].fingerprint, after) # None]
        /\ End(w)
        /\ UNCHANGED <<tree, analyses, pass, outside>>

\* The graph is started over the last runs, unless the context has ended; the
\* errors of the repositories make the ingestion partial.
Refs == [r \in {r \in Registered : record[r].last # 0} |-> record[r].last]
Completes == ~ pass.cancelled /\ ~ pass.failed /\ DOMAIN Refs # {}

EndPass ==
    /\ op = "pass" /\ \A r \in Repos : worker[r].kind = "none"
    /\ pass' = NoPass
    /\ op' = None
    /\ UNCHANGED <<record, tree, analyses, worker, outside>>

(***************************************************************************)
(* What happens outside, and the death of the server                       *)
(***************************************************************************)
Push(r) ==
    /\ r \in Managed /\ remote[r] < MaxVersion
    /\ remote' = [remote EXCEPT ![r] = @ + 1]
    /\ UNCHANGED <<record, tree, analyses, op, pass, worker, edits>>

Edit ==
    /\ edits < MaxEdits
    /\ edits' = edits + 1
    /\ UNCHANGED <<record, tree, remote, analyses, op, pass, worker>>

\* Mutant of Recovered: only analyses are taken for interrupted.
RecoveredAnalyses(status) == IF status = "diffmind_running" THEN "diffmind_failed" ELSE status

\* recoverInterruptedIngestions, before the next server serves anything.
Recovered(status) == IF status \in Busy THEN "diffmind_failed" ELSE status

\* Analysers have process groups of their own and may outlive the server.
Crash ==
    /\ record' = [r \in Repos |-> [record[r] EXCEPT !.status = Recovered(@)]]
    /\ worker' = [w \in Workers |-> NoWorker]
    /\ op' = None
    /\ pass' = NoPass
    /\ UNCHANGED <<tree, analyses, remote, edits>>

-----------------------------------------------------------------------------
Init ==
    /\ record = [r \in Repos |-> NoRecord]
    /\ tree = [r \in Repos |-> 0]
    /\ remote = [r \in Repos |-> 1]
    /\ edits = 0
    /\ analyses = << >>
    /\ op = None
    /\ pass = NoPass
    /\ worker = [w \in Workers |-> NoWorker]

Request(d, r) ==
    \/ Import(d, r) \/ RequestSync(d, r)
    \/ \E opts \in Options : RequestRun(d, r, opts)

Work(w) ==
    \/ Sync(w) \/ Fetch(w) \/ RecordSync(w)
    \/ Stat(w) \/ Analyse(w) \/ Collect(w) \/ SaveRun(w) \/ Fail(w)
    \/ Begin(w) \/ Look(w) \/ Reuse(w) \/ Mark(w) \/ Digest(w) \/ Checkpoint(w)

Next ==
    \/ \E r \in Repos : Register(r) \/ Push(r) \/ \E d \in Directs : Request(d, r)
    \/ \E opts \in Options, force \in BOOLEAN : BeginPass(opts, force)
    \/ CancelPass \/ EndPass \/ Edit \/ Crash
    \/ \E w \in Workers : Work(w)
    \/ \E i \in DOMAIN analyses : EndAnalysis(i)

Spec == Init /\ [][Next]_vars

-----------------------------------------------------------------------------
(***************************************************************************)
(* Properties                                                              *)
(***************************************************************************)
Versions == [tree : 0..MaxVersion, edits : 0..MaxEdits]
FingerprintSet == [inputs : Versions, opts : Options] \cup {None}

TypeOK ==
    /\ \A r \in Repos :
           /\ record[r].status \in Status
           /\ {record[r].last, record[r].digest} \subseteq 0..Len(analyses)
           /\ record[r].fingerprint \in FingerprintSet
    /\ tree \in [Repos -> 0..MaxVersion] /\ remote \in [Repos -> 0..MaxVersion]
    /\ \A i \in DOMAIN analyses : {analyses[i].from, analyses[i].to} \subseteq Versions
    /\ op \in {None, "pass"} \cup Directs
    /\ \A w \in Workers : worker[w].kind \in {"none", "pass", "run", "sync", "clone"}
    /\ edits \in 0..MaxEdits

\* A checkpoint says of the analysis whose artifacts it names what is true of
\* it: that it read these inputs, and no others, under these options.
Truthful(checkpoint) ==
    LET analysis == analyses[checkpoint.digest]
    IN  /\ analysis.state = "published"
        /\ analysis.from = checkpoint.fingerprint.inputs
        /\ analysis.to = checkpoint.fingerprint.inputs
        /\ analysis.opts = checkpoint.fingerprint.opts

\* What the documentation says of every checkpoint (docs/ingestion.md:9-12,
\* incremental.go:22-23).  It takes one direct analysis of a
\* local repository and a sync of it meanwhile: the sync marks the repository
\* as synced (RequestSync), which looks idle, a pass begins beside the analysis
\* and takes the run of the other for its own.
CheckpointsAreTruthful ==
    \A r \in Repos : record[r].fingerprint # None => Truthful(record[r])

\* It holds of the checkpoints of passes that had the repositories to
\* themselves, whatever is pushed, edited, cancelled or left behind by a
\* crash meanwhile.  refresh.go: the checkpoint is cleared, the record read
\* again, the fingerprint taken twice.
CheckpointsHoldAlone ==
    \A r \in Repos : record[r].fingerprint # None /\ record[r].alone => Truthful(record[r])

OwnCheckpoints == \A r \in Repos : record[r].fingerprint # None => record[r].alone

AtLeast(v, w) == v.tree >= w.tree /\ v.edits >= w.edits

\* A pass that ends without an error, and had the repositories to itself, has
\* built its graph from all of them, of analyses with its own options that
\* read nothing older than what was there when it began: neither a reused
\* analysis nor one that an earlier server left behind is out of date.
CompletedIsCurrent ==
    [][EndPass /\ Completes /\ pass.alone /\ OwnCheckpoints =>
           /\ DOMAIN Refs = DOMAIN pass.since
           /\ \A r \in DOMAIN Refs :
                  /\ analyses[Refs[r]].opts = pass.opts
                  /\ AtLeast(analyses[Refs[r]].from, pass.since[r])]_vars

\* A repository whose status keeps the project from being ingested has a
\* goroutine that will change it: no order of requests, failures,
\* cancellations and deaths leaves the project busy for nothing.
BusyMeansWork ==
    \A r \in Repos : record[r].status \in Busy => \E w \in Workers : Repo(w) = r
=============================================================================
