-------------------------- MODULE RefreshScheduler --------------------------
(***************************************************************************)
(* The refresh workers of internal/workspace/ui/operations.go, the project *)
(* ingestions they launch (ui/ingestion.go) and the life of the server     *)
(* around them, on top of the durable queue of RefreshQueue.               *)
(*                                                                         *)
(* A worker claims a job, launches an ingestion of its project or finds    *)
(* the project busy, waits until that ingestion has drained, reads what    *)
(* its attempt came to and finishes the job.  A watcher beside it turns a  *)
(* persisted cancellation into a cancelled attempt context.  The server    *)
(* may be shut down, may crash at any step and recovers from what is on    *)
(* disk: the queue, the latest ingestion of each project and the archive   *)
(* of ingestion attempts.                                                  *)
(*                                                                         *)
(* Abstractions.  Projects exist and have repositories.  Everything that   *)
(* makes a project busy without being an ingestion (repository actions,    *)
(* direct graph builds, project edits) is `held`.  The identity of an      *)
(* ingestion is its owner: a job resumes the ingestion it left behind and  *)
(* a direct one is resumed by hand or at start.  Delivered webhooks are    *)
(* enqueued like refreshes and left to RefreshQueue.                       *)
(***************************************************************************)
EXTENDS RefreshQueue

CONSTANTS
    Workers,      \* refresh workers (2 by default)
    MaxDirect,    \* bound: direct ingestions and other work started
    MaxCrashes,   \* bound: crashes and shutdowns of the server
    MaxFaults     \* bound: writes of the store that fail

Direct == "direct"     \* owner of an ingestion no job asked for
NoOne  == "no_one"     \* owner of no ingestion

ASSUME SchedulerAssumption ==
    /\ IsFiniteSet(Workers)
    /\ {MaxDirect, MaxCrashes, MaxFaults} \subseteq Nat
    /\ {Direct, NoOne} \cap JobId = {}

VARIABLES
    server,      \* life of the process
    toRecover,   \* jobs RecoverJobs still has to mark interrupted
    toResume,    \* projects whose direct ingestion the start may resume
    opsDone,     \* the context of the workers is done
    opsError,    \* operationsError is set: the scheduler has failed
    worker,      \* worker -> where it is, its job, the state of its attempt
    ingestion,   \* project -> the latest ingestion record (ingestion.json)
    outcome,     \* job -> archived status of its last ingestion attempt
    active,      \* project -> the ingestion goroutine, if one runs
    held,        \* projects other work has made busy
    used         \* how much of each bound has been used

schedulerVars == <<server, toRecover, toResume, opsDone, opsError, worker,
                   ingestion, outcome, active, held, used>>
vars == <<queueVars, schedulerVars>>

Owner           == JobId \cup {Direct, NoOne}
IngestionStatus == {"none", "running", "completed", "partial", "failed",
                    "cancelled", "interrupted"}
Signal          == {"none", "user", "stop"}   \* cause of a cancelled context

IdleWorker   == [pc |-> "idle", job |-> NoOne, signal |-> "none",
                 result |-> "failed", busy |-> FALSE]
NoIngestion  == [owner |-> NoOne, status |-> "none", cancelRequested |-> FALSE]
NotActive    == [owner |-> NoOne, phase |-> "idle", cause |-> "none", result |-> "none"]

Serving      == server \in {"up", "stopping"} /\ toResume = {}
IsActive(p)  == active[p].phase # "idle"
HasJob(w)    == worker[w].pc \in {"launch", "drain", "collect", "finish"}
ProjectOf(w) == jobs[worker[w].job].project

UnchangedQueue  == UNCHANGED queueVars
UnchangedServer == UNCHANGED <<server, toRecover, toResume, opsDone, opsError>>

TypeOKScheduler ==
    /\ TypeOK
    /\ server \in {"down", "recovering", "up", "stopping"}
    /\ toRecover \subseteq Recorded
    /\ toResume \subseteq Projects
    /\ opsDone \in BOOLEAN /\ opsError \in BOOLEAN
    /\ worker \in [Workers ->
           [pc : {"idle", "claiming", "launch", "drain", "collect", "finish", "exited"},
            job : JobId \cup {NoOne}, signal : Signal, result : Terminal, busy : BOOLEAN]]
    /\ ingestion \in [Projects ->
           [owner : Owner, status : IngestionStatus, cancelRequested : BOOLEAN]]
    /\ outcome \in [JobId -> IngestionStatus]
    /\ active \in [Projects ->
           [owner : Owner, phase : {"idle", "working", "decided", "saved"},
            cause : Signal, result : IngestionStatus]]
    /\ held \subseteq Projects
    /\ used \in [direct : 0..MaxDirect, crashes : 0..MaxCrashes, faults : 0..MaxFaults]

(***************************************************************************)
(* Contexts: the first cause of a cancellation is the one that stays.      *)
(***************************************************************************)
Cancelled(cause, current) == IF current = "none" THEN cause ELSE current

\* The attempts of all workers and the ingestions in `hit` see the stop.
StopContexts(hit) ==
    /\ worker' = [w \in Workers |->
           IF HasJob(w) THEN [worker[w] EXCEPT !.signal = Cancelled("stop", @)]
                        ELSE worker[w]]
    /\ active' = [p \in Projects |->
           IF p \in hit /\ IsActive(p) THEN [active[p] EXCEPT !.cause = Cancelled("stop", @)]
                                       ELSE active[p]]

JobOwned == {p \in Projects : active[p].owner \in JobId}

(***************************************************************************)
(* The worker loop                                                         *)
(***************************************************************************)
SetWorker(w, new) == worker' = [worker EXCEPT ![w] = new]

\* Mutant of CheckContext: the loop looks at the error instead of the context.
CheckError(w) ==
    /\ server \in {"up", "stopping"}
    /\ worker[w].pc = "idle"
    /\ SetWorker(w, [worker[w] EXCEPT !.pc = IF opsError THEN "exited" ELSE "claiming"])
    /\ UnchangedQueue /\ UnchangedServer
    /\ UNCHANGED <<ingestion, outcome, active, held, used>>

\* The loop reads the context, and only then claims: a stop in between does
\* not keep the worker from claiming one more job.
CheckContext(w) ==
    /\ server \in {"up", "stopping"}
    /\ worker[w].pc = "idle"
    /\ SetWorker(w, [worker[w] EXCEPT !.pc = IF opsDone THEN "exited" ELSE "claiming"])
    /\ UnchangedQueue /\ UnchangedServer
    /\ UNCHANGED <<ingestion, outcome, active, held, used>>

Claim(w) ==
    /\ worker[w].pc = "claiming"
    /\ \E id \in JobId :
         /\ ClaimJob(id)
         /\ SetWorker(w, [IdleWorker EXCEPT !.pc = "launch", !.job = id,
                                            !.signal = IF opsDone THEN "stop" ELSE "none"])
    /\ UnchangedServer
    /\ UNCHANGED <<ingestion, outcome, active, held, used>>

NothingToClaim(w) ==
    /\ worker[w].pc = "claiming"
    /\ ~ \E id \in JobId : Claimable(id)
    /\ SetWorker(w, IdleWorker)
    /\ UnchangedQueue /\ UnchangedServer
    /\ UNCHANGED <<ingestion, outcome, active, held, used>>

\* The poll of the watcher: a persisted cancellation reaches the attempt and
\* the ingestion it runs, unless both have been cancelled already.
WatchCancel(w) ==
    /\ worker[w].pc \in {"launch", "drain"}
    /\ worker[w].signal = "none"
    /\ jobs[worker[w].job].cancelRequested
    /\ SetWorker(w, [worker[w] EXCEPT !.signal = "user"])
    /\ active' = [p \in Projects |->
           IF active[p].owner = worker[w].job
           THEN [active[p] EXCEPT !.cause = Cancelled("user", @)] ELSE active[p]]
    /\ UnchangedQueue /\ UnchangedServer
    /\ UNCHANGED <<ingestion, outcome, held, used>>

\* launchIngestion: one ingestion per project, and none while other work
\* holds the project.  A job takes up its own earlier ingestion again.
Busy(p) == IsActive(p) \/ p \in held
Launch(p, owner) ==
    /\ active' = [active EXCEPT ![p] = [NotActive EXCEPT !.owner = owner, !.phase = "working"]]
    /\ ingestion' = [ingestion EXCEPT ![p] =
           [owner |-> owner, status |-> "running", cancelRequested |-> FALSE]]
    /\ outcome' = IF owner \in JobId THEN [outcome EXCEPT ![owner] = "running"] ELSE outcome

LaunchJob(w) ==
    /\ worker[w].pc = "launch"
    /\ worker[w].signal = "none"
    /\ ~ Busy(ProjectOf(w))
    /\ Launch(ProjectOf(w), worker[w].job)
    /\ SetWorker(w, [worker[w] EXCEPT !.pc = "drain"])
    /\ UnchangedQueue /\ UnchangedServer
    /\ UNCHANGED <<held, used>>

\* A cancelled context fails the attempt, a busy project defers it; a stop
\* of the workers overrides both results.
CannotLaunch(w) ==
    /\ worker[w].pc = "launch"
    /\ worker[w].signal # "none" \/ Busy(ProjectOf(w))
    /\ SetWorker(w, [worker[w] EXCEPT !.pc = "finish",
                                      !.result = IF opsDone THEN "interrupted" ELSE "failed",
                                      !.busy = worker[w].signal = "none"])
    /\ UnchangedQueue /\ UnchangedServer
    /\ UNCHANGED <<ingestion, outcome, active, held, used>>

\* Mutant of Drained: a cancelled attempt lets go of the worker.
DrainedOrCancelled(w) ==
    /\ worker[w].pc = "drain"
    /\ ~ IsActive(ProjectOf(w)) \/ worker[w].signal # "none"
    /\ SetWorker(w, [worker[w] EXCEPT !.pc = "collect"])
    /\ UnchangedQueue /\ UnchangedServer
    /\ UNCHANGED <<ingestion, outcome, active, held, used>>
\* The worker is kept until no ingestion of its project is active.
Drained(w) ==
    /\ worker[w].pc = "drain"
    /\ ~ IsActive(ProjectOf(w))
    /\ SetWorker(w, [worker[w] EXCEPT !.pc = "collect"])
    /\ UnchangedQueue /\ UnchangedServer
    /\ UNCHANGED <<ingestion, outcome, active, held, used>>

\* GetIngestionAttempt reads the archived attempt, not the latest record,
\* which another ingestion of the project may have replaced.
JobResult(status) ==
    CASE status = "completed" -> "succeeded"
      [] status = "cancelled" -> "cancelled"
      [] OTHER                -> "failed"

\* Mutant of AttemptRead: the latest ingestion of the project is read.
LatestRead(w) == ingestion[ProjectOf(w)].status

AttemptRead(w) == outcome[worker[w].job]

Collect(w) ==
    /\ worker[w].pc = "collect"
    /\ SetWorker(w, [worker[w] EXCEPT
           !.pc = "finish",
           !.result = IF opsDone THEN "interrupted" ELSE JobResult(AttemptRead(w))])
    /\ UnchangedQueue /\ UnchangedServer
    /\ UNCHANGED <<ingestion, outcome, active, held, used>>

Finish(w) ==
    /\ worker[w].pc = "finish"
    /\ FinishJob(worker[w].job, worker[w].result, worker[w].busy, TRUE)
    /\ SetWorker(w, IdleWorker)
    /\ UnchangedServer
    /\ UNCHANGED <<ingestion, outcome, active, held, used>>

Fault == /\ used.faults < MaxFaults
         /\ used' = [used EXCEPT !.faults = @ + 1]

\* failOperations: a call of the store fails under w, the scheduler stops
\* for good and cancels the other attempts; the job stays as it was.
FailOperations(w) ==
    /\ Fault
    /\ opsDone' = TRUE /\ opsError' = TRUE
    /\ worker' = [v \in Workers |->
           IF v = w THEN [IdleWorker EXCEPT !.pc = "exited"]
           ELSE IF HasJob(v) THEN [worker[v] EXCEPT !.signal = Cancelled("stop", @)]
           ELSE worker[v]]
    /\ active' = [p \in Projects |->
           IF p \in JobOwned THEN [active[p] EXCEPT !.cause = Cancelled("stop", @)]
                             ELSE active[p]]
    /\ UnchangedQueue
    /\ UNCHANGED <<server, toRecover, toResume, ingestion, outcome, held>>

\* The watcher cannot read the job: the attempt ends, and not as cancelled.
WatchFails(w) ==
    /\ worker[w].pc \in {"launch", "drain"}
    /\ worker[w].signal = "none"
    /\ Fault
    /\ SetWorker(w, [worker[w] EXCEPT !.signal = "stop"])
    /\ active' = [p \in Projects |->
           IF active[p].owner = worker[w].job
           THEN [active[p] EXCEPT !.cause = Cancelled("stop", @)] ELSE active[p]]
    /\ UnchangedQueue /\ UnchangedServer
    /\ UNCHANGED <<ingestion, outcome, held>>

\* The record of a new ingestion cannot be written: a failed attempt.
LaunchFails(w) ==
    /\ worker[w].pc = "launch"
    /\ worker[w].signal = "none"
    /\ ~ Busy(ProjectOf(w))
    /\ Fault
    /\ SetWorker(w, [worker[w] EXCEPT !.pc = "finish", !.busy = FALSE,
                                      !.result = IF opsDone THEN "interrupted" ELSE "failed"])
    /\ UnchangedQueue /\ UnchangedServer
    /\ UNCHANGED <<ingestion, outcome, active, held>>

ClaimFails(w)  == worker[w].pc = "claiming" /\ FailOperations(w)
FinishFails(w) == worker[w].pc = "finish" /\ FailOperations(w)

(***************************************************************************)
(* The ingestion goroutine: it decides by its context, saves the record    *)
(* and its archive, and only then gives the project back.                  *)
(***************************************************************************)
Outcomes(cause) ==
    CASE cause = "user" -> {"cancelled"}
      [] cause = "stop" -> {"interrupted"}
      [] cause = "none" -> {"completed", "partial", "failed"}

Decide(p, result) ==
    /\ active[p].phase = "working"
    /\ result \in Outcomes(active[p].cause)
    /\ active' = [active EXCEPT ![p].phase = "decided", ![p].result = result]
    /\ UnchangedQueue /\ UnchangedServer
    /\ UNCHANGED <<worker, ingestion, outcome, held, used>>

RecordResult(p, status) ==
    /\ ingestion' = [ingestion EXCEPT ![p].status = status]
    /\ outcome' = IF ingestion[p].owner \in JobId
                  THEN [outcome EXCEPT ![ingestion[p].owner] = status] ELSE outcome

SaveResult(p) ==
    /\ active[p].phase = "decided"
    /\ RecordResult(p, active[p].result)
    /\ active' = [active EXCEPT ![p].phase = "saved"]
    /\ UnchangedQueue /\ UnchangedServer
    /\ UNCHANGED <<worker, held, used>>

\* A checkpoint that cannot be saved cancels the work, with a cause of its own
\* that counts as an interruption.
CheckpointFails(p) ==
    /\ active[p].phase = "working"
    /\ Fault
    /\ active' = [active EXCEPT ![p].cause = Cancelled("stop", @)]
    /\ UnchangedQueue /\ UnchangedServer
    /\ UNCHANGED <<worker, ingestion, outcome, held>>

\* The last save fails: the record is left running with nothing behind it.
SaveResultFails(p) ==
    /\ active[p].phase = "decided"
    /\ Fault
    /\ active' = [active EXCEPT ![p].phase = "saved"]
    /\ UnchangedQueue /\ UnchangedServer
    /\ UNCHANGED <<worker, ingestion, outcome, held>>

FinishIngestionOperation(p) ==
    /\ active[p].phase = "saved"
    /\ active' = [active EXCEPT ![p] = NotActive]
    /\ UnchangedQueue /\ UnchangedServer
    /\ UNCHANGED <<worker, ingestion, outcome, held, used>>

(***************************************************************************)
(* Requests                                                                *)
(***************************************************************************)
QueueRequest ==
    /\ Serving
    /\ UnchangedServer
    /\ UNCHANGED <<worker, ingestion, outcome, active, held, used>>

\* enqueueRefresh turns a request away once the scheduler has failed.
RequestRefresh(p, trigger) ==
    /\ ~ opsError
    /\ \E id \in RefreshIds : EnqueueRefresh(p, trigger, id)
    /\ QueueRequest

RequestCancel(id) == CancelJob(id) /\ QueueRequest

RequestRetry(id) == RetryJob(id) /\ QueueRequest

DirectWork == /\ used.direct < MaxDirect
              /\ used' = [used EXCEPT !.direct = @ + 1]

StartDirect(p) ==
    /\ Serving /\ server = "up"
    /\ DirectWork
    /\ ~ Busy(p)
    /\ Launch(p, Direct)
    /\ UnchangedQueue /\ UnchangedServer
    /\ UNCHANGED <<worker, held>>

\* Only a direct ingestion that did not complete can be resumed by hand.
ResumeByHand(p) ==
    /\ Serving /\ server = "up"
    /\ DirectWork
    /\ ingestion[p].owner = Direct
    /\ ingestion[p].status \in {"partial", "failed", "cancelled", "interrupted"}
    /\ ~ Busy(p)
    /\ Launch(p, Direct)
    /\ UnchangedQueue /\ UnchangedServer
    /\ UNCHANGED <<worker, held>>

\* handleCancelIngestion: the intent is written before the context ends; a
\* record that is no longer running answers 409.
CancelIngestion(p) ==
    /\ Serving
    /\ IsActive(p)
    /\ ingestion[p].status = "running"
    /\ ~ ingestion[p].cancelRequested
    /\ ingestion' = [ingestion EXCEPT ![p].cancelRequested = TRUE]
    /\ active' = [active EXCEPT ![p].cause = Cancelled("user", @)]
    /\ UnchangedQueue /\ UnchangedServer
    /\ UNCHANGED <<worker, outcome, held, used>>

\* A repository action, a direct graph build or an edit of the project.
BeginOtherWork(p) ==
    /\ Serving
    /\ DirectWork
    /\ ~ Busy(p)
    /\ held' = held \cup {p}
    /\ UnchangedQueue /\ UnchangedServer
    /\ UNCHANGED <<worker, ingestion, outcome, active>>

EndOtherWork(p) ==
    /\ p \in held
    /\ held' = held \ {p}
    /\ UnchangedQueue /\ UnchangedServer
    /\ UNCHANGED <<worker, ingestion, outcome, active, used>>

(***************************************************************************)
(* The life of the server                                                  *)
(***************************************************************************)
Down ==
    /\ server' = "down"
    /\ toRecover' = {} /\ toResume' = {}
    /\ opsDone' = FALSE /\ opsError' = FALSE
    /\ worker' = [w \in Workers |-> IdleWorker]
    /\ active' = [p \in Projects |-> NotActive]
    /\ held' = {}
    /\ UnchangedQueue
    /\ UNCHANGED <<ingestion, outcome>>

Crash ==
    /\ server # "down"
    /\ used.crashes < MaxCrashes
    /\ used' = [used EXCEPT !.crashes = @ + 1]
    /\ Down

\* recoverInterruptedIngestions: a record left running was interrupted, or
\* cancelled when that had been asked of it.
RecoveredStatus(p) ==
    IF ingestion[p].status # "running" THEN ingestion[p].status
    ELSE IF ingestion[p].cancelRequested THEN "cancelled" ELSE "interrupted"

\* Mutant of Boot: jobs with a cancellation are not among those to recover.
BootUncancelled ==
    /\ server = "down"
    /\ server' = "recovering"
    /\ ingestion' = [p \in Projects |-> [ingestion[p] EXCEPT !.status = RecoveredStatus(p)]]
    /\ toRecover' = {id \in Recorded : jobs[id].status = "running" /\ ~ jobs[id].cancelRequested}
    /\ UnchangedQueue
    /\ UNCHANGED <<toResume, opsDone, opsError, worker, outcome, active, held, used>>

Boot ==
    /\ server = "down"
    /\ server' = "recovering"
    /\ ingestion' = [p \in Projects |-> [ingestion[p] EXCEPT !.status = RecoveredStatus(p)]]
    /\ outcome' = [id \in JobId |->
           IF id \in Recorded /\ ingestion[jobs[id].project].owner = id
           THEN RecoveredStatus(jobs[id].project) ELSE outcome[id]]
    /\ toRecover' = {id \in Recorded : jobs[id].status = "running"}
    /\ UnchangedQueue
    /\ UNCHANGED <<toResume, opsDone, opsError, worker, active, held, used>>

\* RecoverJobs takes the running jobs it has listed one at a time.
RecoverNext(id) ==
    /\ server = "recovering"
    /\ id \in toRecover
    /\ RecoverJob(id)
    /\ toRecover' = toRecover \ {id}
    /\ UNCHANGED <<server, toResume, opsDone, opsError, worker, ingestion, outcome,
                   active, held, used>>

\* Mutant of StartWorkers: the recovery is not waited for.
StartWorkersAtOnce ==
    /\ server = "recovering"
    /\ server' = "up"
    /\ toResume' = Projects
    /\ UnchangedQueue
    /\ UNCHANGED <<toRecover, opsDone, opsError, worker, ingestion, outcome, active, held, used>>

StartWorkers ==
    /\ server = "recovering"
    /\ toRecover = {}
    /\ server' = "up"
    /\ toResume' = Projects
    /\ UnchangedQueue
    /\ UNCHANGED <<toRecover, opsDone, opsError, worker, ingestion, outcome, active, held, used>>

\* Before requests are served the interrupted direct ingestions are taken up
\* again, while the workers already run.
ResumeAtStart(p) ==
    /\ p \in toResume
    /\ toResume' = toResume \ {p}
    /\ IF /\ server = "up"
          /\ ingestion[p].owner = Direct
          /\ ingestion[p].status = "interrupted"
          /\ ~ Busy(p)
       THEN Launch(p, Direct)
       ELSE UNCHANGED <<ingestion, outcome, active>>
    /\ UnchangedQueue
    /\ UNCHANGED <<server, toRecover, opsDone, opsError, worker, held, used>>

\* The context of the server ends: every attempt and ingestion sees it.
Shutdown ==
    /\ server = "up"
    /\ used.crashes < MaxCrashes
    /\ used' = [used EXCEPT !.crashes = @ + 1]
    /\ server' = "stopping"
    /\ opsDone' = TRUE
    /\ StopContexts(Projects)
    /\ UnchangedQueue
    /\ UNCHANGED <<toRecover, toResume, opsError, ingestion, outcome, held>>

\* StartListener returns when workers, ingestions and repository work drained.
ShutdownDone ==
    /\ server = "stopping"
    /\ toResume = {}
    /\ \A w \in Workers : worker[w].pc = "exited"
    /\ \A p \in Projects : ~ Busy(p)
    /\ Down
    /\ UNCHANGED used

Elapse(id) == DelayElapses(id) /\ UNCHANGED schedulerVars

InitScheduler ==
    /\ jobs = << >> /\ arrivals = 0
    /\ projects = Projects /\ limits = [p \in Projects |-> 0]
    /\ server = "down"
    /\ toRecover = {} /\ toResume = {}
    /\ opsDone = FALSE /\ opsError = FALSE
    /\ worker = [w \in Workers |-> IdleWorker]
    /\ ingestion = [p \in Projects |-> NoIngestion]
    /\ outcome = [id \in JobId |-> "none"]
    /\ active = [p \in Projects |-> NotActive]
    /\ held = {}
    /\ used = [direct |-> 0, crashes |-> 0, faults |-> 0]

WorkerStep(w) ==
    \/ CheckContext(w) \/ Claim(w) \/ NothingToClaim(w)
    \/ LaunchJob(w) \/ CannotLaunch(w)
    \/ Drained(w) \/ Collect(w) \/ Finish(w)

IngestionStep(p) ==
    \/ \E result \in IngestionStatus : Decide(p, result)
    \/ SaveResult(p)
    \/ FinishIngestionOperation(p)

LifeStep ==
    \/ Boot \/ StartWorkers \/ ShutdownDone
    \/ \E id \in JobId : RecoverNext(id)
    \/ \E p \in Projects : ResumeAtStart(p)

NextScheduler ==
    \/ \E w \in Workers : \/ WorkerStep(w) \/ WatchCancel(w) \/ WatchFails(w) \/ LaunchFails(w)
                          \/ ClaimFails(w) \/ FinishFails(w)
    \/ \E p \in Projects : IngestionStep(p) \/ CheckpointFails(p) \/ SaveResultFails(p)
    \/ \E p \in Projects, trigger \in Triggers : RequestRefresh(p, trigger)
    \/ \E id \in JobId : RequestCancel(id) \/ RequestRetry(id) \/ Elapse(id)
    \/ \E p \in Projects : \/ StartDirect(p) \/ ResumeByHand(p) \/ CancelIngestion(p)
                           \/ BeginOtherWork(p) \/ EndOtherWork(p)
    \/ Crash \/ Shutdown \/ LifeStep

SpecScheduler == InitScheduler /\ [][NextScheduler]_vars

(***************************************************************************)
(* Fairness: goroutines are scheduled, tickers fire and time passes; work  *)
(* started ends; a server that is down is started again.  Requests,        *)
(* crashes, shutdowns and faults are owed by nobody.                       *)
(***************************************************************************)
Fairness ==
    /\ \A w \in Workers : WF_vars(WorkerStep(w)) /\ WF_vars(WatchCancel(w))
    /\ \A p \in Projects : WF_vars(IngestionStep(p)) /\ WF_vars(EndOtherWork(p))
    /\ \A id \in JobId : WF_vars(Elapse(id))
    /\ WF_vars(LifeStep)

FairSpecScheduler == SpecScheduler /\ Fairness

(***************************************************************************)
(* Properties                                                              *)
(***************************************************************************)
\* While the scheduler is healthy the queue and the workers agree: each
\* running job is held by exactly one worker and each busy worker holds a
\* running job.  A running job nobody works on would block its project
\* until the next restart.
WorkersHoldRunningJobs ==
    /\ \A w \in Workers : HasJob(w) =>
           /\ worker[w].job \in Recorded
           /\ jobs[worker[w].job].status = "running"
           /\ \A v \in Workers : HasJob(v) /\ worker[v].job = worker[w].job => v = w
    /\ server \in {"up", "stopping"} /\ ~ opsError =>
           \A id \in Recorded : jobs[id].status = "running" =>
               \E w \in Workers : HasJob(w) /\ worker[w].job = id

\* "Releasing a worker before its analyzer has stopped would violate the
\* concurrency bound": as long as an ingestion of a job is active, a worker
\* is still draining it.
DrainedBeforeRelease ==
    \A p \in JobOwned : \E w \in Workers :
        worker[w].pc = "drain" /\ worker[w].job = active[p].owner

\* The records tell the truth.  A job is reported as succeeded only when its
\* own last ingestion attempt completed, even if the project's latest record
\* belongs to somebody else by the time the worker looks.  And an ingestion
\* recorded as running has work behind it, unless its last save was lost:
\* recovery has seen to the ones a crash left, so requests to resume or
\* replace it are not refused for work that no longer exists.
RecordsAreTrue ==
    /\ \A id \in Recorded : jobs[id].status = "succeeded" => outcome[id] = "completed"
    /\ server \in {"up", "stopping"} /\ used.faults = 0 =>
           \A p \in Projects : ingestion[p].status = "running" =>
               IsActive(p) /\ active[p].owner = ingestion[p].owner

\* Every queued job comes to an end: its project is freed, its delays
\* elapse, its attempts run out, and a stopped server comes back.  Only a
\* write of the queue that fails stops the scheduler, until a restart.
EveryJobSettles ==
    \A id \in JobId : (id \in Recorded /\ jobs[id].status \in {"queued", "running"})
        ~> (opsError \/ (id \in Recorded /\ jobs[id].status \in Terminal))

\* A cancellation asked of a running job ends it as cancelled, however the
\* poll of the watcher, the end of the ingestion and a crash interleave,
\* unless a write that fails stops the scheduler.
CancellationTakesEffect ==
    \A id \in JobId : (id \in Recorded /\ jobs[id].cancelRequested /\ jobs[id].status = "running")
        ~> (opsError \/ (id \in Recorded /\ jobs[id].status = "cancelled"))

\* A shutdown ends: workers and ingestions drain and none waits for another.
ShutdownCompletes == server = "stopping" ~> server = "down"

(***************************************************************************)
(* What documentation and comments say and the code does not do.           *)
(***************************************************************************)
\* An ingestion starts over with its cancellation forgotten.
StartsOver(p) ==
    /\ ingestion[p].cancelRequested
    /\ ingestion'[p] = [ingestion[p] EXCEPT !.status = "running", !.cancelRequested = FALSE]

\* "Explicit user cancellations stay stopped" (resumeInterruptedIngestions):
\* a direct ingestion the user cancelled runs again only on request.
DirectCancelStaysStopped ==
    [][\A p \in Projects : ingestion[p].owner = Direct /\ StartsOver(p) =>
         used'.direct # used.direct]_vars

\* "A crash while cancellation drains cannot turn it into an automatically
\* resumed job" (RequestIngestionCancellation): an ingestion the user
\* cancelled runs again for its job only after the job itself had ended as
\* cancelled, so that somebody has retried it.
JobCancelStaysStopped ==
    [][\A p \in JobOwned' :
         LET before == FinishedAttempts(jobs[ingestion[p].owner])
         IN  StartsOver(p) => before[Len(before)] # "interrupted"]_vars

\* "Job corruption/persistence errors stop the scheduler and reject new
\* admission": nothing becomes pending once the scheduler has failed.
FailedSchedulerAdmitsNothing ==
    [][opsError => \A id \in Recorded' :
         IsPending(jobs'[id]) => id \in Recorded /\ IsPending(jobs[id])]_vars

=============================================================================
