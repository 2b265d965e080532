---------------------------- MODULE RefreshQueue ----------------------------
(***************************************************************************)
(* The durable refresh queue of diffmind: internal/workspace/store/jobs.go,*)
(* its SQLite twin jobs_sqlite.go and the admission policy of limits.go.   *)
(*                                                                         *)
(* Every operation of the store holds the store mutex (JSON) or one SQL    *)
(* transaction (SQLite) from its first read to its last write, so each is  *)
(* one action.  Nothing here is volatile: a crash of the server loses no   *)
(* variable of this module, it only leaves "running" jobs behind, which    *)
(* RecoverJob turns into interrupted attempts.                             *)
(*                                                                         *)
(* Abstractions.  A job id is a model value (a random refresh id) or the   *)
(* pair that a delivery id hashes.  created_at is an arrival number, so    *)
(* two jobs never share one.  not_before is the Boolean `due`: it becomes  *)
(* FALSE when the job is put back with a delay and TRUE when that delay    *)
(* has elapsed.  An attempt is its status; its counters, error and time    *)
(* stamps decide nothing in the queue.                                     *)
(***************************************************************************)
EXTENDS Integers, Sequences, FiniteSets

CONSTANTS
    Projects,        \* project ids (slugs: an id may be deleted and reused)
    Triggers,        \* "manual", "fleet_refresh", ... : what asked for it
    Deliveries,      \* webhook delivery ids
    Digests,         \* digests of webhook bodies
    RefreshIds,      \* random ids given to jobs without a delivery id
    Capacity,        \* server-wide cap on queued plus running jobs
    PolicyCaps,      \* values an administrator gives max_pending_jobs
    Allowance,       \* attempts one admission grants (3 in the code)
    AttemptCeiling   \* attempts one job may ever have (100 in the code)

NoDelivery == "no_delivery"
NoDigest   == "no_digest"

ASSUME QueueAssumption ==
    /\ Capacity \in Nat \ {0}
    /\ PolicyCaps \subseteq Nat
    /\ Allowance \in Nat \ {0}
    /\ AttemptCeiling \in Nat
    /\ Allowance <= AttemptCeiling
    /\ NoDelivery \notin Deliveries
    /\ RefreshIds \cap (Projects \X Deliveries) = {}

VARIABLES
    jobs,       \* the job table: id -> record
    arrivals,   \* number of jobs ever written, the next created_at
    projects,   \* projects that exist
    limits      \* project -> max_pending_jobs, 0 inherits the server's

queueVars == <<jobs, arrivals, projects, limits>>

(***************************************************************************)
(* Jobs                                                                    *)
(***************************************************************************)
JobId == RefreshIds \cup (Projects \X Deliveries)

Terminal      == {"succeeded", "failed", "cancelled", "interrupted"}
AttemptStatus == Terminal \cup {"running"}
JobStatus     == AttemptStatus \cup {"queued"}

Job == [project : Projects, trigger : Triggers, digest : Digests \cup {NoDigest},
        created : Nat, status : JobStatus, due : BOOLEAN,
        cancelRequested : BOOLEAN, maxAttempts : Nat, attempts : Seq(AttemptStatus)]

Recorded   == DOMAIN jobs
IsPending(job) == job.status \in {"queued", "running"}
Pending    == {id \in Recorded : IsPending(jobs[id])}
PendingOf(p) == {id \in Pending : jobs[id].project = p}
RunningOf(p) == {id \in PendingOf(p) : jobs[id].status = "running"}

LastAttempt(job) == job.attempts[Len(job.attempts)]
SetLastAttempt(job, status) ==
    [job EXCEPT !.attempts[Len(job.attempts)] = status]
DropLastAttempt(job) ==
    [job EXCEPT !.attempts = SubSeq(job.attempts, 1, Len(job.attempts) - 1)]

(***************************************************************************)
(* Admission: what checkJobCapacity and the lookups before it decide.      *)
(***************************************************************************)
\* Mutant of HasCapacity: running jobs are not counted.
HasCapacityForQueued(p) ==
    /\ p \in projects
    /\ Cardinality({id \in Pending : jobs[id].status = "queued"}) < Capacity
    /\ limits[p] = 0 \/ Cardinality(PendingOf(p)) < limits[p]

HasCapacity(p) ==
    /\ p \in projects
    /\ Cardinality(Pending) < Capacity
    /\ limits[p] = 0 \/ Cardinality(PendingOf(p)) < limits[p]

\* An equivalent request that is already queued absorbs a new one.
Coalesces(p, trigger) ==
    \E id \in PendingOf(p) : jobs[id].status = "queued" /\ jobs[id].trigger = trigger

NewJob(p, trigger, digest) ==
    [project |-> p, trigger |-> trigger, digest |-> digest, created |-> arrivals,
     status |-> "queued", due |-> TRUE, cancelRequested |-> FALSE,
     maxAttempts |-> Allowance, attempts |-> <<>>]

Insert(id, job) ==
    /\ jobs' = [i \in Recorded \cup {id} |-> IF i = id THEN job ELSE jobs[i]]
    /\ arrivals' = arrivals + 1
    /\ UNCHANGED <<projects, limits>>

Update(id, job) ==
    /\ jobs' = [jobs EXCEPT ![id] = job]
    /\ UNCHANGED <<arrivals, projects, limits>>

(***************************************************************************)
(* Operations of the store                                                 *)
(***************************************************************************)
\* A request without a delivery id: a new job unless one like it is queued.
EnqueueRefresh(p, trigger, id) ==
    /\ id \in RefreshIds \ Recorded
    /\ ~ Coalesces(p, trigger)
    /\ HasCapacity(p)
    /\ Insert(id, NewJob(p, trigger, NoDigest))

\* Mutant of EnqueueDelivery: a redelivery replaces the job that has ended.
EnqueueDeliveryAnew(p, trigger, delivery, digest) ==
    /\ <<p, delivery>> \notin Pending
    /\ HasCapacity(p)
    /\ Insert(<<p, delivery>>, NewJob(p, trigger, digest))

\* A webhook delivery: its id is the hash of project and delivery, so a
\* redelivery finds the job of the first one, whatever became of it, and
\* changes nothing; a full queue leaves no receipt.
EnqueueDelivery(p, trigger, delivery, digest) ==
    /\ <<p, delivery>> \notin Recorded
    /\ HasCapacity(p)
    /\ Insert(<<p, delivery>>, NewJob(p, trigger, digest))

\* The two calls above are the one function EnqueueJob.
EnqueueJob(p, trigger) ==
    \/ \E id \in RefreshIds : EnqueueRefresh(p, trigger, id)
    \/ \E delivery \in Deliveries, digest \in Digests :
           EnqueueDelivery(p, trigger, delivery, digest)

Claimable(id) ==
    /\ id \in Recorded
    /\ jobs[id].status = "queued"
    /\ jobs[id].due
    /\ RunningOf(jobs[id].project) = {}

Claimed(job) == [job EXCEPT !.status = "running", !.attempts = Append(job.attempts, "running")]

\* The oldest claimable job; an attempt is recorded before any work starts.
ClaimJob(id) ==
    /\ Claimable(id)
    /\ \A other \in Recorded : Claimable(other) => jobs[id].created <= jobs[other].created
    /\ Update(id, Claimed(jobs[id]))

\* Mutants of the three below: a busy project defers a job that was to be
\* cancelled; the result of the work beats the cancellation; one attempt more
\* than was granted.
GivesBackCancelled(job, busy) == busy
OutcomeOfTheWork(job, result) == result
RequeuesOnceMore(job, outcome) ==
    outcome \in {"failed", "interrupted"} /\ Len(job.attempts) <= job.maxAttempts

\* A busy project gives the attempt back; anything else ends it, and a
\* failure within the allowance queues the job again.  A requested
\* cancellation wins over both.
GivesBack(job, busy) == busy /\ ~ job.cancelRequested
Outcome(job, result) == IF job.cancelRequested THEN "cancelled" ELSE result
Requeues(job, outcome) ==
    outcome \in {"failed", "interrupted"} /\ Len(job.attempts) < job.maxAttempts

Finished(job, result, busy, delayed) ==
    IF GivesBack(job, busy)
    THEN [DropLastAttempt(job) EXCEPT !.status = "queued", !.due = ~ delayed]
    ELSE LET outcome == Outcome(job, result)
         IN  IF Requeues(job, outcome)
             THEN [SetLastAttempt(job, outcome) EXCEPT !.status = "queued", !.due = ~ delayed]
             ELSE [SetLastAttempt(job, outcome) EXCEPT !.status = outcome]

FinishJob(id, result, busy, delayed) ==
    /\ id \in Recorded
    /\ jobs[id].status = "running"
    /\ Len(jobs[id].attempts) # 0
    /\ Update(id, Finished(jobs[id], result, busy, delayed))

WithCancel(job) ==
    [job EXCEPT !.cancelRequested = TRUE,
                !.status = IF job.status = "queued" THEN "cancelled" ELSE job.status]

CancelJob(id) ==
    /\ id \in Recorded
    /\ IsPending(jobs[id])
    /\ Update(id, WithCancel(jobs[id]))

Smaller(m, n) == IF m <= n THEN m ELSE n

Retried(job) ==
    [job EXCEPT !.status = "queued", !.cancelRequested = FALSE, !.due = TRUE,
                !.maxAttempts = Smaller(AttemptCeiling, Len(job.attempts) + Allowance)]

\* An explicit retry keeps the history but needs a slot of its own.
RetryJob(id) ==
    /\ id \in Recorded
    /\ jobs[id].status \in {"failed", "cancelled", "interrupted"}
    /\ Len(jobs[id].attempts) < AttemptCeiling
    /\ HasCapacity(jobs[id].project)
    /\ Update(id, Retried(jobs[id]))

\* One iteration of RecoverJobs, before the workers of a new server start.
RecoverJob(id) == FinishJob(id, "interrupted", FALSE, FALSE)

(***************************************************************************)
(* Around the queue                                                        *)
(***************************************************************************)
\* Wall-clock time passes not_before.
DelayElapses(id) ==
    /\ id \in Recorded
    /\ jobs[id].status = "queued"
    /\ ~ jobs[id].due
    /\ Update(id, [jobs[id] EXCEPT !.due = TRUE])

PutProjectLimits(p, cap) ==
    /\ p \in projects
    /\ limits[p] # cap
    /\ limits' = [limits EXCEPT ![p] = cap]
    /\ UNCHANGED <<jobs, arrivals, projects>>

CreateProject(p) ==
    /\ p \notin projects
    /\ projects' = projects \cup {p}
    /\ UNCHANGED <<jobs, arrivals, limits>>

\* Deleting a project removes its directory, its limits with it; the jobs
\* live in the queue and stay.
DeleteProject(p) ==
    /\ p \in projects
    /\ projects' = projects \ {p}
    /\ limits' = [limits EXCEPT ![p] = 0]
    /\ UNCHANGED <<jobs, arrivals>>

Init ==
    /\ jobs = << >>
    /\ arrivals = 0
    /\ projects = {}
    /\ limits = [p \in Projects |-> 0]

Next ==
    \/ \E p \in Projects, trigger \in Triggers : EnqueueJob(p, trigger)
    \/ \E id \in JobId : ClaimJob(id)
    \/ \E id \in JobId, result \in Terminal, busy, delayed \in BOOLEAN :
           FinishJob(id, result, busy, delayed)
    \/ \E id \in JobId : RecoverJob(id)
    \/ \E id \in JobId : CancelJob(id)
    \/ \E id \in JobId : RetryJob(id)
    \/ \E id \in JobId : DelayElapses(id)
    \/ \E p \in Projects, cap \in PolicyCaps : PutProjectLimits(p, cap)
    \/ \E p \in Projects : CreateProject(p)
    \/ \E p \in Projects : DeleteProject(p)

Spec == Init /\ [][Next]_queueVars

(***************************************************************************)
(* Properties                                                              *)
(***************************************************************************)
\* The shape of the table and of the policies.
TypeOK ==
    /\ Recorded \subseteq JobId
    /\ jobs \in [Recorded -> Job]
    /\ arrivals \in Nat
    /\ projects \subseteq Projects
    /\ limits \in [Projects -> Nat]

\* Workers serialise a project: whatever retries, requeues and recoveries
\* happen, two refreshes of one project never run at once (ClaimJob, nextJob
\* and the partial unique index of the SQLite schema).
OneRunningPerProject ==
    \A a, b \in Recorded :
        jobs[a].status = "running" /\ jobs[b].status = "running"
        /\ jobs[a].project = jobs[b].project => a = b

\* "Capacity includes queued and running jobs globally": requeues and busy
\* deferrals keep their slot, and no path into the queue goes around the
\* check of checkJobCapacity.
PendingWithinCapacity == Cardinality(Pending) <= Capacity

\* A job may run again only while its allowance lasts: a queued job has an
\* attempt left, no job has more attempts than it was granted, and none is
\* granted more than the ceiling validateJob accepts.
WithinAllowance ==
    \A id \in Recorded :
        /\ Len(jobs[id].attempts) <= jobs[id].maxAttempts
        /\ jobs[id].status = "queued" => Len(jobs[id].attempts) < jobs[id].maxAttempts
        /\ 1 <= jobs[id].maxAttempts /\ jobs[id].maxAttempts <= AttemptCeiling

\* The history and the status agree: exactly a running job has a running
\* attempt, the last one (validateJob rejects the record otherwise and stops
\* the scheduler), and a job that ended by itself ended as its last attempt.
HistoryMatchesStatus ==
    \A id \in Recorded :
        LET job == jobs[id]
        IN  /\ \A k \in 1..Len(job.attempts) : job.attempts[k] = "running" =>
                   k = Len(job.attempts) /\ job.status = "running"
            /\ job.status \in {"running", "succeeded", "failed", "interrupted"} =>
                   job.attempts # << >> /\ LastAttempt(job) = job.status

\* The attempts of a job add up: nothing a worker, a retry, a deferral or a
\* recovery does leaves a record that validateJob would refuse, which would
\* stop the scheduler, or a job that waits with no attempt left.
AttemptsAddUp == WithinAllowance /\ HistoryMatchesStatus

\* A refresh that succeeded is never run again: no retry, requeue or recovery
\* starts an attempt after a successful one.
SuccessIsFinal ==
    \A id \in Recorded : \A k \in 1..Len(jobs[id].attempts) :
        jobs[id].attempts[k] = "succeeded" =>
            k = Len(jobs[id].attempts) /\ jobs[id].status = "succeeded"

\* No job waits to run with a cancellation asked of it: the cancellation of
\* a queued job and of a running one both end it ("Cancelled jobs do not
\* restart automatically").
NoCancelledJobWaits ==
    \A id \in Recorded : jobs[id].status = "queued" => ~ jobs[id].cancelRequested

\* What an attempt came to is kept for good: later attempts are added behind
\* it and only a running attempt is ever changed or given back.
FinishedAttempts(job) == SelectSeq(job.attempts, LAMBDA a : a # "running")
HistoryIsKept ==
    [][\A id \in Recorded :
         /\ id \in Recorded'
         /\ LET old == FinishedAttempts(jobs[id])
            IN  /\ Len(old) <= Len(jobs'[id].attempts)
                /\ old = SubSeq(jobs'[id].attempts, 1, Len(old))]_queueVars

\* A delivery's receipt outlives its job: whatever happens to the job, a
\* redelivery still finds the project and the digest of the first delivery.
ReceiptsAreKept ==
    [][\A id \in Recorded :
         /\ id \in Recorded'
         /\ jobs'[id].project = jobs[id].project
         /\ jobs'[id].digest = jobs[id].digest
         /\ jobs'[id].created = jobs[id].created]_queueVars

\* The project cap binds at admission: a project's pending jobs grow only up
\* to the cap in force, though lowering the cap removes none of them.
ProjectCapBindsAdmission ==
    [][\A p \in Projects :
         Cardinality(PendingOf(p)') > Cardinality(PendingOf(p)) =>
             limits[p] = 0 \/ Cardinality(PendingOf(p)') <= limits[p]]_queueVars

(***************************************************************************)
(* The queue implements RefreshAdmission: a job is a request of its        *)
(* project, waiting while queued, executing while running, achieved once   *)
(* it succeeded and given up in every other terminal status.               *)
(***************************************************************************)
WithStatus(statuses) ==
    {<<jobs[id].project, id>> : id \in {i \in Recorded : jobs[i].status \in statuses}}

Admission == INSTANCE RefreshAdmission
    WITH Requests  <- JobId,
         waiting   <- WithStatus({"queued"}),
         executing <- WithStatus({"running"}),
         given_up  <- WithStatus({"failed", "cancelled", "interrupted"}),
         achieved  <- WithStatus({"succeeded"})

\* Every operation of the store is a step of the abstract queue or leaves it
\* as it is.
ImplementsAdmission == Admission!Spec

=============================================================================
