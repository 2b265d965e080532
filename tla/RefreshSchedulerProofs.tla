----------------------- MODULE RefreshSchedulerProofs -----------------------
(***************************************************************************)
(* Safety of RefreshQueue and of RefreshScheduler, which extends it, for   *)
(* every set of projects, triggers, deliveries, ids and workers, every     *)
(* capacity, allowance and attempt ceiling, and every number of crashes,   *)
(* failed writes and pieces of other work.                                 *)
(*                                                                         *)
(* The queue first.  Each operation either leaves the table alone, inserts *)
(* one job or replaces one, so every invariant is reduced to what it needs *)
(* of that one job: the lemmas about Insert and Update say what, the       *)
(* lemmas about the job functions show that each operation provides it.    *)
(*                                                                         *)
(* Under its workers the queue keeps that invariant, because every step of *)
(* the scheduler is an operation of the queue or leaves it alone.  What is *)
(* added ties together the four places that know about a job: the table,   *)
(* the worker that holds it, the goroutine of its ingestion, and the       *)
(* records that goroutine leaves on disk.                                  *)
(***************************************************************************)
EXTENDS RefreshScheduler, FiniteSetTheorems, SequenceTheorems, TLAPS

(***************************************************************************)
(* A job that the operations may leave in the table.                       *)
(***************************************************************************)
\* Attempts within the allowance, one left while queued.
BudgetOK(job) ==
    /\ Len(job.attempts) <= job.maxAttempts
    /\ job.status = "queued" => Len(job.attempts) < job.maxAttempts
    /\ 1 <= job.maxAttempts /\ job.maxAttempts <= AttemptCeiling

\* Status and history agree; a success is the end of both.
HistoryOK(job) ==
    /\ \A k \in 1..Len(job.attempts) :
         /\ job.attempts[k] = "running" => k = Len(job.attempts) /\ job.status = "running"
         /\ job.attempts[k] = "succeeded" => k = Len(job.attempts) /\ job.status = "succeeded"
    /\ job.status \in {"running", "succeeded", "failed", "interrupted"} =>
         job.attempts # << >> /\ LastAttempt(job) = job.status

WaitingOK(job) == job.status = "queued" => ~ job.cancelRequested

GoodJob(job) == job \in Job /\ BudgetOK(job) /\ HistoryOK(job) /\ WaitingOK(job)

(***************************************************************************)
(* The inductive invariant.                                                *)
(***************************************************************************)
IInv ==
    /\ TypeOK
    /\ IsFiniteSet(Recorded)
    /\ \A id \in Recorded : GoodJob(jobs[id])
    /\ OneRunningPerProject
    /\ PendingWithinCapacity

-----------------------------------------------------------------------------
\* Cardinalities of a finite set's subsets, and of those with one more element.
LEMMA SubsetNoLarger ==
    ASSUME NEW S, IsFiniteSet(S), NEW T \in SUBSET S
    PROVE  /\ Cardinality(S) \in Nat /\ Cardinality(T) \in Nat
           /\ Cardinality(T) <= Cardinality(S)
<1>1. IsFiniteSet(T) /\ Cardinality(T) <= Cardinality(S)  BY FS_Subset
<1>. QED  BY <1>1, FS_CardinalityType

\* A set with at most one element more is at most one larger.
LEMMA GrowByOne ==
    ASSUME NEW S, IsFiniteSet(S), NEW x, NEW T \in SUBSET (S \cup {x})
    PROVE  /\ Cardinality(S) \in Nat /\ Cardinality(T) \in Nat
           /\ Cardinality(T) <= Cardinality(S) + 1
<1>1. /\ IsFiniteSet(S \cup {x})
      /\ Cardinality(S \cup {x}) = IF x \in S THEN Cardinality(S) ELSE Cardinality(S) + 1
  BY FS_AddElement
<1>2. Cardinality(S) \in Nat  BY FS_CardinalityType
<1>3. /\ Cardinality(S \cup {x}) \in Nat /\ Cardinality(T) \in Nat
      /\ Cardinality(T) <= Cardinality(S \cup {x})
  BY <1>1, SubsetNoLarger
<1>. QED  BY <1>1, <1>2, <1>3

\* What a write of one existing job does to the table.
LEMMA UpdateTable ==
    ASSUME TypeOK, NEW id \in Recorded, NEW job \in Job, Update(id, job)
    PROVE  /\ Recorded' = Recorded
           /\ \A i \in Recorded : jobs'[i] = IF i = id THEN job ELSE jobs[i]
           /\ TypeOK'
  BY DEF TypeOK, Recorded, Update

\* What a write of a new job does to the table.
LEMMA InsertTable ==
    ASSUME TypeOK, NEW id \in JobId \ Recorded, NEW job \in Job, Insert(id, job)
    PROVE  /\ Recorded' = Recorded \cup {id}
           /\ \A i \in Recorded : jobs'[i] = jobs[i]
           /\ jobs'[id] = job
           /\ TypeOK'
  BY DEF TypeOK, Recorded, Insert

\* RunningOf misses no running job of the project.
LEMMA NoneRunning ==
    ASSUME NEW p, RunningOf(p) = {}
    PROVE  \A i \in Recorded : ~ (jobs[i].status = "running" /\ jobs[i].project = p)
<1>. SUFFICES ASSUME NEW i \in Recorded, jobs[i].status = "running", jobs[i].project = p
              PROVE  FALSE
  OBVIOUS
<1>1. i \in Pending  BY DEF Pending, IsPending
<1>2. i \in PendingOf(p)  BY <1>1 DEF PendingOf
<1>3. i \in RunningOf(p)  BY <1>2 DEF RunningOf
<1>. QED  BY <1>3

\* A rewritten job keeps the invariant when it is a good job of the same
\* project, starts to run only in an idle project, and becomes pending only
\* while there is room.
LEMMA UpdateKeepsIInv ==
    ASSUME IInv, NEW id \in Recorded, NEW job, GoodJob(job), Update(id, job),
           job.project = jobs[id].project,
           job.status = "running" =>
               jobs[id].status = "running" \/ RunningOf(jobs[id].project) = {},
           IsPending(job) => IsPending(jobs[id]) \/ Cardinality(Pending) < Capacity
    PROVE  IInv'
<1>. USE DEF IInv
<1>1. job \in Job  BY DEF GoodJob
<1>2. /\ Recorded' = Recorded
      /\ \A i \in Recorded : jobs'[i] = IF i = id THEN job ELSE jobs[i]
      /\ TypeOK'
  BY <1>1, UpdateTable
<1>3. IsFiniteSet(Recorded')  BY <1>2
<1>4. \A i \in Recorded' : GoodJob(jobs'[i])  BY <1>2
<1>5. OneRunningPerProject'
  <2>. SUFFICES ASSUME NEW a \in Recorded, NEW b \in Recorded,
                       jobs'[a].status = "running", jobs'[b].status = "running",
                       jobs'[a].project = jobs'[b].project
                PROVE  a = b
    BY <1>2 DEF OneRunningPerProject
  <2>1. CASE a # id /\ b # id  BY <2>1, <1>2 DEF OneRunningPerProject
  <2>2. CASE jobs[id].status = "running"  BY <2>2, <1>2 DEF OneRunningPerProject
  <2>3. CASE RunningOf(jobs[id].project) = {}
    <3>1. \A i \in Recorded : ~ (jobs[i].status = "running" /\ jobs[i].project = jobs[id].project)
      BY <2>3, NoneRunning
    <3>. QED  BY <3>1, <2>1, <1>2
  <2>. QED  BY <2>1, <2>2, <2>3, <1>2
<1>6. PendingWithinCapacity'
  <2>1. IsFiniteSet(Pending)
    BY FS_Subset DEF Pending
  <2>2. CASE IsPending(job) => IsPending(jobs[id])
    <3>1. Pending' \subseteq Pending  BY <2>2, <1>2 DEF Pending, IsPending
    <3>. QED  BY <3>1, <2>1, SubsetNoLarger, QueueAssumption
           DEF PendingWithinCapacity, QueueAssumption
  <2>3. CASE Cardinality(Pending) < Capacity
    <3>1. Pending' \subseteq Pending \cup {id}  BY <1>2 DEF Pending, IsPending
    <3>2. /\ Cardinality(Pending) \in Nat /\ Cardinality(Pending') \in Nat
          /\ Cardinality(Pending') <= Cardinality(Pending) + 1
      BY <3>1, <2>1, GrowByOne
    <3>. QED  BY <3>2, <2>3, QueueAssumption DEF PendingWithinCapacity, QueueAssumption
  <2>. QED  BY <2>2, <2>3
<1>. QED  BY <1>2, <1>3, <1>4, <1>5, <1>6

\* A new queued job keeps the invariant when there is room for it.
LEMMA InsertKeepsIInv ==
    ASSUME IInv, NEW id \in JobId \ Recorded, NEW job, GoodJob(job), Insert(id, job),
           job.status = "queued", Cardinality(Pending) < Capacity
    PROVE  IInv'
<1>. USE DEF IInv
<1>1. job \in Job  BY DEF GoodJob
<1>2. /\ Recorded' = Recorded \cup {id}
      /\ \A i \in Recorded : jobs'[i] = jobs[i]
      /\ jobs'[id] = job
      /\ TypeOK'
  BY <1>1, InsertTable
<1>3. IsFiniteSet(Recorded')  BY <1>2, FS_AddElement
<1>4. \A i \in Recorded' : GoodJob(jobs'[i])  BY <1>2
<1>5. OneRunningPerProject'  BY <1>2 DEF OneRunningPerProject
<1>6. PendingWithinCapacity'
  <2>1. IsFiniteSet(Pending)  BY FS_Subset DEF Pending
  <2>2. Pending' = Pending \cup {id}  BY <1>2 DEF Pending, IsPending
  <2>3. id \notin Pending  BY DEF Pending
  <2>4. Cardinality(Pending') = Cardinality(Pending) + 1  BY <2>1, <2>2, <2>3, FS_AddElement
  <2>5. Cardinality(Pending) \in Nat  BY <2>1, FS_CardinalityType
  <2>. QED  BY <2>4, <2>5, QueueAssumption DEF PendingWithinCapacity, QueueAssumption
<1>. QED  BY <1>2, <1>3, <1>4, <1>5, <1>6

-----------------------------------------------------------------------------
(***************************************************************************)
(* Each operation leaves a good job behind.                                *)
(***************************************************************************)
LEMMA NewJobIsGood ==
    ASSUME NEW p \in Projects, NEW trigger \in Triggers,
           NEW digest \in Digests \cup {NoDigest}, arrivals \in Nat
    PROVE  GoodJob(NewJob(p, trigger, digest))
  BY QueueAssumption
  DEF QueueAssumption, NewJob, GoodJob, Job, JobStatus, AttemptStatus,
      BudgetOK, HistoryOK, WaitingOK

\* ClaimJob appends the running attempt that a running job must have.
LEMMA ClaimedIsGood ==
    ASSUME NEW job, GoodJob(job), job.status = "queued"
    PROVE  /\ GoodJob(Claimed(job))
           /\ Claimed(job).project = job.project
<1>. DEFINE new == Claimed(job)
<1>1. job.attempts \in Seq(AttemptStatus)  BY DEF GoodJob, Job
<1>2. new.attempts = Append(job.attempts, "running")  BY DEF Claimed, GoodJob, Job
<1>3. new \in Job
  <2>1. Append(job.attempts, "running") \in Seq(AttemptStatus)  BY <1>1 DEF AttemptStatus
  <2>. QED  BY <2>1 DEF Claimed, GoodJob, Job, JobStatus, AttemptStatus
<1>4. /\ new.status = "running" /\ new.project = job.project
      /\ new.maxAttempts = job.maxAttempts
  BY DEF Claimed, GoodJob, Job
<1>5. /\ Len(new.attempts) = Len(job.attempts) + 1
      /\ Len(job.attempts) \in Nat
      /\ \A k \in 1..Len(job.attempts) : new.attempts[k] = job.attempts[k]
      /\ new.attempts[Len(new.attempts)] = "running"
  BY <1>1, <1>2 DEF AttemptStatus
<1>6. BudgetOK(new)  BY <1>4, <1>5 DEF GoodJob, BudgetOK, Job
<1>7. HistoryOK(new)
  <2>1. \A k \in 1..Len(job.attempts) : job.attempts[k] \notin {"running", "succeeded"}
    BY DEF GoodJob, HistoryOK
  <2>2. \A k \in 1..Len(new.attempts) : k # Len(new.attempts) => k \in 1..Len(job.attempts)
    BY <1>5
  <2>3. new.attempts # << >>  BY <1>5
  <2>. QED  BY <1>4, <1>5, <2>1, <2>2, <2>3 DEF HistoryOK, LastAttempt
<1>. QED  BY <1>3, <1>4, <1>6, <1>7 DEF GoodJob, WaitingOK

\* CancelJob ends a queued job and only marks a running one.
LEMMA CancelledIsGood ==
    ASSUME NEW job, GoodJob(job), IsPending(job)
    PROVE  /\ GoodJob(WithCancel(job))
           /\ WithCancel(job).project = job.project
           /\ WithCancel(job).status = "running" => job.status = "running"
<1>1. WithCancel(job) \in Job
  BY DEF WithCancel, GoodJob, Job, JobStatus, AttemptStatus, Terminal
<1>. QED
  BY <1>1 DEF WithCancel, GoodJob, Job, IsPending, BudgetOK, HistoryOK, WaitingOK, LastAttempt

\* RetryJob grants new attempts, at least one and none beyond the ceiling.
LEMMA RetriedIsGood ==
    ASSUME NEW job, GoodJob(job), job.status \in {"failed", "cancelled", "interrupted"},
           Len(job.attempts) < AttemptCeiling
    PROVE  /\ GoodJob(Retried(job))
           /\ Retried(job).project = job.project
           /\ Retried(job).status = "queued"
<1>1. Len(job.attempts) \in Nat  BY DEF GoodJob, Job
<1>2. Smaller(AttemptCeiling, Len(job.attempts) + Allowance)
        \in {n \in Nat : Len(job.attempts) < n /\ n <= AttemptCeiling}
  BY <1>1, QueueAssumption DEF Smaller, QueueAssumption
<1>3. Retried(job) \in Job  BY <1>2 DEF Retried, GoodJob, Job, JobStatus
<1>4. BudgetOK(Retried(job))
  BY <1>1, <1>2, QueueAssumption DEF Retried, GoodJob, Job, BudgetOK, QueueAssumption
<1>5. HistoryOK(Retried(job))  BY DEF Retried, GoodJob, Job, HistoryOK
<1>. QED  BY <1>3, <1>4, <1>5 DEF Retried, GoodJob, Job, WaitingOK

\* A job whose last attempt was given back.
LEMMA GivenBackIsGood ==
    ASSUME NEW job, GoodJob(job), job.status = "running", NEW due \in BOOLEAN,
           ~ job.cancelRequested
    PROVE  LET new == [DropLastAttempt(job) EXCEPT !.status = "queued", !.due = due]
           IN  GoodJob(new) /\ new.project = job.project /\ new.status = "queued"
<1>. DEFINE new == [DropLastAttempt(job) EXCEPT !.status = "queued", !.due = due]
            n   == Len(job.attempts)
<1>1. /\ job.attempts \in Seq(AttemptStatus) /\ n \in Nat /\ n >= 1
      /\ job.maxAttempts \in Nat
  BY DEF GoodJob, Job, HistoryOK
<1>2. new.attempts = SubSeq(job.attempts, 1, n - 1)  BY DEF DropLastAttempt, GoodJob, Job
<1>3. /\ new.attempts \in Seq(AttemptStatus) /\ Len(new.attempts) = n - 1
      /\ \A k \in 1..(n - 1) : new.attempts[k] = job.attempts[k]
  <2>. DEFINE seq == SubSeq(job.attempts, 1, n - 1)
  <2>1. seq \in Seq(AttemptStatus)  BY <1>1, SubSeqProperties
  <2>2. Len(seq) = n - 1  BY <1>1, SubSeqProperties
  <2>3. \A k \in 1..(n - 1) : seq[k] = job.attempts[k]  BY <1>1, <2>2, SubSeqProperties
  <2>. QED  BY <1>2, <2>1, <2>2, <2>3
<1>4. /\ new \in Job /\ new.status = "queued" /\ new.project = job.project
      /\ new.maxAttempts = job.maxAttempts /\ new.cancelRequested = FALSE
  <2>1. SubSeq(job.attempts, 1, n - 1) \in Seq(AttemptStatus)  BY <1>2, <1>3
  <2>. QED  BY <2>1 DEF DropLastAttempt, GoodJob, Job, JobStatus
<1>5. BudgetOK(new)  BY <1>1, <1>3, <1>4 DEF GoodJob, BudgetOK
<1>6. HistoryOK(new)
  <2>1. \A k \in 1..(n - 1) : job.attempts[k] \notin {"running", "succeeded"}
    BY <1>1 DEF GoodJob, HistoryOK
  <2>. QED  BY <1>1, <1>3, <1>4, <2>1 DEF HistoryOK
<1>. QED  BY <1>4, <1>5, <1>6 DEF GoodJob, WaitingOK

\* A job whose last attempt came to `ended`, before its new status is set.
LEMMA SetLastFacts ==
    ASSUME NEW job, GoodJob(job), job.status = "running", NEW ended \in Terminal
    PROVE  LET new == SetLastAttempt(job, ended)
               n   == Len(job.attempts)
           IN  /\ new \in Job
               /\ new = [job EXCEPT !.attempts = new.attempts]
               /\ n \in Nat /\ n >= 1 /\ Len(new.attempts) = n
               /\ new.attempts[n] = ended
               /\ \A k \in 1..(n - 1) : new.attempts[k] \in {"failed", "cancelled", "interrupted"}
<1>. DEFINE n   == Len(job.attempts)
            seq == [job.attempts EXCEPT ![n] = ended]
<1>1. job.attempts \in Seq(AttemptStatus) /\ n \in Nat /\ n >= 1
  BY DEF GoodJob, Job, HistoryOK
<1>2. /\ seq \in Seq(AttemptStatus) /\ Len(seq) = n /\ seq[n] = ended
      /\ \A k \in 1..(n - 1) : seq[k] = job.attempts[k]
  BY <1>1 DEF AttemptStatus, Terminal
<1>3. SetLastAttempt(job, ended) = [job EXCEPT !.attempts = seq]
  BY DEF SetLastAttempt, GoodJob, Job
<1>4. [job EXCEPT !.attempts = seq] \in Job /\ [job EXCEPT !.attempts = seq].attempts = seq
  BY <1>2 DEF GoodJob, Job
<1>5. \A k \in 1..(n - 1) : job.attempts[k] \in {"failed", "cancelled", "interrupted"}
  <2>1. \A k \in 1..(n - 1) : job.attempts[k] \notin {"running", "succeeded"}
    BY <1>1 DEF GoodJob, HistoryOK
  <2>2. \A k \in 1..(n - 1) : job.attempts[k] \in AttemptStatus  BY <1>1
  <2>. QED  BY <2>1, <2>2 DEF AttemptStatus, Terminal
<1>. QED  BY <1>1, <1>2, <1>3, <1>4, <1>5

\* FinishJob, whether it gives the attempt back, requeues or ends the job.
LEMMA FinishedIsGood ==
    ASSUME NEW job, GoodJob(job), job.status = "running", NEW result \in Terminal,
           NEW busy \in BOOLEAN, NEW delayed \in BOOLEAN
    PROVE  /\ GoodJob(Finished(job, result, busy, delayed))
           /\ Finished(job, result, busy, delayed).project = job.project
           /\ Finished(job, result, busy, delayed).status # "running"
<1>. DEFINE ended == Outcome(job, result)
            base    == SetLastAttempt(job, ended)
            n       == Len(job.attempts)
<1>1. CASE GivesBack(job, busy)
  <2>1. Finished(job, result, busy, delayed) =
          [DropLastAttempt(job) EXCEPT !.status = "queued", !.due = ~ delayed]
    BY <1>1 DEF Finished
  <2>. QED  BY <1>1, <2>1, GivenBackIsGood DEF GivesBack
<1>2. CASE ~ GivesBack(job, busy)
  <2>1. ended \in Terminal  BY DEF Outcome, Terminal
  <2>2. job.cancelRequested => ended = "cancelled"  BY DEF Outcome
  <2>3. /\ base \in Job
        /\ base = [job EXCEPT !.attempts = base.attempts]
        /\ n \in Nat /\ n >= 1 /\ Len(base.attempts) = n
        /\ base.attempts[n] = ended
        /\ \A k \in 1..(n - 1) : base.attempts[k] \in {"failed", "cancelled", "interrupted"}
    BY <2>1, SetLastFacts
  <2>4. /\ base.project = job.project /\ base.maxAttempts = job.maxAttempts
        /\ base.cancelRequested = job.cancelRequested
    BY <2>3 DEF GoodJob, Job
  <2>5. \A k \in 1..n : base.attempts[k] # "running"
                       /\ (base.attempts[k] = "succeeded" => k = n /\ ended = "succeeded")
    BY <2>1, <2>3 DEF Terminal
  <2>6. job.maxAttempts \in Nat /\ n <= job.maxAttempts /\ 1 <= job.maxAttempts
        /\ job.maxAttempts <= AttemptCeiling
    BY DEF GoodJob, Job, BudgetOK
  <2>7. CASE Requeues(job, ended)
    <3>. DEFINE new == [base EXCEPT !.status = "queued", !.due = ~ delayed]
    <3>1. Finished(job, result, busy, delayed) = new  BY <1>2, <2>7 DEF Finished
    <3>2. /\ new \in Job /\ new.status = "queued" /\ new.attempts = base.attempts
          /\ new.project = job.project /\ new.maxAttempts = job.maxAttempts
          /\ new.cancelRequested = job.cancelRequested
      BY <2>3, <2>4 DEF Job, JobStatus
    <3>3. ended \in {"failed", "interrupted"} /\ n < job.maxAttempts
      BY <2>7 DEF Requeues
    <3>4. BudgetOK(new)  BY <2>3, <2>6, <3>2, <3>3 DEF BudgetOK
    <3>5. HistoryOK(new)  BY <2>3, <2>5, <3>2, <3>3 DEF HistoryOK
    <3>6. WaitingOK(new)  BY <2>2, <3>2, <3>3 DEF WaitingOK, GoodJob, Job
    <3>. QED  BY <3>1, <3>2, <3>4, <3>5, <3>6 DEF GoodJob
  <2>8. CASE ~ Requeues(job, ended)
    <3>. DEFINE new == [base EXCEPT !.status = ended]
    <3>1. Finished(job, result, busy, delayed) = new  BY <1>2, <2>8 DEF Finished
    <3>2. /\ new \in Job /\ new.status = ended /\ new.attempts = base.attempts
          /\ new.project = job.project /\ new.maxAttempts = job.maxAttempts
      BY <2>1, <2>3, <2>4 DEF Job, JobStatus, AttemptStatus
    <3>3. BudgetOK(new)  BY <2>1, <2>3, <2>6, <3>2 DEF BudgetOK, Terminal
    <3>4. HistoryOK(new)
      <4>1. new.attempts # << >>  BY <2>3, <3>2
      <4>2. LastAttempt(new) = ended  BY <2>3, <3>2 DEF LastAttempt
      <4>. QED  BY <2>3, <2>5, <3>2, <4>1, <4>2 DEF HistoryOK
    <3>. QED  BY <2>1, <3>1, <3>2, <3>3, <3>4 DEF GoodJob, WaitingOK, Terminal
  <2>. QED  BY <2>7, <2>8
<1>. QED  BY <1>1, <1>2

\* The end of a delay changes nothing else.
LEMMA DueIsGood ==
    ASSUME NEW job, GoodJob(job)
    PROVE  LET new == [job EXCEPT !.due = TRUE]
           IN  /\ GoodJob(new)
               /\ new.project = job.project /\ new.status = job.status
  BY DEF GoodJob, Job, BudgetOK, HistoryOK, WaitingOK, LastAttempt

-----------------------------------------------------------------------------
(***************************************************************************)
(* The invariant holds initially and every action preserves it.            *)
(***************************************************************************)
LEMMA InitIInv == Init => IInv
<1>. SUFFICES ASSUME Init  PROVE IInv
  OBVIOUS
<1>1. Recorded = {} /\ Pending = {}  BY DEF Init, Recorded, Pending
<1>2. TypeOK  BY <1>1, QueueAssumption DEF Init, TypeOK, QueueAssumption, Recorded
<1>3. PendingWithinCapacity
  BY <1>1, FS_EmptySet, QueueAssumption DEF PendingWithinCapacity, QueueAssumption
<1>. QED  BY <1>1, <1>2, <1>3, FS_EmptySet DEF IInv, OneRunningPerProject

\* Every operation preserves the invariant; recorded jobs are good to begin with.
LEMMA NextIInv == IInv /\ [Next]_queueVars => IInv'
<1>. SUFFICES ASSUME IInv, [Next]_queueVars  PROVE IInv'
  OBVIOUS
<1>a. TypeOK /\ \A id \in Recorded : GoodJob(jobs[id])  BY DEF IInv
<1>1. ASSUME NEW p \in Projects, NEW trigger \in Triggers, EnqueueJob(p, trigger)
      PROVE  IInv'
  <2>1. ASSUME NEW id \in RefreshIds, EnqueueRefresh(p, trigger, id)
        PROVE  IInv'
    <3>1. GoodJob(NewJob(p, trigger, NoDigest))  BY <1>a, NewJobIsGood DEF TypeOK
    <3>2. NewJob(p, trigger, NoDigest).status = "queued"  BY DEF NewJob
    <3>. QED  BY <2>1, <3>1, <3>2, InsertKeepsIInv DEF EnqueueRefresh, HasCapacity, JobId
  <2>2. ASSUME NEW delivery \in Deliveries, NEW digest \in Digests,
               EnqueueDelivery(p, trigger, delivery, digest)
        PROVE  IInv'
    <3>1. GoodJob(NewJob(p, trigger, digest))  BY <1>a, NewJobIsGood DEF TypeOK
    <3>2. NewJob(p, trigger, digest).status = "queued"  BY DEF NewJob
    <3>. QED  BY <2>2, <3>1, <3>2, InsertKeepsIInv DEF EnqueueDelivery, HasCapacity, JobId
  <2>. QED  BY <1>1, <2>1, <2>2 DEF EnqueueJob
<1>2. ASSUME NEW id \in JobId, ClaimJob(id)  PROVE IInv'
  <2>1. /\ id \in Recorded /\ jobs[id].status = "queued"
        /\ RunningOf(jobs[id].project) = {} /\ Update(id, Claimed(jobs[id]))
    BY <1>2 DEF ClaimJob, Claimable
  <2>2. GoodJob(Claimed(jobs[id])) /\ Claimed(jobs[id]).project = jobs[id].project
    BY <1>a, <2>1, ClaimedIsGood
  <2>. QED  BY <2>1, <2>2, UpdateKeepsIInv DEF IsPending
<1>3. ASSUME NEW id \in JobId, NEW result \in Terminal, NEW busy \in BOOLEAN,
             NEW delayed \in BOOLEAN, FinishJob(id, result, busy, delayed)
      PROVE  IInv'
  <2>. DEFINE new == Finished(jobs[id], result, busy, delayed)
  <2>1. id \in Recorded /\ jobs[id].status = "running" /\ Update(id, new)
    BY <1>3 DEF FinishJob
  <2>2. GoodJob(new) /\ new.project = jobs[id].project /\ new.status # "running"
    BY <1>a, <2>1, FinishedIsGood
  <2>. HIDE DEF new
  <2>. QED  BY <2>1, <2>2, UpdateKeepsIInv DEF IsPending
<1>4. ASSUME NEW id \in JobId, RecoverJob(id)  PROVE IInv'
  BY <1>3, <1>4 DEF RecoverJob, Terminal
<1>5. ASSUME NEW id \in JobId, CancelJob(id)  PROVE IInv'
  <2>1. id \in Recorded /\ IsPending(jobs[id]) /\ Update(id, WithCancel(jobs[id]))
    BY <1>5 DEF CancelJob
  <2>. QED  BY <1>a, <2>1, CancelledIsGood, UpdateKeepsIInv
<1>6. ASSUME NEW id \in JobId, RetryJob(id)  PROVE IInv'
  <2>1. /\ id \in Recorded /\ jobs[id].status \in {"failed", "cancelled", "interrupted"}
        /\ Len(jobs[id].attempts) < AttemptCeiling
        /\ Cardinality(Pending) < Capacity
        /\ Update(id, Retried(jobs[id]))
    BY <1>6 DEF RetryJob, HasCapacity
  <2>2. /\ GoodJob(Retried(jobs[id])) /\ Retried(jobs[id]).project = jobs[id].project
        /\ Retried(jobs[id]).status = "queued"
    BY <1>a, <2>1, RetriedIsGood
  <2>. QED  BY <2>1, <2>2, UpdateKeepsIInv
<1>7. ASSUME NEW id \in JobId, DelayElapses(id)  PROVE IInv'
  <2>. DEFINE new == [jobs[id] EXCEPT !.due = TRUE]
  <2>1. id \in Recorded /\ jobs[id].status = "queued" /\ Update(id, new)
    BY <1>7 DEF DelayElapses
  <2>2. GoodJob(new) /\ new.project = jobs[id].project /\ new.status = jobs[id].status
    BY <1>a, <2>1, DueIsGood
  <2>. HIDE DEF new
  <2>. QED  BY <2>1, <2>2, UpdateKeepsIInv DEF IsPending
<1>8. CASE UNCHANGED jobs /\ TypeOK'
  BY <1>8 DEF IInv, Recorded, OneRunningPerProject, PendingWithinCapacity, Pending
<1>9. ASSUME NEW p \in Projects, NEW cap \in PolicyCaps, PutProjectLimits(p, cap)
      PROVE  IInv'
  <2>1. UNCHANGED jobs /\ TypeOK'
    BY <1>a, <1>9, QueueAssumption DEF PutProjectLimits, TypeOK, QueueAssumption, Recorded
  <2>. QED  BY <1>8, <2>1
<1>10. ASSUME NEW p \in Projects, CreateProject(p)  PROVE IInv'
  <2>1. UNCHANGED jobs /\ TypeOK'  BY <1>a, <1>10 DEF CreateProject, TypeOK, Recorded
  <2>. QED  BY <1>8, <2>1
<1>11. ASSUME NEW p \in Projects, DeleteProject(p)  PROVE IInv'
  <2>1. UNCHANGED jobs /\ TypeOK'  BY <1>a, <1>11 DEF DeleteProject, TypeOK, Recorded
  <2>. QED  BY <1>8, <2>1
<1>12. CASE UNCHANGED queueVars
  <2>1. UNCHANGED jobs /\ TypeOK'  BY <1>a, <1>12 DEF queueVars, TypeOK, Recorded
  <2>. QED  BY <1>8, <2>1
<1>. QED
  BY <1>1, <1>2, <1>3, <1>4, <1>5, <1>6, <1>7, <1>9, <1>10, <1>11, <1>12 DEF Next

(***************************************************************************)
(* The theorems.                                                           *)
(***************************************************************************)
\* The inductive invariant holds in every state of every instance.
THEOREM Invariance == Spec => []IInv
<1>1. Init => IInv  BY InitIInv
<1>2. IInv /\ [Next]_queueVars => IInv'  BY NextIInv
<1>. QED  BY <1>1, <1>2, PTL DEF Spec

\* The job table and the policies keep their shape.
THEOREM TypeCorrect == Spec => []TypeOK
<1>1. IInv => TypeOK  BY DEF IInv
<1>. QED  BY <1>1, Invariance, PTL

\* Two refreshes of one project never run at once, whatever is retried,
\* requeued, recovered or cancelled.
THEOREM ProjectsAreSerialised == Spec => []OneRunningPerProject
<1>1. IInv => OneRunningPerProject  BY DEF IInv
<1>. QED  BY <1>1, Invariance, PTL

\* Queued and running jobs never exceed the capacity of the server.
THEOREM CapacityIsKept == Spec => []PendingWithinCapacity
<1>1. IInv => PendingWithinCapacity  BY DEF IInv
<1>. QED  BY <1>1, Invariance, PTL

\* No job has more attempts than it was granted, and a queued one has one left.
THEOREM AllowanceIsKept == Spec => []WithinAllowance
<1>1. IInv => WithinAllowance  BY DEF IInv, GoodJob, BudgetOK, WithinAllowance
<1>. QED  BY <1>1, Invariance, PTL

\* The status of a job and its history never disagree, so no record is ever
\* written that validateJob would refuse.
THEOREM HistoriesAreConsistent == Spec => [](HistoryMatchesStatus /\ SuccessIsFinal)
<1>1. IInv => HistoryMatchesStatus /\ SuccessIsFinal
  BY DEF IInv, GoodJob, HistoryOK, HistoryMatchesStatus, SuccessIsFinal
<1>. QED  BY <1>1, Invariance, PTL

\* Both together: no step leaves a record the code would refuse to read.
THEOREM AttemptsAreAccounted == Spec => []AttemptsAddUp
<1>1. WithinAllowance /\ HistoryMatchesStatus => AttemptsAddUp  BY DEF AttemptsAddUp
<1>. QED  BY <1>1, AllowanceIsKept, HistoriesAreConsistent, PTL

\* No queued job carries a cancellation.
THEOREM CancelledJobsDoNotWait == Spec => []NoCancelledJobWaits
<1>1. IInv => NoCancelledJobWaits  BY DEF IInv, GoodJob, WaitingOK, NoCancelledJobWaits
<1>. QED  BY <1>1, Invariance, PTL

-----------------------------------------------------------------------------
(***************************************************************************)
(* Receipts: what a job was admitted for.                                  *)
(***************************************************************************)
SameReceipt(job, old) ==
    job.project = old.project /\ job.digest = old.digest /\ job.created = old.created

\* No operation on a job changes its receipt.
LEMMA ReceiptsStay ==
    ASSUME NEW job \in Job, NEW result, NEW busy, NEW delayed
    PROVE  /\ SameReceipt(Claimed(job), job)
           /\ SameReceipt(Finished(job, result, busy, delayed), job)
           /\ SameReceipt(WithCancel(job), job)
           /\ SameReceipt(Retried(job), job)
           /\ SameReceipt([job EXCEPT !.due = TRUE], job)
<1>1. SameReceipt(Finished(job, result, busy, delayed), job)
  <2>1. ASSUME NEW attempts, NEW status, NEW due
        PROVE  LET new == [job EXCEPT !.attempts = attempts]
               IN  /\ SameReceipt([new EXCEPT !.status = status, !.due = due], job)
                   /\ SameReceipt([new EXCEPT !.status = status], job)
    BY DEF SameReceipt, Job
  <2>. QED  BY <2>1 DEF Finished, DropLastAttempt, SetLastAttempt, Job
<1>. QED  BY <1>1 DEF SameReceipt, Claimed, WithCancel, Retried, Job

\* A write of one recorded job keeps all receipts if it keeps that one.
LEMMA UpdateKeepsReceipts ==
    ASSUME NEW id \in Recorded, NEW job, Update(id, job), SameReceipt(job, jobs[id]),
           jobs \in [Recorded -> Job]
    PROVE  \A i \in Recorded : i \in Recorded' /\ SameReceipt(jobs'[i], jobs[i])
  BY DEF Update, Recorded, SameReceipt

\* Every operation keeps every receipt.
LEMMA NextKeepsReceipts ==
    ASSUME IInv, [Next]_queueVars
    PROVE  \A i \in Recorded : i \in Recorded' /\ SameReceipt(jobs'[i], jobs[i])
<1>. DEFINE Goal == \A i \in Recorded : i \in Recorded' /\ SameReceipt(jobs'[i], jobs[i])
<1>0. jobs \in [Recorded -> Job]  BY DEF IInv, TypeOK
<1>1. ASSUME NEW id \in Recorded, NEW job, Update(id, job), SameReceipt(job, jobs[id])  PROVE Goal
  BY <1>0, <1>1, UpdateKeepsReceipts
<1>2. ASSUME NEW id \in JobId \ Recorded, NEW job, Insert(id, job)  PROVE Goal
  BY <1>2 DEF Insert, Recorded, SameReceipt
<1>3. ASSUME NEW id, NEW result, NEW busy, NEW delayed, FinishJob(id, result, busy, delayed)
      PROVE  Goal
  BY <1>0, <1>1, <1>3, ReceiptsStay DEF FinishJob
<1>4. ASSUME NEW p \in Projects, NEW trigger \in Triggers, EnqueueJob(p, trigger)  PROVE Goal
  BY <1>2, <1>4 DEF EnqueueJob, EnqueueRefresh, EnqueueDelivery, JobId
<1>5. ASSUME NEW id, ClaimJob(id)  PROVE Goal
  BY <1>0, <1>1, <1>5, ReceiptsStay DEF ClaimJob, Claimable
<1>6. ASSUME NEW id, CancelJob(id)  PROVE Goal
  BY <1>0, <1>1, <1>6, ReceiptsStay DEF CancelJob
<1>7. ASSUME NEW id, RetryJob(id)  PROVE Goal
  BY <1>0, <1>1, <1>7, ReceiptsStay DEF RetryJob
<1>8. ASSUME NEW id, DelayElapses(id)  PROVE Goal
  BY <1>0, <1>1, <1>8, ReceiptsStay DEF DelayElapses
<1>9. ASSUME UNCHANGED jobs  PROVE Goal
  BY <1>9 DEF Recorded, SameReceipt
<1>. QED
  BY <1>3, <1>4, <1>5, <1>6, <1>7, <1>8, <1>9
  DEF Next, RecoverJob, PutProjectLimits, CreateProject, DeleteProject, queueVars

\* A redelivery always finds the project, the digest and the time of the
\* first delivery, whatever became of its job.
THEOREM DeliveriesKeepTheirReceipts == Spec => ReceiptsAreKept
<1>1. IInv /\ [Next]_queueVars =>
        [\A id \in Recorded :
           /\ id \in Recorded'
           /\ jobs'[id].project = jobs[id].project
           /\ jobs'[id].digest = jobs[id].digest
           /\ jobs'[id].created = jobs[id].created]_queueVars
  BY NextKeepsReceipts DEF SameReceipt
<1>. QED  BY <1>1, Invariance, PTL DEF Spec, ReceiptsAreKept

-----------------------------------------------------------------------------
(***************************************************************************)
(* The queue implements RefreshAdmission.                                  *)
(***************************************************************************)
PairOf(id) == <<jobs[id].project, id>>
Retriable  == {"failed", "cancelled", "interrupted"}

\* The admitted pairs are no more than the pending jobs.
LEMMA RoomForAbstract ==
    ASSUME IInv, Cardinality(Pending) < Capacity
    PROVE  Cardinality(WithStatus({"queued"}) \cup WithStatus({"running"})) < Capacity
<1>. DEFINE pairs == WithStatus({"queued"}) \cup WithStatus({"running"})
            f     == [id \in Pending |-> PairOf(id)]
<1>1. IsFiniteSet(Pending)  BY FS_Subset DEF IInv, Pending
<1>2. f \in Surjection(Pending, pairs)
  <2>1. \A id \in Pending : f[id] \in pairs
    BY DEF WithStatus, Pending, IsPending, PairOf
  <2>2. \A r \in pairs : \E id \in Pending : f[id] = r
    BY DEF WithStatus, Pending, IsPending, PairOf
  <2>. QED  BY <2>1, <2>2 DEF Surjection
<1>3. Cardinality(pairs) <= Cardinality(Pending) /\ IsFiniteSet(pairs)
  BY <1>1, <1>2, FS_Surjection DEF ExistsSurjection
<1>4. Cardinality(pairs) \in Nat /\ Cardinality(Pending) \in Nat
  BY <1>1, <1>3, FS_CardinalityType
<1>. QED  BY <1>3, <1>4, QueueAssumption DEF QueueAssumption

\* A rewritten job moves its own pair and no other.
LEMMA UpdatePairs ==
    ASSUME TypeOK, NEW id \in Recorded, NEW job \in Job, Update(id, job),
           job.project = jobs[id].project, NEW statuses
    PROVE  /\ PairOf(id) \in Projects \X JobId
           /\ PairOf(id) \in WithStatus(statuses) <=> jobs[id].status \in statuses
           /\ WithStatus(statuses)' = (WithStatus(statuses) \ {PairOf(id)})
                  \cup (IF job.status \in statuses THEN {PairOf(id)} ELSE {})
<1>1. /\ Recorded' = Recorded
      /\ \A i \in Recorded : jobs'[i] = IF i = id THEN job ELSE jobs[i]
  BY UpdateTable
<1>2. PairOf(id) \in Projects \X JobId  BY DEF PairOf, TypeOK, Job
<1>3. PairOf(id) \in WithStatus(statuses) <=> jobs[id].status \in statuses
  BY DEF PairOf, WithStatus
<1>4. ASSUME NEW r
      PROVE  r \in WithStatus(statuses)' <=>
               r \in (WithStatus(statuses) \ {PairOf(id)})
                  \cup (IF job.status \in statuses THEN {PairOf(id)} ELSE {})
  BY <1>1 DEF PairOf, WithStatus
<1>. QED  BY <1>2, <1>3, <1>4

\* A new job adds its own pair.
LEMMA InsertPairs ==
    ASSUME TypeOK, NEW id \in JobId \ Recorded, NEW job \in Job, Insert(id, job),
           NEW statuses
    PROVE  /\ <<job.project, id>> \in Projects \X JobId
           /\ <<job.project, id>> \notin WithStatus(statuses)
           /\ WithStatus(statuses)' = WithStatus(statuses)
                  \cup (IF job.status \in statuses THEN {<<job.project, id>>} ELSE {})
<1>1. /\ Recorded' = Recorded \cup {id}
      /\ \A i \in Recorded : jobs'[i] = jobs[i]
      /\ jobs'[id] = job
  BY InsertTable
<1>2. <<job.project, id>> \in Projects \X JobId  BY DEF Job
<1>3. <<job.project, id>> \notin WithStatus(statuses)  BY DEF WithStatus
<1>4. ASSUME NEW r
      PROVE  r \in WithStatus(statuses)' <=>
               r \in WithStatus(statuses)
                  \cup (IF job.status \in statuses THEN {<<job.project, id>>} ELSE {})
  BY <1>1 DEF WithStatus
<1>. QED  BY <1>2, <1>3, <1>4

\* A step of the abstract queue, or none.
AbstractStep == [Admission!Next]_(Admission!admissionVars)

\* A rewritten job is an abstract step of its pair, by old and new status.
LEMMA UpdateSimulates ==
    ASSUME IInv, NEW id \in Recorded, NEW job \in Job, Update(id, job),
           job.project = jobs[id].project,
           \/ job.status = jobs[id].status
           \/ jobs[id].status = "queued" /\ job.status = "running"
              /\ RunningOf(jobs[id].project) = {}
           \/ jobs[id].status = "queued" /\ job.status = "cancelled"
           \/ jobs[id].status = "running" /\ job.status \in Terminal \cup {"queued"}
           \/ jobs[id].status \in Retriable /\ job.status = "queued"
              /\ Cardinality(Pending) < Capacity
    PROVE  AbstractStep
<1>. DEFINE r == PairOf(id)
            W == WithStatus({"queued"})
            X == WithStatus({"running"})
            G == WithStatus(Retriable)
            A == WithStatus({"succeeded"})
            Moved(S, statuses) == (S \ {r}) \cup (IF job.status \in statuses THEN {r} ELSE {})
<1>0. TypeOK  BY DEF IInv
<1>1. /\ r \in Projects \X JobId
      /\ r \in W <=> jobs[id].status = "queued"
      /\ r \in X <=> jobs[id].status = "running"
      /\ r \in G <=> jobs[id].status \in Retriable
      /\ r \in A <=> jobs[id].status = "succeeded"
  BY <1>0, UpdatePairs
<1>2. /\ W' = Moved(W, {"queued"}) /\ X' = Moved(X, {"running"})
      /\ G' = Moved(G, Retriable)  /\ A' = Moved(A, {"succeeded"})
  BY <1>0, UpdatePairs
<1>. HIDE DEF W, X, G, A, r
<1>3. AbstractStep <=>
        \/ Admission!Next
        \/ W' = W /\ X' = X /\ G' = G /\ A' = A
  BY DEF AbstractStep, Admission!admissionVars, W, X, G, A, Retriable
<1>4. \A pair \in Projects \X JobId :
        Admission!Start(pair) \/ Admission!Yield(pair) \/ Admission!GiveUp(pair)
          \/ Admission!Achieve(pair) \/ Admission!Admit(pair) => AbstractStep
  BY <1>3 DEF Admission!Next, Admission!Pair
<1>5. CASE job.status = jobs[id].status
  BY <1>1, <1>2, <1>3, <1>5, <1>0 DEF Retriable, TypeOK, Job, JobStatus, AttemptStatus, Terminal
<1>6. CASE jobs[id].status = "queued" /\ job.status = "running"
           /\ RunningOf(jobs[id].project) = {}
  <2>1. \A other \in X : other[1] # r[1]
    BY <1>6, NoneRunning DEF X, r, WithStatus, PairOf
  <2>2. Admission!Start(r)
    BY <2>1, <1>1, <1>2, <1>6 DEF Admission!Start, W, X, G, A, Retriable
  <2>. QED  BY <2>2, <1>1, <1>4
<1>7. CASE jobs[id].status = "queued" /\ job.status = "cancelled"
  <2>1. Admission!GiveUp(r)
    BY <1>1, <1>2, <1>7 DEF Admission!GiveUp, W, X, G, A, Retriable
  <2>. QED  BY <2>1, <1>1, <1>4
<1>8. CASE jobs[id].status = "running" /\ job.status = "queued"
  <2>1. Admission!Yield(r)
    BY <1>1, <1>2, <1>8 DEF Admission!Yield, W, X, G, A, Retriable
  <2>. QED  BY <2>1, <1>1, <1>4
<1>9. CASE jobs[id].status = "running" /\ job.status \in Retriable
  <2>1. Admission!GiveUp(r)
    BY <1>1, <1>2, <1>9 DEF Admission!GiveUp, W, X, G, A, Retriable
  <2>. QED  BY <2>1, <1>1, <1>4
<1>10. CASE jobs[id].status = "running" /\ job.status = "succeeded"
  <2>1. Admission!Achieve(r)
    BY <1>1, <1>2, <1>10 DEF Admission!Achieve, W, X, G, A, Retriable
  <2>. QED  BY <2>1, <1>1, <1>4
<1>11. CASE jobs[id].status \in Retriable /\ job.status = "queued"
            /\ Cardinality(Pending) < Capacity
  <2>1. Admission!HasRoom  BY <1>11, RoomForAbstract DEF Admission!HasRoom, Admission!Cardinality, Cardinality
  <2>2. Admission!Admit(r)
    BY <2>1, <1>1, <1>2, <1>11 DEF Admission!Admit, W, X, G, A, Retriable
  <2>. QED  BY <2>2, <1>1, <1>4
<1>. QED  BY <1>5, <1>6, <1>7, <1>8, <1>9, <1>10, <1>11 DEF Terminal, Retriable

\* A new job is admitted.
LEMMA InsertSimulates ==
    ASSUME IInv, NEW id \in JobId \ Recorded, NEW job \in Job, Insert(id, job),
           job.status = "queued", Cardinality(Pending) < Capacity
    PROVE  AbstractStep
<1>. DEFINE r == <<job.project, id>>
<1>0. TypeOK  BY DEF IInv
<1>1. /\ r \in Projects \X JobId
      /\ \A statuses \in {{"queued"}, {"running"}, Retriable, {"succeeded"}} :
           /\ r \notin WithStatus(statuses)
           /\ WithStatus(statuses)' = WithStatus(statuses)
                 \cup (IF job.status \in statuses THEN {r} ELSE {})
  BY <1>0, InsertPairs
<1>2. Admission!HasRoom  BY RoomForAbstract DEF Admission!HasRoom, Admission!Cardinality, Cardinality
<1>3. Admission!Admit(r)  BY <1>1, <1>2 DEF Admission!Admit, Retriable
<1>. QED  BY <1>1, <1>3 DEF AbstractStep, Admission!Next, Admission!Pair

\* The empty table is the empty abstract queue.
LEMMA InitSimulates == Init => Admission!Init
  BY DEF Init, Admission!Init, WithStatus, Recorded

\* Every operation is an abstract step or a stutter.
LEMMA NextSimulates == IInv /\ [Next]_queueVars => AbstractStep
<1>. SUFFICES ASSUME IInv, [Next]_queueVars  PROVE AbstractStep
  OBVIOUS
<1>a. TypeOK /\ \A id \in Recorded : GoodJob(jobs[id])  BY DEF IInv
<1>1. ASSUME NEW p \in Projects, NEW trigger \in Triggers, EnqueueJob(p, trigger)
      PROVE  AbstractStep
  <2>1. ASSUME NEW id \in JobId \ Recorded, NEW digest \in Digests \cup {NoDigest},
               HasCapacity(p), Insert(id, NewJob(p, trigger, digest))
        PROVE  AbstractStep
    <3>1. /\ NewJob(p, trigger, digest) \in Job
          /\ NewJob(p, trigger, digest).status = "queued"
      BY <1>a, NewJobIsGood DEF TypeOK, GoodJob, NewJob
    <3>. QED  BY <2>1, <3>1, InsertSimulates DEF HasCapacity
  <2>2. ASSUME NEW id \in RefreshIds, EnqueueRefresh(p, trigger, id)
        PROVE  AbstractStep
    BY <2>1, <2>2 DEF EnqueueRefresh, JobId
  <2>3. ASSUME NEW delivery \in Deliveries, NEW digest \in Digests,
               EnqueueDelivery(p, trigger, delivery, digest)
        PROVE  AbstractStep
    BY <2>1, <2>3 DEF EnqueueDelivery, JobId
  <2>. QED  BY <1>1, <2>2, <2>3 DEF EnqueueJob
<1>2. ASSUME NEW id \in JobId, ClaimJob(id)  PROVE AbstractStep
  <2>1. /\ id \in Recorded /\ jobs[id].status = "queued"
        /\ RunningOf(jobs[id].project) = {} /\ Update(id, Claimed(jobs[id]))
    BY <1>2 DEF ClaimJob, Claimable
  <2>2. /\ Claimed(jobs[id]) \in Job
        /\ Claimed(jobs[id]).project = jobs[id].project
        /\ Claimed(jobs[id]).status = "running"
    <3>1. jobs[id] \in Job  BY <1>a, <2>1 DEF GoodJob
    <3>2. Claimed(jobs[id]).status = "running"  BY <3>1 DEF Claimed, Job
    <3>. QED  BY <1>a, <2>1, <3>2, ClaimedIsGood DEF GoodJob
  <2>. QED  BY <2>1, <2>2, UpdateSimulates
<1>3. ASSUME NEW id \in JobId, NEW result \in Terminal, NEW busy \in BOOLEAN,
             NEW delayed \in BOOLEAN, FinishJob(id, result, busy, delayed)
      PROVE  AbstractStep
  <2>. DEFINE new == Finished(jobs[id], result, busy, delayed)
  <2>1. id \in Recorded /\ jobs[id].status = "running" /\ Update(id, new)
    BY <1>3 DEF FinishJob
  <2>2. new \in Job /\ new.project = jobs[id].project /\ new.status # "running"
    BY <1>a, <2>1, FinishedIsGood DEF GoodJob
  <2>. HIDE DEF new
  <2>3. new.status \in Terminal \cup {"queued"}
    BY <2>2 DEF Job, JobStatus, AttemptStatus
  <2>. QED  BY <2>1, <2>2, <2>3, UpdateSimulates
<1>4. ASSUME NEW id \in JobId, RecoverJob(id)  PROVE AbstractStep
  BY <1>3, <1>4 DEF RecoverJob, Terminal
<1>5. ASSUME NEW id \in JobId, CancelJob(id)  PROVE AbstractStep
  <2>1. id \in Recorded /\ IsPending(jobs[id]) /\ Update(id, WithCancel(jobs[id]))
    BY <1>5 DEF CancelJob
  <2>2. /\ WithCancel(jobs[id]) \in Job
        /\ WithCancel(jobs[id]).project = jobs[id].project
    BY <1>a, <2>1, CancelledIsGood DEF GoodJob
  <2>3. WithCancel(jobs[id]).status
          = IF jobs[id].status = "queued" THEN "cancelled" ELSE jobs[id].status
    BY <1>a, <2>1 DEF WithCancel, GoodJob, Job
  <2>. QED  BY <2>1, <2>2, <2>3, UpdateSimulates
<1>6. ASSUME NEW id \in JobId, RetryJob(id)  PROVE AbstractStep
  <2>1. /\ id \in Recorded /\ jobs[id].status \in Retriable
        /\ Len(jobs[id].attempts) < AttemptCeiling
        /\ Cardinality(Pending) < Capacity
        /\ Update(id, Retried(jobs[id]))
    BY <1>6 DEF RetryJob, HasCapacity, Retriable
  <2>2. /\ Retried(jobs[id]) \in Job /\ Retried(jobs[id]).project = jobs[id].project
        /\ Retried(jobs[id]).status = "queued"
    BY <1>a, <2>1, RetriedIsGood DEF GoodJob, Retriable
  <2>. QED  BY <2>1, <2>2, UpdateSimulates
<1>7. ASSUME NEW id \in JobId, DelayElapses(id)  PROVE AbstractStep
  <2>. DEFINE new == [jobs[id] EXCEPT !.due = TRUE]
  <2>1. id \in Recorded /\ jobs[id].status = "queued" /\ Update(id, new)
    BY <1>7 DEF DelayElapses
  <2>2. new \in Job /\ new.project = jobs[id].project /\ new.status = jobs[id].status
    BY <1>a, <2>1, DueIsGood DEF GoodJob
  <2>. HIDE DEF new
  <2>. QED  BY <2>1, <2>2, UpdateSimulates
<1>8. ASSUME UNCHANGED jobs  PROVE AbstractStep
  BY <1>8 DEF AbstractStep, Admission!admissionVars, WithStatus, Recorded
<1>. QED
  BY <1>1, <1>2, <1>3, <1>4, <1>5, <1>6, <1>7, <1>8
  DEF Next, PutProjectLimits, CreateProject, DeleteProject, queueVars

\* The queue implements the abstract admission specification: at most
\* Capacity admitted, one executing per project, nothing redone once achieved.
THEOREM RefinesAdmission == Spec => ImplementsAdmission
<1>1. Init => Admission!Init  BY InitSimulates
<1>2. IInv /\ [Next]_queueVars => [Admission!Next]_(Admission!admissionVars)
  BY NextSimulates DEF AbstractStep
<1>. QED  BY <1>1, <1>2, Invariance, PTL DEF Spec, ImplementsAdmission, Admission!Spec

-----------------------------------------------------------------------------
(***************************************************************************)
(* The scheduler.                                                          *)
(***************************************************************************)
Alive == server \in {"up", "stopping"}

\* Nothing runs in a process that is down or still recovers.
QuietUntilUp ==
    ~ Alive =>
        /\ \A w \in Workers : worker[w].pc = "idle"
        /\ \A p \in Projects : active[p] = NotActive
        /\ toResume = {}

\* The first half of WorkersHoldRunningJobs holds in every process.
HoldersAreSingle ==
    \A w \in Workers : HasJob(w) =>
        /\ worker[w].job \in Recorded
        /\ jobs[worker[w].job].status = "running"
        /\ \A v \in Workers : HasJob(v) /\ worker[v].job = worker[w].job => v = w

\* Its second half, and what recovery has to do before it.
RunningIsHeld ==
    /\ Alive /\ ~ opsError =>
         \A id \in Recorded : jobs[id].status = "running" =>
             \E w \in Workers : HasJob(w) /\ worker[w].job = id
    /\ server = "recovering" =>
         \A id \in Recorded : jobs[id].status = "running" => id \in toRecover

\* A goroutine works on the latest ingestion of its project; an ingestion
\* of a job is in the job's project, and the archive of the attempt says
\* what the record of the project says.
IngestionsAreTheirs ==
    \A p \in Projects :
        /\ IsActive(p) <=> active[p].owner # NoOne
        /\ IsActive(p) => active[p].owner = ingestion[p].owner
        /\ ingestion[p].owner \in JobId =>
             /\ ingestion[p].owner \in Recorded
             /\ jobs[ingestion[p].owner].project = p
             /\ outcome[ingestion[p].owner] = ingestion[p].status

\* Success is read from the archive before the job is ended, and the archive
\* of an attempt does not change after that.
SuccessIsEarned ==
    /\ \A w \in Workers : worker[w].pc = "finish" /\ worker[w].result = "succeeded" =>
           outcome[worker[w].job] = "completed"
    /\ \A id \in Recorded : jobs[id].status = "succeeded" => outcome[id] = "completed"

\* A record says running only while its goroutine has not saved its end.
RunningIsReal ==
    /\ \A p \in Projects : active[p].phase = "decided" => active[p].result # "running"
    /\ server = "recovering" => \A p \in Projects : ingestion[p].status # "running"
    /\ used.faults = 0 => \A p \in Projects :
         /\ active[p].phase = "saved" => ingestion[p].status # "running"
         /\ Alive /\ ingestion[p].status = "running" => IsActive(p)

Agreement ==
    /\ QuietUntilUp
    /\ HoldersAreSingle
    /\ RunningIsHeld
    /\ DrainedBeforeRelease
    /\ IngestionsAreTheirs
    /\ SuccessIsEarned
    /\ RunningIsReal

SchedulerInv == IInv /\ TypeOKScheduler /\ Agreement

-----------------------------------------------------------------------------
(***************************************************************************)
(* What the operations of the queue do to the statuses of jobs.            *)
(***************************************************************************)
\* No job starts or stops to run, and none succeeds.
CalmQueue ==
    /\ \A id \in Recorded :
         /\ id \in Recorded'
         /\ jobs'[id].project = jobs[id].project
         /\ jobs'[id].status = "running" <=> jobs[id].status = "running"
         /\ jobs'[id].status = "succeeded" => jobs[id].status = "succeeded"
    /\ \A id \in Recorded' \ Recorded : jobs'[id].status = "queued"

\* Of the jobs only this one changes, and stays with its project.
OnlyJob(id) ==
    /\ id \in Recorded /\ Recorded' = Recorded
    /\ \A i \in Recorded : i # id => jobs'[i] = jobs[i]
    /\ jobs'[id].project = jobs[id].project

LEMMA RequestsAreCalm ==
    ASSUME IInv,
           \/ UNCHANGED queueVars
           \/ \E p \in Projects, trigger \in Triggers, id \in RefreshIds : EnqueueRefresh(p, trigger, id)
           \/ \E id \in JobId : CancelJob(id) \/ RetryJob(id) \/ DelayElapses(id)
    PROVE  CalmQueue
<1>0. TypeOK /\ jobs \in [Recorded -> Job] /\ \A id \in Recorded : GoodJob(jobs[id])
  BY DEF IInv, TypeOK
<1>1. ASSUME UNCHANGED queueVars  PROVE CalmQueue
  BY <1>1 DEF queueVars, CalmQueue, Recorded
<1>2. ASSUME NEW p \in Projects, NEW trigger \in Triggers, NEW id \in RefreshIds,
             EnqueueRefresh(p, trigger, id)
      PROVE  CalmQueue
  <2>1. /\ id \in JobId \ Recorded
        /\ jobs' = [i \in Recorded \cup {id} |-> IF i = id THEN NewJob(p, trigger, NoDigest) ELSE jobs[i]]
    BY <1>2 DEF EnqueueRefresh, Insert, JobId
  <2>2. NewJob(p, trigger, NoDigest).status = "queued"  BY DEF NewJob
  <2>. QED  BY <2>1, <2>2 DEF CalmQueue, Recorded
<1>3. ASSUME NEW id \in Recorded, NEW job, Update(id, job), job.project = jobs[id].project,
             job.status = "running" <=> jobs[id].status = "running",
             job.status = "succeeded" => jobs[id].status = "succeeded"
      PROVE  CalmQueue
  <2>1. Recorded' = Recorded /\ \A i \in Recorded : jobs'[i] = IF i = id THEN job ELSE jobs[i]
    BY <1>0, <1>3 DEF Update, Recorded
  <2>. QED  BY <1>3, <2>1 DEF CalmQueue
<1>4. ASSUME NEW id \in JobId, CancelJob(id)  PROVE CalmQueue
  BY <1>0, <1>3, <1>4 DEF CancelJob, WithCancel, Job, IsPending
<1>5. ASSUME NEW id \in JobId, RetryJob(id)  PROVE CalmQueue
  BY <1>0, <1>3, <1>5 DEF RetryJob, Retried, Job
<1>6. ASSUME NEW id \in JobId, DelayElapses(id)  PROVE CalmQueue
  BY <1>0, <1>3, <1>6 DEF DelayElapses, Job
<1>. QED  BY <1>1, <1>2, <1>4, <1>5, <1>6

LEMMA ClaimStartsOne ==
    ASSUME IInv, NEW id \in JobId, ClaimJob(id)
    PROVE  OnlyJob(id) /\ jobs[id].status = "queued" /\ jobs'[id].status = "running"
<1>1. jobs \in [Recorded -> Job] /\ id \in Recorded /\ jobs[id].status = "queued"
      /\ jobs' = [jobs EXCEPT ![id] = Claimed(jobs[id])]
  BY DEF IInv, TypeOK, ClaimJob, Claimable, Update
<1>2. Claimed(jobs[id]).status = "running" /\ Claimed(jobs[id]).project = jobs[id].project
  BY <1>1 DEF Claimed, Job
<1>. QED  BY <1>1, <1>2 DEF OnlyJob, Recorded

\* A job that is finished runs no more, and succeeds only with that result.
LEMMA FinishEndsOne ==
    ASSUME IInv, NEW id, NEW result \in Terminal, NEW busy \in BOOLEAN, NEW delayed \in BOOLEAN,
           FinishJob(id, result, busy, delayed)
    PROVE  /\ OnlyJob(id) /\ jobs[id].status = "running" /\ jobs'[id].status # "running"
           /\ jobs'[id].status = "succeeded" => result = "succeeded"
<1>. DEFINE new == Finished(jobs[id], result, busy, delayed)
<1>1. /\ jobs \in [Recorded -> Job] /\ id \in Recorded /\ jobs[id].status = "running"
      /\ jobs' = [jobs EXCEPT ![id] = new] /\ GoodJob(jobs[id])
  BY DEF IInv, TypeOK, FinishJob, Update
<1>2. GoodJob(new) /\ new.project = jobs[id].project /\ new.status # "running"
  BY <1>1, FinishedIsGood
<1>3. new.status = "succeeded" => result = "succeeded"
  <2>1. ASSUME NEW attempts, NEW status, NEW due
        PROVE  LET base == [jobs[id] EXCEPT !.attempts = attempts]
               IN  /\ [base EXCEPT !.status = status, !.due = due].status = status
                   /\ [base EXCEPT !.status = status].status = status
    BY <1>1 DEF Job
  <2>. QED  BY <1>1, <2>1 DEF Finished, DropLastAttempt, SetLastAttempt, Outcome, Job
<1>. HIDE DEF new
<1>4. Recorded' = Recorded /\ \A i \in Recorded : jobs'[i] = IF i = id THEN new ELSE jobs[i]
  BY <1>1 DEF Recorded
<1>. QED  BY <1>1, <1>2, <1>3, <1>4 DEF OnlyJob

-----------------------------------------------------------------------------
(***************************************************************************)
(* The shape of the state.                                                 *)
(***************************************************************************)
\* Contexts keep their shape, whoever cancels them.
LEMMA SignalsStay ==
    ASSUME NEW cause \in Signal, NEW current \in Signal
    PROVE  Cancelled(cause, current) \in Signal
  BY DEF Cancelled

WorkerRecord == [pc : {"idle", "claiming", "launch", "drain", "collect", "finish", "exited"},
                 job : JobId \cup {NoOne}, signal : Signal, result : Terminal, busy : BOOLEAN]
ActiveRecord == [owner : Owner, phase : {"idle", "working", "decided", "saved"},
                 cause : Signal, result : IngestionStatus]
IngestionRecord == [owner : Owner, status : IngestionStatus, cancelRequested : BOOLEAN]

\* The types of the records on disk, of the goroutines and of the process.
LifeTypes == /\ server \in {"down", "recovering", "up", "stopping"}
             /\ toResume \subseteq Projects
             /\ opsDone \in BOOLEAN /\ opsError \in BOOLEAN
WorkTypes == /\ worker \in [Workers -> WorkerRecord]
             /\ active \in [Projects -> ActiveRecord]
DiskTypes == /\ ingestion \in [Projects -> IngestionRecord]
             /\ outcome \in [JobId -> IngestionStatus]
HeldTypes == held \subseteq Projects
UsedTypes == used \in [direct : 0..MaxDirect, crashes : 0..MaxCrashes, faults : 0..MaxFaults]

LEMMA TypesAreParts ==
    TypeOKScheduler <=> /\ TypeOK /\ toRecover \subseteq Recorded
                        /\ LifeTypes /\ WorkTypes /\ DiskTypes /\ HeldTypes /\ UsedTypes
  BY DEF TypeOKScheduler, LifeTypes, WorkTypes, DiskTypes, HeldTypes, UsedTypes,
         WorkerRecord, ActiveRecord, IngestionRecord

\* Launching writes records of the right shape.
LEMMA LaunchTypes ==
    ASSUME WorkTypes, DiskTypes, NEW p \in Projects, NEW owner \in JobId \cup {Direct},
           Launch(p, owner)
    PROVE  active' \in [Projects -> ActiveRecord] /\ DiskTypes'
<1>1. [NotActive EXCEPT !.owner = owner, !.phase = "working"] \in ActiveRecord
  BY DEF NotActive, ActiveRecord, Owner, Signal, IngestionStatus
<1>2. [owner |-> owner, status |-> "running", cancelRequested |-> FALSE] \in IngestionRecord
  BY DEF IngestionRecord, Owner, IngestionStatus
<1>. QED  BY <1>1, <1>2 DEF Launch, WorkTypes, DiskTypes, IngestionStatus

\* A bound is only ever used up to its value.
LEMMA BoundTypes ==
    ASSUME UsedTypes, \/ Fault \/ DirectWork \/ UNCHANGED used
                      \/ used.crashes < MaxCrashes /\ used' = [used EXCEPT !.crashes = @ + 1]
    PROVE  UsedTypes'
  BY SchedulerAssumption DEF UsedTypes, Fault, DirectWork, SchedulerAssumption

\* Cancelling the contexts of some workers and ingestions.
LEMMA StopTypes ==
    ASSUME WorkTypes, NEW hit, NEW cause \in Signal
    PROVE  [p \in Projects |-> IF p \in hit THEN [active[p] EXCEPT !.cause = Cancelled(cause, @)]
                                            ELSE active[p]] \in [Projects -> ActiveRecord]
<1>1. ASSUME NEW p \in Projects
      PROVE  [active[p] EXCEPT !.cause = Cancelled(cause, @)] \in ActiveRecord
  <2>1. active[p] \in ActiveRecord  BY DEF WorkTypes
  <2>2. Cancelled(cause, active[p].cause) \in Signal  BY <2>1, SignalsStay DEF ActiveRecord
  <2>. QED  BY <2>1, <2>2 DEF ActiveRecord
<1>. QED  BY <1>1 DEF WorkTypes

\* The attempt of a worker sees the stop.
LEMMA StopWorkerTypes ==
    ASSUME WorkTypes, NEW w \in Workers
    PROVE  [worker[w] EXCEPT !.signal = Cancelled("stop", @)] \in WorkerRecord
<1>1. worker[w] \in WorkerRecord  BY DEF WorkTypes
<1>2. Cancelled("stop", worker[w].signal) \in Signal  BY <1>1, SignalsStay DEF WorkerRecord, Signal
<1>. QED  BY <1>1, <1>2 DEF WorkerRecord

\* A worker writes a record of the right shape for itself.
LEMMA WorkerTypes ==
    ASSUME WorkTypes, NEW w \in Workers,
           \/ CheckContext(w) \/ Claim(w) \/ NothingToClaim(w) \/ LaunchJob(w) \/ CannotLaunch(w)
           \/ Drained(w) \/ Collect(w) \/ Finish(w) \/ LaunchFails(w) \/ WatchCancel(w) \/ WatchFails(w)
    PROVE  worker' \in [Workers -> WorkerRecord]
<1>1. ASSUME NEW new \in WorkerRecord, SetWorker(w, new)  PROVE worker' \in [Workers -> WorkerRecord]
  BY <1>1 DEF WorkTypes, SetWorker
<1>2. worker[w] \in WorkerRecord  BY DEF WorkTypes
<1>3. ASSUME NEW pc \in {"idle", "claiming", "launch", "drain", "collect", "finish", "exited"}
      PROVE  [worker[w] EXCEPT !.pc = pc] \in WorkerRecord
  BY <1>2 DEF WorkerRecord
<1>4. ASSUME NEW signal \in Signal  PROVE [worker[w] EXCEPT !.signal = signal] \in WorkerRecord
  BY <1>2 DEF WorkerRecord
<1>5. ASSUME NEW result \in Terminal, NEW busy \in BOOLEAN
      PROVE  /\ [worker[w] EXCEPT !.pc = "finish", !.result = result] \in WorkerRecord
             /\ [worker[w] EXCEPT !.pc = "finish", !.result = result, !.busy = busy] \in WorkerRecord
             /\ [worker[w] EXCEPT !.pc = "finish", !.busy = busy, !.result = result] \in WorkerRecord
  BY <1>2 DEF WorkerRecord
<1>6. IdleWorker \in WorkerRecord
  BY DEF IdleWorker, WorkerRecord, Signal, Terminal
<1>7. ASSUME NEW id \in JobId, NEW signal \in Signal
      PROVE  [IdleWorker EXCEPT !.pc = "launch", !.job = id, !.signal = signal] \in WorkerRecord
  BY <1>6 DEF IdleWorker, WorkerRecord
<1>8. CASE CheckContext(w)  BY <1>1, <1>3, <1>8 DEF CheckContext
<1>9. CASE Claim(w)  BY <1>1, <1>7, <1>9 DEF Claim, Signal
<1>10. CASE NothingToClaim(w)  BY <1>1, <1>6, <1>10 DEF NothingToClaim
<1>11. CASE LaunchJob(w)  BY <1>1, <1>3, <1>11 DEF LaunchJob
<1>12. CASE CannotLaunch(w)
  <2>1. PICK result \in Terminal :
          SetWorker(w, [worker[w] EXCEPT !.pc = "finish", !.result = result,
                                         !.busy = worker[w].signal = "none"])
    BY <1>12 DEF CannotLaunch, Terminal
  <2>. QED  BY <2>1, <1>1, <1>5
<1>13. CASE Drained(w)  BY <1>1, <1>3, <1>13 DEF Drained
<1>14. CASE Collect(w)
  <2>1. PICK result \in Terminal :
          SetWorker(w, [worker[w] EXCEPT !.pc = "finish", !.result = result])
    BY <1>14 DEF Collect, JobResult, Terminal
  <2>. QED  BY <2>1, <1>1, <1>5
<1>15. CASE Finish(w)  BY <1>1, <1>6, <1>15 DEF Finish
<1>16. CASE LaunchFails(w)
  <2>1. PICK result \in Terminal :
          SetWorker(w, [worker[w] EXCEPT !.pc = "finish", !.busy = FALSE, !.result = result])
    BY <1>16 DEF LaunchFails, Terminal
  <2>. QED  BY <2>1, <1>1, <1>5
<1>17. CASE WatchCancel(w)  BY <1>1, <1>4, <1>17 DEF WatchCancel, Signal
<1>18. CASE WatchFails(w)  BY <1>1, <1>4, <1>18 DEF WatchFails, Signal
<1>. QED  BY <1>8, <1>9, <1>10, <1>11, <1>12, <1>13, <1>14, <1>15, <1>16, <1>17, <1>18

\* A save of the result writes it to the record and, for a job, the archive.
LEMMA RecordTypes ==
    ASSUME DiskTypes, NEW p \in Projects, NEW status \in IngestionStatus, RecordResult(p, status)
    PROVE  DiskTypes'
<1>1. [ingestion[p] EXCEPT !.status = status] \in IngestionRecord
  BY DEF DiskTypes, IngestionRecord
<1>. QED  BY <1>1 DEF RecordResult, DiskTypes

LEMMA RecoveredTypes ==
    ASSUME DiskTypes, NEW p \in Projects
    PROVE  /\ RecoveredStatus(p) \in IngestionStatus /\ RecoveredStatus(p) # "running"
           /\ [ingestion[p] EXCEPT !.status = RecoveredStatus(p)] \in IngestionRecord
  BY DEF DiskTypes, IngestionRecord, RecoveredStatus, IngestionStatus

-----------------------------------------------------------------------------
(***************************************************************************)
(* The scheduler uses the queue only through its operations.               *)
(***************************************************************************)
LEMMA QueueSteps ==
    ASSUME TypeOKScheduler, [NextScheduler]_vars
    PROVE  [Next]_queueVars
<1>0. Recorded \subseteq JobId /\ \A w \in Workers : worker[w] \in WorkerRecord
  BY TypesAreParts DEF TypeOK, WorkTypes
<1>1. ASSUME NEW w \in Workers, Claim(w)  PROVE Next
  BY <1>1 DEF Claim, Next
<1>2. ASSUME NEW w \in Workers, Finish(w)  PROVE Next
  <2>1. worker[w].result \in Terminal /\ worker[w].busy \in BOOLEAN  BY <1>0 DEF WorkerRecord
  <2>2. worker[w].job \in JobId  BY <1>0, <1>2 DEF Finish, FinishJob
  <2>. QED  BY <1>2, <2>1, <2>2 DEF Finish, Next
<1>3. ASSUME NEW w \in Workers,
             \/ CheckContext(w) \/ NothingToClaim(w) \/ LaunchJob(w) \/ CannotLaunch(w)
             \/ Drained(w) \/ Collect(w) \/ WatchCancel(w) \/ WatchFails(w) \/ LaunchFails(w)
             \/ ClaimFails(w) \/ FinishFails(w)
      PROVE  UNCHANGED queueVars
  BY <1>3 DEF CheckContext, NothingToClaim, LaunchJob, CannotLaunch, Drained, Collect, WatchCancel,
              WatchFails, LaunchFails, ClaimFails, FinishFails, FailOperations, UnchangedQueue
<1>4. ASSUME NEW p \in Projects,
             \/ IngestionStep(p) \/ CheckpointFails(p) \/ SaveResultFails(p)
             \/ StartDirect(p) \/ ResumeByHand(p) \/ CancelIngestion(p)
             \/ BeginOtherWork(p) \/ EndOtherWork(p) \/ ResumeAtStart(p)
      PROVE  UNCHANGED queueVars
  BY <1>4 DEF IngestionStep, Decide, SaveResult, FinishIngestionOperation, CheckpointFails,
              SaveResultFails, StartDirect, ResumeByHand, CancelIngestion, BeginOtherWork,
              EndOtherWork, ResumeAtStart, UnchangedQueue
<1>5. ASSUME NEW p \in Projects, NEW trigger \in Triggers, RequestRefresh(p, trigger)  PROVE Next
  BY <1>5 DEF RequestRefresh, EnqueueJob, Next
<1>6. ASSUME NEW id \in JobId, RequestCancel(id) \/ RequestRetry(id) \/ Elapse(id)  PROVE Next
  BY <1>6 DEF RequestCancel, RequestRetry, Elapse, Next
<1>7. ASSUME NEW id \in JobId, RecoverNext(id)  PROVE Next
  BY <1>7 DEF RecoverNext, Next
<1>8. CASE Crash \/ Shutdown \/ Boot \/ StartWorkers \/ ShutdownDone
  BY <1>8 DEF Crash, Shutdown, Boot, StartWorkers, ShutdownDone, Down, UnchangedQueue
<1>9. CASE UNCHANGED vars  BY <1>9 DEF vars
<1>. QED
  BY <1>1, <1>2, <1>3, <1>4, <1>5, <1>6, <1>7, <1>8, <1>9 DEF NextScheduler, WorkerStep, LifeStep

\* So the queue keeps its invariant and no job leaves the table.
LEMMA QueueKept ==
    ASSUME IInv, TypeOKScheduler, [NextScheduler]_vars
    PROVE  /\ IInv' /\ TypeOK' /\ Recorded \subseteq Recorded'
           /\ \A id \in Recorded : SameReceipt(jobs'[id], jobs[id])
<1>1. [Next]_queueVars  BY QueueSteps
<1>2. IInv'  BY <1>1, NextIInv
<1>. QED  BY <1>1, <1>2, NextKeepsReceipts DEF IInv

LEMMA NextTypes ==
    ASSUME IInv, TypeOKScheduler, HoldersAreSingle, [NextScheduler]_vars
    PROVE  TypeOKScheduler'
<1>0. /\ toRecover \subseteq Recorded
      /\ LifeTypes /\ WorkTypes /\ DiskTypes /\ HeldTypes /\ UsedTypes
      /\ TypeOK' /\ Recorded \subseteq Recorded'
  BY TypesAreParts, QueueKept
<1>. DEFINE Goal == /\ toRecover' \subseteq Recorded'
                    /\ LifeTypes' /\ WorkTypes' /\ DiskTypes' /\ HeldTypes' /\ UsedTypes'
<1>a. ASSUME UnchangedServer  PROVE toRecover' \subseteq Recorded' /\ LifeTypes'
  BY <1>0, <1>a DEF UnchangedServer, LifeTypes
<1>b. ASSUME UNCHANGED worker, active' \in [Projects -> ActiveRecord]  PROVE WorkTypes'
  BY <1>0, <1>b DEF WorkTypes
<1>c. ASSUME UNCHANGED active, worker' \in [Workers -> WorkerRecord]  PROVE WorkTypes'
  BY <1>0, <1>c DEF WorkTypes
<1>d. (UNCHANGED held => HeldTypes') /\ (UNCHANGED <<ingestion, outcome>> => DiskTypes')
      /\ (UNCHANGED <<worker, active>> => WorkTypes') /\ (UNCHANGED used => UsedTypes')
  BY <1>0 DEF HeldTypes, DiskTypes, WorkTypes, UsedTypes
<1>e. \A p \in Projects : active[p] \in ActiveRecord /\ ingestion[p] \in IngestionRecord
  BY <1>0 DEF WorkTypes, DiskTypes
<1>f. ASSUME NEW p \in Projects, NEW new \in ActiveRecord, active' = [active EXCEPT ![p] = new]
      PROVE  active' \in [Projects -> ActiveRecord]
  BY <1>0, <1>f DEF WorkTypes
<1>1. ASSUME NEW w \in Workers,
             \/ CheckContext(w) \/ Claim(w) \/ NothingToClaim(w) \/ CannotLaunch(w)
             \/ Drained(w) \/ Collect(w) \/ Finish(w) \/ LaunchFails(w)
      PROVE  Goal
  <2>1. worker' \in [Workers -> WorkerRecord]  BY <1>0, <1>1, WorkerTypes
  <2>2. /\ UnchangedServer /\ UNCHANGED <<ingestion, outcome, active, held>>
        /\ Fault \/ UNCHANGED used
    BY <1>1 DEF CheckContext, Claim, NothingToClaim, CannotLaunch, Drained, Collect, Finish, LaunchFails
  <2>3. UsedTypes'  BY <1>0, <2>2, BoundTypes
  <2>. QED  BY <2>1, <2>2, <2>3, <1>a, <1>c, <1>d
<1>2. ASSUME NEW w \in Workers, LaunchJob(w)  PROVE Goal
  <2>1. worker' \in [Workers -> WorkerRecord]  BY <1>0, <1>2, WorkerTypes
  <2>2. Launch(ProjectOf(w), worker[w].job) /\ UnchangedServer /\ UNCHANGED <<held, used>>
    BY <1>2 DEF LaunchJob
  <2>3. DiskTypes' /\ active' \in [Projects -> ActiveRecord]
    <3>1. ProjectOf(w) \in Projects /\ worker[w].job \in JobId
      BY <1>2 DEF LaunchJob, HoldersAreSingle, HasJob, ProjectOf, TypeOKScheduler, TypeOK, Job
    <3>. QED  BY <1>0, <2>2, <3>1, LaunchTypes
  <2>. QED  BY <2>1, <2>2, <2>3, <1>a, <1>d DEF WorkTypes
<1>3. ASSUME NEW w \in Workers, WatchCancel(w) \/ WatchFails(w)  PROVE Goal
  <2>1. worker' \in [Workers -> WorkerRecord]  BY <1>0, <1>3, WorkerTypes
  <2>2. active' \in [Projects -> ActiveRecord]
    <3>. DEFINE hit == {q \in Projects : active[q].owner = worker[w].job}
    <3>1. PICK cause \in Signal :
            active' = [p \in Projects |->
               IF p \in hit THEN [active[p] EXCEPT !.cause = Cancelled(cause, @)] ELSE active[p]]
      BY <1>3 DEF WatchCancel, WatchFails, Signal
    <3>. HIDE DEF hit
    <3>. QED  BY <1>0, <3>1, StopTypes
  <2>3. /\ UnchangedServer /\ UNCHANGED <<ingestion, outcome, held>>
        /\ Fault \/ UNCHANGED used
    BY <1>3 DEF WatchCancel, WatchFails
  <2>4. UsedTypes'  BY <1>0, <2>3, BoundTypes
  <2>. QED  BY <2>1, <2>2, <2>3, <2>4, <1>a, <1>d DEF WorkTypes
<1>4. ASSUME NEW w \in Workers, ClaimFails(w) \/ FinishFails(w)  PROVE Goal
  <2>1. FailOperations(w)  BY <1>4 DEF ClaimFails, FinishFails
  <2>2. active' \in [Projects -> ActiveRecord]
    BY <1>0, <2>1, StopTypes DEF FailOperations, Signal
  <2>3. worker' \in [Workers -> WorkerRecord]
    <3>1. [IdleWorker EXCEPT !.pc = "exited"] \in WorkerRecord
      BY DEF IdleWorker, WorkerRecord, Signal, Terminal
    <3>2. \A v \in Workers : /\ worker[v] \in WorkerRecord
                             /\ [worker[v] EXCEPT !.signal = Cancelled("stop", @)] \in WorkerRecord
      BY <1>0, StopWorkerTypes DEF WorkTypes
    <3>. QED  BY <2>1, <3>1, <3>2 DEF FailOperations
  <2>4. UsedTypes'  BY <1>0, <2>1, BoundTypes DEF FailOperations
  <2>. QED  BY <2>1, <2>2, <2>3, <2>4, <1>0, <1>d DEF WorkTypes, FailOperations, LifeTypes
<1>5. ASSUME NEW p \in Projects, IngestionStep(p) \/ CheckpointFails(p) \/ SaveResultFails(p)
      PROVE  Goal
  <2>1. /\ UnchangedServer /\ UNCHANGED <<worker, held>>
        /\ Fault \/ UNCHANGED used
    BY <1>5 DEF IngestionStep, Decide, SaveResult, FinishIngestionOperation, CheckpointFails, SaveResultFails
  <2>2. UsedTypes'  BY <1>0, <2>1, BoundTypes
  <2>3. active' \in [Projects -> ActiveRecord]
    <3>1. ASSUME NEW result \in IngestionStatus, Decide(p, result)
          PROVE  active' \in [Projects -> ActiveRecord]
      <4>1. active' = [active EXCEPT ![p] = [active[p] EXCEPT !.phase = "decided", !.result = result]]
        BY <1>0, <3>1 DEF Decide, WorkTypes, ActiveRecord
      <4>2. [active[p] EXCEPT !.phase = "decided", !.result = result] \in ActiveRecord
        BY <1>e DEF ActiveRecord
      <4>. QED  BY <1>f, <4>1, <4>2
    <3>2. CASE SaveResult(p) \/ SaveResultFails(p)
      BY <1>e, <1>f, <3>2 DEF SaveResult, SaveResultFails, ActiveRecord
    <3>3. CASE CheckpointFails(p)
      <4>1. [active[p] EXCEPT !.cause = Cancelled("stop", @)] \in ActiveRecord
        <5>1. Cancelled("stop", active[p].cause) \in Signal
          BY <1>e, SignalsStay DEF ActiveRecord, Signal
        <5>. QED  BY <1>e, <5>1 DEF ActiveRecord
      <4>2. active' = [active EXCEPT ![p] = [active[p] EXCEPT !.cause = Cancelled("stop", @)]]
        BY <3>3 DEF CheckpointFails
      <4>. QED  BY <4>1, <4>2, <1>f
    <3>4. CASE FinishIngestionOperation(p)
      <4>1. NotActive \in ActiveRecord
        BY DEF NotActive, ActiveRecord, Owner, Signal, IngestionStatus
      <4>. QED  BY <1>f, <3>4, <4>1 DEF FinishIngestionOperation
    <3>. QED  BY <1>5, <3>1, <3>2, <3>3, <3>4 DEF IngestionStep
  <2>4. DiskTypes'
    <3>1. CASE SaveResult(p)
      <4>1. active[p].result \in IngestionStatus  BY <1>e DEF ActiveRecord
      <4>. QED  BY <1>0, <3>1, <4>1, RecordTypes DEF SaveResult
    <3>2. CASE UNCHANGED <<ingestion, outcome>>  BY <3>2, <1>d
    <3>. QED  BY <1>5, <3>1, <3>2
         DEF IngestionStep, Decide, FinishIngestionOperation, CheckpointFails, SaveResultFails
  <2>. QED  BY <2>1, <2>2, <2>3, <2>4, <1>a, <1>b, <1>d
<1>6. ASSUME \/ \E p \in Projects, trigger \in Triggers : RequestRefresh(p, trigger)
             \/ \E id \in JobId : RequestCancel(id) \/ RequestRetry(id) \/ Elapse(id)
             \/ UNCHANGED vars
      PROVE  Goal
  <2>1. UNCHANGED schedulerVars
    BY <1>6 DEF RequestRefresh, RequestCancel, RequestRetry, Elapse, QueueRequest, UnchangedServer,
                schedulerVars, vars
  <2>. QED  BY <1>0, <1>d, <2>1 DEF schedulerVars, LifeTypes
<1>7. ASSUME NEW p \in Projects, StartDirect(p) \/ ResumeByHand(p)  PROVE Goal
  <2>1. /\ Launch(p, Direct) /\ UnchangedServer /\ UNCHANGED <<worker, held>> /\ DirectWork
    BY <1>7 DEF StartDirect, ResumeByHand
  <2>2. DiskTypes' /\ active' \in [Projects -> ActiveRecord]  BY <1>0, <2>1, LaunchTypes
  <2>3. UsedTypes'  BY <1>0, <2>1, BoundTypes
  <2>. QED  BY <2>1, <2>2, <2>3, <1>a, <1>b, <1>d
<1>8. ASSUME NEW p \in Projects, CancelIngestion(p)  PROVE Goal
  <2>1. active' \in [Projects -> ActiveRecord]
    <3>1. [active[p] EXCEPT !.cause = Cancelled("user", @)] \in ActiveRecord
      <4>1. Cancelled("user", active[p].cause) \in Signal
        BY <1>e, SignalsStay DEF ActiveRecord, Signal
      <4>. QED  BY <1>e, <4>1 DEF ActiveRecord
    <3>2. active' = [active EXCEPT ![p] = [active[p] EXCEPT !.cause = Cancelled("user", @)]]
      BY <1>8 DEF CancelIngestion
    <3>. QED  BY <3>1, <3>2, <1>f
  <2>2. DiskTypes'  BY <1>0, <1>e, <1>8 DEF CancelIngestion, DiskTypes, IngestionRecord
  <2>. QED  BY <1>8, <2>1, <2>2, <1>a, <1>b, <1>d DEF CancelIngestion
<1>9. ASSUME NEW p \in Projects, BeginOtherWork(p) \/ EndOtherWork(p)  PROVE Goal
  <2>1. /\ UnchangedServer /\ UNCHANGED <<worker, ingestion, outcome, active>>
        /\ DirectWork \/ UNCHANGED used
        /\ HeldTypes'
    BY <1>0, <1>9 DEF BeginOtherWork, EndOtherWork, HeldTypes
  <2>2. UsedTypes'  BY <1>0, <2>1, BoundTypes
  <2>. QED  BY <2>1, <2>2, <1>a, <1>d
<1>10. ASSUME NEW p \in Projects, ResumeAtStart(p)  PROVE Goal
  <2>1. DiskTypes' /\ active' \in [Projects -> ActiveRecord]
    <3>1. CASE Launch(p, Direct)  BY <1>0, <3>1, LaunchTypes
    <3>2. CASE UNCHANGED <<ingestion, outcome, active>>  BY <1>0, <1>d, <3>2 DEF WorkTypes
    <3>. QED  BY <1>10, <3>1, <3>2 DEF ResumeAtStart
  <2>2. toRecover' \subseteq Recorded' /\ LifeTypes'
    BY <1>0, <1>10 DEF ResumeAtStart, LifeTypes
  <2>. QED  BY <1>10, <2>1, <2>2, <1>b, <1>d DEF ResumeAtStart
<1>11. ASSUME Crash \/ ShutdownDone  PROVE Goal
  <2>1. Down  BY <1>11 DEF Crash, ShutdownDone
  <2>2. UsedTypes'  BY <1>0, <1>11, BoundTypes DEF Crash, ShutdownDone
  <2>3. WorkTypes'
    BY <2>1 DEF Down, WorkTypes, IdleWorker, NotActive, WorkerRecord, ActiveRecord, Owner, Signal,
                Terminal, IngestionStatus
  <2>. QED  BY <1>d, <2>1, <2>2, <2>3 DEF Down, LifeTypes, HeldTypes
<1>12. ASSUME Shutdown  PROVE Goal
  <2>1. active' \in [Projects -> ActiveRecord]
    <3>1. active' = [p \in Projects |->
             IF p \in {q \in Projects : IsActive(q)}
             THEN [active[p] EXCEPT !.cause = Cancelled("stop", @)] ELSE active[p]]
      BY <1>12 DEF Shutdown, StopContexts
    <3>. QED  BY <1>0, <3>1, StopTypes DEF Signal
  <2>2. worker' \in [Workers -> WorkerRecord]
    <3>1. \A v \in Workers : /\ worker[v] \in WorkerRecord
                             /\ [worker[v] EXCEPT !.signal = Cancelled("stop", @)] \in WorkerRecord
      BY <1>0, StopWorkerTypes DEF WorkTypes
    <3>. QED  BY <1>12, <3>1 DEF Shutdown, StopContexts
  <2>3. UsedTypes'  BY <1>0, <1>12, BoundTypes DEF Shutdown
  <2>4. LifeTypes'  BY <1>0, <1>12 DEF Shutdown, LifeTypes
  <2>. QED  BY <1>0, <1>12, <1>d, <2>1, <2>2, <2>3, <2>4 DEF Shutdown, WorkTypes
<1>13. ASSUME Boot  PROVE Goal
  <2>1. DiskTypes'
    <3>1. ingestion' \in [Projects -> IngestionRecord]
      BY <1>0, <1>13, RecoveredTypes DEF Boot
    <3>2. outcome' \in [JobId -> IngestionStatus]
      <4>1. \A id \in Recorded : jobs[id].project \in Projects
        BY TypesAreParts DEF TypeOK, Job
      <4>2. \A id \in JobId : outcome[id] \in IngestionStatus  BY <1>0 DEF DiskTypes
      <4>. QED  BY <1>0, <1>13, <4>1, <4>2, RecoveredTypes DEF Boot
    <3>. QED  BY <3>1, <3>2 DEF DiskTypes
  <2>2. toRecover' \subseteq Recorded'  BY <1>0, <1>13 DEF Boot
  <2>3. LifeTypes'  BY <1>0, <1>13 DEF Boot, LifeTypes
  <2>. QED  BY <1>13, <1>d, <2>1, <2>2, <2>3 DEF Boot
<1>14. ASSUME StartWorkers  PROVE Goal
  <2>1. LifeTypes'  BY <1>0, <1>14 DEF StartWorkers, LifeTypes
  <2>. QED  BY <1>0, <1>14, <1>d, <2>1 DEF StartWorkers
<1>15. ASSUME NEW id \in JobId, RecoverNext(id)  PROVE Goal
  BY <1>0, <1>15, <1>d DEF RecoverNext, LifeTypes
<1>. QED
  <2>. HIDE DEF Goal
  <2>0. Goal
    BY <1>1, <1>2, <1>3, <1>4, <1>5, <1>6, <1>7, <1>8, <1>9, <1>10, <1>11, <1>12, <1>13, <1>14, <1>15
    DEF NextScheduler, WorkerStep, LifeStep
  <2>1. /\ toRecover' \subseteq Recorded'
        /\ LifeTypes' /\ WorkTypes' /\ DiskTypes' /\ HeldTypes' /\ UsedTypes'
    BY <2>0 DEF Goal
  <2>. QED  BY <1>0, <2>1 DEF TypeOKScheduler, LifeTypes, WorkTypes, DiskTypes, HeldTypes, UsedTypes,
                              WorkerRecord, ActiveRecord, IngestionRecord

-----------------------------------------------------------------------------
(***************************************************************************)
(* Steps of one worker.                                                    *)
(***************************************************************************)
InJob(pc) == pc \in {"launch", "drain", "collect", "finish"}

\* A worker moves on with the job it has, if any: it leaves the draining of
\* an ingestion only when none is active, and comes to a success only by the
\* archive.
LEMMA WorkerMoves ==
    ASSUME SchedulerInv, NEW w \in Workers, NEW new, SetWorker(w, new), Alive,
           InJob(new.pc) <=> HasJob(w), HasJob(w) => new.job = worker[w].job,
           worker[w].pc = "drain" => ~ IsActive(ProjectOf(w)),
           new.pc = "finish" /\ new.result = "succeeded" => outcome[new.job] = "completed",
           UnchangedQueue, UnchangedServer, UNCHANGED <<ingestion, outcome, active, held>>,
           used'.faults = 0 => used.faults = 0
    PROVE  Agreement'
<1>0. /\ \A v \in Workers : worker'[v] = IF v = w THEN new ELSE worker[v]
      /\ UNCHANGED <<jobs, server, toRecover, toResume, opsError>>
  BY DEF SchedulerInv, TypeOKScheduler, SetWorker, UnchangedQueue, UnchangedServer, queueVars
<1>1. QuietUntilUp'  BY <1>0 DEF QuietUntilUp, Alive
<1>2. \A v \in Workers : /\ HasJob(v)' <=> HasJob(v)
                         /\ HasJob(v) => worker'[v].job = worker[v].job
  BY <1>0 DEF HasJob, InJob
<1>3. HoldersAreSingle'
  BY <1>0, <1>2 DEF SchedulerInv, Agreement, HoldersAreSingle, Recorded
<1>4. RunningIsHeld'
  BY <1>0, <1>2 DEF SchedulerInv, Agreement, RunningIsHeld, Recorded, Alive
<1>5. DrainedBeforeRelease'
  <2>1. ASSUME NEW p \in JobOwned, worker[w].pc = "drain", worker[w].job = active[p].owner
        PROVE  FALSE
    <3>1. /\ active[p].owner # NoOne /\ p \in Projects
      BY <2>1, SchedulerAssumption DEF JobOwned, SchedulerAssumption
    <3>2. IsActive(p) /\ ingestion[p].owner = worker[w].job /\ jobs[worker[w].job].project = p
      BY <2>1, <3>1 DEF SchedulerInv, Agreement, IngestionsAreTheirs, JobOwned
    <3>. QED  BY <2>1, <3>2 DEF ProjectOf
  <2>. QED  BY <1>0, <2>1 DEF SchedulerInv, Agreement, DrainedBeforeRelease, JobOwned
<1>6. IngestionsAreTheirs'
  BY <1>0 DEF SchedulerInv, Agreement, IngestionsAreTheirs, IsActive, Recorded
<1>7. SuccessIsEarned'
  BY <1>0 DEF SchedulerInv, Agreement, SuccessIsEarned, Recorded
<1>8. RunningIsReal'
  BY <1>0 DEF SchedulerInv, Agreement, RunningIsReal, IsActive, Alive
<1>. QED  BY <1>1, <1>3, <1>4, <1>5, <1>6, <1>7, <1>8 DEF Agreement

LEMMA WorkerSteps ==
    ASSUME SchedulerInv, NEW w \in Workers,
           \/ CheckContext(w) \/ NothingToClaim(w) \/ CannotLaunch(w) \/ Drained(w) \/ Collect(w)
           \/ LaunchFails(w)
    PROVE  Agreement'
<1>0. worker[w] \in WorkerRecord  BY TypesAreParts DEF SchedulerInv, WorkTypes
<1>a. used.faults \in Nat  BY SchedulerAssumption DEF SchedulerInv, TypeOKScheduler, SchedulerAssumption
<1>b. worker[w].pc # "idle" => Alive  BY DEF SchedulerInv, Agreement, QuietUntilUp
<1>1. CASE CheckContext(w)
  <2>. DEFINE new == [worker[w] EXCEPT !.pc = IF opsDone THEN "exited" ELSE "claiming"]
  <2>1. /\ SetWorker(w, new) /\ worker[w].pc = "idle" /\ Alive
        /\ UnchangedQueue /\ UnchangedServer /\ UNCHANGED <<ingestion, outcome, active, held, used>>
    BY <1>1 DEF CheckContext, Alive
  <2>2. ~ InJob(new.pc) /\ ~ HasJob(w)  BY <1>0, <2>1 DEF InJob, HasJob, WorkerRecord
  <2>. HIDE DEF new
  <2>. QED  BY <2>1, <2>2, WorkerMoves DEF InJob
<1>2. CASE NothingToClaim(w)
  <2>1. /\ SetWorker(w, IdleWorker) /\ worker[w].pc = "claiming"
        /\ UnchangedQueue /\ UnchangedServer /\ UNCHANGED <<ingestion, outcome, active, held, used>>
    BY <1>2 DEF NothingToClaim
  <2>2. ~ InJob(IdleWorker.pc) /\ ~ HasJob(w)  BY <2>1 DEF InJob, HasJob, IdleWorker
  <2>. QED  BY <1>b, <2>1, <2>2, WorkerMoves DEF InJob
<1>4. CASE CannotLaunch(w)
  <2>1. PICK result \in {"interrupted", "failed"} :
          SetWorker(w, [worker[w] EXCEPT !.pc = "finish", !.result = result,
                                         !.busy = worker[w].signal = "none"])
    BY <1>4 DEF CannotLaunch
  <2>. DEFINE new == [worker[w] EXCEPT !.pc = "finish", !.result = result,
                                       !.busy = worker[w].signal = "none"]
  <2>2. SetWorker(w, new) /\ new.pc = "finish" /\ new.job = worker[w].job /\ new.result = result
    BY <1>0, <2>1 DEF WorkerRecord
  <2>3. /\ worker[w].pc = "launch" /\ HasJob(w) /\ UnchangedQueue /\ UnchangedServer
        /\ UNCHANGED <<ingestion, outcome, active, held, used>>
    BY <1>4 DEF CannotLaunch, HasJob
  <2>. HIDE DEF new
  <2>. QED  BY <1>b, <2>1, <2>2, <2>3, WorkerMoves DEF InJob
<1>5. CASE Drained(w)
  <2>. DEFINE new == [worker[w] EXCEPT !.pc = "collect"]
  <2>1. /\ SetWorker(w, new) /\ new.pc = "collect" /\ new.job = worker[w].job
        /\ worker[w].pc = "drain" /\ HasJob(w) /\ ~ IsActive(ProjectOf(w))
        /\ UnchangedQueue /\ UnchangedServer /\ UNCHANGED <<ingestion, outcome, active, held, used>>
    BY <1>0, <1>5 DEF Drained, HasJob, WorkerRecord
  <2>. HIDE DEF new
  <2>. QED  BY <1>b, <2>1, WorkerMoves DEF InJob
<1>6. CASE Collect(w)
  <2>. DEFINE result == IF opsDone THEN "interrupted" ELSE JobResult(AttemptRead(w))
              new == [worker[w] EXCEPT !.pc = "finish", !.result = result]
  <2>1. result = "succeeded" => outcome[worker[w].job] = "completed"
    BY DEF JobResult, AttemptRead
  <2>2. /\ SetWorker(w, new) /\ worker[w].pc = "collect" /\ HasJob(w)
        /\ UnchangedQueue /\ UnchangedServer /\ UNCHANGED <<ingestion, outcome, active, held, used>>
    BY <1>6 DEF Collect, HasJob
  <2>3. new.pc = "finish" /\ new.job = worker[w].job /\ new.result = result
    BY <1>0 DEF WorkerRecord
  <2>. HIDE DEF new, result
  <2>. QED  BY <1>b, <2>1, <2>2, <2>3, WorkerMoves DEF InJob
<1>7. CASE LaunchFails(w)
  <2>1. PICK result \in {"interrupted", "failed"} :
          SetWorker(w, [worker[w] EXCEPT !.pc = "finish", !.busy = FALSE, !.result = result])
    BY <1>7 DEF LaunchFails
  <2>. DEFINE new == [worker[w] EXCEPT !.pc = "finish", !.busy = FALSE, !.result = result]
  <2>2. SetWorker(w, new) /\ new.pc = "finish" /\ new.job = worker[w].job /\ new.result = result
    BY <1>0, <2>1 DEF WorkerRecord
  <2>3. /\ worker[w].pc = "launch" /\ HasJob(w) /\ UnchangedQueue /\ UnchangedServer
        /\ UNCHANGED <<ingestion, outcome, active, held>>
    BY <1>7 DEF LaunchFails, HasJob
  <2>4. used'.faults # 0
    BY <1>7, <1>a DEF LaunchFails, Fault, SchedulerInv, TypeOKScheduler
  <2>. HIDE DEF new
  <2>. QED  BY <1>b, <2>1, <2>2, <2>3, <2>4, WorkerMoves DEF InJob
<1>. QED  BY <1>1, <1>2, <1>4, <1>5, <1>6, <1>7

-----------------------------------------------------------------------------
(***************************************************************************)
(* Steps that neither begin nor end an attempt or an ingestion.            *)
(***************************************************************************)
LEMMA CalmSteps ==
    ASSUME SchedulerInv, CalmQueue,
           \A w \in Workers : /\ worker'[w].pc = worker[w].pc /\ worker'[w].job = worker[w].job
                              /\ worker'[w].result = worker[w].result,
           \A p \in Projects : /\ active'[p].owner = active[p].owner
                               /\ active'[p].phase = active[p].phase
                               /\ active'[p].result = active[p].result,
           \A p \in Projects : /\ ingestion'[p].owner = ingestion[p].owner
                               /\ ingestion'[p].status = ingestion[p].status,
           UNCHANGED <<outcome, toRecover, opsError>>, toResume' \subseteq toResume,
           UNCHANGED server \/ (Alive /\ Alive' /\ server' # "recovering"),
           ~ Alive => UNCHANGED <<worker, active>>,
           used'.faults = 0 => used.faults = 0
    PROVE  Agreement'
<1>0. Alive' <=> Alive  BY DEF Alive
<1>1. QuietUntilUp'  BY <1>0 DEF SchedulerInv, Agreement, QuietUntilUp
<1>2. \A v \in Workers : HasJob(v)' <=> HasJob(v)  BY DEF HasJob
<1>a. \A id \in Recorded : /\ id \in Recorded' /\ jobs'[id].project = jobs[id].project
                           /\ jobs'[id].status = "running" <=> jobs[id].status = "running"
                           /\ jobs'[id].status = "succeeded" => jobs[id].status = "succeeded"
  BY DEF CalmQueue
<1>b. \A id \in Recorded' : id \notin Recorded => jobs'[id].status = "queued"
  BY DEF CalmQueue
<1>3. HoldersAreSingle'
  BY <1>2, <1>a DEF SchedulerInv, Agreement, HoldersAreSingle
<1>4. RunningIsHeld'
  BY <1>0, <1>2, <1>a, <1>b DEF SchedulerInv, Agreement, RunningIsHeld
<1>5. DrainedBeforeRelease'
  BY DEF SchedulerInv, Agreement, DrainedBeforeRelease, JobOwned
<1>6. IngestionsAreTheirs'
  BY <1>a DEF SchedulerInv, Agreement, IngestionsAreTheirs, IsActive
<1>7. SuccessIsEarned'
  BY <1>a, <1>b DEF SchedulerInv, Agreement, SuccessIsEarned
<1>8. RunningIsReal'
  BY <1>0 DEF SchedulerInv, Agreement, RunningIsReal, IsActive, Alive
<1>. QED  BY <1>1, <1>3, <1>4, <1>5, <1>6, <1>7, <1>8 DEF Agreement

\* Failures are counted; nothing else counts as one.
LEMMA FaultsCount ==
    ASSUME TypeOKScheduler
    PROVE  /\ Fault => used'.faults # 0
           /\ DirectWork => used'.faults = used.faults
           /\ used' = [used EXCEPT !.crashes = @ + 1] => used'.faults = used.faults
  BY SchedulerAssumption DEF TypeOKScheduler, Fault, DirectWork, SchedulerAssumption

\* Work and workers exist only in a process that is up.
LEMMA WorkMeansAlive ==
    ASSUME QuietUntilUp
    PROVE  /\ \A p \in Projects : active[p].phase # "idle" => Alive
           /\ \A w \in Workers : worker[w].pc # "idle" => Alive
           /\ \A p \in toResume : Alive
  BY DEF QuietUntilUp, NotActive

LEMMA CalmActions ==
    ASSUME SchedulerInv,
           \/ \E w \in Workers : WatchCancel(w) \/ WatchFails(w)
           \/ \E p \in Projects : \/ CheckpointFails(p) \/ CancelIngestion(p)
                                  \/ BeginOtherWork(p) \/ EndOtherWork(p)
           \/ \E p \in Projects, trigger \in Triggers : RequestRefresh(p, trigger)
           \/ \E id \in JobId : RequestCancel(id) \/ RequestRetry(id) \/ Elapse(id)
           \/ Shutdown \/ UNCHANGED vars
    PROVE  Agreement'
<1>0. /\ worker \in [Workers -> WorkerRecord] /\ active \in [Projects -> ActiveRecord]
      /\ ingestion \in [Projects -> IngestionRecord] /\ IInv /\ TypeOKScheduler
  BY TypesAreParts DEF SchedulerInv, WorkTypes, DiskTypes
<1>a. UNCHANGED queueVars => CalmQueue  BY <1>0, RequestsAreCalm
<1>b. /\ \A p \in Projects : active[p].phase # "idle" => Alive
      /\ \A w \in Workers : worker[w].pc # "idle" => Alive
  BY WorkMeansAlive DEF SchedulerInv, Agreement
<1>. DEFINE SameWorkers == \A w \in Workers :
                /\ worker'[w].pc = worker[w].pc /\ worker'[w].job = worker[w].job
                /\ worker'[w].result = worker[w].result
            SameActive == \A p \in Projects :
                /\ active'[p].owner = active[p].owner /\ active'[p].phase = active[p].phase
                /\ active'[p].result = active[p].result
            SameIngestion == \A p \in Projects :
                ingestion'[p].owner = ingestion[p].owner /\ ingestion'[p].status = ingestion[p].status
<1>c. /\ UNCHANGED worker => SameWorkers
      /\ UNCHANGED active => SameActive
      /\ UNCHANGED ingestion => SameIngestion
  OBVIOUS
<1>d. ASSUME SameWorkers, SameActive, SameIngestion, CalmQueue, UnchangedServer, UNCHANGED outcome,
             ~ Alive => UNCHANGED <<worker, active>>, used'.faults = 0 => used.faults = 0
      PROVE  Agreement'
  <2>1. UNCHANGED <<toRecover, opsError, toResume, server>>  BY <1>d DEF UnchangedServer
  <2>. QED  BY <1>d, <2>1, CalmSteps
<1>1. ASSUME NEW w \in Workers, WatchCancel(w) \/ WatchFails(w)  PROVE Agreement'
  <2>1. PICK signal : SetWorker(w, [worker[w] EXCEPT !.signal = signal])
    BY <1>1 DEF WatchCancel, WatchFails
  <2>2. SameWorkers  BY <1>0, <2>1 DEF SetWorker, WorkerRecord
  <2>3. SameActive  BY <1>0, <1>1 DEF WatchCancel, WatchFails, ActiveRecord
  <2>4. /\ UnchangedQueue /\ UnchangedServer /\ UNCHANGED <<ingestion, outcome>>
        /\ Fault \/ UNCHANGED used
        /\ worker[w].pc # "idle"
    BY <1>1 DEF WatchCancel, WatchFails
  <2>. HIDE DEF SameWorkers, SameActive, SameIngestion
  <2>. QED  BY <1>0, <1>a, <1>b, <1>c, <1>d, <2>2, <2>3, <2>4, FaultsCount DEF UnchangedQueue
<1>2. ASSUME NEW p \in Projects, CheckpointFails(p) \/ CancelIngestion(p)  PROVE Agreement'
  <2>1. PICK cause : active' = [active EXCEPT ![p] = [active[p] EXCEPT !.cause = cause]]
    BY <1>2 DEF CheckpointFails, CancelIngestion
  <2>2. SameActive  BY <1>0, <2>1 DEF ActiveRecord
  <2>3. SameIngestion
    <3>1. CASE CheckpointFails(p)  BY <1>c, <3>1 DEF CheckpointFails
    <3>2. CASE CancelIngestion(p)  BY <1>0, <3>2 DEF CancelIngestion, IngestionRecord
    <3>. QED  BY <1>2, <3>1, <3>2
  <2>4. /\ UnchangedQueue /\ UnchangedServer /\ UNCHANGED <<worker, outcome>>
        /\ Fault \/ UNCHANGED used
        /\ active[p].phase # "idle"
    BY <1>2 DEF CheckpointFails, CancelIngestion, IsActive
  <2>. HIDE DEF SameWorkers, SameActive, SameIngestion
  <2>. QED  BY <1>0, <1>a, <1>b, <1>c, <1>d, <2>2, <2>3, <2>4, FaultsCount DEF UnchangedQueue
<1>3. ASSUME NEW p \in Projects, BeginOtherWork(p) \/ EndOtherWork(p)  PROVE Agreement'
  <2>1. /\ UnchangedQueue /\ UnchangedServer /\ UNCHANGED <<worker, ingestion, outcome, active>>
        /\ DirectWork \/ UNCHANGED used
    BY <1>3 DEF BeginOtherWork, EndOtherWork
  <2>. HIDE DEF SameWorkers, SameActive, SameIngestion
  <2>. QED  BY <1>0, <1>a, <1>c, <1>d, <2>1, FaultsCount DEF UnchangedQueue
<1>4. ASSUME CalmQueue, UNCHANGED schedulerVars  PROVE Agreement'
  <2>1. UnchangedServer /\ UNCHANGED <<worker, ingestion, outcome, active, used>>
    BY <1>4 DEF schedulerVars, UnchangedServer
  <2>. HIDE DEF SameWorkers, SameActive, SameIngestion
  <2>. QED  BY <1>c, <1>d, <1>4, <2>1
<1>5. ASSUME NEW p \in Projects, NEW trigger \in Triggers, RequestRefresh(p, trigger)
      PROVE  Agreement'
  BY <1>0, <1>4, <1>5, RequestsAreCalm DEF RequestRefresh, QueueRequest, UnchangedServer, schedulerVars
<1>6. ASSUME NEW id \in JobId, RequestCancel(id) \/ RequestRetry(id) \/ Elapse(id)
      PROVE  Agreement'
  BY <1>0, <1>4, <1>6, RequestsAreCalm
  DEF RequestCancel, RequestRetry, Elapse, QueueRequest, UnchangedServer, schedulerVars
<1>7. CASE Shutdown
  <2>1. SameWorkers  BY <1>0, <1>7 DEF Shutdown, StopContexts, WorkerRecord
  <2>2. SameActive  BY <1>0, <1>7 DEF Shutdown, StopContexts, ActiveRecord
  <2>3. /\ UnchangedQueue /\ UNCHANGED <<toRecover, opsError, toResume, ingestion, outcome>>
        /\ used' = [used EXCEPT !.crashes = @ + 1]
        /\ Alive /\ Alive' /\ server' # "recovering"
    BY <1>7 DEF Shutdown, Alive
  <2>. QED  BY <1>0, <1>a, <1>c, <2>1, <2>2, <2>3, FaultsCount, CalmSteps DEF UnchangedQueue
<1>8. CASE UNCHANGED vars  BY <1>a, <1>4, <1>8 DEF vars
<1>. QED  BY <1>1, <1>2, <1>3, <1>5, <1>6, <1>7, <1>8

-----------------------------------------------------------------------------
(***************************************************************************)
(* An ingestion begins, decides, is saved and ends.                        *)
(***************************************************************************)
\* Whoever an ingestion is launched for: nobody else works on the project,
\* and a job's own worker goes on to drain it.
LEMMA LaunchKeeps ==
    ASSUME SchedulerInv, NEW p \in Projects, NEW owner \in JobId \cup {Direct},
           Launch(p, owner), ~ IsActive(p), Alive,
           UnchangedQueue, UNCHANGED <<server, toRecover, opsError>>, toResume' \subseteq toResume,
           used'.faults = used.faults,
           \/ owner = Direct /\ UNCHANGED worker
           \/ \E w \in Workers : /\ worker[w].pc = "launch" /\ worker[w].job = owner
                                 /\ jobs[owner].project = p
                                 /\ SetWorker(w, [worker[w] EXCEPT !.pc = "drain"])
    PROVE  Agreement'
<1>0. /\ worker \in [Workers -> WorkerRecord] /\ active \in [Projects -> ActiveRecord]
      /\ ingestion \in [Projects -> IngestionRecord] /\ outcome \in [JobId -> IngestionStatus]
      /\ Recorded \subseteq JobId
  BY TypesAreParts DEF SchedulerInv, WorkTypes, DiskTypes, TypeOK
<1>1. Direct \notin JobId /\ NoOne \notin JobId /\ owner # NoOne
  BY SchedulerAssumption DEF SchedulerAssumption, Direct, NoOne
<1>2. /\ active'[p].owner = owner /\ active'[p].phase = "working" /\ active'[p].result = "none"
      /\ ingestion'[p].owner = owner /\ ingestion'[p].status = "running"
      /\ \A q \in Projects : q # p => active'[q] = active[q] /\ ingestion'[q] = ingestion[q]
  BY <1>0 DEF Launch, NotActive
<1>3. /\ \A id \in JobId : outcome'[id] = IF id = owner THEN "running" ELSE outcome[id]
  BY <1>0, <1>1 DEF Launch
<1>4. UNCHANGED jobs /\ (Alive)' BY DEF UnchangedQueue, queueVars, Alive
<1>5. \A v \in Workers : /\ HasJob(v)' <=> HasJob(v)
                         /\ worker'[v].job = worker[v].job /\ worker'[v].result = worker[v].result
                         /\ worker[v].pc = "drain" => worker'[v].pc = "drain"
                         /\ worker'[v].pc = "finish" => worker[v].pc = "finish"
  BY <1>0 DEF HasJob, SetWorker, WorkerRecord
<1>6. owner \in JobId =>
        \E w \in Workers : /\ worker[w].pc = "launch" /\ worker[w].job = owner
                           /\ worker'[w].pc = "drain" /\ HasJob(w)
                           /\ jobs[owner].project = p /\ jobs[owner].status = "running"
                           /\ owner \in Recorded
                           /\ \A v \in Workers : HasJob(v) /\ worker[v].job = owner => v = w
  BY <1>0, <1>1 DEF SetWorker, WorkerRecord, SchedulerInv, Agreement, HoldersAreSingle, HasJob
<1>7. QuietUntilUp'  BY <1>4 DEF QuietUntilUp
<1>8. HoldersAreSingle'
  BY <1>4, <1>5 DEF SchedulerInv, Agreement, HoldersAreSingle, Recorded
<1>9. RunningIsHeld'
  BY <1>4, <1>5 DEF SchedulerInv, Agreement, RunningIsHeld, Recorded, Alive
<1>10. DrainedBeforeRelease'
  <2>. SUFFICES ASSUME NEW q \in Projects, active'[q].owner \in JobId
                PROVE  \E v \in Workers : worker'[v].pc = "drain" /\ worker'[v].job = active'[q].owner
    BY DEF DrainedBeforeRelease, JobOwned
  <2>1. CASE q = p  BY <1>2, <1>5, <1>6, <2>1
  <2>2. CASE q # p
    BY <1>2, <1>5, <2>2 DEF SchedulerInv, Agreement, DrainedBeforeRelease, JobOwned
  <2>. QED  BY <2>1, <2>2
<1>11. IngestionsAreTheirs'
  <2>. SUFFICES ASSUME NEW q \in Projects
                PROVE  /\ IsActive(q)' <=> active'[q].owner # NoOne
                       /\ IsActive(q)' => active'[q].owner = ingestion'[q].owner
                       /\ ingestion'[q].owner \in JobId =>
                            /\ ingestion'[q].owner \in Recorded
                            /\ jobs[ingestion'[q].owner].project = q
                            /\ outcome'[ingestion'[q].owner] = ingestion'[q].status
    BY <1>4 DEF IngestionsAreTheirs, Recorded
  <2>1. CASE q = p  BY <1>1, <1>2, <1>3, <1>6, <2>1 DEF IsActive
  <2>2. CASE q # p
    <3>1. ingestion[q].owner \in JobId => ingestion[q].owner # owner
      BY <1>6, <2>2 DEF SchedulerInv, Agreement, IngestionsAreTheirs
    <3>. QED  BY <1>2, <1>3, <2>2, <3>1
         DEF SchedulerInv, Agreement, IngestionsAreTheirs, IsActive
  <2>. QED  BY <2>1, <2>2
<1>12. SuccessIsEarned'
  <2>1. ASSUME NEW v \in Workers, worker'[v].pc = "finish", worker'[v].result = "succeeded"
        PROVE  outcome'[worker'[v].job] = "completed"
    <3>1. /\ worker[v].pc = "finish" /\ worker[v].result = "succeeded" /\ HasJob(v)
          /\ worker'[v].job = worker[v].job
      BY <1>5, <2>1 DEF HasJob
    <3>2. worker[v].job # owner  BY <1>0, <1>1, <1>6, <3>1 DEF HasJob, SchedulerInv, Agreement, HoldersAreSingle
    <3>. QED  BY <1>0, <1>3, <3>1, <3>2 DEF SchedulerInv, Agreement, SuccessIsEarned, HoldersAreSingle
  <2>2. ASSUME NEW id \in Recorded, jobs[id].status = "succeeded"
        PROVE  outcome'[id] = "completed"
    BY <1>0, <1>3, <1>6, <2>2 DEF SchedulerInv, Agreement, SuccessIsEarned
  <2>. QED  BY <1>4, <2>1, <2>2 DEF SuccessIsEarned, Recorded
<1>13. RunningIsReal'
  BY <1>2, <1>4 DEF SchedulerInv, Agreement, RunningIsReal, IsActive, Alive
<1>. QED  BY <1>7, <1>8, <1>9, <1>10, <1>11, <1>12, <1>13 DEF Agreement

LEMMA LaunchActions ==
    ASSUME SchedulerInv,
           \/ \E w \in Workers : LaunchJob(w)
           \/ \E p \in Projects : StartDirect(p) \/ ResumeByHand(p) \/ ResumeAtStart(p)
    PROVE  Agreement'
<1>0. IInv /\ TypeOKScheduler  BY DEF SchedulerInv
<1>1. ASSUME NEW w \in Workers, LaunchJob(w)  PROVE Agreement'
  <2>1. HasJob(w) /\ Alive  BY <1>1, WorkMeansAlive DEF LaunchJob, HasJob, SchedulerInv, Agreement
  <2>2. ProjectOf(w) \in Projects /\ worker[w].job \in JobId
    BY <1>0, <2>1 DEF SchedulerInv, Agreement, HoldersAreSingle, ProjectOf, TypeOKScheduler, TypeOK, Job
  <2>. QED  BY <1>1, <2>1, <2>2, LaunchKeeps DEF LaunchJob, Busy, UnchangedServer, ProjectOf
<1>2. ASSUME NEW p \in Projects, StartDirect(p) \/ ResumeByHand(p)  PROVE Agreement'
  <2>1. /\ Launch(p, Direct) /\ ~ IsActive(p) /\ Alive /\ UnchangedQueue /\ UnchangedServer
        /\ DirectWork /\ UNCHANGED worker
    BY <1>2 DEF StartDirect, ResumeByHand, Busy, Alive
  <2>. QED  BY <1>0, <2>1, FaultsCount, LaunchKeeps DEF UnchangedServer
<1>3. ASSUME NEW p \in Projects, ResumeAtStart(p)  PROVE Agreement'
  <2>1. /\ UnchangedQueue /\ UNCHANGED <<server, toRecover, opsError, worker, used>>
        /\ toResume' \subseteq toResume
    BY <1>3 DEF ResumeAtStart
  <2>2. CASE Launch(p, Direct) /\ ~ IsActive(p) /\ Alive
    BY <2>1, <2>2, LaunchKeeps
  <2>3. CASE UNCHANGED <<ingestion, outcome, active>>
    <3>1. CalmQueue  BY <1>0, <2>1, RequestsAreCalm DEF UnchangedQueue
    <3>. QED  BY <2>1, <2>3, <3>1, CalmSteps
  <2>. QED  BY <1>3, <2>2, <2>3 DEF ResumeAtStart, Busy, Alive
<1>. QED  BY <1>1, <1>2, <1>3

\* While the ingestion of a job is active its job runs, and no worker reads
\* the archive of its attempt.
LEMMA DrainedJobRuns ==
    ASSUME SchedulerInv, NEW p \in JobOwned
    PROVE  /\ active[p].owner \in Recorded /\ jobs[active[p].owner].status = "running"
           /\ \A v \in Workers : worker[v].pc = "finish" => worker[v].job # active[p].owner
<1>1. PICK w \in Workers : worker[w].pc = "drain" /\ worker[w].job = active[p].owner
  BY DEF SchedulerInv, Agreement, DrainedBeforeRelease
<1>. QED  BY <1>1 DEF SchedulerInv, Agreement, HoldersAreSingle, HasJob

\* The goroutine of p changes its own phase and leaves the records alone.
LEMMA PhaseKeeps ==
    ASSUME SchedulerInv, NEW p \in Projects,
           \A q \in Projects : q # p => active'[q] = active[q],
           active[p].phase # "idle",
           \/ active'[p].owner = active[p].owner /\ active'[p].phase # "idle"
           \/ active'[p] = NotActive /\ (used.faults = 0 => ingestion[p].status # "running"),
           active'[p].phase = "decided" => active'[p].result # "running",
           used'.faults = 0 =>
             used.faults = 0 /\ (active'[p].phase = "saved" => ingestion[p].status # "running"),
           UnchangedQueue, UnchangedServer, UNCHANGED <<worker, ingestion, outcome>>
    PROVE  Agreement'
<1>0. /\ UNCHANGED <<jobs, server, toRecover, toResume, opsError>> /\ Recorded' = Recorded
  BY DEF UnchangedQueue, UnchangedServer, queueVars, Recorded
<1>1. Alive /\ Alive'  BY <1>0, WorkMeansAlive DEF SchedulerInv, Agreement, Alive
<1>2. NoOne \notin JobId /\ NotActive.owner = NoOne /\ NotActive.phase = "idle"
  BY SchedulerAssumption DEF SchedulerAssumption, NoOne, NotActive
<1>3. QuietUntilUp'  BY <1>1 DEF QuietUntilUp
<1>4. HoldersAreSingle'  BY <1>0 DEF SchedulerInv, Agreement, HoldersAreSingle, HasJob
<1>5. RunningIsHeld'  BY <1>0 DEF SchedulerInv, Agreement, RunningIsHeld, HasJob, Alive
<1>6. DrainedBeforeRelease'
  BY <1>2 DEF SchedulerInv, Agreement, DrainedBeforeRelease, JobOwned
<1>7. IngestionsAreTheirs'
  BY <1>0, <1>2 DEF SchedulerInv, Agreement, IngestionsAreTheirs, IsActive
<1>8. SuccessIsEarned'  BY <1>0 DEF SchedulerInv, Agreement, SuccessIsEarned
<1>9. RunningIsReal'
  BY <1>0, <1>1, <1>2 DEF SchedulerInv, Agreement, RunningIsReal, IsActive, Alive
<1>. QED  BY <1>3, <1>4, <1>5, <1>6, <1>7, <1>8, <1>9 DEF Agreement

LEMMA IngestionActions ==
    ASSUME SchedulerInv, NEW p \in Projects, IngestionStep(p) \/ SaveResultFails(p)
    PROVE  Agreement'
<1>0. /\ active \in [Projects -> ActiveRecord] /\ ingestion \in [Projects -> IngestionRecord]
      /\ outcome \in [JobId -> IngestionStatus] /\ Recorded \subseteq JobId /\ TypeOKScheduler
  BY TypesAreParts DEF SchedulerInv, WorkTypes, DiskTypes, TypeOK
<1>1. ASSUME NEW result \in IngestionStatus, Decide(p, result)  PROVE Agreement'
  <2>1. /\ \A q \in Projects : q # p => active'[q] = active[q]
        /\ active'[p].owner = active[p].owner /\ active'[p].phase = "decided"
        /\ active'[p].result = result
    BY <1>0, <1>1 DEF Decide, ActiveRecord
  <2>2. result # "running"
    BY <1>0, <1>1 DEF Decide, Outcomes, ActiveRecord, Signal
  <2>. QED  BY <1>1, <2>1, <2>2, PhaseKeeps DEF Decide
<1>2. CASE SaveResultFails(p)
  <2>1. /\ \A q \in Projects : q # p => active'[q] = active[q]
        /\ active'[p].owner = active[p].owner /\ active'[p].phase = "saved"
    BY <1>0, <1>2 DEF SaveResultFails, ActiveRecord
  <2>2. used'.faults # 0  BY <1>0, <1>2, FaultsCount DEF SaveResultFails
  <2>. QED  BY <1>2, <2>1, <2>2, PhaseKeeps DEF SaveResultFails
<1>3. CASE FinishIngestionOperation(p)
  <2>1. /\ \A q \in Projects : q # p => active'[q] = active[q]
        /\ active'[p] = NotActive /\ NotActive.phase = "idle"
    BY <1>0, <1>3 DEF FinishIngestionOperation, NotActive
  <2>2. used.faults = 0 => ingestion[p].status # "running"
    BY <1>3 DEF FinishIngestionOperation, SchedulerInv, Agreement, RunningIsReal
  <2>. QED  BY <1>3, <2>1, <2>2, PhaseKeeps DEF FinishIngestionOperation
<1>4. CASE SaveResult(p)
  <2>. DEFINE status == active[p].result
              owner == ingestion[p].owner
  <2>1. /\ active[p].phase = "decided" /\ status # "running" /\ owner = active[p].owner
        /\ IsActive(p)
    BY <1>4 DEF SaveResult, IsActive, SchedulerInv, Agreement, IngestionsAreTheirs, RunningIsReal
  <2>2. /\ \A q \in Projects : q # p => active'[q] = active[q] /\ ingestion'[q] = ingestion[q]
        /\ active'[p].owner = active[p].owner /\ active'[p].phase = "saved"
        /\ ingestion'[p].owner = owner /\ ingestion'[p].status = status
        /\ \A id \in JobId : outcome'[id] = IF id = owner THEN status ELSE outcome[id]
    BY <1>0, <1>4 DEF SaveResult, RecordResult, ActiveRecord, IngestionRecord
  <2>3. /\ UNCHANGED <<jobs, server, toRecover, toResume, opsError, worker, used>>
        /\ Recorded' = Recorded
    BY <1>4 DEF SaveResult, UnchangedQueue, UnchangedServer, queueVars, Recorded
  <2>. HIDE DEF status, owner
  <2>4. Alive /\ Alive'
    BY <2>1, <2>3, WorkMeansAlive DEF SchedulerInv, Agreement, Alive, IsActive
  <2>5. owner \in JobId =>
          /\ jobs[owner].status = "running"
          /\ \A v \in Workers : worker[v].pc = "finish" => worker[v].job # owner
    BY <2>1, DrainedJobRuns DEF JobOwned
  <2>6. QuietUntilUp'  BY <2>4 DEF QuietUntilUp
  <2>7. HoldersAreSingle'  BY <2>3 DEF SchedulerInv, Agreement, HoldersAreSingle, HasJob
  <2>8. RunningIsHeld'  BY <2>3 DEF SchedulerInv, Agreement, RunningIsHeld, HasJob, Alive
  <2>9. DrainedBeforeRelease'
    BY <2>2, <2>3 DEF SchedulerInv, Agreement, DrainedBeforeRelease, JobOwned
  <2>10. IngestionsAreTheirs'
    <3>1. \A q \in Projects : q # p /\ ingestion[q].owner \in JobId => ingestion[q].owner # owner
      BY DEF owner, SchedulerInv, Agreement, IngestionsAreTheirs
    <3>2. ingestion[p].owner = owner  BY DEF owner
    <3>. QED  BY <2>1, <2>2, <2>3, <3>1, <3>2
         DEF SchedulerInv, Agreement, IngestionsAreTheirs, IsActive
  <2>11. SuccessIsEarned'
    <3>1. ASSUME NEW v \in Workers, worker[v].pc = "finish", worker[v].result = "succeeded"
          PROVE  outcome'[worker[v].job] = "completed"
      <4>1. worker[v].job \in JobId /\ outcome[worker[v].job] = "completed"
        BY <1>0, <3>1 DEF SchedulerInv, Agreement, SuccessIsEarned, HoldersAreSingle, HasJob
      <4>. QED  BY <2>2, <2>5, <3>1, <4>1
    <3>2. ASSUME NEW id \in Recorded, jobs[id].status = "succeeded"
          PROVE  outcome'[id] = "completed"
      BY <1>0, <2>2, <2>5, <3>2 DEF SchedulerInv, Agreement, SuccessIsEarned
    <3>. QED  BY <2>3, <3>1, <3>2 DEF SuccessIsEarned
  <2>12. RunningIsReal'
    BY <2>1, <2>2, <2>3, <2>4 DEF SchedulerInv, Agreement, RunningIsReal, IsActive, Alive
  <2>. QED  BY <2>6, <2>7, <2>8, <2>9, <2>10, <2>11, <2>12 DEF Agreement
<1>. QED  BY <1>1, <1>2, <1>3, <1>4 DEF IngestionStep

-----------------------------------------------------------------------------
(***************************************************************************)
(* An attempt begins and ends.                                             *)
(***************************************************************************)
LEMMA ClaimKeeps ==
    ASSUME SchedulerInv, NEW w \in Workers, Claim(w)
    PROVE  Agreement'
<1>0. worker \in [Workers -> WorkerRecord] /\ IInv
  BY TypesAreParts DEF SchedulerInv, WorkTypes
<1>1. PICK id \in JobId : /\ ClaimJob(id)
                          /\ \E signal : SetWorker(w, [IdleWorker EXCEPT !.pc = "launch", !.job = id,
                                                                         !.signal = signal])
  BY DEF Claim
<1>2. /\ OnlyJob(id) /\ jobs[id].status = "queued" /\ jobs'[id].status = "running"
  BY <1>0, <1>1, ClaimStartsOne
<1>3. /\ worker[w].pc = "claiming" /\ worker'[w].pc = "launch" /\ worker'[w].job = id
      /\ \A v \in Workers : v # w => worker'[v] = worker[v]
  BY <1>0, <1>1 DEF Claim, SetWorker, IdleWorker
<1>4. UNCHANGED <<server, toRecover, toResume, opsError, ingestion, outcome, active, used>>
  BY DEF Claim, UnchangedServer
<1>5. Alive /\ Alive'  BY <1>3, <1>4, WorkMeansAlive DEF SchedulerInv, Agreement, Alive
<1>6. ~ HasJob(w) /\ HasJob(w)' /\ \A v \in Workers : v # w => (HasJob(v)' <=> HasJob(v))
  BY <1>3 DEF HasJob
<1>7. \A v \in Workers : HasJob(v) => worker[v].job # id /\ worker[v].job \in Recorded
  BY <1>2 DEF SchedulerInv, Agreement, HoldersAreSingle
<1>8. /\ id \in Recorded /\ Recorded' = Recorded /\ jobs'[id].project = jobs[id].project
      /\ \A i \in Recorded : i # id => jobs'[i] = jobs[i]
  BY <1>2 DEF OnlyJob
<1>9. QuietUntilUp'  BY <1>5 DEF QuietUntilUp
<1>10. HoldersAreSingle'
  <2>. SUFFICES ASSUME NEW u \in Workers, HasJob(u)'
                PROVE  /\ worker'[u].job \in Recorded /\ jobs'[worker'[u].job].status = "running"
                       /\ \A v \in Workers : HasJob(v)' /\ worker'[v].job = worker'[u].job => v = u
    BY <1>8 DEF HoldersAreSingle
  <2>1. CASE u = w  BY <1>2, <1>3, <1>6, <1>7, <1>8, <2>1
  <2>2. CASE u # w
    BY <1>3, <1>6, <1>7, <1>8, <2>2 DEF SchedulerInv, Agreement, HoldersAreSingle
  <2>. QED  BY <2>1, <2>2
<1>11. RunningIsHeld'
  BY <1>2, <1>3, <1>4, <1>5, <1>6, <1>8 DEF SchedulerInv, Agreement, RunningIsHeld, Alive
<1>12. DrainedBeforeRelease'
  BY <1>3, <1>4 DEF SchedulerInv, Agreement, DrainedBeforeRelease, JobOwned
<1>13. IngestionsAreTheirs'
  BY <1>4, <1>8 DEF SchedulerInv, Agreement, IngestionsAreTheirs, IsActive
<1>14. SuccessIsEarned'
  BY <1>2, <1>3, <1>4, <1>8 DEF SchedulerInv, Agreement, SuccessIsEarned
<1>15. RunningIsReal'
  BY <1>4, <1>5 DEF SchedulerInv, Agreement, RunningIsReal, IsActive, Alive
<1>. QED  BY <1>9, <1>10, <1>11, <1>12, <1>13, <1>14, <1>15 DEF Agreement

LEMMA FinishKeeps ==
    ASSUME SchedulerInv, NEW w \in Workers, Finish(w)
    PROVE  Agreement'
<1>. DEFINE id == worker[w].job
<1>0. worker \in [Workers -> WorkerRecord] /\ worker[w] \in WorkerRecord /\ IInv
  BY TypesAreParts DEF SchedulerInv, WorkTypes
<1>1. /\ OnlyJob(id) /\ jobs[id].status = "running" /\ jobs'[id].status # "running"
      /\ jobs'[id].status = "succeeded" => worker[w].result = "succeeded"
  <2>1. worker[w].result \in Terminal /\ worker[w].busy \in BOOLEAN /\ TRUE \in BOOLEAN
    BY <1>0 DEF WorkerRecord
  <2>2. FinishJob(id, worker[w].result, worker[w].busy, TRUE)  BY DEF Finish
  <2>. HIDE DEF id
  <2>. QED  BY <1>0, <2>1, <2>2, FinishEndsOne
<1>2. /\ worker[w].pc = "finish" /\ worker'[w] = IdleWorker
      /\ \A v \in Workers : v # w => worker'[v] = worker[v]
  BY <1>0 DEF Finish, SetWorker
<1>3. UNCHANGED <<server, toRecover, toResume, opsError, ingestion, outcome, active, used>>
  BY DEF Finish, UnchangedServer
<1>4. Alive /\ Alive'  BY <1>2, <1>3, WorkMeansAlive DEF SchedulerInv, Agreement, Alive
<1>5. HasJob(w) /\ ~ HasJob(w)' /\ \A v \in Workers : v # w => (HasJob(v)' <=> HasJob(v))
  BY <1>2 DEF HasJob, IdleWorker
<1>6. \A v \in Workers : v # w /\ HasJob(v) => worker[v].job # id
  BY <1>5 DEF SchedulerInv, Agreement, HoldersAreSingle
<1>7. /\ id \in Recorded /\ Recorded' = Recorded /\ jobs'[id].project = jobs[id].project
      /\ \A i \in Recorded : i # id => jobs'[i] = jobs[i]
  BY <1>1 DEF OnlyJob
<1>a. worker[w].job = id  OBVIOUS
<1>. HIDE DEF id
<1>8. QuietUntilUp'  BY <1>4 DEF QuietUntilUp
<1>9. HoldersAreSingle'
  <2>. SUFFICES ASSUME NEW u \in Workers, HasJob(u)'
                PROVE  /\ worker'[u].job \in Recorded /\ jobs'[worker'[u].job].status = "running"
                       /\ \A v \in Workers : HasJob(v)' /\ worker'[v].job = worker'[u].job => v = u
    BY <1>7 DEF HoldersAreSingle
  <2>1. u # w /\ HasJob(u) /\ worker'[u] = worker[u]  BY <1>2, <1>5
  <2>. QED  BY <1>2, <1>5, <1>6, <1>7, <2>1 DEF SchedulerInv, Agreement, HoldersAreSingle
<1>10. RunningIsHeld'
  <2>. SUFFICES ASSUME ~ opsError, NEW i \in Recorded, jobs'[i].status = "running"
                PROVE  \E v \in Workers : HasJob(v)' /\ worker'[v].job = i
    BY <1>3, <1>4, <1>7 DEF RunningIsHeld, Alive
  <2>1. i # id /\ jobs[i].status = "running"  BY <1>1, <1>7
  <2>2. PICK v \in Workers : HasJob(v) /\ worker[v].job = i
    BY <1>4, <2>1 DEF SchedulerInv, Agreement, RunningIsHeld
  <2>. QED  BY <1>2, <1>5, <1>a, <2>1, <2>2
<1>11. DrainedBeforeRelease'
  BY <1>2, <1>3 DEF SchedulerInv, Agreement, DrainedBeforeRelease, JobOwned
<1>12. IngestionsAreTheirs'
  BY <1>3, <1>7 DEF SchedulerInv, Agreement, IngestionsAreTheirs, IsActive
<1>13. SuccessIsEarned'
  <2>1. jobs'[id].status = "succeeded" => outcome[id] = "completed"
    BY <1>1, <1>2, <1>a DEF SchedulerInv, Agreement, SuccessIsEarned
  <2>. QED  BY <1>2, <1>3, <1>7, <2>1 DEF SchedulerInv, Agreement, SuccessIsEarned, IdleWorker
<1>14. RunningIsReal'
  BY <1>3, <1>4 DEF SchedulerInv, Agreement, RunningIsReal, IsActive, Alive
<1>. QED  BY <1>8, <1>9, <1>10, <1>11, <1>12, <1>13, <1>14 DEF Agreement

\* The scheduler fails: the job of this worker stays running without it.
LEMMA FailKeeps ==
    ASSUME SchedulerInv, NEW w \in Workers, ClaimFails(w) \/ FinishFails(w)
    PROVE  Agreement'
<1>0. /\ worker \in [Workers -> WorkerRecord] /\ active \in [Projects -> ActiveRecord]
      /\ TypeOKScheduler
  BY TypesAreParts DEF SchedulerInv, WorkTypes
<1>1. worker[w].pc \in {"claiming", "finish"} /\ FailOperations(w)
  BY DEF ClaimFails, FinishFails
<1>2. /\ worker'[w].pc = "exited"
      /\ \A v \in Workers : v # w => /\ worker'[v].pc = worker[v].pc /\ worker'[v].job = worker[v].job
                                     /\ worker'[v].result = worker[v].result
  <2>1. worker'[w] = [IdleWorker EXCEPT !.pc = "exited"]  BY <1>1 DEF FailOperations
  <2>2. worker'[w].pc = "exited"  BY <2>1 DEF IdleWorker
  <2>3. ASSUME NEW v \in Workers, v # w
        PROVE  /\ worker'[v].pc = worker[v].pc /\ worker'[v].job = worker[v].job
               /\ worker'[v].result = worker[v].result
    <3>1. worker'[v] = IF HasJob(v) THEN [worker[v] EXCEPT !.signal = Cancelled("stop", @)]
                                    ELSE worker[v]
      BY <1>1, <2>3 DEF FailOperations
    <3>2. worker[v] \in WorkerRecord  BY <1>0
    <3>. QED  BY <3>1, <3>2 DEF WorkerRecord
  <2>. QED  BY <2>2, <2>3
<1>3. \A p \in Projects : /\ active'[p].owner = active[p].owner
                          /\ active'[p].phase = active[p].phase
                          /\ active'[p].result = active[p].result
  BY <1>0, <1>1 DEF FailOperations, ActiveRecord
<1>4. /\ UNCHANGED <<jobs, server, toRecover, toResume, ingestion, outcome>> /\ Recorded' = Recorded
      /\ opsError' = TRUE /\ used'.faults # 0
  BY <1>0, <1>1, FaultsCount DEF FailOperations, UnchangedQueue, queueVars, Recorded
<1>5. Alive /\ Alive'  BY <1>1, <1>4, WorkMeansAlive DEF SchedulerInv, Agreement, Alive
<1>6. ~ HasJob(w)' /\ \A v \in Workers : v # w => (HasJob(v)' <=> HasJob(v))
  BY <1>2 DEF HasJob
<1>7. QuietUntilUp'  BY <1>5 DEF QuietUntilUp
<1>8. HoldersAreSingle'
  BY <1>2, <1>4, <1>6 DEF SchedulerInv, Agreement, HoldersAreSingle
<1>9. RunningIsHeld'  BY <1>4, <1>5 DEF RunningIsHeld, Alive
<1>10. DrainedBeforeRelease'
  BY <1>1, <1>2, <1>3 DEF SchedulerInv, Agreement, DrainedBeforeRelease, JobOwned
<1>11. IngestionsAreTheirs'
  BY <1>3, <1>4 DEF SchedulerInv, Agreement, IngestionsAreTheirs, IsActive
<1>12. SuccessIsEarned'
  BY <1>2, <1>4 DEF SchedulerInv, Agreement, SuccessIsEarned
<1>13. RunningIsReal'
  BY <1>3, <1>4, <1>5 DEF SchedulerInv, Agreement, RunningIsReal, Alive
<1>. QED  BY <1>7, <1>8, <1>9, <1>10, <1>11, <1>12, <1>13 DEF Agreement

-----------------------------------------------------------------------------
(***************************************************************************)
(* The process ends, starts and recovers.                                  *)
(***************************************************************************)
LEMMA DownKeeps ==
    ASSUME SchedulerInv, Crash \/ ShutdownDone
    PROVE  Agreement'
<1>0. TypeOKScheduler  BY DEF SchedulerInv
<1>1. Down /\ used'.faults = used.faults
  BY <1>0, FaultsCount DEF Crash, ShutdownDone
<1>2. /\ ~ Alive' /\ server' = "down" /\ toResume' = {}
      /\ \A w \in Workers : worker'[w].pc = "idle"
      /\ \A p \in Projects : active'[p] = NotActive
      /\ UNCHANGED <<jobs, ingestion, outcome>> /\ Recorded' = Recorded
  BY <1>1 DEF Down, Alive, IdleWorker, UnchangedQueue, queueVars, Recorded
<1>3. NotActive.owner = NoOne /\ NotActive.phase = "idle" /\ NoOne \notin JobId
  BY SchedulerAssumption DEF SchedulerAssumption, NoOne, NotActive
<1>4. QuietUntilUp'  BY <1>2 DEF QuietUntilUp
<1>5. HoldersAreSingle'  BY <1>2 DEF HoldersAreSingle, HasJob
<1>6. RunningIsHeld'  BY <1>2 DEF RunningIsHeld
<1>7. DrainedBeforeRelease'  BY <1>2, <1>3 DEF DrainedBeforeRelease, JobOwned
<1>8. IngestionsAreTheirs'
  BY <1>2, <1>3 DEF SchedulerInv, Agreement, IngestionsAreTheirs, IsActive
<1>9. SuccessIsEarned'  BY <1>2 DEF SchedulerInv, Agreement, SuccessIsEarned
<1>10. RunningIsReal'  BY <1>2, <1>3 DEF RunningIsReal
<1>. QED  BY <1>4, <1>5, <1>6, <1>7, <1>8, <1>9, <1>10 DEF Agreement

LEMMA BootKeeps ==
    ASSUME SchedulerInv, Boot
    PROVE  Agreement'
<1>0. /\ ingestion \in [Projects -> IngestionRecord] /\ Recorded \subseteq JobId /\ DiskTypes
      /\ \A id \in Recorded : jobs[id].project \in Projects
  BY TypesAreParts DEF SchedulerInv, DiskTypes, TypeOK, Job
<1>1. /\ UNCHANGED <<jobs, toResume, worker, active, used>> /\ Recorded' = Recorded
      /\ ~ Alive /\ ~ Alive' /\ server' = "recovering"
      /\ toRecover' = {id \in Recorded : jobs[id].status = "running"}
  BY DEF Boot, Alive, UnchangedQueue, queueVars, Recorded
<1>2. \A p \in Projects : /\ ingestion'[p].owner = ingestion[p].owner
                          /\ ingestion'[p].status = RecoveredStatus(p)
                          /\ RecoveredStatus(p) # "running"
                          /\ ingestion[p].status = "completed" => RecoveredStatus(p) = "completed"
  BY <1>0, RecoveredTypes DEF Boot, IngestionRecord, RecoveredStatus
<1>3. \A id \in Recorded : outcome'[id] = IF ingestion[jobs[id].project].owner = id
                                         THEN RecoveredStatus(jobs[id].project) ELSE outcome[id]
  BY <1>0 DEF Boot
<1>4. /\ \A w \in Workers : worker[w].pc = "idle"
      /\ \A p \in Projects : active[p].phase = "idle" /\ active[p].owner = NoOne
      /\ NoOne \notin JobId
  BY <1>1, SchedulerAssumption
  DEF SchedulerInv, Agreement, QuietUntilUp, NotActive, SchedulerAssumption, NoOne
<1>5. QuietUntilUp'  BY <1>1 DEF SchedulerInv, Agreement, QuietUntilUp
<1>6. HoldersAreSingle'  BY <1>1, <1>4 DEF HoldersAreSingle, HasJob
<1>7. RunningIsHeld'  BY <1>1 DEF RunningIsHeld
<1>8. DrainedBeforeRelease'  BY <1>1, <1>4 DEF DrainedBeforeRelease, JobOwned
<1>9. IngestionsAreTheirs'
  BY <1>1, <1>2, <1>3, <1>4 DEF SchedulerInv, Agreement, IngestionsAreTheirs, IsActive
<1>10. SuccessIsEarned'
  <2>1. ASSUME NEW id \in Recorded, jobs[id].status = "succeeded"
        PROVE  outcome'[id] = "completed"
    <3>1. outcome[id] = "completed"  BY <2>1 DEF SchedulerInv, Agreement, SuccessIsEarned
    <3>2. ingestion[jobs[id].project].owner = id => ingestion[jobs[id].project].status = "completed"
      BY <1>0, <3>1 DEF SchedulerInv, Agreement, IngestionsAreTheirs
    <3>. QED  BY <1>0, <1>2, <1>3, <3>1, <3>2
  <2>. QED  BY <1>1, <1>4, <2>1 DEF SuccessIsEarned
<1>11. RunningIsReal'  BY <1>1, <1>2, <1>4 DEF RunningIsReal
<1>. QED  BY <1>5, <1>6, <1>7, <1>8, <1>9, <1>10, <1>11 DEF Agreement

\* One more running job is marked interrupted.
LEMMA RecoverKeeps ==
    ASSUME SchedulerInv, NEW id \in JobId, RecoverNext(id)
    PROVE  Agreement'
<1>1. /\ OnlyJob(id) /\ jobs'[id].status # "running" /\ jobs'[id].status # "succeeded"
  <2>1. IInv /\ FinishJob(id, "interrupted", FALSE, FALSE) /\ "interrupted" \in Terminal
    BY DEF SchedulerInv, RecoverNext, RecoverJob, Terminal
  <2>. QED  BY <2>1, FinishEndsOne
<1>2. /\ id \in Recorded /\ Recorded' = Recorded /\ jobs'[id].project = jobs[id].project
      /\ \A i \in Recorded : i # id => jobs'[i] = jobs[i]
  BY <1>1 DEF OnlyJob
<1>3. /\ UNCHANGED <<server, toResume, opsError, worker, ingestion, outcome, active, used>>
      /\ ~ Alive /\ ~ Alive' /\ server = "recovering" /\ toRecover' = toRecover \ {id}
  BY DEF RecoverNext, Alive
<1>4. \A w \in Workers : worker[w].pc = "idle"
  BY <1>3 DEF SchedulerInv, Agreement, QuietUntilUp
<1>5. QuietUntilUp'  BY <1>3 DEF SchedulerInv, Agreement, QuietUntilUp
<1>6. HoldersAreSingle'  BY <1>3, <1>4 DEF HoldersAreSingle, HasJob
<1>7. RunningIsHeld'
  BY <1>1, <1>2, <1>3 DEF SchedulerInv, Agreement, RunningIsHeld
<1>8. DrainedBeforeRelease'
  BY <1>3 DEF SchedulerInv, Agreement, DrainedBeforeRelease, JobOwned
<1>9. IngestionsAreTheirs'
  BY <1>2, <1>3 DEF SchedulerInv, Agreement, IngestionsAreTheirs, IsActive
<1>10. SuccessIsEarned'
  BY <1>1, <1>2, <1>3, <1>4 DEF SchedulerInv, Agreement, SuccessIsEarned
<1>11. RunningIsReal'
  BY <1>3 DEF SchedulerInv, Agreement, RunningIsReal, IsActive
<1>. QED  BY <1>5, <1>6, <1>7, <1>8, <1>9, <1>10, <1>11 DEF Agreement

\* The workers start once no running job is left to recover.
LEMMA StartKeeps ==
    ASSUME SchedulerInv, StartWorkers
    PROVE  Agreement'
<1>1. /\ UNCHANGED <<jobs, opsError, worker, ingestion, outcome, active, used>>
      /\ Recorded' = Recorded /\ ~ Alive /\ Alive'
      /\ server = "recovering" /\ server' = "up" /\ toRecover = {}
  BY DEF StartWorkers, Alive, UnchangedQueue, queueVars, Recorded
<1>2. QuietUntilUp'  BY <1>1 DEF QuietUntilUp
<1>3. HoldersAreSingle'  BY <1>1 DEF SchedulerInv, Agreement, HoldersAreSingle, HasJob
<1>4. RunningIsHeld'  BY <1>1 DEF SchedulerInv, Agreement, RunningIsHeld
<1>5. DrainedBeforeRelease'
  BY <1>1 DEF SchedulerInv, Agreement, DrainedBeforeRelease, JobOwned
<1>6. IngestionsAreTheirs'
  BY <1>1 DEF SchedulerInv, Agreement, IngestionsAreTheirs, IsActive
<1>7. SuccessIsEarned'  BY <1>1 DEF SchedulerInv, Agreement, SuccessIsEarned
<1>8. RunningIsReal'  BY <1>1 DEF SchedulerInv, Agreement, RunningIsReal, IsActive
<1>. QED  BY <1>2, <1>3, <1>4, <1>5, <1>6, <1>7, <1>8 DEF Agreement

-----------------------------------------------------------------------------
(***************************************************************************)
(* The invariant and the theorems.                                         *)
(***************************************************************************)
LEMMA InitSchedulerInv == InitScheduler => SchedulerInv
<1>. SUFFICES ASSUME InitScheduler  PROVE SchedulerInv
  OBVIOUS
<1>1. Recorded = {} /\ Pending = {}  BY DEF InitScheduler, Recorded, Pending
<1>2. TypeOK  BY <1>1, QueueAssumption DEF InitScheduler, TypeOK, QueueAssumption, Recorded
<1>3. PendingWithinCapacity
  BY <1>1, FS_EmptySet, QueueAssumption DEF PendingWithinCapacity, QueueAssumption
<1>4. IInv  BY <1>1, <1>2, <1>3, FS_EmptySet DEF IInv, OneRunningPerProject
<1>5. NoOne \notin JobId  BY SchedulerAssumption DEF SchedulerAssumption, NoOne
<1>6. TypeOKScheduler
  <2>1. LifeTypes /\ HeldTypes /\ toRecover \subseteq Recorded
    BY DEF InitScheduler, LifeTypes, HeldTypes
  <2>2. WorkTypes
    BY DEF InitScheduler, WorkTypes, IdleWorker, NotActive, WorkerRecord, ActiveRecord, Owner,
           Signal, Terminal, IngestionStatus
  <2>3. DiskTypes
    BY DEF InitScheduler, DiskTypes, NoIngestion, IngestionRecord, Owner, IngestionStatus
  <2>4. UsedTypes
    BY SchedulerAssumption DEF InitScheduler, UsedTypes, SchedulerAssumption
  <2>. QED  BY <1>2, <2>1, <2>2, <2>3, <2>4, TypesAreParts
<1>7. Agreement
  <2>1. QuietUntilUp  BY DEF InitScheduler, QuietUntilUp, IdleWorker
  <2>2. HoldersAreSingle /\ RunningIsHeld
    BY <1>1 DEF InitScheduler, HoldersAreSingle, RunningIsHeld, HasJob, IdleWorker
  <2>3. DrainedBeforeRelease /\ IngestionsAreTheirs
    BY <1>5 DEF InitScheduler, DrainedBeforeRelease, JobOwned, IngestionsAreTheirs, IsActive,
                NotActive, NoIngestion
  <2>4. SuccessIsEarned /\ RunningIsReal
    BY <1>1 DEF InitScheduler, SuccessIsEarned, RunningIsReal, IdleWorker, NotActive, NoIngestion,
                Alive
  <2>. QED  BY <2>1, <2>2, <2>3, <2>4 DEF Agreement
<1>. QED  BY <1>4, <1>6, <1>7 DEF SchedulerInv

\* Every step of the scheduler preserves the invariant.
LEMMA NextSchedulerInv == SchedulerInv /\ [NextScheduler]_vars => SchedulerInv'
<1>. SUFFICES ASSUME SchedulerInv, [NextScheduler]_vars  PROVE SchedulerInv'
  OBVIOUS
<1>1. IInv'  BY QueueKept DEF SchedulerInv
<1>2. TypeOKScheduler'  BY NextTypes DEF SchedulerInv, Agreement
<1>3. Agreement'
  BY WorkerSteps, CalmActions, LaunchActions, IngestionActions, ClaimKeeps, FinishKeeps, FailKeeps,
     DownKeeps, BootKeeps, RecoverKeeps, StartKeeps
  DEF NextScheduler, WorkerStep, LifeStep
<1>. QED  BY <1>1, <1>2, <1>3 DEF SchedulerInv

THEOREM SchedulerInvariance == SpecScheduler => []SchedulerInv
<1>. QED  BY InitSchedulerInv, NextSchedulerInv, PTL DEF SpecScheduler

\* The shape of the scheduler's state.
THEOREM SchedulerTypeCorrect == SpecScheduler => []TypeOKScheduler
<1>1. SchedulerInv => TypeOKScheduler  BY DEF SchedulerInv
<1>. QED  BY <1>1, SchedulerInvariance, PTL

\* While the scheduler is healthy every running job is held by exactly one
\* worker and every busy worker holds a running job, for any number of
\* workers, crashes and restarts.
THEOREM EveryRunningJobHasItsWorker == SpecScheduler => []WorkersHoldRunningJobs
<1>1. SchedulerInv => WorkersHoldRunningJobs
  BY DEF SchedulerInv, Agreement, HoldersAreSingle, RunningIsHeld, Alive, WorkersHoldRunningJobs
<1>. QED  BY <1>1, SchedulerInvariance, PTL

\* No worker is given back while the ingestion of its job still runs, so the
\* number of workers bounds the number of analyses jobs cause.
THEOREM AnalysesStayWithinWorkers == SpecScheduler => []DrainedBeforeRelease
<1>1. SchedulerInv => DrainedBeforeRelease  BY DEF SchedulerInv, Agreement
<1>. QED  BY <1>1, SchedulerInvariance, PTL

\* A job that succeeded has a completed attempt behind it, and a record that
\* says running has a goroutine behind it unless a write failed.
THEOREM RecordsTellTheTruth == SpecScheduler => []RecordsAreTrue
<1>1. SchedulerInv => RecordsAreTrue
  BY DEF SchedulerInv, Agreement, SuccessIsEarned, RunningIsReal, IngestionsAreTheirs, Alive,
         RecordsAreTrue
<1>. QED  BY <1>1, SchedulerInvariance, PTL

\* What the queue promises alone it promises under its workers too: projects
\* are serialised, capacity holds and the attempts of every job add up.
THEOREM QueueHoldsUnderWorkers ==
    SpecScheduler => [](OneRunningPerProject /\ PendingWithinCapacity /\ AttemptsAddUp
                        /\ SuccessIsFinal /\ NoCancelledJobWaits)
<1>1. SchedulerInv => OneRunningPerProject /\ PendingWithinCapacity /\ NoCancelledJobWaits
  BY DEF SchedulerInv, IInv, GoodJob, WaitingOK, NoCancelledJobWaits
<1>2. SchedulerInv => AttemptsAddUp /\ SuccessIsFinal
  BY DEF SchedulerInv, IInv, GoodJob, BudgetOK, HistoryOK, AttemptsAddUp, WithinAllowance,
         HistoryMatchesStatus, SuccessIsFinal
<1>. QED  BY <1>1, <1>2, SchedulerInvariance, PTL

\* A run of the scheduler is a run of the queue as far as the queue's
\* variables go: each step is one of its operations or leaves it alone.
THEOREM SchedulerDrivesQueue == SpecScheduler => [][Next]_queueVars
<1>1. SchedulerInv /\ [NextScheduler]_vars => [Next]_queueVars
  BY QueueSteps DEF SchedulerInv
<1>. QED  BY <1>1, SchedulerInvariance, PTL DEF SpecScheduler
=============================================================================
