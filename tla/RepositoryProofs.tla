-------------------------- MODULE RepositoryProofs --------------------------
(***************************************************************************)
(* Safety of the work on repositories: of ProjectRefresh for every number  *)
(* of repositories, requests, options, versions, edits and analysers, and  *)
(* of RepositoryLimiter for every set of projects, operations and          *)
(* administrators, every budget and every policy.                          *)
(*                                                                         *)
(* The properties of ProjectRefresh speak of checkpoints, of the end of a  *)
(* pass and of busy statuses.  Its invariant says at each line of a        *)
(* goroutine what they will rest on: a pass that has the repositories to   *)
(* itself (Apart) knows of its analysis what the checkpoint will claim,    *)
(* and of a repository it has left what the graph is built from.           *)
(***************************************************************************)
EXTENDS ProjectRefresh, RepositoryLimiter, SequenceTheorems, FiniteSetTheorems,
        WellFoundedInduction, TLAPS

Kinds     == {"none", "pass", "run", "sync", "clone"}
PassSteps == {"begin", "sync", "fetch", "synced", "look", "reuse", "mark", "analyse", "wait", "save",
              "digest", "checkpoint", "fail"}
RunSteps  == {"stat", "sync", "fetch", "synced", "analyse", "wait", "save", "fail"}
SyncSteps == {"sync", "fetch", "synced"}

\* Before the checkout is up to date; once an analyser may have been started;
\* once a fingerprint is taken; with a status to write.
Outdated == {"begin", "sync", "fetch", "fail"}
Started  == {"wait", "save", "digest", "checkpoint", "fail"}
Looked   == {"reuse", "mark", "analyse", "wait", "save", "digest", "checkpoint"}
Owing    == RunSteps

RecordTypes == [git : BOOLEAN, status : Status, last : Nat, fingerprint : FingerprintSet, digest : Nat,
                alone : BOOLEAN]
AnalysisTypes == [repo : Repos, opts : Options, state : {"running", "published", "failed"},
                  from : Versions, to : Versions]
WorkerTypes == [kind : Kinds, repo : Repos \cup {None}, opts : Options \cup {None},
                step : PassSteps \cup RunSteps \cup {"none"}, seen : RecordTypes,
                fingerprint : FingerprintSet, run : Nat]
PassTypes == [opts : Options \cup {None}, force : BOOLEAN, cancelled : BOOLEAN, failed : BOOLEAN,
              alone : BOOLEAN, since : {<< >>} \cup UNION {[R -> Versions] : R \in SUBSET Repos}]

Types ==
    /\ record \in [Repos -> RecordTypes]
    /\ tree \in [Repos -> 0..MaxVersion] /\ remote \in [Repos -> 0..MaxVersion]
    /\ edits \in 0..MaxEdits
    /\ analyses \in Seq(AnalysisTypes)
    /\ op \in {None, "pass"} \cup Directs
    /\ pass \in PassTypes
    /\ worker \in [Workers -> WorkerTypes]

Runs == 0..Len(analyses)

RunsExist ==
    /\ \A r \in Repos : record[r].last \in Runs /\ record[r].digest \in Runs
    /\ \A w \in Workers : worker[w].seen.last \in Runs /\ worker[w].run \in Runs

(***************************************************************************)
(* Who is at work.                                                         *)
(***************************************************************************)
\* It waits for an analysis of its repository.
Waits(w) == worker[w].run # 0 /\ analyses[worker[w].run].repo = worker[w].repo

WorkerFits(w) ==
    /\ worker[w].kind = "none" => worker[w] = NoWorker
    /\ worker[w].kind # "none" => worker[w].repo \in Registered
    /\ w \in Repos => worker[w].kind \in {"none", "pass"}
    /\ w \in Directs => worker[w].kind # "pass"
    /\ worker[w].kind = "pass" =>
           /\ op = "pass" /\ worker[w].repo = w /\ worker[w].opts = pass.opts
           /\ worker[w].step \in PassSteps
    /\ worker[w].kind = "run" => worker[w].opts \in Options /\ worker[w].step \in RunSteps
    /\ worker[w].kind \in {"sync", "clone"} => worker[w].step \in SyncSteps
    /\ worker[w].step = "wait" => Waits(w)
    /\ worker[w].step \notin Started => worker[w].run = 0

PassFits ==
    op = "pass" =>
        /\ pass.opts \in Options /\ pass.since \in [Registered -> Versions]
        /\ pass.alone => \A d \in Directs : worker[d].kind = "none"

BusyFits ==
    \A r \in Repos : record[r].status \in Busy =>
        \E w \in Workers : Repo(w) = r /\ worker[w].step \in Owing

(***************************************************************************)
(* A pass that is alone.                                                   *)
(***************************************************************************)
Apart == op = "pass" /\ pass.alone

\* The analysis read what was there when the pass began, or later.
Fresh(i, r) ==
    /\ i \in DOMAIN analyses
    /\ analyses[i].opts = pass.opts /\ AtLeast(analyses[i].from, pass.since[r])

\* The analysis began after the fingerprint was taken, and the checkout has
\* stayed since.
OwnRun(i, r) ==
    /\ Fresh(i, r)
    /\ analyses[i].repo = r
    /\ analyses[i].from.tree = tree[r] /\ analyses[i].from.edits <= edits
    /\ worker[r].fingerprint # None => worker[r].fingerprint.inputs.edits <= analyses[i].from.edits
    /\ analyses[i].state = "published" =>
           /\ analyses[i].to.tree = tree[r]
           /\ analyses[i].from.edits <= analyses[i].to.edits /\ analyses[i].to.edits <= edits

OwnResult(i, r) == OwnRun(i, r) /\ analyses[i].state = "published"

LookFits(r) ==
    worker[r].fingerprint # None =>
        /\ worker[r].fingerprint.opts = pass.opts
        /\ worker[r].fingerprint.inputs.tree = tree[r]
        /\ worker[r].fingerprint.inputs.edits <= edits
        /\ AtLeast(worker[r].fingerprint.inputs, pass.since[r])

Local(r)    == At(r, "begin") /\ r \notin Managed
Unsynced(r) == (At(r, "begin") /\ r \in Managed) \/ worker[r].step \in {"sync", "fetch"}
UpToDate(r) == Local(r) \/ worker[r].step \notin Outdated

TreeFits(r) ==
    /\ pass.since[r].edits <= edits
    /\ Unsynced(r) => pass.since[r].tree <= remote[r]
    /\ UpToDate(r) => pass.since[r].tree <= tree[r]

AtWork(r) ==
    /\ TreeFits(r)
    /\ Local(r) \/ At(r, "look") => worker[r].seen = record[r]
    /\ worker[r].step \in Looked => LookFits(r)
    /\ At(r, "reuse") =>
           /\ worker[r].fingerprint # None /\ record[r].fingerprint = worker[r].fingerprint
           /\ record[r].digest # 0 /\ record[r].digest = record[r].last
    /\ At(r, "wait") =>
           /\ OwnRun(worker[r].run, r)
           /\ \A j \in DOMAIN analyses : analyses[j].repo = r => j <= worker[r].run
    /\ At(r, "save") /\ worker[r].run # 0 => OwnResult(worker[r].run, r)
    /\ At(r, "digest") /\ record[r].status = "diffmind_completed" => OwnResult(record[r].last, r)
    /\ At(r, "checkpoint") => worker[r].seen.last = record[r].last /\ OwnResult(record[r].last, r)

\* The pass has left the repository, without an error.
Left(r) ==
    ~ pass.cancelled /\ ~ pass.failed =>
        (record[r].fingerprint # None /\ ~ record[r].alone) \/ Fresh(record[r].last, r)

ApartFits ==
    Apart => \A r \in Registered : IF worker[r].kind = "pass" THEN AtWork(r) ELSE Left(r)

TruthOf(r) ==
    record[r].fingerprint # None /\ record[r].alone => record[r].digest # 0 /\ Truthful(record[r])
TruthFits == \A r \in Repos : TruthOf(r)

RefreshInv ==
    /\ Types /\ RunsExist
    /\ \A w \in Workers : WorkerFits(w)
    /\ PassFits /\ BusyFits /\ ApartFits /\ TruthFits

-----------------------------------------------------------------------------
(***************************************************************************)
(* Names, and what follows from the invariant at once.                     *)
(***************************************************************************)
LEMMA Apartness ==
    /\ Repos \cap Directs = {} /\ None \notin Repos /\ None \notin Directs /\ None \notin Options
    /\ "pass" \notin Repos /\ "pass" \notin Directs /\ None # "pass"
    /\ Workers = Repos \cup Directs
  BY RefreshAssumption DEF RefreshAssumption, Workers

LEMMA Bounds ==
    /\ MaxVersion \in Nat /\ MaxVersion >= 1 /\ MaxEdits \in Nat /\ MaxAnalyses \in Nat
    /\ 0..MaxVersion \subseteq Nat /\ 0..MaxEdits \subseteq Nat
  BY RefreshAssumption DEF RefreshAssumption

\* A set of numbers up to n that is not empty has a greatest one.
LEMMA HasGreatest ==
    ASSUME NEW n \in Nat, NEW T \in SUBSET (1..n), T # {}
    PROVE  \E i \in T : \A j \in T : i >= j
<1>. DEFINE D == {n - j : j \in T}
            L == OpToRel(<, Nat)
<1>1. \A j \in T : j \in Int /\ n - j \in Nat  OBVIOUS
<1>2. D \subseteq Nat  BY <1>1
<1>3. D # {}
  <2>1. PICK j \in T : TRUE  OBVIOUS
  <2>2. n - j \in D  BY <2>1
  <2>. QED  BY <2>2
<1>4. IsWellFoundedOn(L, Nat)  BY NatLessThanWellFounded
<1>. HIDE DEF D, L
<1>5. PICK d \in D : \A e \in D : ~ (<<e, d>> \in L)  BY <1>2, <1>3, <1>4, WFMin
<1>6. ASSUME NEW e \in D  PROVE e >= d
  <2>1. e \in Nat /\ d \in Nat  BY <1>2
  <2>2. ASSUME e < d  PROVE <<e, d>> \in L
    <3>. DEFINE s == <<e, d>>
    <3>1. s \in Nat \X Nat /\ s[1] < s[2]  BY <2>1, <2>2
    <3>. HIDE DEF s
    <3>2. s \in {ss \in Nat \X Nat : ss[1] < ss[2]}  BY <3>1
    <3>3. s \in L  BY <3>2 DEF L, OpToRel
    <3>. QED  BY <3>3 DEF s
  <2>. QED  BY <1>5, <2>1, <2>2
<1>7. PICK i \in T : d = n - i  BY DEF D
<1>8. ASSUME NEW j \in T  PROVE i >= j
  <2>1. n - j \in D  BY DEF D
  <2>2. n - j >= n - i  BY <1>6, <1>7, <2>1
  <2>. QED  BY <1>1, <2>2
<1>. QED  BY <1>8

LEMMA AtWorker ==
    ASSUME RefreshInv, NEW w \in Workers
    PROVE  /\ worker[w] \in WorkerTypes /\ WorkerFits(w) /\ worker[w].step \in PassSteps \cup RunSteps \cup {"none"}
           /\ worker[w].kind \in Kinds
           /\ worker[w].step # "none" => worker[w].kind # "none"
           /\ worker[w].kind # "none" =>
                  worker[w].repo \in Registered /\ worker[w].repo \in Repos /\ worker[w].step # "none"
           /\ worker[w].kind = "pass" => w \in Repos /\ worker[w].repo = w /\ op = "pass"
<1>1. worker[w] \in WorkerTypes /\ WorkerFits(w)  BY DEF RefreshInv, Types
<1>2. worker[w].step \in PassSteps \cup RunSteps \cup {"none"} /\ worker[w].kind \in Kinds
  BY <1>1 DEF WorkerTypes
<1>3. worker[w].kind = "none" => worker[w].step = "none"  BY <1>1 DEF WorkerFits, NoWorker
<1>4. worker[w].kind # "none" => worker[w].step # "none"
  BY <1>1, <1>2 DEF WorkerFits, Kinds, PassSteps, RunSteps, SyncSteps
<1>. QED  BY <1>1, <1>2, <1>3, <1>4, Apartness DEF WorkerFits, Registered

\* In a pass that is alone only the goroutines of the pass are at work.
LEMMA AloneAtWork ==
    ASSUME RefreshInv, Apart, NEW w \in Workers, worker[w].kind # "none"
    PROVE  /\ w \in Repos /\ worker[w].kind = "pass" /\ worker[w].repo = w /\ w \in Registered
           /\ AtWork(w)
<1>1. w \notin Directs  BY DEF RefreshInv, PassFits, Apart
<1>2. w \in Repos  BY <1>1, Apartness
<1>3. worker[w].kind = "pass"  BY <1>2, AtWorker DEF WorkerFits
<1>4. w \in Registered  BY <1>3, AtWorker
<1>. QED  BY <1>2, <1>3, <1>4, AtWorker DEF RefreshInv, ApartFits

-----------------------------------------------------------------------------
(***************************************************************************)
(* What is known of an analysis stays known.                               *)
(***************************************************************************)
\* An analysis that has ended is not touched, and one that is published has
\* read what is there now.
AnalysesGoOn ==
    /\ analyses' \in Seq(AnalysisTypes)
    /\ Len(analyses) <= Len(analyses')
    /\ \A i \in 1..Len(analyses) :
           /\ analyses'[i].repo = analyses[i].repo /\ analyses'[i].opts = analyses[i].opts
           /\ analyses'[i].from = analyses[i].from
           /\ \/ analyses'[i] = analyses[i]
              \/ analyses[i].state = "running" /\ analyses'[i].state = "failed"
              \/ /\ analyses[i].state = "running" /\ analyses'[i].state = "published"
                 /\ analyses'[i].to = Inputs(analyses[i].repo)

NoneAdded(r) == \A i \in 1..Len(analyses') : analyses'[i].repo = r => i \in 1..Len(analyses)

LEMMA NoAnalysis ==
    ASSUME RefreshInv, analyses' = analyses
    PROVE  AnalysesGoOn /\ \A r \in Repos : NoneAdded(r)
  BY DEF RefreshInv, Types, AnalysesGoOn, NoneAdded

LEMMA Lengths ==
    ASSUME RefreshInv, AnalysesGoOn
    PROVE  /\ Len(analyses) \in Nat /\ Len(analyses') \in Nat
           /\ DOMAIN analyses = 1..Len(analyses) /\ DOMAIN analyses' = 1..Len(analyses')
           /\ Runs \subseteq Runs' /\ 1..Len(analyses) \subseteq 1..Len(analyses')
<1>1. analyses \in Seq(AnalysisTypes) /\ analyses' \in Seq(AnalysisTypes) /\ Len(analyses) <= Len(analyses')
  BY DEF RefreshInv, Types, AnalysesGoOn
<1>2. /\ Len(analyses) \in Nat /\ Len(analyses') \in Nat
      /\ DOMAIN analyses = 1..Len(analyses) /\ DOMAIN analyses' = 1..Len(analyses')
  BY <1>1
<1>. QED  BY <1>1, <1>2 DEF Runs

LEMMA WaitsStays ==
    ASSUME RefreshInv, AnalysesGoOn, NEW w \in Workers, worker'[w] = worker[w], Waits(w)
    PROVE  Waits(w)'
<1>1. worker[w].run \in 1..Len(analyses)  BY Lengths DEF Waits, RefreshInv, RunsExist, Runs
<1>. QED  BY <1>1 DEF Waits, AnalysesGoOn

\* The pass goes on with what it began with.
PassGoesOn ==
    /\ pass'.opts = pass.opts /\ pass'.since = pass.since /\ pass'.alone = pass.alone
    /\ (pass.cancelled => pass'.cancelled) /\ (pass.failed => pass'.failed)

LEMMA FreshStays ==
    ASSUME RefreshInv, AnalysesGoOn, PassGoesOn, NEW i, NEW r \in Repos, Fresh(i, r)
    PROVE  Fresh(i, r)'
<1>1. i \in 1..Len(analyses) /\ i \in DOMAIN analyses'  BY Lengths DEF Fresh
<1>2. analyses'[i].opts = analyses[i].opts /\ analyses'[i].from = analyses[i].from
  BY <1>1 DEF AnalysesGoOn
<1>. QED  BY <1>1, <1>2 DEF Fresh, AtLeast, PassGoesOn

LEMMA LeftStays ==
    ASSUME RefreshInv, AnalysesGoOn, PassGoesOn, NEW r \in Repos, record'[r] = record[r], Left(r)
    PROVE  Left(r)'
  BY FreshStays DEF Left, PassGoesOn

LEMMA OwnRunStays ==
    ASSUME RefreshInv, AnalysesGoOn, PassGoesOn, NEW i, NEW r \in Repos, OwnRun(i, r),
           tree'[r] = tree[r], edits' \in Nat, edits <= edits',
           worker'[r].fingerprint = worker[r].fingerprint
    PROVE  /\ OwnRun(i, r)'
           /\ analyses[i].state = "published" => analyses'[i].state = "published"
<1>1. i \in 1..Len(analyses) /\ i \in DOMAIN analyses /\ edits \in Nat  BY Lengths, Bounds DEF OwnRun, Fresh, RefreshInv, Types
<1>2. /\ analyses'[i].repo = r /\ analyses'[i].opts = analyses[i].opts /\ analyses'[i].from = analyses[i].from
      /\ \/ analyses'[i] = analyses[i]
         \/ analyses[i].state = "running" /\ analyses'[i].state = "failed"
         \/ /\ analyses[i].state = "running" /\ analyses'[i].state = "published"
            /\ analyses'[i].to = Inputs(r)
  BY <1>1 DEF AnalysesGoOn, OwnRun
<1>3. Fresh(i, r)'  BY FreshStays DEF OwnRun
<1>4. analyses[i] \in AnalysisTypes  BY <1>1 DEF RefreshInv, Types
<1>5. analyses[i].from.edits \in Nat /\ analyses[i].to.edits \in Nat
  BY <1>4, Bounds DEF AnalysisTypes, Versions
<1>6. ASSUME analyses'[i].state = "published"
      PROVE  /\ analyses'[i].to.tree = tree[r]
             /\ analyses[i].from.edits <= analyses'[i].to.edits /\ analyses'[i].to.edits <= edits
  <2>1. CASE analyses'[i] = analyses[i]  BY <1>6, <2>1 DEF OwnRun
  <2>2. CASE analyses'[i].to = Inputs(r)  BY <1>1, <1>5, <2>2 DEF OwnRun, Inputs
  <2>. QED  BY <1>2, <1>6, <2>1, <2>2
<1>7. analyses'[i].state = "published" => analyses'[i].to.edits \in Nat
  <2>1. CASE analyses'[i] = analyses[i]  BY <1>5, <2>1
  <2>2. CASE analyses'[i].to = Inputs(r)  BY <1>1, <2>2 DEF Inputs
  <2>. QED  BY <1>2, <2>1, <2>2
<1>. QED  BY <1>1, <1>2, <1>3, <1>5, <1>6, <1>7 DEF OwnRun

LEMMA AtWorkStays ==
    ASSUME RefreshInv, AnalysesGoOn, PassGoesOn, NEW r \in Repos, NoneAdded(r), AtWork(r), pass.since[r] \in Versions,
           worker'[r] = worker[r], record'[r] = record[r], tree'[r] = tree[r],
           remote[r] \in Nat, remote'[r] \in Nat, remote[r] <= remote'[r], edits' \in Nat, edits <= edits'
    PROVE  AtWork(r)'
<1>1. edits \in Nat /\ pass.since[r].edits \in Nat /\ pass.since[r].tree \in Nat
  BY Bounds DEF RefreshInv, Types, Versions
<1>2. (r \in Managed)' <=> r \in Managed  BY DEF Managed
<1>3. TreeFits(r)'
  BY <1>1, <1>2 DEF AtWork, TreeFits, UpToDate, Unsynced, Local, At, PassGoesOn
<1>4. LookFits(r) => LookFits(r)'
  <2>1. ASSUME LookFits(r), worker[r].fingerprint # None  PROVE worker[r].fingerprint.inputs.edits \in Nat
    <3>1. worker[r].fingerprint \in FingerprintSet
      BY Apartness DEF RefreshInv, Types, WorkerTypes
    <3>. QED  BY <2>1, <3>1, Bounds DEF FingerprintSet, Versions
  <2>. QED  BY <1>1, <2>1 DEF LookFits, AtLeast, PassGoesOn
<1>5. \A i : OwnRun(i, r) => OwnRun(i, r)'  BY OwnRunStays
<1>6. \A i : OwnResult(i, r) => OwnResult(i, r)'  BY OwnRunStays DEF OwnResult
<1>7. At(r, "wait") => \A j \in DOMAIN analyses' : analyses'[j].repo = r => j <= worker[r].run
  BY Lengths DEF AtWork, AnalysesGoOn, NoneAdded
<1>. QED  BY <1>2, <1>3, <1>4, <1>5, <1>6, <1>7 DEF AtWork, At, Local

LEMMA TruthStays ==
    ASSUME RefreshInv, AnalysesGoOn, NEW r \in Repos,
           record'[r].fingerprint = record[r].fingerprint, record'[r].digest = record[r].digest,
           record'[r].alone => record[r].alone
    PROVE  TruthOf(r)'
<1>. SUFFICES ASSUME record'[r].fingerprint # None, record'[r].alone
              PROVE  record'[r].digest # 0 /\ Truthful(record[r])'
  BY DEF TruthOf
<1>1. record[r].digest # 0 /\ Truthful(record[r])  BY DEF RefreshInv, TruthFits, TruthOf
<1>2. record[r].digest \in Runs  BY DEF RefreshInv, RunsExist
<1>3. record[r].digest \in 1..Len(analyses)  BY <1>1, <1>2, Lengths DEF Runs
<1>4. analyses'[record[r].digest] = analyses[record[r].digest]
  BY <1>1, <1>3 DEF AnalysesGoOn, Truthful
<1>. QED  BY <1>1, <1>4 DEF Truthful

-----------------------------------------------------------------------------
(***************************************************************************)
(* The invariant in parts: what a step of a goroutine has to show, for the *)
(* goroutine and its repository, so that the rest holds too.               *)
(***************************************************************************)
\* What a step of w leaves alone.
StepOf(w) ==
    /\ UNCHANGED <<remote, edits>>
    /\ \A v \in Workers : v # w => worker'[v] = worker[v]
    /\ \A r \in Repos : r # Repo(w) => record'[r] = record[r] /\ tree'[r] = tree[r] /\ NoneAdded(r)
    /\ record'[Repo(w)].status # "none" /\ record'[Repo(w)].git = record[Repo(w)].git
    /\ op' = op \/ (op = w /\ op' = None)
    /\ PassGoesOn /\ AnalysesGoOn

\* The runs that the record and the goroutine name are there.
NamesRuns(w) ==
    /\ record'[Repo(w)].last \in Runs' /\ record'[Repo(w)].digest \in Runs'
    /\ worker'[w].seen.last \in Runs' /\ worker'[w].run \in Runs'

\* A busy status keeps somebody who will change it.
StaysOwed(w) ==
    record'[Repo(w)].status \in Busy =>
        \/ worker'[w].repo = Repo(w) /\ worker'[w].step \in Owing
        \/ record'[Repo(w)].status = record[Repo(w)].status /\ worker[w].step \notin Owing

\* A goroutine stays what it is, or ends.
GoodMove(w) ==
    \/ worker'[w] = NoWorker
    \/ /\ worker'[w].kind = worker[w].kind /\ worker'[w].repo = worker[w].repo
       /\ worker'[w].opts = worker[w].opts
       /\ worker[w].kind = "pass" => worker'[w].step \in PassSteps
       /\ worker[w].kind = "run" => worker'[w].step \in RunSteps
       /\ worker[w].kind \in {"sync", "clone"} => worker'[w].step \in SyncSteps
       /\ worker'[w].step = "wait" => Waits(w)'
       /\ worker'[w].step \notin Started => worker'[w].run = 0

PassStepFits(w) == IF worker'[w].kind = "pass" THEN AtWork(w)' ELSE Left(w)'

LEMMA StepKeeps ==
    ASSUME RefreshInv, NEW w \in Workers, NEW R, R = Repo(w), worker[w].kind # "none",
           StepOf(w), Types', NamesRuns(w),
           GoodMove(w), StaysOwed(w), Apart => PassStepFits(w), TruthOf(R)'
    PROVE  RefreshInv'
<1>0. R \in Repos /\ R \in Registered /\ R = worker[w].repo  BY AtWorker DEF Repo
<1>1. Registered' = Registered /\ Managed' = Managed
  <2>1. record[R].status # "none" /\ record'[R].status # "none" /\ record'[R].git = record[R].git
    BY <1>0 DEF StepOf, Registered, Repo
  <2>2. \A r \in Repos : r # R => record'[r] = record[r]  BY <1>0 DEF StepOf, Repo
  <2>. QED  BY <2>1, <2>2 DEF Registered, Managed
<1>2. op' = "pass" => op = "pass"  BY Apartness DEF StepOf
<1>3. op = "pass" => op' = "pass"  BY Apartness DEF StepOf
<1>4. RunsExist'
  <2>1. \A r \in Repos : record'[r].last \in Runs' /\ record'[r].digest \in Runs'
    BY <1>0, Lengths DEF RefreshInv, RunsExist, StepOf, NamesRuns, Repo
  <2>2. \A v \in Workers : worker'[v].seen.last \in Runs' /\ worker'[v].run \in Runs'
    BY Lengths DEF RefreshInv, RunsExist, StepOf, NamesRuns
  <2>. QED  BY <2>1, <2>2 DEF RunsExist
<1>5. ASSUME NEW v \in Workers  PROVE WorkerFits(v)'
  <2>1. CASE v = w
    <3>1. CASE worker'[w] = NoWorker  BY <2>1, <3>1 DEF WorkerFits, NoWorker
    <3>2. CASE worker'[w] # NoWorker
      <4>1. WorkerFits(w) /\ pass'.opts = pass.opts  BY AtWorker DEF StepOf, PassGoesOn
      <4>. QED  BY <1>1, <1>3, <2>1, <3>2, <4>1 DEF WorkerFits, GoodMove
    <3>. QED  BY <3>1, <3>2
  <2>2. CASE v # w
    <3>1. worker'[v] = worker[v] /\ WorkerFits(v) /\ pass'.opts = pass.opts /\ AnalysesGoOn
      BY <2>2, AtWorker DEF StepOf, PassGoesOn
    <3>2. Waits(v) => Waits(v)'  BY <3>1, WaitsStays
    <3>. QED  BY <1>1, <1>3, <3>1, <3>2 DEF WorkerFits
  <2>. QED  BY <2>1, <2>2
<1>6. PassFits'
  <2>. SUFFICES ASSUME op' = "pass"
                PROVE  /\ pass'.opts \in Options /\ pass'.since \in [Registered' -> Versions]
                       /\ pass'.alone => \A d \in Directs : worker'[d].kind = "none"
    BY DEF PassFits
  <2>1. PassFits /\ op = "pass" /\ PassGoesOn  BY <1>2 DEF RefreshInv, StepOf
  <2>2. ASSUME pass.alone, NEW d \in Directs  PROVE worker'[d].kind = "none"
    <3>1. worker[d].kind = "none" /\ d # w  BY <2>1, <2>2 DEF PassFits
    <3>2. d \in Workers  BY Apartness
    <3>. QED  BY <3>1, <3>2 DEF StepOf
  <2>. QED  BY <1>1, <2>1, <2>2 DEF PassFits, PassGoesOn
<1>7. BusyFits'
  <2>. SUFFICES ASSUME NEW r \in Repos, record'[r].status \in Busy
                PROVE  \E v \in Workers : worker'[v].repo = r /\ worker'[v].step \in Owing
    BY DEF BusyFits, Repo
  <2>1. CASE r # R
    <3>1. record'[r] = record[r]  BY <1>0, <2>1 DEF StepOf, Repo
    <3>2. PICK v \in Workers : worker[v].repo = r /\ worker[v].step \in Owing
      BY <3>1 DEF RefreshInv, BusyFits, Repo
    <3>3. v # w  BY <1>0, <2>1, <3>2
    <3>. QED  BY <3>2, <3>3 DEF StepOf
  <2>2. CASE r = R
    <3>1. CASE worker'[w].repo = R /\ worker'[w].step \in Owing  BY <2>2, <3>1
    <3>2. CASE record'[R].status = record[R].status /\ worker[w].step \notin Owing
      <4>1. PICK v \in Workers : worker[v].repo = r /\ worker[v].step \in Owing
        BY <2>2, <3>2 DEF RefreshInv, BusyFits, Repo
      <4>2. v # w  BY <3>2, <4>1
      <4>. QED  BY <4>1, <4>2 DEF StepOf
    <3>. QED  BY <1>0, <2>2, <3>1, <3>2 DEF StaysOwed, Repo
  <2>. QED  BY <2>1, <2>2
<1>8. ApartFits'
  <2>. SUFFICES ASSUME op' = "pass", pass'.alone, NEW r \in Registered
                PROVE  IF worker'[r].kind = "pass" THEN AtWork(r)' ELSE Left(r)'
    BY <1>1 DEF ApartFits, Apart
  <2>1. Apart /\ PassGoesOn /\ AnalysesGoOn  BY <1>2 DEF Apart, StepOf, PassGoesOn
  <2>2. w \in Repos /\ R = w  BY <1>0, <2>1, AloneAtWork
  <2>3. CASE r = w  BY <2>1, <2>3 DEF PassStepFits
  <2>4. CASE r # w
    <3>1. /\ r \in Repos /\ r \in Workers /\ worker'[r] = worker[r]
          /\ record'[r] = record[r] /\ tree'[r] = tree[r] /\ NoneAdded(r)
      BY <1>0, <2>2, <2>4, Apartness DEF StepOf, Repo, Registered
    <3>2. IF worker[r].kind = "pass" THEN AtWork(r) ELSE Left(r)  BY <2>1 DEF RefreshInv, ApartFits
    <3>3. /\ remote' = remote /\ remote[r] \in Nat /\ edits' = edits /\ edits \in Nat
          /\ pass.since[r] \in Versions
      BY <2>1, <3>1, Bounds DEF StepOf, RefreshInv, Types, PassFits, Apart
    <3>4. CASE worker[r].kind = "pass"
      <4>1. remote'[r] \in Nat /\ remote[r] <= remote'[r] /\ edits' \in Nat /\ edits <= edits'  BY <3>3
      <4>2. AtWork(r)'  BY <2>1, <3>1, <3>2, <3>3, <3>4, <4>1, AtWorkStays
      <4>. QED  BY <3>1, <3>4, <4>2
    <3>5. CASE worker[r].kind # "pass"
      <4>1. Left(r)'  BY <2>1, <3>1, <3>2, <3>5, LeftStays
      <4>. QED  BY <3>1, <3>5, <4>1
    <3>. QED  BY <3>4, <3>5
  <2>. QED  BY <2>3, <2>4
<1>9. TruthFits'
  <2>. SUFFICES ASSUME NEW r \in Repos  PROVE TruthOf(r)'
    BY DEF TruthFits
  <2>1. CASE r = R  BY <1>0, <2>1 DEF Repo
  <2>2. CASE r # R
    <3>1. record'[r] = record[r] /\ AnalysesGoOn  BY <1>0, <2>2 DEF StepOf, Repo
    <3>. QED  BY <3>1, TruthStays
  <2>. QED  BY <2>1, <2>2
<1>. QED  BY <1>4, <1>5, <1>6, <1>7, <1>8, <1>9 DEF RefreshInv

\* What comes from outside moves no goroutine and writes no record.
LEMMA WorldKeeps ==
    ASSUME RefreshInv, UNCHANGED <<record, tree, op, worker>>, Types', PassGoesOn, AnalysesGoOn,
           Len(analyses') = Len(analyses),
           edits <= edits', \A r \in Repos : remote[r] <= remote'[r]
    PROVE  RefreshInv'
<1>1. Registered' = Registered /\ Managed' = Managed  BY DEF Registered, Managed
<1>2. RunsExist'  BY DEF RefreshInv, RunsExist, Runs
<1>3. \A v \in Workers : WorkerFits(v)'  BY <1>1, WaitsStays DEF RefreshInv, WorkerFits, PassGoesOn
<1>4. PassFits' /\ BusyFits'  BY <1>1 DEF RefreshInv, PassFits, BusyFits, PassGoesOn, Repo
<1>5. \A r \in Repos : NoneAdded(r)  BY Lengths DEF NoneAdded
<1>6. ApartFits'
  <2>. SUFFICES ASSUME op = "pass", pass'.alone, NEW r \in Registered
                PROVE  IF worker'[r].kind = "pass" THEN AtWork(r)' ELSE Left(r)'
    BY <1>1 DEF ApartFits, Apart
  <2>1. Apart /\ r \in Repos  BY DEF Apart, PassGoesOn, Registered
  <2>2. IF worker[r].kind = "pass" THEN AtWork(r) ELSE Left(r)  BY <2>1 DEF RefreshInv, ApartFits
  <2>3. /\ remote[r] \in Nat /\ remote'[r] \in Nat /\ remote[r] <= remote'[r] /\ edits' \in Nat
        /\ pass.since[r] \in Versions
    BY <2>1, Bounds DEF RefreshInv, Types, PassFits, Apart
  <2>4. worker[r].kind = "pass" => AtWork(r)'  BY <1>5, <2>1, <2>2, <2>3, AtWorkStays
  <2>5. worker[r].kind # "pass" => Left(r)'  BY <2>1, <2>2, LeftStays
  <2>. QED  BY <2>4, <2>5
<1>7. TruthFits'
  <2>1. \A r \in Repos : TruthOf(r)'  BY TruthStays
  <2>. QED  BY <2>1 DEF TruthFits
<1>. QED  BY <1>2, <1>3, <1>4, <1>6, <1>7 DEF RefreshInv

\* A goroutine writes its record, or nothing, and goes on.
LEMMA WriteKeeps ==
    ASSUME RefreshInv, NEW w \in Workers, NEW R, R = Repo(w), worker[w].kind # "none",
           NEW written \in RecordTypes, written.status # "none", written.git = record[R].git,
           written.last \in Runs, written.digest \in Runs, record' = [record EXCEPT ![R] = written],
           NEW new \in WorkerTypes, new.seen.last \in Runs, new.run \in Runs, worker' = [worker EXCEPT ![w] = new],
           UNCHANGED <<tree, analyses, remote, edits>>, op' = op \/ (op = w /\ op' = None),
           pass' \in PassTypes, PassGoesOn,
           GoodMove(w), StaysOwed(w), Apart => PassStepFits(w), TruthOf(R)'
    PROVE  RefreshInv'
<1>0. R \in Repos /\ Types  BY AtWorker DEF RefreshInv, Repo
<1>1. record'[R] = written /\ record' \in [Repos -> RecordTypes] /\ \A r \in Repos : r # R => record'[r] = record[r]
  BY <1>0 DEF Types
<1>2. worker'[w] = new /\ worker' \in [Workers -> WorkerTypes] /\ \A v \in Workers : v # w => worker'[v] = worker[v]
  BY <1>0 DEF Types
<1>3. AnalysesGoOn /\ \A r \in Repos : NoneAdded(r)  BY NoAnalysis
<1>4. Types'  BY <1>0, <1>1, <1>2 DEF Types
<1>5. StepOf(w)  BY <1>1, <1>2, <1>3 DEF StepOf
<1>6. NamesRuns(w)  BY <1>1, <1>2 DEF NamesRuns, Runs
<1>. QED  BY <1>4, <1>5, <1>6, StepKeeps

\* A goroutine writes nothing.
LEMMA MoveKeeps ==
    ASSUME RefreshInv, NEW w \in Workers, worker[w].kind # "none", UNCHANGED record,
           NEW new \in WorkerTypes, new.seen.last \in Runs, new.run \in Runs, worker' = [worker EXCEPT ![w] = new],
           UNCHANGED <<tree, analyses, pass, remote, edits>>, op' = op \/ (op = w /\ op' = None),
           GoodMove(w), StaysOwed(w), Apart => PassStepFits(w)
    PROVE  RefreshInv'
<1>0. PICK R \in Registered : R = Repo(w) /\ R \in Repos  BY AtWorker DEF Repo
<1>1. /\ record[R] \in RecordTypes /\ record[R].status # "none" /\ record' = [record EXCEPT ![R] = record[R]]
      /\ record[R].last \in Runs /\ record[R].digest \in Runs
  BY <1>0 DEF RefreshInv, Types, RunsExist, Registered
<1>2. pass' \in PassTypes /\ PassGoesOn  BY DEF RefreshInv, Types, PassGoesOn
<1>3. TruthOf(R)'
  <2>1. AnalysesGoOn  BY NoAnalysis
  <2>. QED  BY <1>0, <2>1, TruthStays
<1>. QED  BY <1>0, <1>1, <1>2, <1>3, WriteKeeps

\* A goroutine writes a status, and goes on.
LEMMA StatusKeeps ==
    ASSUME RefreshInv, NEW w \in Workers, worker[w].kind # "none",
           NEW status \in Status, status # "none", SetStatus(Repo(w), status),
           NEW new \in WorkerTypes, new.seen.last \in Runs, new.run \in Runs, worker' = [worker EXCEPT ![w] = new],
           UNCHANGED <<tree, analyses, remote, edits>>, op' = op \/ (op = w /\ op' = None),
           pass' \in PassTypes, PassGoesOn,
           GoodMove(w), StaysOwed(w), Apart => PassStepFits(w)
    PROVE  RefreshInv'
<1>0. PICK R \in Registered : R = Repo(w) /\ R \in Repos  BY AtWorker DEF Repo
<1>1. PICK written : written = [record[R] EXCEPT !.status = status]  OBVIOUS
<1>2. record[R] \in RecordTypes /\ record[R].last \in Runs /\ record[R].digest \in Runs
  BY <1>0 DEF RefreshInv, Types, RunsExist
<1>3. /\ written \in RecordTypes /\ written.status = status /\ written.git = record[R].git
      /\ written.last = record[R].last /\ written.digest = record[R].digest
      /\ written.fingerprint = record[R].fingerprint /\ written.alone = record[R].alone
  BY <1>1, <1>2 DEF RecordTypes
<1>4. record' = [record EXCEPT ![R] = written]
  BY <1>0, <1>1 DEF SetStatus, RefreshInv, Types
<1>5. record'[R] = written  BY <1>0, <1>4 DEF RefreshInv, Types
<1>6. TruthOf(R)'
  <2>1. AnalysesGoOn  BY NoAnalysis
  <2>. QED  BY <1>0, <1>3, <1>5, <2>1, TruthStays
<1>. QED  BY <1>0, <1>2, <1>3, <1>4, <1>6, WriteKeeps

-----------------------------------------------------------------------------
(***************************************************************************)
(* The steps of a goroutine.                                               *)
(***************************************************************************)
LEMMA Nobody ==
    /\ NoRecord \in RecordTypes /\ NoRecord.last = 0 /\ NoRecord.fingerprint = None
    /\ NoWorker \in WorkerTypes /\ NoWorker.kind = "none" /\ NoWorker.step = "none"
    /\ NoWorker.seen = NoRecord /\ NoWorker.run = 0
<1>1. "none" \in Status /\ None \in FingerprintSet  BY DEF Status, FingerprintSet
<1>2. NoRecord \in RecordTypes  BY <1>1 DEF NoRecord, RecordTypes
<1>. QED  BY <1>1, <1>2 DEF NoWorker, NoRecord, WorkerTypes, Kinds

LEMMA ZeroRuns == RefreshInv => 0 \in Runs
  BY DEF RefreshInv, Types, Runs

LEMMA Steps ==
    /\ Owing = {"stat", "sync", "fetch", "synced", "analyse", "wait", "save", "fail"}
    /\ SyncSteps \subseteq RunSteps /\ RunSteps \ {"stat"} \subseteq PassSteps
    /\ Looked \subseteq PassSteps /\ Outdated \subseteq PassSteps
  BY DEF Owing, RunSteps, PassSteps, SyncSteps, Looked, Outdated

\* A goroutine that is at a line has its work, and in a pass that is alone it
\* is the pass's, on its own repository.
LEMMA Doing ==
    ASSUME RefreshInv, NEW w \in Workers, NEW s \in PassSteps \cup RunSteps, At(w, s)
    PROVE  /\ worker[w].kind # "none" /\ worker[w].step = s /\ worker[w] \in WorkerTypes /\ WorkerFits(w)
           /\ Repo(w) = worker[w].repo /\ Repo(w) \in Registered /\ Repo(w) \in Repos
           /\ record[Repo(w)] \in RecordTypes /\ record[Repo(w)].status # "none"
           /\ worker[w].kind = "pass" => w \in Repos /\ Repo(w) = w /\ op = "pass" /\ worker[w].opts = pass.opts
           /\ s \notin RunSteps => worker[w].kind = "pass"
           /\ s \notin SyncSteps => worker[w].kind \in {"pass", "run"}
           /\ s \notin PassSteps => worker[w].kind = "run"
           /\ worker[w].kind \in {"pass", "run"} => worker[w].opts \in Options
           /\ Apart => worker[w].kind = "pass" /\ AtWork(w) /\ pass.since[w] \in Versions
<1>1. s # "none" /\ worker[w].step = s  BY DEF At, PassSteps, RunSteps
<1>2. /\ worker[w].kind # "none" /\ worker[w] \in WorkerTypes /\ WorkerFits(w) /\ worker[w].kind \in Kinds
      /\ worker[w].repo \in Registered /\ worker[w].repo \in Repos
      /\ worker[w].kind = "pass" => w \in Repos /\ worker[w].repo = w /\ op = "pass" /\ worker[w].opts = pass.opts
  BY <1>1, AtWorker DEF WorkerFits
<1>3. record[worker[w].repo] \in RecordTypes /\ record[worker[w].repo].status # "none"
  BY <1>2 DEF RefreshInv, Types, Registered
<1>4. /\ s \notin RunSteps => worker[w].kind = "pass"
      /\ s \notin SyncSteps => worker[w].kind \in {"pass", "run"}
      /\ s \notin PassSteps => worker[w].kind = "run"
  <2>1. SyncSteps \subseteq RunSteps /\ SyncSteps \subseteq PassSteps  BY DEF SyncSteps, RunSteps, PassSteps
  <2>2. /\ worker[w].kind = "pass" => s \in PassSteps
        /\ worker[w].kind = "run" => s \in RunSteps
        /\ worker[w].kind \in {"sync", "clone"} => s \in SyncSteps
    BY <1>1, <1>2 DEF WorkerFits
  <2>3. worker[w].kind \in {"pass", "run", "sync", "clone"}  BY <1>2 DEF Kinds
  <2>. QED  BY <2>1, <2>2, <2>3
<1>5. worker[w].kind \in {"pass", "run"} => worker[w].opts \in Options
  BY <1>2 DEF WorkerFits, RefreshInv, PassFits
<1>6. ASSUME Apart  PROVE worker[w].kind = "pass" /\ AtWork(w) /\ pass.since[w] \in Versions
  <2>1. worker[w].kind = "pass" /\ AtWork(w) /\ w \in Registered  BY <1>2, <1>6, AloneAtWork
  <2>. QED  BY <1>6, <2>1 DEF RefreshInv, PassFits, Apart
<1>. QED  BY <1>1, <1>2, <1>3, <1>4, <1>5, <1>6 DEF Repo

LEMMA Stepped ==
    ASSUME RefreshInv, NEW w \in Workers, NEW s \in PassSteps \cup RunSteps, Goto(w, s)
    PROVE  \E new \in WorkerTypes :
               /\ worker' = [worker EXCEPT ![w] = new] /\ worker'[w] = new
               /\ new.step = s /\ new.kind = worker[w].kind /\ new.repo = worker[w].repo /\ new.opts = worker[w].opts
               /\ new.seen = worker[w].seen /\ new.run = worker[w].run /\ new.fingerprint = worker[w].fingerprint
               /\ new.seen.last \in Runs /\ new.run \in Runs
<1>. DEFINE new == [worker[w] EXCEPT !.step = s]
<1>1. worker[w] \in WorkerTypes /\ worker[w].seen.last \in Runs /\ worker[w].run \in Runs /\ worker \in [Workers -> WorkerTypes]
  BY DEF RefreshInv, Types, RunsExist
<1>2. worker' = [worker EXCEPT ![w] = new] /\ worker'[w] = new  BY <1>1 DEF Goto
<1>3. new \in WorkerTypes  BY <1>1 DEF WorkerTypes
<1>4. /\ new.step = s /\ new.kind = worker[w].kind /\ new.repo = worker[w].repo /\ new.opts = worker[w].opts
      /\ new.seen = worker[w].seen /\ new.run = worker[w].run /\ new.fingerprint = worker[w].fingerprint
  BY <1>1 DEF WorkerTypes
<1>. QED  BY <1>1, <1>2, <1>3, <1>4

LEMMA Ended ==
    ASSUME RefreshInv, NEW w \in Workers, End(w)
    PROVE  /\ worker' = [worker EXCEPT ![w] = NoWorker] /\ worker'[w] = NoWorker
           /\ (op' = op \/ (op = w /\ op' = None)) /\ GoodMove(w)
           /\ NoWorker \in WorkerTypes /\ NoWorker.seen.last \in Runs /\ NoWorker.run \in Runs
           /\ worker'[w].kind = "none" /\ worker'[w].step = "none"
<1>1. worker' = [worker EXCEPT ![w] = NoWorker] /\ worker'[w] = NoWorker  BY DEF End, RefreshInv, Types
<1>2. op' = op \/ (op = w /\ op' = None)  BY DEF End
<1>. QED  BY <1>1, <1>2, Nobody, ZeroRuns DEF GoodMove

LEMMA BeginKeeps ==
    ASSUME RefreshInv, NEW w \in Workers, Begin(w)
    PROVE  RefreshInv'
<1>1. At(w, "begin") /\ UNCHANGED <<record, tree, analyses, pass, remote, edits>>  BY DEF Begin, outside
<1>2. "begin" \in PassSteps /\ "begin" \notin RunSteps  BY DEF PassSteps, RunSteps
<1>3. worker[w].kind = "pass" /\ Repo(w) = w /\ w \in Repos /\ (Apart => AtWork(w))  BY <1>1, <1>2, Doing
<1>4. Managed' = Managed  BY <1>1 DEF Managed
<1>5. StaysOwed(w)  BY <1>1, <1>2 DEF StaysOwed, Owing, At
<1>6. CASE pass.cancelled
  <2>1. End(w)  BY <1>6 DEF Begin
  <2>2. Apart => PassStepFits(w)  BY <1>1, <1>6, <2>1, Ended DEF PassStepFits, Left
  <2>. QED  BY <1>1, <1>3, <1>5, <2>1, <2>2, Ended, MoveKeeps
<1>7. CASE ~ pass.cancelled
  <2>1. PICK s \in {"sync", "look"} : Goto(w, s) /\ op' = op /\ s = IF w \in Managed THEN "sync" ELSE "look"
    BY <1>3, <1>7 DEF Begin
  <2>2. s \in PassSteps  BY DEF PassSteps
  <2>3. PICK new \in WorkerTypes :
            /\ worker' = [worker EXCEPT ![w] = new] /\ worker'[w] = new
            /\ new.step = s /\ new.kind = worker[w].kind /\ new.repo = worker[w].repo /\ new.opts = worker[w].opts
            /\ new.seen = worker[w].seen /\ new.run = worker[w].run /\ new.seen.last \in Runs /\ new.run \in Runs
    BY <2>1, <2>2, Stepped
  <2>4. GoodMove(w)  BY <1>1, <1>2, <1>3, <2>2, <2>3, Doing DEF GoodMove, WorkerFits, Started
  <2>5. ASSUME Apart  PROVE AtWork(w)'
    <3>1. AtWork(w) /\ worker[w].step = "begin"  BY <1>1, <1>3, <2>5 DEF At
    <3>2. TreeFits(w)'
      BY <1>1, <1>4, <2>1, <2>3, <3>1 DEF AtWork, TreeFits, Unsynced, UpToDate, Local, Outdated, At
    <3>. QED  BY <1>1, <1>4, <2>1, <2>3, <3>1, <3>2 DEF AtWork, Local, Looked, At
  <2>. QED  BY <1>1, <1>3, <1>5, <2>1, <2>3, <2>4, <2>5, MoveKeeps DEF PassStepFits
<1>. QED  BY <1>6, <1>7

LEMMA GoesOn ==
    ASSUME RefreshInv, NEW w \in Workers, NEW before \in PassSteps \cup RunSteps, At(w, before),
           NEW s \in PassSteps \cup RunSteps, Goto(w, s), s # "wait", before \notin Started \/ s \in Started,
           worker[w].kind = "pass" => s \in PassSteps, worker[w].kind = "run" => s \in RunSteps,
           worker[w].kind \in {"sync", "clone"} => s \in SyncSteps
    PROVE  GoodMove(w)
<1>1. WorkerFits(w) /\ worker[w].step = before  BY Doing
<1>2. before \notin Started => worker[w].run = 0  BY <1>1 DEF WorkerFits
<1>3. /\ worker'[w].step = s /\ worker'[w].kind = worker[w].kind /\ worker'[w].repo = worker[w].repo
      /\ worker'[w].opts = worker[w].opts /\ worker'[w].run = worker[w].run
  BY Stepped
<1>. QED  BY <1>2, <1>3 DEF GoodMove

LEMMA SyncKeeps ==
    ASSUME RefreshInv, NEW w \in Workers, Sync(w)
    PROVE  RefreshInv'
<1>1. At(w, "sync") /\ UNCHANGED <<tree, analyses, pass, remote, edits>>  BY DEF Sync, outside
<1>2. {"sync", "fetch", "fail"} \subseteq PassSteps /\ {"sync", "fetch", "fail"} \subseteq RunSteps
      /\ {"sync", "fetch"} \subseteq SyncSteps /\ {"fetch", "fail"} \subseteq Owing
      /\ "sync" \notin Started
  BY DEF PassSteps, RunSteps, SyncSteps, Owing, Started
<1>3. /\ worker[w].kind # "none" /\ Repo(w) = worker[w].repo /\ Repo(w) \in Repos /\ worker[w].step = "sync"
      /\ worker[w].kind = "pass" => w \in Repos /\ Repo(w) = w
      /\ Apart => worker[w].kind = "pass" /\ AtWork(w)
  BY <1>1, <1>2, Doing
<1>4. CASE ~ Cancelled(w) /\ SetStatus(Repo(w), "syncing") /\ Goto(w, "fetch") /\ UNCHANGED op
  <2>1. GoodMove(w)  BY <1>1, <1>2, <1>4, GoesOn
  <2>2. PICK new \in WorkerTypes :
            /\ worker' = [worker EXCEPT ![w] = new] /\ worker'[w] = new
            /\ new.step = "fetch" /\ new.kind = worker[w].kind /\ new.repo = worker[w].repo
            /\ new.seen.last \in Runs /\ new.run \in Runs
    BY <1>2, <1>4, Stepped
  <2>3. StaysOwed(w)  BY <1>2, <1>3, <2>2 DEF StaysOwed
  <2>4. Managed' = Managed  BY <1>3, <1>4 DEF SetStatus, Managed, RefreshInv, Types, RecordTypes
  <2>5. ASSUME Apart  PROVE PassStepFits(w)
    <3>1. TreeFits(w)'
      BY <1>1, <1>3, <2>2, <2>4, <2>5 DEF AtWork, TreeFits, Unsynced, UpToDate, Local, Outdated, At
    <3>. QED  BY <1>3, <2>2, <2>5, <3>1 DEF PassStepFits, AtWork, Local, Looked, At
  <2>6. "syncing" \in Status /\ pass' \in PassTypes /\ PassGoesOn
    BY <1>1 DEF Status, Busy, RefreshInv, Types, PassGoesOn
  <2>. QED  BY <1>1, <1>3, <1>4, <2>1, <2>2, <2>3, <2>5, <2>6, StatusKeeps
<1>5. CASE Cancelled(w) /\ AfterFailedSync(w) /\ UNCHANGED record
  <2>1. worker[w].kind = "pass"  BY <1>5 DEF Cancelled, OfPass
  <2>2. Goto(w, "fail") /\ UNCHANGED op  BY <1>5, <2>1 DEF AfterFailedSync
  <2>3. GoodMove(w)  BY <1>1, <1>2, <2>1, <2>2, GoesOn
  <2>4. PICK new \in WorkerTypes :
            /\ worker' = [worker EXCEPT ![w] = new] /\ worker'[w] = new
            /\ new.step = "fail" /\ new.kind = worker[w].kind /\ new.repo = worker[w].repo
            /\ new.seen.last \in Runs /\ new.run \in Runs
    BY <1>2, <2>2, Stepped
  <2>5. StaysOwed(w)  BY <1>2, <1>3, <2>4 DEF StaysOwed
  <2>6. ASSUME Apart  PROVE PassStepFits(w)
    <3>1. TreeFits(w)'
      BY <1>1, <1>3, <2>4, <2>6 DEF AtWork, TreeFits, Unsynced, UpToDate, Local, Outdated, At
    <3>. QED  BY <1>3, <2>4, <2>6, <3>1 DEF PassStepFits, AtWork, Local, Looked, At
  <2>. QED  BY <1>1, <1>3, <1>5, <2>2, <2>3, <2>4, <2>5, <2>6, MoveKeeps
<1>. QED  BY <1>4, <1>5 DEF Sync

LEMMA FetchKeeps ==
    ASSUME RefreshInv, NEW w \in Workers, Fetch(w)
    PROVE  RefreshInv'
<1>1. At(w, "fetch") /\ UNCHANGED <<analyses, pass, remote, edits>>  BY DEF Fetch, outside
<1>2. {"synced", "fetch", "fail"} \subseteq PassSteps /\ {"synced", "fetch", "fail"} \subseteq RunSteps
      /\ {"synced", "fetch"} \subseteq SyncSteps /\ {"synced", "fetch", "fail"} \subseteq Owing
      /\ "fetch" \notin Started
  BY DEF PassSteps, RunSteps, SyncSteps, Owing, Started
<1>3. /\ worker[w].kind # "none" /\ Repo(w) = worker[w].repo /\ Repo(w) \in Repos /\ worker[w].step = "fetch"
      /\ worker[w].kind = "pass" => w \in Repos /\ Repo(w) = w
      /\ record[Repo(w)].status # "none"
      /\ Apart => worker[w].kind = "pass" /\ AtWork(w) /\ pass.since[w] \in Versions
  BY <1>1, <1>2, Doing
<1>4. pass' \in PassTypes /\ PassGoesOn  BY <1>1 DEF RefreshInv, Types, PassGoesOn
<1>5. CASE tree' = [tree EXCEPT ![Repo(w)] = remote[Repo(w)]] /\ Goto(w, "synced") /\ UNCHANGED <<record, op>>
  <2>1. GoodMove(w)  BY <1>1, <1>2, <1>5, GoesOn
  <2>2. PICK new \in WorkerTypes :
            /\ worker' = [worker EXCEPT ![w] = new] /\ worker'[w] = new
            /\ new.step = "synced" /\ new.kind = worker[w].kind /\ new.repo = worker[w].repo
            /\ new.seen.last \in Runs /\ new.run \in Runs
    BY <1>2, <1>5, Stepped
  <2>3. StaysOwed(w)  BY <1>2, <1>3, <2>2 DEF StaysOwed
  <2>4. AnalysesGoOn /\ \A r \in Repos : NoneAdded(r)  BY <1>1, NoAnalysis
  <2>5. /\ Types' /\ tree'[Repo(w)] = remote[Repo(w)]
        /\ \A v \in Workers : v # w => worker'[v] = worker[v]
        /\ \A r \in Repos : r # Repo(w) => tree'[r] = tree[r]
    BY <1>1, <1>3, <1>5, <2>2 DEF RefreshInv, Types
  <2>6. StepOf(w)  BY <1>1, <1>3, <1>4, <1>5, <2>4, <2>5 DEF StepOf
  <2>7. NamesRuns(w)  BY <1>1, <1>3, <1>5, <2>2 DEF NamesRuns, RefreshInv, RunsExist, Runs
  <2>8. ASSUME Apart  PROVE PassStepFits(w)
    <3>1. pass.since[w].tree <= remote[w] /\ pass.since[w].edits <= edits
      BY <1>3, <2>8 DEF AtWork, TreeFits, Unsynced
    <3>2. TreeFits(w)'
      BY <1>1, <1>3, <2>2, <2>5, <2>8, <3>1 DEF TreeFits, Unsynced, UpToDate, Local, Outdated, At
    <3>. QED  BY <1>3, <2>2, <2>8, <3>2 DEF PassStepFits, AtWork, Local, Looked, At
  <2>9. TruthOf(Repo(w)) /\ record' = record  BY <1>3, <1>5 DEF RefreshInv, TruthFits
  <2>10. PICK R \in Repos : R = Repo(w)  BY <1>3
  <2>11. TruthOf(R)'  BY <2>4, <2>9, <2>10, TruthStays
  <2>. QED  BY <1>3, <2>1, <2>3, <2>5, <2>6, <2>7, <2>8, <2>10, <2>11, StepKeeps
<1>6. CASE SetStatus(Repo(w), "failed") /\ AfterFailedSync(w) /\ UNCHANGED tree
  <2>1. "failed" \in Status /\ "failed" \notin Busy  BY DEF Status, Busy
  <2>2. record'[Repo(w)].status = "failed" /\ Managed' = Managed
    BY <1>3, <1>6 DEF SetStatus, Managed, RefreshInv, Types, RecordTypes
  <2>3. StaysOwed(w)  BY <2>1, <2>2 DEF StaysOwed
  <2>4. CASE worker[w].kind \in {"pass", "run"}
    <3>1. Goto(w, "fail") /\ UNCHANGED op  BY <1>6, <2>4 DEF AfterFailedSync
    <3>2. GoodMove(w)  BY <1>1, <1>2, <2>4, <3>1, GoesOn
    <3>3. PICK new \in WorkerTypes :
              /\ worker' = [worker EXCEPT ![w] = new] /\ worker'[w] = new
              /\ new.step = "fail" /\ new.kind = worker[w].kind /\ new.repo = worker[w].repo
              /\ new.seen.last \in Runs /\ new.run \in Runs
      BY <1>2, <3>1, Stepped
    <3>4. ASSUME Apart  PROVE PassStepFits(w)
      <4>1. TreeFits(w)'
        BY <1>1, <1>3, <2>2, <3>3, <3>4 DEF AtWork, TreeFits, Unsynced, UpToDate, Local, Outdated, At
      <4>. QED  BY <1>3, <3>3, <3>4, <4>1 DEF PassStepFits, AtWork, Local, Looked, At
    <3>. QED  BY <1>1, <1>3, <1>4, <1>6, <2>1, <2>3, <3>1, <3>2, <3>3, <3>4, StatusKeeps
  <2>5. CASE worker[w].kind \notin {"pass", "run"}
    <3>1. End(w) /\ ~ Apart  BY <1>3, <1>6, <2>5 DEF AfterFailedSync
    <3>. QED  BY <1>1, <1>3, <1>4, <1>6, <2>1, <2>3, <3>1, Ended, StatusKeeps
  <2>. QED  BY <2>4, <2>5
<1>. QED  BY <1>5, <1>6 DEF Fetch

LEMMA RecordSyncKeeps ==
    ASSUME RefreshInv, NEW w \in Workers, RecordSync(w)
    PROVE  RefreshInv'
<1>1. /\ At(w, "synced") /\ UNCHANGED <<tree, analyses, pass, remote, edits>>
      /\ SetStatus(Repo(w), "synced")
  BY DEF RecordSync, outside
<1>2. {"synced", "look", "analyse"} \subseteq PassSteps /\ {"synced", "analyse"} \subseteq RunSteps
      /\ "synced" \in SyncSteps /\ {"synced", "look", "analyse"} \cap Started = {}
  BY DEF PassSteps, RunSteps, SyncSteps, Started
<1>3. /\ worker[w].kind # "none" /\ Repo(w) = worker[w].repo /\ Repo(w) \in Repos /\ worker[w].step = "synced"
      /\ worker[w] \in WorkerTypes /\ WorkerFits(w) /\ record[Repo(w)] \in RecordTypes
      /\ worker[w].kind = "pass" => w \in Repos /\ Repo(w) = w
      /\ Apart => worker[w].kind = "pass" /\ AtWork(w)
  BY <1>1, <1>2, Doing
<1>4. pass' \in PassTypes /\ PassGoesOn  BY <1>1 DEF RefreshInv, Types, PassGoesOn
<1>5. "synced" \in Status /\ "synced" \notin Busy  BY DEF Status, Busy
<1>6. /\ record'[Repo(w)] = [record[Repo(w)] EXCEPT !.status = "synced"] /\ record'[Repo(w)].status = "synced"
      /\ record'[Repo(w)] \in RecordTypes /\ record'[Repo(w)].last = record[Repo(w)].last
      /\ Managed' = Managed
  BY <1>1, <1>3, <1>5 DEF SetStatus, Managed, RefreshInv, Types, RecordTypes
<1>7. StaysOwed(w)  BY <1>5, <1>6 DEF StaysOwed
<1>8. CASE OfPass(w) /\ worker' = [worker EXCEPT ![w].step = "look", ![w].seen = record'[Repo(w)]] /\ UNCHANGED op
  <2>1. worker[w].kind = "pass" /\ Repo(w) = w  BY <1>3, <1>8 DEF OfPass
  <2>2. PICK new : new = [worker[w] EXCEPT !.step = "look", !.seen = record'[Repo(w)]]  OBVIOUS
  <2>3. /\ new \in WorkerTypes /\ new.step = "look" /\ new.kind = "pass" /\ new.repo = worker[w].repo
        /\ new.opts = worker[w].opts /\ new.run = worker[w].run /\ new.seen = record'[Repo(w)]
    BY <1>2, <1>3, <1>6, <2>1, <2>2 DEF WorkerTypes
  <2>4. worker' = [worker EXCEPT ![w] = new] /\ worker'[w] = new  BY <1>8, <2>2 DEF RefreshInv, Types
  <2>5. new.run = 0  BY <1>2, <1>3, <2>3 DEF WorkerFits
  <2>6. new.seen.last \in Runs /\ new.run \in Runs
    BY <1>3, <1>6, <2>3, <2>5, ZeroRuns DEF RefreshInv, RunsExist
  <2>7. GoodMove(w)  BY <1>2, <2>1, <2>3, <2>4, <2>5 DEF GoodMove
  <2>8. ASSUME Apart  PROVE PassStepFits(w)
    <3>1. TreeFits(w)'
      BY <1>1, <1>3, <1>6, <2>3, <2>4, <2>8 DEF AtWork, TreeFits, Unsynced, UpToDate, Local, Outdated, At
    <3>. QED  BY <2>1, <2>3, <2>4, <3>1 DEF PassStepFits, AtWork, Local, Looked, At
  <2>. QED  BY <1>1, <1>3, <1>4, <1>5, <1>7, <1>8, <2>3, <2>4, <2>6, <2>7, <2>8, StatusKeeps
<1>9. CASE worker[w].kind = "run" /\ Goto(w, "analyse") /\ UNCHANGED op
  <2>1. GoodMove(w) /\ ~ Apart  BY <1>1, <1>2, <1>3, <1>9, GoesOn
  <2>2. PICK new \in WorkerTypes :
            worker' = [worker EXCEPT ![w] = new] /\ new.seen.last \in Runs /\ new.run \in Runs
    BY <1>2, <1>9, Stepped
  <2>. QED  BY <1>1, <1>3, <1>4, <1>5, <1>7, <1>9, <2>1, <2>2, StatusKeeps
<1>10. CASE worker[w].kind \in {"sync", "clone"} /\ End(w)
  <2>1. ~ Apart  BY <1>3, <1>10
  <2>. QED  BY <1>1, <1>3, <1>4, <1>5, <1>7, <1>10, <2>1, Ended, StatusKeeps
<1>. QED  BY <1>8, <1>9, <1>10 DEF RecordSync

LEMMA StatKeeps ==
    ASSUME RefreshInv, NEW w \in Workers, Stat(w)
    PROVE  RefreshInv'
<1>1. At(w, "stat") /\ UNCHANGED <<record, op, tree, analyses, pass, remote, edits>>  BY DEF Stat, outside
<1>2. /\ {"stat", "sync", "analyse"} \subseteq RunSteps /\ "stat" \notin PassSteps /\ "stat" \notin SyncSteps
      /\ "stat" \notin Started /\ {"sync", "analyse"} \subseteq Owing
  BY DEF PassSteps, RunSteps, SyncSteps, Started, Owing
<1>3. PICK s \in {"sync", "analyse"} : Goto(w, s)  BY DEF Stat
<1>4. worker[w].kind = "run" /\ Repo(w) = worker[w].repo /\ ~ Apart  BY <1>1, <1>2, Doing
<1>5. GoodMove(w)  BY <1>1, <1>2, <1>3, <1>4, GoesOn
<1>6. PICK new \in WorkerTypes :
          /\ worker' = [worker EXCEPT ![w] = new] /\ worker'[w] = new
          /\ new.step = s /\ new.repo = worker[w].repo /\ new.seen.last \in Runs /\ new.run \in Runs
  BY <1>2, <1>3, Stepped
<1>7. StaysOwed(w)  BY <1>2, <1>4, <1>6 DEF StaysOwed
<1>. QED  BY <1>1, <1>4, <1>5, <1>6, <1>7, MoveKeeps

LEMMA FailKeeps ==
    ASSUME RefreshInv, NEW w \in Workers, Fail(w)
    PROVE  RefreshInv'
<1>1. /\ At(w, "fail") /\ UNCHANGED <<tree, analyses, remote, edits>> /\ End(w)
      /\ SetStatus(Repo(w), "diffmind_failed") /\ pass' = [pass EXCEPT !.failed = @ \/ OfPass(w)]
  BY DEF Fail, outside
<1>2. "fail" \in PassSteps /\ "fail" \in RunSteps /\ "fail" \notin SyncSteps  BY DEF PassSteps, RunSteps, SyncSteps
<1>3. worker[w].kind # "none" /\ Repo(w) \in Repos /\ (Apart => worker[w].kind = "pass")  BY <1>1, <1>2, Doing
<1>4. pass \in PassTypes  BY DEF RefreshInv, Types
<1>5. OfPass(w) \in BOOLEAN  BY DEF OfPass
<1>6. pass' \in PassTypes /\ PassGoesOn /\ (OfPass(w) => pass'.failed)
  BY <1>1, <1>4, <1>5 DEF PassTypes, PassGoesOn
<1>7. "diffmind_failed" \in Status /\ "diffmind_failed" \notin Busy  BY DEF Status, Busy
<1>8. StaysOwed(w)
  <2>1. record'[Repo(w)].status = "diffmind_failed"  BY <1>1, <1>3 DEF SetStatus, RefreshInv, Types, RecordTypes
  <2>. QED  BY <1>7, <2>1 DEF StaysOwed
<1>9. Apart => PassStepFits(w)  BY <1>1, <1>3, <1>6, Ended DEF PassStepFits, Left, OfPass
<1>. QED  BY <1>1, <1>3, <1>6, <1>7, <1>8, <1>9, Ended, StatusKeeps

LEMMA AnalyseKeeps ==
    ASSUME RefreshInv, NEW w \in Workers, Analyse(w)
    PROVE  RefreshInv'
<1>1. At(w, "analyse") /\ UNCHANGED <<record, tree, op, pass, remote, edits>>  BY DEF Analyse, outside
<1>2. /\ {"analyse", "wait", "save"} \subseteq PassSteps /\ {"analyse", "wait", "save"} \subseteq RunSteps
      /\ "analyse" \notin SyncSteps /\ {"wait", "save"} \subseteq Owing
      /\ "analyse" \notin Started /\ {"wait", "save"} \subseteq Started
  BY DEF PassSteps, RunSteps, SyncSteps, Owing, Started
<1>3. /\ worker[w].kind \in {"pass", "run"} /\ Repo(w) = worker[w].repo /\ Repo(w) \in Repos
      /\ worker[w].step = "analyse" /\ worker[w] \in WorkerTypes /\ WorkerFits(w)
      /\ record[Repo(w)] \in RecordTypes /\ record[Repo(w)].status # "none"
      /\ worker[w].opts \in Options
      /\ worker[w].kind = "pass" => w \in Repos /\ Repo(w) = w /\ worker[w].opts = pass.opts
      /\ Apart => worker[w].kind = "pass" /\ AtWork(w) /\ pass.since[w] \in Versions
  BY <1>1, <1>2, Doing
<1>4. worker[w].run = 0  BY <1>2, <1>3 DEF WorkerFits
<1>5. Managed' = Managed  BY <1>1 DEF Managed
<1>6. CASE /\ Len(analyses) < MaxAnalyses
           /\ analyses' = Append(analyses, [repo |-> Repo(w), opts |-> worker[w].opts, state |-> "running",
                                            from |-> Inputs(Repo(w)), to |-> Inputs(Repo(w))])
           /\ worker' = [worker EXCEPT ![w].step = "wait", ![w].run = Len(analyses) + 1]
  <2>0. PICK i \in Nat : i = Len(analyses) + 1  BY DEF RefreshInv, Types
  <2>1. PICK fresh : fresh = [repo |-> Repo(w), opts |-> worker[w].opts, state |-> "running",
                              from |-> Inputs(Repo(w)), to |-> Inputs(Repo(w))]
    OBVIOUS
  <2>2. Inputs(Repo(w)) \in Versions  BY <1>3 DEF Inputs, Versions, RefreshInv, Types
  <2>3. /\ fresh \in AnalysisTypes /\ fresh.repo = Repo(w) /\ fresh.opts = worker[w].opts
        /\ fresh.state = "running" /\ fresh.from = Inputs(Repo(w))
    BY <1>3, <2>1, <2>2 DEF AnalysisTypes
  <2>4. /\ analyses \in Seq(AnalysisTypes) /\ analyses' = Append(analyses, fresh) /\ Len(analyses) \in Nat
    BY <1>6, <2>1 DEF RefreshInv, Types
  <2>5. /\ analyses' \in Seq(AnalysisTypes) /\ Len(analyses') = i /\ i \in DOMAIN analyses'
        /\ analyses'[i] = fresh /\ \A j \in 1..Len(analyses) : analyses'[j] = analyses[j]
    BY <2>0, <2>3, <2>4
  <2>6. AnalysesGoOn  BY <2>4, <2>5 DEF AnalysesGoOn
  <2>7. \A r \in Repos : r # Repo(w) => NoneAdded(r)  BY <2>3, <2>4, <2>5 DEF NoneAdded
  <2>8. worker' = [worker EXCEPT ![w].step = "wait", ![w].run = i]  BY <1>6, <2>0
  <2>9. Runs \subseteq Runs' /\ i \in Runs' /\ i # 0  BY <2>0, <2>4, <2>5 DEF Runs
  <2>10. \A j \in DOMAIN analyses' : j <= i  BY <2>0, <2>4, <2>5
  <2>11. PICK new : new = [worker[w] EXCEPT !.step = "wait", !.run = i]  OBVIOUS
  <2>12. /\ new \in WorkerTypes /\ new.step = "wait" /\ new.kind = worker[w].kind /\ new.repo = worker[w].repo
        /\ new.opts = worker[w].opts /\ new.run = i /\ new.seen = worker[w].seen
        /\ new.fingerprint = worker[w].fingerprint
    BY <1>2, <1>3, <2>11, <2>8 DEF WorkerTypes
  <2>13. worker' = [worker EXCEPT ![w] = new] /\ worker'[w] = new  BY <2>8, <2>11 DEF RefreshInv, Types
  <2>14. /\ Types' /\ \A v \in Workers : v # w => worker'[v] = worker[v]
    BY <1>1, <2>5, <2>12, <2>13 DEF RefreshInv, Types
  <2>15. PassGoesOn  BY <1>1 DEF PassGoesOn
  <2>16. StepOf(w)  BY <1>1, <1>3, <2>6, <2>7, <2>14, <2>15 DEF StepOf
  <2>17. NamesRuns(w)
    BY <1>1, <1>3, <2>12, <2>13, <2>9 DEF NamesRuns, RefreshInv, RunsExist
  <2>18. GoodMove(w)
    <3>1. Waits(w)'  BY <1>3, <2>3, <2>9, <2>5, <2>12, <2>13 DEF Waits
    <3>. QED  BY <1>2, <1>3, <2>12, <2>13, <3>1 DEF GoodMove
  <2>19. StaysOwed(w)  BY <1>2, <1>3, <2>12, <2>13 DEF StaysOwed
  <2>20. ASSUME Apart  PROVE PassStepFits(w)
    <3>1. /\ AtWork(w) /\ w \in Repos /\ Repo(w) = w /\ worker[w].opts = pass.opts /\ pass.since[w] \in Versions
      BY <1>3, <2>20
    <3>2. TreeFits(w)'
      BY <1>1, <1>3, <1>5, <2>12, <2>13, <3>1 DEF AtWork, TreeFits, Unsynced, UpToDate, Local, Outdated, At
    <3>3. LookFits(w) /\ LookFits(w)'
      BY <1>1, <1>2, <1>3, <2>12, <2>13, <3>1 DEF AtWork, LookFits, Looked
    <3>4. pass.since[w].tree <= tree[w] /\ pass.since[w].edits <= edits
      BY <1>3, <3>1 DEF AtWork, TreeFits, UpToDate, Outdated
    <3>5. analyses'[i].from.tree = tree[w] /\ analyses'[i].from.edits = edits
      BY <2>3, <2>5, <3>1 DEF Inputs
    <3>6. /\ tree[w] \in Nat /\ edits \in Nat
          /\ pass.since[w].tree \in Nat /\ pass.since[w].edits \in Nat
      BY <3>1, Bounds DEF RefreshInv, Types, Versions
    <3>7. Fresh(i, w)'  BY <1>1, <2>3, <2>5, <3>1, <3>4, <3>5, <3>6 DEF Fresh, AtLeast
    <3>8. OwnRun(i, w)'
      <4>1. worker'[w].fingerprint # None => worker'[w].fingerprint.inputs.edits <= analyses'[i].from.edits
        BY <1>3, <2>12, <2>13, <3>1, <3>3, <3>5 DEF LookFits
      <4>2. analyses'[i].from.edits <= edits  BY <3>5, <3>6
      <4>. QED  BY <1>1, <2>3, <2>5, <3>1, <3>5, <3>7, <4>1, <4>2 DEF OwnRun
    <3>9. AtWork(w)'  BY <1>3, <2>12, <2>13, <2>10, <3>2, <3>3, <3>8 DEF AtWork, Local, At
    <3>. QED  BY <1>3, <2>12, <2>13, <3>9, <2>20 DEF PassStepFits
  <2>21. TruthOf(Repo(w)) /\ record' = record  BY <1>1, <1>3 DEF RefreshInv, TruthFits
  <2>22. PICK R \in Repos : R = Repo(w)  BY <1>3
  <2>23. TruthOf(R)'  BY <2>6, <2>21, <2>22, TruthStays
  <2>. QED  BY <1>3, <2>14, <2>16, <2>17, <2>18, <2>19, <2>20, <2>22, <2>23, StepKeeps
<1>7. CASE Cancelled(w) /\ worker' = [worker EXCEPT ![w].step = "save"] /\ UNCHANGED analyses
  <2>1. Goto(w, "save")  BY <1>7 DEF Goto
  <2>2. GoodMove(w)  BY <1>1, <1>2, <1>3, <2>1, GoesOn
  <2>3. PICK new \in WorkerTypes :
            /\ worker' = [worker EXCEPT ![w] = new] /\ worker'[w] = new
            /\ new.step = "save" /\ new.kind = worker[w].kind /\ new.repo = worker[w].repo
            /\ new.run = worker[w].run /\ new.fingerprint = worker[w].fingerprint
            /\ new.seen.last \in Runs /\ new.run \in Runs
    BY <1>2, <2>1, Stepped
  <2>4. StaysOwed(w)  BY <1>2, <1>3, <2>3 DEF StaysOwed
  <2>5. ASSUME Apart  PROVE PassStepFits(w)
    <3>1. AtWork(w)  BY <1>3, <2>5
    <3>2. TreeFits(w)'
      BY <1>1, <1>3, <1>5, <2>3, <3>1 DEF AtWork, TreeFits, Unsynced, UpToDate, Local, Outdated, At
    <3>3. LookFits(w)'  BY <1>1, <1>2, <1>3, <2>3, <3>1 DEF AtWork, LookFits, Looked
    <3>. QED  BY <1>3, <1>4, <2>3, <2>5, <3>2, <3>3 DEF PassStepFits, AtWork, Local, At
  <2>. QED  BY <1>1, <1>3, <1>7, <2>2, <2>3, <2>4, <2>5, MoveKeeps
<1>. QED  BY <1>6, <1>7 DEF Analyse

LEMMA NewestIsPublished ==
    ASSUME RefreshInv, NEW r, Published(r) # {}
    PROVE  /\ Newest(r) \in Published(r) /\ Newest(r) \in 1..Len(analyses)
           /\ \A j \in Published(r) : Newest(r) >= j
<1>1. Len(analyses) \in Nat /\ Published(r) \in SUBSET (1..Len(analyses))  BY DEF RefreshInv, Types, Published
<1>2. \E i \in Published(r) : \A j \in Published(r) : i >= j  BY <1>1, HasGreatest
<1>. QED  BY <1>1, <1>2 DEF Newest

LEMMA CollectKeeps ==
    ASSUME RefreshInv, NEW w \in Workers, Collect(w)
    PROVE  RefreshInv'
<1>. DEFINE i == worker[w].run
<1>1. At(w, "wait") /\ UNCHANGED <<record, tree, op, pass, remote, edits>>  BY DEF Collect, outside
<1>2. /\ {"wait", "save"} \subseteq PassSteps /\ {"wait", "save"} \subseteq RunSteps
      /\ "wait" \notin SyncSteps /\ "save" \in Owing /\ "save" \in Started
  BY DEF PassSteps, RunSteps, SyncSteps, Owing, Started
<1>3. /\ worker[w].kind \in {"pass", "run"} /\ Repo(w) = worker[w].repo /\ Repo(w) \in Repos
      /\ worker[w].step = "wait" /\ worker[w] \in WorkerTypes /\ WorkerFits(w)
      /\ record[Repo(w)] \in RecordTypes /\ record[Repo(w)].status # "none"
      /\ worker[w].kind = "pass" => w \in Repos /\ Repo(w) = w
      /\ Apart => worker[w].kind = "pass" /\ AtWork(w)
  BY <1>1, <1>2, Doing
<1>4. i \in Runs /\ i \in Nat /\ i \in 1..Len(analyses) /\ i \in DOMAIN analyses /\ analyses[i].repo = Repo(w)
  <2>1. Waits(w)  BY <1>3 DEF WorkerFits
  <2>2. analyses \in Seq(AnalysisTypes) /\ i \in Runs  BY DEF RefreshInv, Types, RunsExist
  <2>. QED  BY <1>3, <2>1, <2>2 DEF Waits, Runs
<1>5. Managed' = Managed  BY <1>1 DEF Managed
<1>6. CASE /\ Cancelled(w)
           /\ analyses' = [analyses EXCEPT ![i].state = IF @ = "running" THEN "failed" ELSE @]
           /\ worker' = [worker EXCEPT ![w].step = "save", ![w].run = 0]
  <2>1. analyses \in Seq(AnalysisTypes) /\ analyses[i] \in AnalysisTypes
    BY <1>4 DEF RefreshInv, Types
  <2>2. PICK ended : ended = [analyses[i] EXCEPT !.state = IF analyses[i].state = "running" THEN "failed" ELSE @]
    OBVIOUS
  <2>3. /\ ended \in AnalysisTypes /\ ended.repo = analyses[i].repo /\ ended.opts = analyses[i].opts
        /\ ended.from = analyses[i].from
        /\ analyses[i].state # "running" => ended = analyses[i]
        /\ analyses[i].state = "running" => ended.state = "failed"
    BY <2>1, <2>2 DEF AnalysisTypes
  <2>4. analyses' = [analyses EXCEPT ![i] = ended]  BY <1>4, <1>6, <2>1, <2>2
  <2>5. /\ analyses' \in Seq(AnalysisTypes) /\ Len(analyses') = Len(analyses) /\ analyses'[i] = ended
        /\ \A j \in 1..Len(analyses) : j # i => analyses'[j] = analyses[j]
    BY <1>4, <2>1, <2>3, <2>4
  <2>6. AnalysesGoOn
    <3>1. \A j \in 1..Len(analyses) : j = i \/ analyses'[j] = analyses[j]  BY <2>5
    <3>. QED  BY <2>1, <2>3, <2>5, <3>1 DEF AnalysesGoOn
  <2>7. \A r \in Repos : NoneAdded(r)  BY <2>5 DEF NoneAdded
  <2>8. PICK new : new = [worker[w] EXCEPT !.step = "save", !.run = 0]  OBVIOUS
  <2>9. /\ new \in WorkerTypes /\ new.step = "save" /\ new.kind = worker[w].kind /\ new.repo = worker[w].repo
        /\ new.opts = worker[w].opts /\ new.run = 0 /\ new.seen = worker[w].seen
        /\ new.fingerprint = worker[w].fingerprint
    BY <1>2, <1>3, <2>8 DEF WorkerTypes
  <2>10. worker' = [worker EXCEPT ![w] = new] /\ worker'[w] = new  BY <1>6, <2>8 DEF RefreshInv, Types
  <2>11. /\ Types' /\ \A v \in Workers : v # w => worker'[v] = worker[v]
    BY <1>1, <2>5, <2>9, <2>10 DEF RefreshInv, Types
  <2>12. PassGoesOn  BY <1>1 DEF PassGoesOn
  <2>13. StepOf(w)  BY <1>1, <1>3, <2>6, <2>7, <2>11, <2>12 DEF StepOf
  <2>14. Runs = Runs' /\ 0 \in Runs  BY <2>5, ZeroRuns DEF Runs
  <2>15. NamesRuns(w)  BY <1>1, <1>3, <2>9, <2>10, <2>14 DEF NamesRuns, RefreshInv, RunsExist
  <2>16. GoodMove(w)  BY <1>2, <1>3, <2>9, <2>10 DEF GoodMove
  <2>17. StaysOwed(w)  BY <1>2, <1>3, <2>9, <2>10 DEF StaysOwed
  <2>18. ASSUME Apart  PROVE PassStepFits(w)
    <3>1. AtWork(w)  BY <1>3, <2>18
    <3>2. TreeFits(w)'
      BY <1>1, <1>3, <1>5, <2>9, <2>10, <3>1 DEF AtWork, TreeFits, Unsynced, UpToDate, Local, Outdated, At
    <3>3. LookFits(w)'  BY <1>1, <1>3, <2>9, <2>10, <3>1 DEF AtWork, LookFits, Looked
    <3>4. AtWork(w)'  BY <2>9, <2>10, <3>2, <3>3 DEF AtWork, Local, At
    <3>. QED  BY <1>3, <2>9, <2>10, <2>18, <3>4 DEF PassStepFits
  <2>19. TruthOf(Repo(w)) /\ record' = record  BY <1>1, <1>3 DEF RefreshInv, TruthFits
  <2>20. PICK R \in Repos : R = Repo(w)  BY <1>3
  <2>21. TruthOf(R)'  BY <2>6, <2>19, <2>20, TruthStays
  <2>. QED  BY <1>3, <2>11, <2>13, <2>15, <2>16, <2>17, <2>18, <2>20, <2>21, StepKeeps
<1>7. CASE /\ analyses[i].state # "running" /\ UNCHANGED analyses
           /\ worker' = [worker EXCEPT ![w].step = "save",
                  ![w].run = IF analyses[i].state = "published" THEN Newest(Repo(w)) ELSE 0]
  <2>1. PICK n : n = IF analyses[i].state = "published" THEN Newest(Repo(w)) ELSE 0  OBVIOUS
  <2>2. n \in Runs /\ n \in Nat
    <3>1. CASE analyses[i].state = "published"
      <4>1. i \in Published(Repo(w))  BY <1>4, <3>1 DEF Published
      <4>2. n \in 1..Len(analyses)  BY <2>1, <3>1, <4>1, NewestIsPublished
      <4>. QED  BY <4>2 DEF Runs
    <3>2. CASE analyses[i].state # "published"  BY <2>1, <3>2, ZeroRuns
    <3>. QED  BY <3>1, <3>2
  <2>3. PICK new : new = [worker[w] EXCEPT !.step = "save", !.run = n]  OBVIOUS
  <2>4. /\ new \in WorkerTypes /\ new.step = "save" /\ new.kind = worker[w].kind /\ new.repo = worker[w].repo
        /\ new.opts = worker[w].opts /\ new.run = n /\ new.seen = worker[w].seen
        /\ new.fingerprint = worker[w].fingerprint
    BY <1>2, <1>3, <2>2, <2>3 DEF WorkerTypes
  <2>5. worker' = [worker EXCEPT ![w] = new] /\ worker'[w] = new  BY <1>7, <2>1, <2>3 DEF RefreshInv, Types
  <2>6. new.seen.last \in Runs /\ new.run \in Runs  BY <2>2, <2>4 DEF RefreshInv, RunsExist
  <2>7. GoodMove(w)  BY <1>2, <1>3, <2>4, <2>5 DEF GoodMove
  <2>8. StaysOwed(w)  BY <1>2, <1>3, <2>4, <2>5 DEF StaysOwed
  <2>9. ASSUME Apart  PROVE PassStepFits(w)
    <3>1. AtWork(w) /\ Repo(w) = w /\ w \in Repos  BY <1>3, <2>9
    <3>2. TreeFits(w)'
      BY <1>1, <1>3, <1>5, <2>4, <2>5, <3>1 DEF AtWork, TreeFits, Unsynced, UpToDate, Local, Outdated, At
    <3>3. LookFits(w)'  BY <1>1, <1>3, <2>4, <2>5, <3>1 DEF AtWork, LookFits, Looked
    <3>4. ASSUME n # 0  PROVE OwnResult(n, w)'
      <4>1. analyses[i].state = "published"  BY <2>1, <3>4
      <4>2. OwnRun(i, w) /\ \A j \in DOMAIN analyses : analyses[j].repo = w => j <= i
        BY <1>3, <3>1 DEF AtWork, At
      <4>3. i \in Published(w) /\ \A j \in Published(w) : j <= i
        BY <1>4, <3>1, <4>1, <4>2 DEF Published
      <4>4. n = i
        <5>1. n \in Published(w) /\ n \in 1..Len(analyses) /\ n >= i
          BY <2>1, <3>1, <4>1, <4>3, NewestIsPublished
        <5>2. n <= i  BY <4>3, <5>1
        <5>. QED  BY <1>4, <2>2, <5>1, <5>2
      <4>5. OwnRun(n, w) /\ analyses[n].state = "published"  BY <4>1, <4>2, <4>4
      <4>. QED  BY <1>1, <1>7, <2>4, <2>5, <4>5 DEF OwnResult, OwnRun, Fresh
    <3>5. AtWork(w)'  BY <2>4, <2>5, <3>2, <3>3, <3>4 DEF AtWork, Local, At
    <3>. QED  BY <1>3, <2>4, <2>5, <2>9, <3>5 DEF PassStepFits
  <2>. QED  BY <1>1, <1>3, <1>7, <2>4, <2>5, <2>6, <2>7, <2>8, <2>9, MoveKeeps
<1>. QED  BY <1>6, <1>7 DEF Collect

LEMMA SaveRunKeeps ==
    ASSUME RefreshInv, NEW w \in Workers, SaveRun(w)
    PROVE  RefreshInv'
<1>1. At(w, "save") /\ UNCHANGED <<tree, analyses, pass, remote, edits>>  BY DEF SaveRun, outside
<1>2. /\ {"digest", "save"} \subseteq PassSteps /\ "save" \in RunSteps
      /\ "save" \notin SyncSteps /\ {"save", "digest"} \subseteq Started
  BY DEF PassSteps, RunSteps, SyncSteps, Started
<1>3. /\ worker[w].kind \in {"pass", "run"} /\ Repo(w) = worker[w].repo /\ Repo(w) \in Repos
      /\ worker[w].step = "save" /\ worker[w] \in WorkerTypes
      /\ record[Repo(w)] \in RecordTypes
      /\ worker[w].kind = "pass" => w \in Repos /\ Repo(w) = w
      /\ Apart => worker[w].kind = "pass" /\ AtWork(w)
  BY <1>1, <1>2, Doing
<1>4. PICK R \in Repos : R = Repo(w)  BY <1>3
<1>5. PICK n \in Nat : n = worker[w].run  BY <1>3 DEF WorkerTypes
<1>6. {"diffmind_failed", "diffmind_completed"} \subseteq Status \ Busy  BY DEF Status, Busy
<1>7. PICK written : written = IF n = 0 THEN [record[R] EXCEPT !.status = "diffmind_failed"]
                               ELSE [record[R] EXCEPT !.status = "diffmind_completed", !.last = n]
  OBVIOUS
<1>8. /\ written \in RecordTypes /\ written.status \in {"diffmind_failed", "diffmind_completed"}
      /\ written.git = record[R].git /\ written.digest = record[R].digest
      /\ written.fingerprint = record[R].fingerprint /\ written.alone = record[R].alone
      /\ written.last = IF n = 0 THEN record[R].last ELSE n
      /\ written.status = "diffmind_completed" => n # 0
  BY <1>3, <1>4, <1>5, <1>6, <1>7 DEF RecordTypes
<1>9. record' = [record EXCEPT ![R] = written]
  BY <1>4, <1>5, <1>7 DEF SaveRun, RefreshInv, Types
<1>10. record'[R] = written  BY <1>4, <1>9 DEF RefreshInv, Types
<1>11. written.last \in Runs /\ written.digest \in Runs  BY <1>4, <1>5, <1>8 DEF RefreshInv, RunsExist
<1>12. written.status # "none" /\ StaysOwed(w)  BY <1>4, <1>6, <1>8, <1>10 DEF StaysOwed, Status, Busy
<1>13. pass' \in PassTypes /\ PassGoesOn /\ Managed' = Managed
  <2>1. Managed' = Managed  BY <1>4, <1>8, <1>9 DEF Managed, RefreshInv, Types
  <2>. QED  BY <1>1, <2>1 DEF RefreshInv, Types, PassGoesOn
<1>14. TruthOf(R)'
  <2>1. AnalysesGoOn  BY <1>1, NoAnalysis
  <2>. QED  BY <1>4, <1>8, <1>10, <2>1, TruthStays
<1>15. CASE Goto(w, "digest") /\ UNCHANGED op /\ worker[w].kind = "pass"
  <2>1. GoodMove(w)  BY <1>1, <1>2, <1>15, GoesOn
  <2>2. PICK new \in WorkerTypes :
            /\ worker' = [worker EXCEPT ![w] = new] /\ worker'[w] = new
            /\ new.step = "digest" /\ new.kind = worker[w].kind
            /\ new.fingerprint = worker[w].fingerprint /\ new.seen.last \in Runs /\ new.run \in Runs
    BY <1>2, <1>15, Stepped
  <2>3. ASSUME Apart  PROVE PassStepFits(w)
    <3>1. AtWork(w) /\ R = w  BY <1>3, <1>4, <2>3
    <3>2. TreeFits(w)'
      BY <1>1, <1>3, <1>13, <2>2, <3>1 DEF AtWork, TreeFits, Unsynced, UpToDate, Local, Outdated, At
    <3>3. LookFits(w)'  BY <1>1, <1>3, <2>2, <3>1 DEF AtWork, LookFits, Looked
    <3>4. ASSUME n # 0  PROVE OwnResult(n, w)'
      <4>1. OwnResult(n, w)  BY <1>3, <1>5, <3>1, <3>4 DEF AtWork, At
      <4>. QED  BY <1>1, <2>2, <4>1 DEF OwnResult, OwnRun, Fresh
    <3>5. AtWork(w)'  BY <1>8, <1>10, <2>2, <3>1, <3>2, <3>3, <3>4 DEF AtWork, Local, At
    <3>. QED  BY <1>15, <2>2, <3>5 DEF PassStepFits
  <2>. QED  BY <1>1, <1>3, <1>4, <1>8, <1>9, <1>11, <1>12, <1>13, <1>14, <1>15, <2>1, <2>2, <2>3, WriteKeeps
<1>16. CASE End(w) /\ worker[w].kind # "pass"
  <2>1. ~ Apart  BY <1>3, <1>16
  <2>. QED  BY <1>1, <1>3, <1>4, <1>8, <1>9, <1>11, <1>12, <1>13, <1>14, <1>16, <2>1, Ended, WriteKeeps
<1>. QED  BY <1>15, <1>16 DEF SaveRun, OfPass

LEMMA FingerprintsTaken ==
    ASSUME RefreshInv, NEW w \in Workers, worker[w].opts \in Options, Repo(w) \in Repos,
           NEW fingerprint \in Fingerprints(w)
    PROVE  /\ fingerprint \in FingerprintSet
           /\ fingerprint # None =>
                  fingerprint.opts = worker[w].opts /\ fingerprint.inputs = [tree |-> tree[Repo(w)], edits |-> edits]
<1>1. Inputs(Repo(w)) \in Versions  BY DEF Inputs, Versions, RefreshInv, Types
<1>. QED  BY <1>1 DEF Fingerprints, FingerprintSet, Inputs

LEMMA LookKeeps ==
    ASSUME RefreshInv, NEW w \in Workers, Look(w)
    PROVE  RefreshInv'
<1>1. At(w, "look") /\ UNCHANGED <<record, tree, op, analyses, pass, remote, edits>>  BY DEF Look, outside
<1>2. /\ {"look", "reuse", "mark"} \subseteq PassSteps /\ "look" \notin RunSteps
      /\ {"look", "reuse", "mark"} \cap Started = {} /\ {"look", "reuse", "mark"} \cap Owing = {}
  BY DEF PassSteps, RunSteps, Started, Owing
<1>3. /\ worker[w].kind = "pass" /\ w \in Repos /\ Repo(w) = w /\ worker[w].opts = pass.opts
      /\ worker[w].step = "look" /\ worker[w] \in WorkerTypes /\ WorkerFits(w) /\ worker[w].opts \in Options
      /\ Apart => AtWork(w) /\ pass.since[w] \in Versions
  BY <1>1, <1>2, Doing
<1>4. PICK fingerprint \in Fingerprints(w), s \in {"reuse", "mark"} :
          /\ worker' = [worker EXCEPT ![w].fingerprint = fingerprint, ![w].step = s]
          /\ s = "reuse" => Reusable(worker[w].seen, fingerprint)
  <2>1. PICK fingerprint \in Fingerprints(w) :
            worker' = [worker EXCEPT ![w].fingerprint = fingerprint,
                ![w].step = IF ~ pass.force /\ Reusable(worker[w].seen, fingerprint) THEN "reuse" ELSE "mark"]
    BY DEF Look
  <2>2. PICK s : s = IF ~ pass.force /\ Reusable(worker[w].seen, fingerprint) THEN "reuse" ELSE "mark"  OBVIOUS
  <2>. QED  BY <2>1, <2>2
<1>5. /\ fingerprint \in FingerprintSet
      /\ fingerprint # None =>
             fingerprint.opts = pass.opts /\ fingerprint.inputs = [tree |-> tree[w], edits |-> edits]
  BY <1>3, FingerprintsTaken
<1>6. PICK new : new = [worker[w] EXCEPT !.fingerprint = fingerprint, !.step = s]  OBVIOUS
<1>7. /\ new \in WorkerTypes /\ new.step = s /\ new.kind = "pass" /\ new.repo = worker[w].repo
      /\ new.opts = worker[w].opts /\ new.run = worker[w].run /\ new.seen = worker[w].seen
      /\ new.fingerprint = fingerprint
  BY <1>2, <1>3, <1>5, <1>6 DEF WorkerTypes
<1>8. worker' = [worker EXCEPT ![w] = new] /\ worker'[w] = new  BY <1>4, <1>6 DEF RefreshInv, Types
<1>9. new.run = 0  BY <1>2, <1>3, <1>7 DEF WorkerFits
<1>10. new.seen.last \in Runs /\ new.run \in Runs  BY <1>7 DEF RefreshInv, RunsExist
<1>11. GoodMove(w)  BY <1>2, <1>3, <1>7, <1>8, <1>9 DEF GoodMove
<1>12. StaysOwed(w)  BY <1>1, <1>2, <1>3 DEF StaysOwed
<1>13. ASSUME Apart  PROVE PassStepFits(w)
  <2>1. AtWork(w) /\ pass.since[w] \in Versions /\ Managed' = Managed  BY <1>1, <1>3, <1>13 DEF Managed
  <2>2. TreeFits(w)'
    BY <1>1, <1>3, <1>7, <1>8, <2>1 DEF AtWork, TreeFits, Unsynced, UpToDate, Local, Outdated, At
  <2>3. LookFits(w)'
    <3>1. pass.since[w].tree <= tree[w] /\ pass.since[w].edits <= edits
      BY <1>3, <2>1 DEF AtWork, TreeFits, UpToDate, Outdated
    <3>2. /\ tree[w] \in Nat /\ edits \in Nat
          /\ pass.since[w].tree \in Nat /\ pass.since[w].edits \in Nat
      BY <1>3, <2>1, Bounds DEF RefreshInv, Types, Versions
    <3>. QED  BY <1>1, <1>5, <1>7, <1>8, <3>1, <3>2 DEF LookFits, AtLeast
  <2>4. ASSUME s = "reuse"
        PROVE  /\ fingerprint # None /\ record[w].fingerprint = fingerprint
               /\ record[w].digest # 0 /\ record[w].digest = record[w].last
    <3>1. worker[w].seen = record[w]  BY <1>1, <2>1 DEF AtWork
    <3>. QED  BY <1>4, <2>4, <3>1 DEF Reusable
  <2>5. AtWork(w)'  BY <1>1, <1>7, <1>8, <2>2, <2>3, <2>4 DEF AtWork, Local, At
  <2>. QED  BY <1>7, <1>8, <2>5 DEF PassStepFits
<1>. QED  BY <1>1, <1>3, <1>7, <1>8, <1>10, <1>11, <1>12, <1>13, MoveKeeps

LEMMA ReuseKeeps ==
    ASSUME RefreshInv, NEW w \in Workers, Reuse(w)
    PROVE  RefreshInv'
<1>1. /\ At(w, "reuse") /\ UNCHANGED <<tree, analyses, pass, remote, edits>>
      /\ SetStatus(Repo(w), "diffmind_completed") /\ End(w)
  BY DEF Reuse, outside
<1>2. "reuse" \in PassSteps /\ "reuse" \notin RunSteps /\ "reuse" \in Looked  BY DEF PassSteps, RunSteps, Looked
<1>3. /\ worker[w].kind = "pass" /\ w \in Repos /\ Repo(w) = w /\ worker[w].step = "reuse"
      /\ record[w] \in RecordTypes /\ (Apart => AtWork(w) /\ pass.since[w] \in Versions)
  BY <1>1, <1>2, Doing
<1>4. "diffmind_completed" \in Status /\ "diffmind_completed" \notin Busy  BY DEF Status, Busy
<1>5. record'[w] = [record[w] EXCEPT !.status = "diffmind_completed"]
  BY <1>1, <1>3 DEF SetStatus, RefreshInv, Types
<1>6. /\ record'[w].status = "diffmind_completed" /\ record'[w].fingerprint = record[w].fingerprint
      /\ record'[w].alone = record[w].alone /\ record'[w].last = record[w].last
  BY <1>3, <1>5 DEF RecordTypes
<1>7. StaysOwed(w)  BY <1>3, <1>4, <1>6 DEF StaysOwed
<1>8. ASSUME Apart  PROVE PassStepFits(w)
  <2>1. /\ LookFits(w) /\ worker[w].fingerprint # None /\ record[w].fingerprint = worker[w].fingerprint
        /\ record[w].digest # 0 /\ record[w].digest = record[w].last
    BY <1>2, <1>3, <1>8 DEF AtWork, At
  <2>2. ASSUME record[w].alone  PROVE Fresh(record[w].last, w)
    <3>1. Truthful(record[w])  BY <1>3, <2>1, <2>2 DEF RefreshInv, TruthFits, TruthOf
    <3>2. record[w].last \in DOMAIN analyses
      BY <1>3, <2>1 DEF RefreshInv, Types, RunsExist, Runs
    <3>. QED  BY <2>1, <3>1, <3>2 DEF Truthful, LookFits, Fresh
  <2>3. Left(w)'  BY <1>1, <1>6, <2>1, <2>2 DEF Left, Fresh
  <2>. QED  BY <1>1, <2>3, Ended DEF PassStepFits
<1>9. pass' \in PassTypes /\ PassGoesOn  BY <1>1 DEF RefreshInv, Types, PassGoesOn
<1>. QED  BY <1>1, <1>3, <1>4, <1>7, <1>8, <1>9, Ended, StatusKeeps

LEMMA MarkKeeps ==
    ASSUME RefreshInv, NEW w \in Workers, Mark(w)
    PROVE  RefreshInv'
<1>1. At(w, "mark") /\ UNCHANGED <<tree, op, analyses, pass, remote, edits>>  BY DEF Mark, outside
<1>2. /\ {"mark", "analyse"} \subseteq PassSteps /\ "mark" \notin RunSteps
      /\ {"mark", "analyse"} \cap Started = {} /\ "analyse" \in Owing
  BY DEF PassSteps, RunSteps, Started, Owing
<1>3. /\ worker[w].kind = "pass" /\ w \in Repos /\ Repo(w) = w
      /\ worker[w].step = "mark" /\ worker[w] \in WorkerTypes /\ WorkerFits(w)
      /\ record[w] \in RecordTypes /\ (Apart => AtWork(w))
  BY <1>1, <1>2, Doing
<1>4. PICK written : written = [record[w] EXCEPT !.status = "diffmind_running", !.fingerprint = None,
                                                 !.digest = 0, !.alone = FALSE]
  OBVIOUS
<1>5. "diffmind_running" \in Status /\ "diffmind_running" # "none" /\ None \in FingerprintSet
  BY DEF Status, Busy, FingerprintSet
<1>6. /\ written \in RecordTypes /\ written.status = "diffmind_running" /\ written.git = record[w].git
      /\ written.last = record[w].last /\ written.digest = 0 /\ written.fingerprint = None
  BY <1>3, <1>4, <1>5 DEF RecordTypes
<1>7. record' = [record EXCEPT ![w] = written] /\ record'[w] = written
  BY <1>3, <1>4 DEF Mark, RefreshInv, Types
<1>8. written.last \in Runs /\ written.digest \in Runs
  BY <1>3, <1>6, ZeroRuns DEF RefreshInv, RunsExist
<1>9. PICK new : new = [worker[w] EXCEPT !.step = "analyse", !.seen = NoRecord]  OBVIOUS
<1>10. /\ new \in WorkerTypes /\ new.step = "analyse" /\ new.kind = "pass" /\ new.repo = worker[w].repo
       /\ new.opts = worker[w].opts /\ new.run = worker[w].run /\ new.seen = NoRecord
       /\ new.fingerprint = worker[w].fingerprint
  BY <1>2, <1>3, <1>9, Nobody DEF WorkerTypes
<1>11. worker' = [worker EXCEPT ![w] = new] /\ worker'[w] = new
  BY <1>9 DEF Mark, RefreshInv, Types
<1>12. new.run = 0  BY <1>2, <1>3, <1>10 DEF WorkerFits
<1>13. new.seen.last \in Runs /\ new.run \in Runs  BY <1>10, <1>12, Nobody, ZeroRuns
<1>14. GoodMove(w)  BY <1>2, <1>3, <1>10, <1>11, <1>12 DEF GoodMove
<1>15. StaysOwed(w)  BY <1>2, <1>3, <1>10, <1>11 DEF StaysOwed, Repo
<1>16. TruthOf(w)'  BY <1>6, <1>7 DEF TruthOf
<1>17. ASSUME Apart  PROVE PassStepFits(w)
  <2>1. AtWork(w)  BY <1>3, <1>17
  <2>2. Managed' = Managed  BY <1>3, <1>6, <1>7 DEF Managed, RefreshInv, Types
  <2>3. TreeFits(w)'
    BY <1>1, <1>3, <1>10, <1>11, <2>1, <2>2 DEF AtWork, TreeFits, Unsynced, UpToDate, Local, Outdated, At
  <2>4. LookFits(w)'  BY <1>1, <1>3, <1>10, <1>11, <2>1 DEF AtWork, LookFits, Looked
  <2>5. AtWork(w)'  BY <1>10, <1>11, <2>3, <2>4 DEF AtWork, Local, At
  <2>. QED  BY <1>10, <1>11, <2>5 DEF PassStepFits
<1>18. pass' \in PassTypes /\ PassGoesOn  BY <1>1 DEF RefreshInv, Types, PassGoesOn
<1>. QED  BY <1>1, <1>3, <1>5, <1>6, <1>7, <1>8, <1>10, <1>11, <1>13, <1>14, <1>15, <1>16, <1>17, <1>18, WriteKeeps

LEMMA DigestKeeps ==
    ASSUME RefreshInv, NEW w \in Workers, Digest(w)
    PROVE  RefreshInv'
<1>1. At(w, "digest") /\ UNCHANGED <<record, tree, op, analyses, pass, remote, edits>>  BY DEF Digest, outside
<1>2. /\ {"digest", "checkpoint", "fail"} \subseteq PassSteps /\ "digest" \notin RunSteps
      /\ {"checkpoint", "fail"} \subseteq Started /\ "digest" \notin Owing
  BY DEF PassSteps, RunSteps, Started, Owing
<1>3. /\ worker[w].kind = "pass" /\ w \in Repos /\ Repo(w) = w
      /\ worker[w].step = "digest" /\ worker[w] \in WorkerTypes
      /\ record[w] \in RecordTypes /\ (Apart => AtWork(w))
  BY <1>1, <1>2, Doing
<1>4. PICK s \in {"checkpoint", "fail"} :
          /\ worker' = [worker EXCEPT ![w].seen = record[w], ![w].step = s]
          /\ s = "checkpoint" => record[w].status = "diffmind_completed"
  <2>1. PICK s : s = IF record[w].status = "diffmind_completed" THEN "checkpoint" ELSE "fail"  OBVIOUS
  <2>. QED  BY <1>3, <2>1 DEF Digest
<1>5. PICK new : new = [worker[w] EXCEPT !.seen = record[w], !.step = s]  OBVIOUS
<1>6. /\ new \in WorkerTypes /\ new.step = s /\ new.kind = "pass" /\ new.repo = worker[w].repo
      /\ new.opts = worker[w].opts /\ new.run = worker[w].run /\ new.seen = record[w]
      /\ new.fingerprint = worker[w].fingerprint
  BY <1>2, <1>3, <1>5 DEF WorkerTypes
<1>7. worker' = [worker EXCEPT ![w] = new] /\ worker'[w] = new  BY <1>4, <1>5 DEF RefreshInv, Types
<1>8. new.seen.last \in Runs /\ new.run \in Runs  BY <1>3, <1>6 DEF RefreshInv, RunsExist
<1>9. GoodMove(w)  BY <1>2, <1>3, <1>6, <1>7 DEF GoodMove
<1>10. StaysOwed(w)  BY <1>1, <1>2, <1>3 DEF StaysOwed
<1>11. ASSUME Apart  PROVE PassStepFits(w)
  <2>1. AtWork(w) /\ Managed' = Managed  BY <1>1, <1>3, <1>11 DEF Managed
  <2>2. TreeFits(w)'
    BY <1>1, <1>3, <1>6, <1>7, <2>1 DEF AtWork, TreeFits, Unsynced, UpToDate, Local, Outdated, At
  <2>3. LookFits(w)'  BY <1>1, <1>3, <1>6, <1>7, <2>1 DEF AtWork, LookFits, Looked
  <2>4. ASSUME s = "checkpoint"  PROVE OwnResult(record[w].last, w)'
    <3>1. OwnResult(record[w].last, w)  BY <1>1, <1>4, <2>1, <2>4 DEF AtWork
    <3>. QED  BY <1>1, <1>6, <1>7, <3>1 DEF OwnResult, OwnRun, Fresh
  <2>5. AtWork(w)'  BY <1>1, <1>6, <1>7, <2>2, <2>3, <2>4 DEF AtWork, Local, At
  <2>. QED  BY <1>6, <1>7, <2>5 DEF PassStepFits
<1>. QED  BY <1>1, <1>3, <1>6, <1>7, <1>8, <1>9, <1>10, <1>11, MoveKeeps

LEMMA CheckpointKeeps ==
    ASSUME RefreshInv, NEW w \in Workers, Checkpoint(w)
    PROVE  RefreshInv'
<1>1. At(w, "checkpoint") /\ UNCHANGED <<tree, analyses, pass, remote, edits>> /\ End(w)  BY DEF Checkpoint, outside
<1>2. "checkpoint" \in PassSteps /\ "checkpoint" \notin RunSteps /\ "checkpoint" \in Looked
      /\ "checkpoint" \notin Owing
  BY DEF PassSteps, RunSteps, Looked, Owing
<1>3. /\ worker[w].kind = "pass" /\ w \in Repos /\ Repo(w) = w /\ worker[w].opts = pass.opts
      /\ worker[w].step = "checkpoint" /\ worker[w] \in WorkerTypes /\ worker[w].opts \in Options
      /\ record[w] \in RecordTypes /\ record[w].status # "none" /\ op = "pass"
      /\ Apart => AtWork(w)
  BY <1>1, <1>2, Doing
<1>4. PICK after \in Fingerprints(w) :
          record' = [record EXCEPT ![w].fingerprint = Unchanged(worker[w].fingerprint, after),
                         ![w].digest = worker[w].seen.last,
                         ![w].alone = pass.alone /\ Unchanged(worker[w].fingerprint, after) # None]
  BY <1>3 DEF Checkpoint
<1>5. PICK taken : taken = Unchanged(worker[w].fingerprint, after)  OBVIOUS
<1>6. taken = None \/ (taken = worker[w].fingerprint /\ taken = after)  BY <1>5 DEF Unchanged
<1>7. /\ after \in FingerprintSet
      /\ after # None => after.opts = pass.opts /\ after.inputs = [tree |-> tree[w], edits |-> edits]
  BY <1>3, FingerprintsTaken
<1>8. PICK alone \in BOOLEAN : alone = (pass.alone /\ taken # None)  OBVIOUS
<1>9. PICK written : written = [record[w] EXCEPT !.fingerprint = taken, !.digest = worker[w].seen.last, !.alone = alone]
  OBVIOUS
<1>10. /\ written \in RecordTypes /\ written.status = record[w].status /\ written.git = record[w].git
       /\ written.last = record[w].last /\ written.digest = worker[w].seen.last /\ written.fingerprint = taken
       /\ written.alone = alone
  <2>1. taken \in FingerprintSet  BY <1>6, <1>7 DEF FingerprintSet
  <2>2. worker[w].seen.last \in Nat  BY <1>3 DEF WorkerTypes, RecordTypes
  <2>. QED  BY <1>3, <1>9, <2>1, <2>2 DEF RecordTypes
<1>11. record' = [record EXCEPT ![w] = written] /\ record'[w] = written
  BY <1>3, <1>4, <1>5, <1>8, <1>9 DEF RefreshInv, Types
<1>12. written.last \in Runs /\ written.digest \in Runs  BY <1>3, <1>10 DEF RefreshInv, RunsExist
<1>13. StaysOwed(w)  BY <1>2, <1>3, <1>10, <1>11 DEF StaysOwed
<1>14. Apart => worker[w].seen.last = record[w].last /\ OwnResult(record[w].last, w)
  BY <1>1, <1>3 DEF AtWork
<1>15. ASSUME taken # None, alone  PROVE written.digest # 0 /\ Truthful(written)
  <2>1. Apart  BY <1>3, <1>8, <1>15 DEF Apart
  <2>2. PICK i \in DOMAIN analyses : i = record[w].last /\ OwnResult(i, w)  BY <1>14, <2>1 DEF OwnResult, OwnRun, Fresh
  <2>3. i # 0 /\ analyses[i] \in AnalysisTypes  BY DEF RefreshInv, Types
  <2>4. taken.opts = pass.opts /\ taken.inputs = [tree |-> tree[w], edits |-> edits]
        /\ taken = worker[w].fingerprint
    BY <1>6, <1>7, <1>15
  <2>5. /\ analyses[i].opts = pass.opts /\ analyses[i].state = "published"
        /\ analyses[i].from.tree = tree[w] /\ analyses[i].to.tree = tree[w]
    BY <2>2 DEF OwnResult, OwnRun, Fresh
  <2>6. analyses[i].from.edits = edits /\ analyses[i].to.edits = edits
    <3>1. /\ taken.inputs.edits <= analyses[i].from.edits /\ analyses[i].from.edits <= edits
          /\ analyses[i].from.edits <= analyses[i].to.edits /\ analyses[i].to.edits <= edits
      BY <1>15, <2>2, <2>4, <2>5 DEF OwnResult, OwnRun
    <3>2. analyses[i].from.edits \in Nat /\ analyses[i].to.edits \in Nat /\ edits \in Nat
      BY <2>3, Bounds DEF AnalysisTypes, Versions, RefreshInv, Types
    <3>. QED  BY <2>4, <3>1, <3>2
  <2>7. analyses[i].from = taken.inputs /\ analyses[i].to = taken.inputs
    BY <2>3, <2>4, <2>5, <2>6 DEF AnalysisTypes, Versions
  <2>. QED  BY <1>10, <1>14, <2>1, <2>2, <2>3, <2>4, <2>5, <2>7 DEF Truthful
<1>16. TruthOf(w)'
  <2>. SUFFICES ASSUME taken # None, alone  PROVE written.digest # 0 /\ Truthful(written)'
    BY <1>10, <1>11 DEF TruthOf
  <2>. QED  BY <1>1, <1>15 DEF Truthful
<1>17. ASSUME Apart  PROVE PassStepFits(w)
  <2>1. Fresh(record[w].last, w)  BY <1>14, <1>17 DEF OwnResult, OwnRun
  <2>2. Left(w)'  BY <1>1, <1>10, <1>11, <2>1 DEF Left, Fresh
  <2>. QED  BY <1>1, <2>2, Ended DEF PassStepFits
<1>18. pass' \in PassTypes /\ PassGoesOn  BY <1>1 DEF RefreshInv, Types, PassGoesOn
<1>19. /\ worker' = [worker EXCEPT ![w] = NoWorker] /\ (op' = op \/ (op = w /\ op' = None)) /\ GoodMove(w)
       /\ NoWorker \in WorkerTypes /\ NoWorker.seen.last \in Runs /\ NoWorker.run \in Runs
  BY <1>1, Ended
<1>20. written.status # "none" /\ w = Repo(w) /\ worker[w].kind # "none"  BY <1>3, <1>10
<1>. QED  BY <1>1, <1>10, <1>11, <1>12, <1>13, <1>16, <1>17, <1>18, <1>19, <1>20, WriteKeeps

-----------------------------------------------------------------------------
(***************************************************************************)
(* The requests, what comes from outside, and the ends of a pass.          *)
(***************************************************************************)
\* A handler gives a repository work.
Employs(r) ==
    \E d \in Directs, opts \in Options \cup {None} :
        \/ Employ(d, "clone", r, opts, "sync") \/ Employ(d, "sync", r, opts, "sync")
        \/ opts \in Options /\ Employ(d, "run", r, opts, "stat")

LEMMA Employed ==
    ASSUME RefreshInv, NEW r \in Repos, Employs(r)
    PROVE  \E d \in Directs, new \in WorkerTypes :
               /\ worker[d].kind = "none" /\ worker' = [worker EXCEPT ![d] = new] /\ worker'[d] = new
               /\ new.repo = r /\ new.seen.last = 0 /\ new.run = 0 /\ new.step \in Owing
               /\ \/ new.kind \in {"sync", "clone"} /\ new.step \in SyncSteps
                  \/ new.kind = "run" /\ new.step \in RunSteps /\ new.opts \in Options
               /\ new.step \notin Started /\ new.step # "wait"
<1>1. PICK d \in Directs, opts \in Options \cup {None}, kind \in {"clone", "sync", "run"}, s \in {"sync", "stat"} :
          /\ Employ(d, kind, r, opts, s)
          /\ (kind # "run" /\ s = "sync") \/ (kind = "run" /\ s = "stat" /\ opts \in Options)
  BY DEF Employs
<1>2. PICK new : new = [NoWorker EXCEPT !.kind = kind, !.repo = r, !.opts = opts, !.step = s]  OBVIOUS
<1>3. {"sync", "stat"} \subseteq RunSteps \cap Owing /\ "sync" \in SyncSteps
      /\ {"sync", "stat"} \cap Started = {}
  BY DEF RunSteps, Owing, SyncSteps, Started
<1>4. /\ new \in WorkerTypes /\ new.kind = kind /\ new.repo = r /\ new.opts = opts /\ new.step = s
      /\ new.seen = NoRecord /\ new.run = 0
  BY <1>2, <1>3, Nobody DEF WorkerTypes, Kinds
<1>5. worker[d].kind = "none" /\ worker' = [worker EXCEPT ![d] = new] /\ worker'[d] = new
  BY <1>1, <1>2, Apartness DEF Employ, RefreshInv, Types
<1>. QED  BY <1>1, <1>3, <1>4, <1>5, Nobody

LEMMA RequestKeeps ==
    ASSUME RefreshInv, op = None, op' \in {None} \cup Directs, UNCHANGED <<analyses, pass, remote, edits>>,
           tree' \in [Repos -> 0..MaxVersion], NEW r \in Repos,
           NEW written \in RecordTypes, record' = [record EXCEPT ![r] = written], written.status # "none",
           written.last = record[r].last, written.digest = record[r].digest,
           written.fingerprint = record[r].fingerprint, written.alone = record[r].alone,
           worker' = worker \/ Employs(r), written.status \in Busy => Employs(r)
    PROVE  RefreshInv'
<1>1. record'[r] = written /\ record' \in [Repos -> RecordTypes] /\ \A q \in Repos : q # r => record'[q] = record[q]
  BY DEF RefreshInv, Types
<1>2. worker' \in [Workers -> WorkerTypes]
  <2>1. CASE worker' = worker  BY <2>1 DEF RefreshInv, Types
  <2>2. CASE Employs(r)
    <3>1. PICK d \in Directs, new \in WorkerTypes : worker' = [worker EXCEPT ![d] = new]  BY <2>2, Employed
    <3>. QED  BY <3>1 DEF RefreshInv, Types
  <2>. QED  BY <2>1, <2>2
<1>3. AnalysesGoOn /\ Runs' = Runs  BY NoAnalysis DEF Runs
<1>4. op' # "pass" /\ op # "pass"  BY Apartness
<1>5. Types'  BY <1>1, <1>2, Apartness DEF RefreshInv, Types
<1>6. \A v \in Workers :
          \/ worker'[v] = worker[v]
          \/ /\ v \in Directs /\ worker[v].kind = "none" /\ worker'[v] \in WorkerTypes
             /\ worker'[v].repo = r /\ worker'[v].seen.last = 0 /\ worker'[v].run = 0
             /\ \/ worker'[v].kind \in {"sync", "clone"} /\ worker'[v].step \in SyncSteps
                \/ worker'[v].kind = "run" /\ worker'[v].step \in RunSteps /\ worker'[v].opts \in Options
             /\ worker'[v].step \notin Started /\ worker'[v].step # "wait"
  <2>1. CASE worker' = worker  BY <2>1
  <2>2. CASE Employs(r)  BY <2>2, Employed DEF RefreshInv, Types
  <2>. QED  BY <2>1, <2>2
<1>7. RunsExist'
  <2>1. \A v \in Workers : worker'[v].seen.last \in Runs /\ worker'[v].run \in Runs
    BY <1>6, ZeroRuns DEF RefreshInv, RunsExist
  <2>. QED  BY <1>1, <1>3, <2>1 DEF RefreshInv, RunsExist
<1>8. Registered \subseteq Registered' /\ r \in Registered'  BY <1>1 DEF Registered
<1>9. ASSUME NEW v \in Workers  PROVE WorkerFits(v)'
  <2>1. CASE worker'[v] = worker[v]
    <3>1. WorkerFits(v) /\ worker[v].kind # "pass"  BY <1>4, AtWorker
    <3>2. Waits(v) => Waits(v)'  BY <1>3, <2>1, WaitsStays
    <3>. QED  BY <1>8, <2>1, <3>1, <3>2 DEF WorkerFits
  <2>2. CASE worker'[v] # worker[v]
    <3>1. v \in Directs /\ v \notin Repos  BY <1>6, <2>2, Apartness
    <3>. QED  BY <1>6, <1>8, <2>2, <3>1 DEF WorkerFits
  <2>. QED  BY <2>1, <2>2
<1>10. PassFits' /\ ApartFits'  BY <1>4 DEF PassFits, ApartFits, Apart
<1>11. BusyFits'
  <2>. SUFFICES ASSUME NEW q \in Repos, record'[q].status \in Busy
                PROVE  \E v \in Workers : worker'[v].repo = q /\ worker'[v].step \in Owing
    BY DEF BusyFits, Repo
  <2>1. CASE q = r  BY <1>1, <2>1, Employed, Apartness
  <2>2. CASE q # r
    <3>1. PICK v \in Workers : worker[v].repo = q /\ worker[v].step \in Owing
      BY <1>1, <2>2 DEF RefreshInv, BusyFits, Repo
    <3>2. worker[v].kind # "none"
      <4>1. "none" \notin Owing  BY DEF Owing, RunSteps
      <4>. QED  BY <3>1, <4>1, AtWorker
    <3>3. worker'[v] = worker[v]  BY <1>6, <3>2
    <3>. QED  BY <3>1, <3>3
  <2>. QED  BY <2>1, <2>2
<1>12. TruthFits'
  <2>. SUFFICES ASSUME NEW q \in Repos  PROVE TruthOf(q)'
    BY DEF TruthFits
  <2>1. /\ record'[q].fingerprint = record[q].fingerprint /\ record'[q].digest = record[q].digest
        /\ record'[q].alone = record[q].alone
    BY <1>1
  <2>. QED  BY <1>3, <2>1, TruthStays
<1>. QED  BY <1>5, <1>7, <1>9, <1>10, <1>11, <1>12 DEF RefreshInv

LEMMA RegisterKeeps ==
    ASSUME RefreshInv, NEW r \in Repos, Register(r)
    PROVE  RefreshInv'
<1>1. op = None /\ UNCHANGED <<analyses, op, pass, worker, remote, edits>>  BY DEF Register, outside
<1>2. PICK git \in BOOLEAN : /\ record' = [record EXCEPT ![r].status = "unknown", ![r].git = git]
                             /\ tree' = [tree EXCEPT ![r] = IF git THEN 0 ELSE 1]
  BY DEF Register
<1>3. "unknown" \in Status /\ "unknown" \notin Busy  BY DEF Status, Busy
<1>4. PICK written : written = [record[r] EXCEPT !.status = "unknown", !.git = git]  OBVIOUS
<1>5. record' = [record EXCEPT ![r] = written]  BY <1>2, <1>4 DEF RefreshInv, Types
<1>6. tree' \in [Repos -> 0..MaxVersion]  BY <1>2, Bounds DEF RefreshInv, Types
<1>7. /\ written \in RecordTypes /\ written.status = "unknown"
      /\ written.last = record[r].last /\ written.digest = record[r].digest
      /\ written.fingerprint = record[r].fingerprint /\ written.alone = record[r].alone
  BY <1>3, <1>4 DEF RefreshInv, Types, RecordTypes
<1>. QED  BY <1>1, <1>3, <1>5, <1>6, <1>7, RequestKeeps

LEMMA AsksKeep ==
    ASSUME RefreshInv, NEW d \in Directs, NEW r \in Repos, Request(d, r)
    PROVE  RefreshInv'
<1>1. op = None /\ UNCHANGED <<tree, analyses, pass, remote, edits>> /\ tree \in [Repos -> 0..MaxVersion]
  BY DEF Request, Import, RequestSync, RequestRun, outside, RefreshInv, Types
<1>2. {"sync_queued", "synced", "diffmind_running"} \subseteq Status
      /\ {"sync_queued", "synced"} \cap Busy = {}
  BY DEF Status, Busy
<1>3. record \in [Repos -> RecordTypes] /\ record[r] \in RecordTypes  BY DEF RefreshInv, Types
<1>4. CASE Import(d, r)
  <2>1. PICK written : written = [record[r] EXCEPT !.status = "sync_queued", !.git = TRUE]  OBVIOUS
  <2>2. /\ written \in RecordTypes /\ written.status = "sync_queued"
        /\ written.last = record[r].last /\ written.digest = record[r].digest
        /\ written.fingerprint = record[r].fingerprint /\ written.alone = record[r].alone
    BY <1>2, <1>3, <2>1 DEF RecordTypes
  <2>3. record' = [record EXCEPT ![r] = written] /\ UNCHANGED op  BY <1>3, <1>4, <2>1 DEF Import
  <2>4. Employs(r)  BY <1>4 DEF Import, Employs
  <2>. QED  BY <1>1, <1>2, <2>2, <2>3, <2>4, RequestKeeps
<1>5. CASE \E opts \in Options : RequestRun(d, r, opts)
  <2>1. PICK written : written = [record[r] EXCEPT !.status = "diffmind_running"]  OBVIOUS
  <2>2. /\ written \in RecordTypes /\ written.status = "diffmind_running"
        /\ written.last = record[r].last /\ written.digest = record[r].digest
        /\ written.fingerprint = record[r].fingerprint /\ written.alone = record[r].alone
    BY <1>2, <1>3, <2>1 DEF RecordTypes
  <2>3. record' = [record EXCEPT ![r] = written] /\ UNCHANGED op
    BY <1>3, <1>5, <2>1 DEF RequestRun, SetStatus
  <2>4. Employs(r)  BY <1>5 DEF RequestRun, Employs
  <2>. QED  BY <1>1, <2>2, <2>3, <2>4, RequestKeeps
<1>6. CASE RequestSync(d, r)
  <2>1. CASE Employ(d, "sync", r, None, "sync") /\ op' = d /\ UNCHANGED record
    <3>1. Employs(r)  BY <2>1 DEF Employs
    <3>2. record' = [record EXCEPT ![r] = record[r]] /\ record[r].status # "none"
      BY <1>3, <1>6, <2>1 DEF RequestSync, Registered
    <3>. QED  BY <1>1, <1>3, <2>1, <3>1, <3>2, RequestKeeps
  <2>2. CASE SetStatus(r, "synced") /\ UNCHANGED <<worker, op>>
    <3>1. PICK written : written = [record[r] EXCEPT !.status = "synced"]  OBVIOUS
    <3>2. /\ written \in RecordTypes /\ written.status = "synced"
          /\ written.last = record[r].last /\ written.digest = record[r].digest
          /\ written.fingerprint = record[r].fingerprint /\ written.alone = record[r].alone
      BY <1>2, <1>3, <3>1 DEF RecordTypes
    <3>3. record' = [record EXCEPT ![r] = written]  BY <1>3, <2>2, <3>1 DEF SetStatus
    <3>. QED  BY <1>1, <1>2, <2>2, <3>2, <3>3, RequestKeeps
  <2>. QED  BY <1>6, <2>1, <2>2 DEF RequestSync
<1>. QED  BY <1>4, <1>5, <1>6 DEF Request

LEMMA BeginPassKeeps ==
    ASSUME RefreshInv, NEW opts \in Options, NEW force \in BOOLEAN, BeginPass(opts, force)
    PROVE  RefreshInv'
<1>1. /\ op = None /\ ~ HasActiveWork /\ op' = "pass" /\ UNCHANGED <<record, tree, analyses, remote, edits>>
  BY DEF BeginPass, outside
<1>2. Registered' = Registered /\ Managed' = Managed /\ Registered \subseteq Repos
  BY <1>1 DEF Registered, Managed
<1>. DEFINE since == [r \in Registered |->
                         [tree |-> IF r \in Managed THEN remote[r] ELSE tree[r], edits |-> edits]]
            begun(w) == [NoWorker EXCEPT !.kind = "pass", !.repo = w, !.opts = opts, !.step = "begin",
                                         !.seen = IF w \in Managed THEN NoRecord ELSE record[w]]
<1>3. since \in [Registered -> Versions]
  BY <1>2 DEF Versions, RefreshInv, Types
<1>4. PICK alone \in BOOLEAN : alone = \A d \in Directs : worker[d].kind = "none"  OBVIOUS
<1>5. pass' = [NoPass EXCEPT !.opts = opts, !.force = force, !.alone = alone, !.since = since]
  BY <1>4 DEF BeginPass
<1>. HIDE DEF since
<1>6. /\ pass' \in PassTypes /\ pass'.opts = opts /\ pass'.alone = alone /\ pass'.since = since
  BY <1>2, <1>3, <1>5 DEF PassTypes, NoPass
<1>7. worker' = [w \in Workers |-> IF w \in Registered THEN begun(w) ELSE worker[w]]
  BY DEF BeginPass
<1>8. "begin" \in PassSteps /\ "begin" \notin Started /\ "begin" \notin Looked  BY DEF PassSteps, Started, Looked
<1>9. ASSUME NEW w \in Registered
      PROVE  /\ w \in Workers /\ worker'[w] \in WorkerTypes /\ worker'[w].kind = "pass" /\ worker'[w].repo = w
             /\ worker'[w].opts = opts /\ worker'[w].step = "begin" /\ worker'[w].run = 0
             /\ worker'[w].seen = IF w \in Managed THEN NoRecord ELSE record[w]
  <2>1. w \in Repos /\ w \in Workers /\ worker'[w] = begun(w)  BY <1>2, <1>7, <1>9, Apartness
  <2>2. PICK seen \in RecordTypes : seen = IF w \in Managed THEN NoRecord ELSE record[w]
    BY <2>1, Nobody DEF RefreshInv, Types
  <2>3. worker'[w] = [NoWorker EXCEPT !.kind = "pass", !.repo = w, !.opts = opts, !.step = "begin", !.seen = seen]
    BY <2>1, <2>2
  <2>. QED  BY <1>8, <2>1, <2>2, <2>3, Nobody DEF WorkerTypes, Kinds
<1>10. \A w \in Workers : w \notin Registered => worker'[w] = worker[w]  BY <1>7
<1>. HIDE DEF begun
<1>11. Types'
  <2>1. worker' \in [Workers -> WorkerTypes]
    <3>1. \A w \in Workers : worker'[w] \in WorkerTypes  BY <1>9, <1>10 DEF RefreshInv, Types
    <3>2. DOMAIN worker' = Workers /\ worker' = [w \in Workers |-> worker'[w]]  BY <1>7
    <3>. QED  BY <3>1, <3>2
  <2>. QED  BY <1>1, <1>6, <2>1 DEF RefreshInv, Types
<1>12. RunsExist'
  <2>1. Runs' = Runs /\ 0 \in Runs  BY <1>1, ZeroRuns DEF Runs
  <2>2. ASSUME NEW w \in Workers  PROVE worker'[w].seen.last \in Runs /\ worker'[w].run \in Runs
    <3>1. CASE w \in Registered
      <4>1. w \in Repos /\ record[w].last \in Runs  BY <1>2, <3>1 DEF RefreshInv, RunsExist
      <4>. QED  BY <1>9, <2>1, <3>1, <4>1, Nobody
    <3>2. CASE w \notin Registered  BY <1>10, <3>2 DEF RefreshInv, RunsExist
    <3>. QED  BY <3>1, <3>2
  <2>. QED  BY <1>1, <2>1, <2>2 DEF RefreshInv, RunsExist
<1>13. ASSUME NEW v \in Workers  PROVE WorkerFits(v)'
  <2>1. CASE v \in Registered
    <3>1. v \in Repos /\ v \notin Directs  BY <1>2, <2>1, Apartness
    <3>. QED  BY <1>1, <1>2, <1>6, <1>8, <1>9, <2>1, <3>1 DEF WorkerFits
  <2>2. CASE v \notin Registered
    <3>1. WorkerFits(v) /\ worker[v].kind # "pass" /\ worker'[v] = worker[v]
      BY <1>1, <1>10, <2>2, AtWorker, Apartness
    <3>2. AnalysesGoOn  BY <1>1, NoAnalysis
    <3>3. Waits(v) => Waits(v)'  BY <3>1, <3>2, WaitsStays
    <3>. QED  BY <1>2, <3>1, <3>3 DEF WorkerFits
  <2>. QED  BY <2>1, <2>2
<1>14. PassFits'
  <2>1. ASSUME alone, NEW d \in Directs  PROVE worker'[d].kind = "none"
    <3>1. d \in Workers /\ d \notin Registered  BY <1>2, Apartness
    <3>. QED  BY <1>4, <1>10, <2>1, <3>1
  <2>. QED  BY <1>2, <1>3, <1>6, <2>1 DEF PassFits
<1>15. BusyFits'  BY <1>1 DEF BusyFits, HasActiveWork
<1>16. ASSUME NEW r \in Registered  PROVE AtWork(r)'
  <2>1. /\ r \in Repos /\ worker'[r].step = "begin"
        /\ worker'[r].seen = IF r \in Managed THEN NoRecord ELSE record[r]
        /\ since[r] = [tree |-> IF r \in Managed THEN remote[r] ELSE tree[r], edits |-> edits]
    BY <1>2, <1>9 DEF since
  <2>2. remote[r] \in Nat /\ tree[r] \in Nat /\ edits \in Nat
    BY <2>1, Bounds DEF RefreshInv, Types
  <2>3. TreeFits(r)'
    BY <1>1, <1>2, <1>6, <2>1, <2>2 DEF TreeFits, Unsynced, UpToDate, Local, Outdated, At
  <2>. QED  BY <1>1, <1>2, <1>8, <2>1, <2>3 DEF AtWork, Local, At
<1>17. ApartFits'  BY <1>2, <1>9, <1>16 DEF ApartFits
<1>18. TruthFits'
  <2>1. AnalysesGoOn  BY <1>1, NoAnalysis
  <2>2. \A r \in Repos : TruthOf(r)'  BY <1>1, <2>1, TruthStays
  <2>. QED  BY <2>2 DEF TruthFits
<1>. QED  BY <1>11, <1>12, <1>13, <1>14, <1>15, <1>17, <1>18 DEF RefreshInv

LEMMA EndPassKeeps ==
    ASSUME RefreshInv, EndPass
    PROVE  RefreshInv'
<1>1. /\ \A r \in Repos : worker[r].kind = "none"
      /\ pass' = NoPass /\ op' = None /\ UNCHANGED <<record, tree, analyses, worker, remote, edits>>
  BY DEF EndPass, outside
<1>2. NoPass \in PassTypes  BY DEF NoPass, PassTypes
<1>3. Types'  BY <1>1, <1>2 DEF RefreshInv, Types
<1>4. RunsExist' /\ BusyFits' /\ Registered' = Registered
  BY <1>1 DEF RefreshInv, RunsExist, Runs, BusyFits, Repo, Registered
<1>5. ASSUME NEW v \in Workers  PROVE WorkerFits(v)'
  <2>1. WorkerFits(v) /\ worker[v].kind # "pass"  BY <1>1, AtWorker
  <2>2. Waits(v)' <=> Waits(v)  BY <1>1 DEF Waits
  <2>. QED  BY <1>1, <1>4, <2>1, <2>2 DEF WorkerFits
<1>6. PassFits' /\ ApartFits'  BY <1>1, Apartness DEF PassFits, ApartFits, Apart
<1>7. TruthFits'  BY <1>1 DEF RefreshInv, TruthFits, TruthOf, Truthful
<1>. QED  BY <1>3, <1>4, <1>5, <1>6, <1>7 DEF RefreshInv

LEMMA CrashKeeps ==
    ASSUME RefreshInv, Crash
    PROVE  RefreshInv'
<1>1. /\ record' = [r \in Repos |-> [record[r] EXCEPT !.status = Recovered(@)]]
      /\ worker' = [w \in Workers |-> NoWorker] /\ op' = None /\ pass' = NoPass
      /\ UNCHANGED <<tree, analyses, remote, edits>>
  BY DEF Crash
<1>2. NoPass \in PassTypes  BY DEF NoPass, PassTypes
<1>3. ASSUME NEW r \in Repos
      PROVE  /\ record'[r] \in RecordTypes /\ record'[r].status \notin Busy
             /\ record'[r].last = record[r].last /\ record'[r].digest = record[r].digest
             /\ record'[r].fingerprint = record[r].fingerprint /\ record'[r].alone = record[r].alone
  <2>1. record[r] \in RecordTypes  BY DEF RefreshInv, Types
  <2>2. Recovered(record[r].status) \in Status \ Busy
    BY <2>1 DEF Recovered, Status, Busy, RecordTypes
  <2>. QED  BY <1>1, <2>1, <2>2 DEF RecordTypes
<1>4. Types'
  <2>1. record' \in [Repos -> RecordTypes]
    <3>1. DOMAIN record' = Repos /\ record' = [r \in Repos |-> record'[r]]  BY <1>1
    <3>. QED  BY <1>3, <3>1
  <2>. QED  BY <1>1, <1>2, <2>1, Nobody DEF RefreshInv, Types
<1>5. Runs' = Runs /\ 0 \in Runs  BY <1>1, ZeroRuns DEF Runs
<1>6. RunsExist'  BY <1>1, <1>3, <1>5, Nobody DEF RefreshInv, RunsExist
<1>7. \A v \in Workers : WorkerFits(v)'
  <2>1. "none" # "wait"  OBVIOUS
  <2>. QED  BY <1>1, <2>1, Nobody DEF WorkerFits
<1>8. PassFits' /\ ApartFits'  BY <1>1, Apartness DEF PassFits, ApartFits, Apart
<1>9. BusyFits'  BY <1>3 DEF BusyFits
<1>10. TruthFits'
  <2>1. AnalysesGoOn  BY <1>1, NoAnalysis
  <2>2. \A r \in Repos : TruthOf(r)'  BY <1>3, <2>1, TruthStays
  <2>. QED  BY <2>2 DEF TruthFits
<1>. QED  BY <1>4, <1>6, <1>7, <1>8, <1>9, <1>10 DEF RefreshInv

LEMMA OutsideKeeps ==
    ASSUME RefreshInv, CancelPass \/ Edit \/ (\E r \in Repos : Push(r)) \/ \E i \in DOMAIN analyses : EndAnalysis(i)
    PROVE  RefreshInv'
<1>0. /\ analyses \in Seq(AnalysisTypes) /\ Len(analyses) \in Nat /\ edits \in Nat
      /\ \A r \in Repos : remote[r] \in Nat
  BY Bounds DEF RefreshInv, Types
<1>1. CASE CancelPass
  <2>1. /\ pass' = [pass EXCEPT !.cancelled = TRUE] /\ pass \in PassTypes
        /\ UNCHANGED <<record, tree, analyses, op, worker, remote, edits>>
    BY <1>1 DEF CancelPass, outside, RefreshInv, Types
  <2>2. pass' \in PassTypes /\ PassGoesOn  BY <2>1 DEF PassTypes, PassGoesOn
  <2>3. Types' /\ AnalysesGoOn  BY <2>1, <2>2, NoAnalysis DEF RefreshInv, Types
  <2>. QED  BY <1>0, <2>1, <2>2, <2>3, WorldKeeps
<1>2. CASE Edit
  <2>1. /\ edits < MaxEdits /\ edits' = edits + 1
        /\ UNCHANGED <<record, tree, remote, analyses, op, pass, worker>>
    BY <1>2 DEF Edit
  <2>2. PassGoesOn /\ AnalysesGoOn  BY <2>1, NoAnalysis DEF PassGoesOn
  <2>3. edits' \in 0..MaxEdits /\ edits <= edits'  BY <1>0, <2>1, Bounds
  <2>4. Types'  BY <2>1, <2>3 DEF RefreshInv, Types
  <2>. QED  BY <1>0, <2>1, <2>2, <2>3, <2>4, WorldKeeps
<1>3. CASE \E r \in Repos : Push(r)
  <2>1. PICK r \in Repos : Push(r)  BY <1>3
  <2>2. /\ remote[r] < MaxVersion /\ remote' = [remote EXCEPT ![r] = @ + 1]
        /\ UNCHANGED <<record, tree, analyses, op, pass, worker, edits>>
    BY <2>1 DEF Push
  <2>3. PassGoesOn /\ AnalysesGoOn  BY <2>2, NoAnalysis DEF PassGoesOn
  <2>4. remote[r] + 1 \in 0..MaxVersion  BY <1>0, <2>2, Bounds
  <2>5. remote' \in [Repos -> 0..MaxVersion] /\ \A q \in Repos : remote[q] <= remote'[q]
    BY <1>0, <2>2, <2>4 DEF RefreshInv, Types
  <2>6. Types'  BY <2>2, <2>5 DEF RefreshInv, Types
  <2>. QED  BY <1>0, <2>2, <2>3, <2>5, <2>6, WorldKeeps
<1>4. CASE \E i \in DOMAIN analyses : EndAnalysis(i)
  <2>1. PICK i \in DOMAIN analyses : EndAnalysis(i)  BY <1>4
  <2>2. i \in 1..Len(analyses) /\ analyses[i] \in AnalysisTypes  BY <1>0
  <2>3. /\ analyses[i].state = "running" /\ UNCHANGED <<record, tree, op, pass, worker, remote, edits>>
    BY <2>1 DEF EndAnalysis, outside
  <2>4. Inputs(analyses[i].repo) \in Versions  BY <2>2 DEF Inputs, Versions, AnalysisTypes, RefreshInv, Types
  <2>5. PICK ended \in AnalysisTypes :
            /\ analyses' = [analyses EXCEPT ![i] = ended]
            /\ ended.repo = analyses[i].repo /\ ended.opts = analyses[i].opts /\ ended.from = analyses[i].from
            /\ \/ ended.state = "published" /\ ended.to = Inputs(analyses[i].repo)
               \/ ended.state = "failed"
    <3>1. CASE analyses' = [analyses EXCEPT ![i].state = "published", ![i].to = Inputs(analyses[i].repo)]
      <4>1. PICK ended : ended = [analyses[i] EXCEPT !.state = "published", !.to = Inputs(analyses[i].repo)]  OBVIOUS
      <4>2. /\ ended \in AnalysisTypes /\ ended.repo = analyses[i].repo /\ ended.opts = analyses[i].opts
            /\ ended.from = analyses[i].from /\ ended.state = "published" /\ ended.to = Inputs(analyses[i].repo)
        BY <2>2, <2>4, <4>1 DEF AnalysisTypes
      <4>3. analyses' = [analyses EXCEPT ![i] = ended]  BY <1>0, <2>2, <3>1, <4>1
      <4>. QED  BY <4>2, <4>3
    <3>2. CASE analyses' = [analyses EXCEPT ![i].state = "failed"]
      <4>1. PICK ended : ended = [analyses[i] EXCEPT !.state = "failed"]  OBVIOUS
      <4>2. /\ ended \in AnalysisTypes /\ ended.repo = analyses[i].repo /\ ended.opts = analyses[i].opts
            /\ ended.from = analyses[i].from /\ ended.state = "failed"
        BY <2>2, <4>1 DEF AnalysisTypes
      <4>3. analyses' = [analyses EXCEPT ![i] = ended]  BY <1>0, <2>2, <3>2, <4>1
      <4>. QED  BY <4>2, <4>3
    <3>. QED  BY <2>1, <3>1, <3>2 DEF EndAnalysis
  <2>6. /\ analyses' \in Seq(AnalysisTypes) /\ Len(analyses') = Len(analyses) /\ analyses'[i] = ended
        /\ \A j \in 1..Len(analyses) : j # i => analyses'[j] = analyses[j]
    BY <1>0, <2>2, <2>5
  <2>7. AnalysesGoOn
    <3>1. \A j \in 1..Len(analyses) : j = i \/ analyses'[j] = analyses[j]  BY <2>6
    <3>. QED  BY <1>0, <2>3, <2>5, <2>6, <3>1 DEF AnalysesGoOn
  <2>8. Types' /\ PassGoesOn  BY <2>3, <2>6 DEF RefreshInv, Types, PassGoesOn
  <2>. QED  BY <1>0, <2>3, <2>6, <2>7, <2>8, WorldKeeps
<1>. QED  BY <1>1, <1>2, <1>3, <1>4

-----------------------------------------------------------------------------
LEMMA InitFits == Init => RefreshInv
<1>. SUFFICES ASSUME Init  PROVE RefreshInv
  OBVIOUS
<1>1. NoPass \in PassTypes  BY DEF NoPass, PassTypes
<1>2. /\ analyses = << >> /\ Len(analyses) = 0 /\ analyses \in Seq(AnalysisTypes)
      /\ 0 \in 0..MaxVersion /\ 1 \in 0..MaxVersion /\ edits \in 0..MaxEdits
  BY Bounds DEF Init
<1>3. Types  BY <1>1, <1>2, Nobody DEF Init, Types
<1>4. RunsExist  BY <1>2, Nobody DEF Init, RunsExist, Runs, NoRecord
<1>5. \A w \in Workers : WorkerFits(w)
  <2>1. "none" # "wait"  OBVIOUS
  <2>. QED  BY <2>1, Nobody DEF Init, WorkerFits
<1>6. op # "pass" /\ op = None  BY Apartness DEF Init
<1>7. PassFits /\ ApartFits  BY <1>6 DEF PassFits, ApartFits, Apart
<1>8. BusyFits  BY DEF Init, BusyFits, NoRecord, Busy
<1>9. TruthFits  BY Nobody DEF Init, TruthFits, TruthOf
<1>. QED  BY <1>3, <1>4, <1>5, <1>7, <1>8, <1>9 DEF RefreshInv

LEMMA NextKeeps == RefreshInv /\ [Next]_vars => RefreshInv'
<1>. SUFFICES ASSUME RefreshInv, [Next]_vars  PROVE RefreshInv'
  OBVIOUS
<1>1. CASE UNCHANGED vars
  <2>1. UNCHANGED <<record, tree, analyses, op, pass, worker, remote, edits>>  BY <1>1 DEF vars, outside
  <2>2. Types' /\ PassGoesOn /\ AnalysesGoOn  BY <2>1, NoAnalysis DEF RefreshInv, Types, PassGoesOn
  <2>3. edits <= edits' /\ \A r \in Repos : remote[r] <= remote'[r]  BY <2>1, Bounds DEF RefreshInv, Types
  <2>. QED  BY <2>1, <2>2, <2>3, WorldKeeps
<1>2. CASE \E r \in Repos : Register(r)  BY <1>2, RegisterKeeps
<1>3. CASE \E r \in Repos, d \in Directs : Request(d, r)  BY <1>3, AsksKeep
<1>4. CASE \E opts \in Options, force \in BOOLEAN : BeginPass(opts, force)  BY <1>4, BeginPassKeeps
<1>5. CASE EndPass  BY <1>5, EndPassKeeps
<1>6. CASE Crash  BY <1>6, CrashKeeps
<1>7. CASE CancelPass \/ Edit \/ (\E r \in Repos : Push(r)) \/ \E i \in DOMAIN analyses : EndAnalysis(i)
  BY <1>7, OutsideKeeps
<1>8. ASSUME NEW w \in Workers, Work(w)  PROVE RefreshInv'
  BY <1>8, SyncKeeps, FetchKeeps, RecordSyncKeeps, StatKeeps, AnalyseKeeps, CollectKeeps, SaveRunKeeps,
     FailKeeps, BeginKeeps, LookKeeps, ReuseKeeps, MarkKeeps, DigestKeeps, CheckpointKeeps DEF Work
<1>. QED  BY <1>1, <1>2, <1>3, <1>4, <1>5, <1>6, <1>7, <1>8 DEF Next

\* Types, goroutines and passes fit, whatever is requested, cancelled, pushed,
\* edited or lost in a crash.
THEOREM RefreshInvariance == Spec => []RefreshInv
<1>. QED  BY InitFits, NextKeeps, PTL DEF Spec

\* The states are those the module declares.
THEOREM RefreshTypes == Spec => []TypeOK
<1>1. RefreshInv => TypeOK
  <2>. SUFFICES ASSUME RefreshInv  PROVE TypeOK
    OBVIOUS
  <2>1. ASSUME NEW r \in Repos
        PROVE  /\ record[r].status \in Status /\ {record[r].last, record[r].digest} \subseteq 0..Len(analyses)
               /\ record[r].fingerprint \in FingerprintSet
    BY DEF RefreshInv, Types, RecordTypes, RunsExist, Runs
  <2>2. ASSUME NEW i \in DOMAIN analyses  PROVE {analyses[i].from, analyses[i].to} \subseteq Versions
    <3>1. analyses[i] \in AnalysisTypes  BY DEF RefreshInv, Types
    <3>. QED  BY <3>1 DEF AnalysisTypes
  <2>3. \A w \in Workers : worker[w].kind \in {"none", "pass", "run", "sync", "clone"}
    BY AtWorker DEF Kinds
  <2>. QED  BY <2>1, <2>2, <2>3 DEF TypeOK, RefreshInv, Types
<1>. QED  BY <1>1, RefreshInvariance, PTL

\* What a checkpoint claims of the analysis it names is true of it, if the
\* pass that wrote it had the repositories to itself: the old checkpoint goes
\* before the analysis begins, the record is read again after it, and the
\* fingerprint is taken again (refresh.go, incremental.go).
THEOREM CheckpointsAlwaysHold == Spec => []CheckpointsHoldAlone
<1>1. RefreshInv => CheckpointsHoldAlone  BY DEF RefreshInv, TruthFits, TruthOf, CheckpointsHoldAlone
<1>. QED  BY <1>1, RefreshInvariance, PTL

\* No project stays busy for nothing: whoever sets a busy status will write
\* another, and a server that starts writes one for those that died.
THEOREM BusyAlwaysMeansWork == Spec => []BusyMeansWork
<1>1. RefreshInv => BusyMeansWork  BY DEF RefreshInv, BusyFits, BusyMeansWork
<1>. QED  BY <1>1, RefreshInvariance, PTL

\* A pass that completes, and had the repositories to itself, is built from
\* analyses with its options that read nothing older than what was there when
\* it began.
THEOREM CompletedPassesAreCurrent == Spec => CompletedIsCurrent
<1>1. ASSUME RefreshInv, EndPass, Completes, pass.alone, OwnCheckpoints
      PROVE  /\ DOMAIN Refs = DOMAIN pass.since
             /\ \A r \in DOMAIN Refs :
                    /\ analyses[Refs[r]].opts = pass.opts
                    /\ AtLeast(analyses[Refs[r]].from, pass.since[r])
  <2>1. Apart /\ \A r \in Repos : worker[r].kind = "none"  BY <1>1 DEF EndPass, Apart
  <2>2. ASSUME NEW r \in Registered  PROVE Fresh(record[r].last, r) /\ record[r].last # 0
    <3>1. r \in Repos /\ Left(r)  BY <1>1, <2>1 DEF RefreshInv, ApartFits, Registered
    <3>2. Fresh(record[r].last, r)  BY <1>1, <3>1 DEF Left, Completes, OwnCheckpoints
    <3>. QED  BY <1>1, <3>2 DEF Fresh, RefreshInv, Types
  <2>3. DOMAIN Refs = Registered /\ \A r \in Registered : Refs[r] = record[r].last  BY <2>2 DEF Refs
  <2>4. DOMAIN pass.since = Registered  BY <1>1, <2>1 DEF RefreshInv, PassFits, Apart
  <2>. QED  BY <2>2, <2>3, <2>4 DEF Fresh
<1>2. RefreshInv /\ [Next]_vars =>
          [EndPass /\ Completes /\ pass.alone /\ OwnCheckpoints =>
               /\ DOMAIN Refs = DOMAIN pass.since
               /\ \A r \in DOMAIN Refs :
                      /\ analyses[Refs[r]].opts = pass.opts
                      /\ AtLeast(analyses[Refs[r]].from, pass.since[r])]_vars
  BY <1>1
<1>. QED  BY <1>2, RefreshInvariance, PTL DEF Spec, CompletedIsCurrent

-----------------------------------------------------------------------------
(***************************************************************************)
(* The budget of RepositoryLimiter.                                        *)
(***************************************************************************)
\* The context of the server is done once the server has stopped.
StopIsKnown == server # "up" => Operations \ OnRequest \subseteq cancelled

(***************************************************************************)
(* The inductive invariant: the counters are what makes the guards of      *)
(* Admit mean something, and what a waiter has read stays true until the   *)
(* next notification.                                                      *)
(***************************************************************************)
LimiterInv ==
    /\ LimiterTypes
    /\ CountersMatchHolders
    /\ NoForgottenWaiter
    /\ StopIsKnown
    /\ DrainIsWoken
    /\ WorkEndsWithServer

-----------------------------------------------------------------------------
\* Sets of operations are finite, so their cardinalities are numbers.
LEMMA SetsOfOperationsAreFinite ==
    ASSUME NEW S \in SUBSET Operations
    PROVE  IsFiniteSet(S) /\ Cardinality(S) \in Nat
  BY LimiterAssumption, FS_Subset, FS_CardinalityType DEF LimiterAssumption

\* An effective limit leaves room for at least one operation.
LEMMA EffectiveLimitIsPositive ==
    ASSUME NEW configured \in Nat
    PROVE  /\ EffectiveLimit(configured, GlobalLimit) \in Nat
           /\ 1 <= EffectiveLimit(configured, GlobalLimit)
           /\ EffectiveLimit(configured, GlobalLimit) <= GlobalLimit
  BY LimiterAssumption DEF LimiterAssumption, EffectiveLimit

\* The counters stay right while the same operations hold slots.
LEMMA SameHolders ==
    ASSUME CountersMatchHolders, In("holding")' = In("holding"), UNCHANGED <<total, active>>
    PROVE  CountersMatchHolders'
<1>1. \A p \in Projects : HoldersOf(p)' = HoldersOf(p)  BY DEF HoldersOf
<1>. QED  BY <1>1 DEF CountersMatchHolders

\* What waiters have read stays true while counters and policies stay, and
\* none of them is new.
LEMMA SameWaiters ==
    ASSUME NoForgottenWaiter, In("waiting")' \subseteq In("waiting"),
           UNCHANGED <<total, active, policy>>, deleted \subseteq deleted'
    PROVE  NoForgottenWaiter'
  BY DEF NoForgottenWaiter, HasRoom

\* Whoever moves from one step to another changes only the sets of those two.
LEMMA MoveChangesTwoSets ==
    ASSUME LimiterTypes, NEW o \in Operations, NEW to, Move(o, to), NEW step
    PROVE  In(step)' = IF step = to THEN In(step) \cup {o}
                       ELSE In(step) \ {o}
  BY DEF In, Move, LimiterTypes

\* A notification empties the waiting room and leaves the holders alone.
LEMMA NotifyEmptiesWaiting ==
    ASSUME NEW before \in [Operations -> Step], NotifyFrom(before)
    PROVE  /\ In("waiting")' = {}
           /\ In("holding")' = {o \in Operations : before[o] = "holding"}
           /\ operation' \in [Operations -> Step]
  BY DEF In, NotifyFrom, Step

-----------------------------------------------------------------------------
\* An admission stays within the budget and counts the new holder.
LEMMA AdmitKeepsLimiterInv ==
    ASSUME LimiterInv, NEW o \in Operations, Admit(o)
    PROVE  LimiterInv'
<1>. DEFINE p == ProjectOf[o]
<1>. USE LimiterAssumption DEF LimiterAssumption, LimiterInv
<1>1. /\ operation[o] = "trying" /\ o \notin cancelled
      /\ HasRoom(p) /\ Move(o, "holding")
      /\ total' = total + 1 /\ active' = [active EXCEPT ![p] = @ + 1]
      /\ UNCHANGED <<cancelled, server, exists, deleted, policy, view>>
      /\ p \in Projects
  BY DEF Admit, MayProceed, PoliciesUnchanged
<1>2. /\ In("holding")' = In("holding") \cup {o}
      /\ In("waiting")' \subseteq In("waiting")
      /\ o \notin In("holding")
  BY <1>1, MoveChangesTwoSets DEF In
<1>3. LimiterTypes'  BY <1>1 DEF LimiterTypes, Move, Step
<1>4. CountersMatchHolders'
  <2>1. total' = Cardinality(In("holding"))' /\ total' <= GlobalLimit
    <3>1. Cardinality(In("holding") \cup {o}) = Cardinality(In("holding")) + 1
      BY <1>2, SetsOfOperationsAreFinite, FS_AddElement DEF In
    <3>2. total \in Nat /\ GlobalLimit \in Nat /\ total < GlobalLimit
      BY <1>1 DEF HasRoom, LimiterTypes
    <3>3. total = Cardinality(In("holding"))  BY DEF CountersMatchHolders
    <3>4. total' = total + 1 /\ In("holding")' = In("holding") \cup {o}  BY <1>1, <1>2
    <3>5. total' <= GlobalLimit  BY <3>2, <3>4
    <3>6. total' = Cardinality(In("holding") \cup {o})  BY <3>1, <3>3, <3>4
    <3>. QED  BY <3>4, <3>5, <3>6
  <2>2. ASSUME NEW q \in Projects
        PROVE  active'[q] = Cardinality(HoldersOf(q))'
    <3>1. HoldersOf(q)' = IF q = p THEN HoldersOf(q) \cup {o} ELSE HoldersOf(q)
      BY <1>2 DEF HoldersOf, In
    <3>2. o \notin HoldersOf(q)  BY <1>2 DEF HoldersOf
    <3>3. Cardinality(HoldersOf(q) \cup {o}) = Cardinality(HoldersOf(q)) + 1
      BY <3>2, SetsOfOperationsAreFinite, FS_AddElement DEF HoldersOf, In
    <3>. QED  BY <1>1, <3>1, <3>3 DEF CountersMatchHolders, LimiterTypes
  <2>. QED  BY <2>1, <2>2 DEF CountersMatchHolders
<1>5. NoForgottenWaiter'
  <2>. SUFFICES ASSUME NEW v \in In("waiting")
                PROVE  /\ ProjectOf[v] \notin deleted => ~ HasRoom(ProjectOf[v])'
                       /\ total' = GlobalLimit \/ active'[ProjectOf[v]] > 0
    BY <1>1, <1>2 DEF NoForgottenWaiter
  <2>. DEFINE q == ProjectOf[v]
  <2>1. q \in Projects  BY DEF In
  <2>2. active[q] \in Nat /\ total \in Nat /\ active'[q] \in {active[q], active[q] + 1}
    BY <1>1, <2>1 DEF LimiterTypes
  <2>3. policy[q].workers \in Nat  BY <2>1 DEF LimiterTypes, Policy
  <2>4. EffectiveLimit(policy[q].workers, GlobalLimit) \in Nat
    BY <2>3, EffectiveLimitIsPositive
  <2>5. q \notin deleted => ~ HasRoom(q)'
    BY <1>1, <2>2, <2>4 DEF NoForgottenWaiter, HasRoom
  <2>6. active[q] > 0  BY <1>1, <2>2 DEF NoForgottenWaiter, HasRoom
  <2>. QED  BY <2>2, <2>5, <2>6
<1>6. StopIsKnown'  BY <1>1 DEF StopIsKnown
<1>7. DrainIsWoken'  BY <1>1 DEF DrainIsWoken, LimiterTypes
<1>8. WorkEndsWithServer'
  BY <1>1, <1>2 DEF WorkEndsWithServer, StopIsKnown
<1>. QED  BY <1>3, <1>4, <1>5, <1>6, <1>7, <1>8

\* Whoever is sent to wait has found no room.
LEMMA WaitKeepsLimiterInv ==
    ASSUME LimiterInv, NEW o \in Operations, Wait(o)
    PROVE  LimiterInv'
<1>. DEFINE p == ProjectOf[o]
<1>. USE LimiterAssumption DEF LimiterAssumption, LimiterInv
<1>1. /\ operation[o] = "trying" /\ ~ HasRoom(p) /\ Move(o, "waiting")
      /\ UNCHANGED <<total, active, cancelled, server, exists, deleted, policy, view>>
      /\ p \in Projects
  BY DEF Wait, MayProceed, PoliciesUnchanged
<1>2. In("holding")' = In("holding") /\ In("waiting")' = In("waiting") \cup {o}
  BY <1>1, MoveChangesTwoSets DEF In
<1>3. LimiterTypes'  BY <1>1 DEF LimiterTypes, Move, Step
<1>4. CountersMatchHolders'  BY <1>1, <1>2, SameHolders
<1>5. NoForgottenWaiter'
  <2>1. total = GlobalLimit \/ active[p] > 0
    <3>1. policy[p].workers \in Nat /\ active[p] \in Nat  BY <1>1 DEF LimiterTypes, Policy
    <3>2. /\ EffectiveLimit(policy[p].workers, GlobalLimit) \in Nat
          /\ 1 <= EffectiveLimit(policy[p].workers, GlobalLimit)
      BY <3>1, EffectiveLimitIsPositive
    <3>. QED  BY <1>1, <3>1, <3>2 DEF HasRoom, CountersMatchHolders, LimiterTypes
  <2>2. HasRoom(p)' = HasRoom(p)  BY <1>1 DEF HasRoom
  <2>3. ASSUME NEW v \in In("waiting")
        PROVE  /\ ProjectOf[v] \notin deleted => ~ HasRoom(ProjectOf[v])'
               /\ total' = GlobalLimit \/ active'[ProjectOf[v]] > 0
    BY <1>1 DEF NoForgottenWaiter, HasRoom
  <2>. QED  BY <1>1, <1>2, <2>1, <2>2, <2>3 DEF NoForgottenWaiter
<1>6. StopIsKnown' /\ DrainIsWoken' /\ WorkEndsWithServer'
  BY <1>1, <1>2 DEF StopIsKnown, DrainIsWoken, WorkEndsWithServer
<1>. QED  BY <1>3, <1>4, <1>5, <1>6

\* Ask, Refuse and GiveUp move an operation that holds nothing to a step
\* where it neither holds nor waits.
LEMMA IdleMoveKeepsLimiterInv ==
    ASSUME LimiterInv, NEW o \in Operations, NEW to \in {"trying", "refused"},
           operation[o] # "holding", Move(o, to),
           UNCHANGED <<total, active, cancelled, server>>, PoliciesUnchanged
    PROVE  LimiterInv'
<1>. USE DEF LimiterInv, PoliciesUnchanged
<1>1. In("holding")' = In("holding") /\ In("waiting")' \subseteq In("waiting")
  BY MoveChangesTwoSets DEF In
<1>2. LimiterTypes'  BY DEF LimiterTypes, Move, Step
<1>3. CountersMatchHolders' /\ NoForgottenWaiter'
  BY <1>1, SameHolders, SameWaiters
<1>. QED  BY <1>1, <1>2, <1>3 DEF StopIsKnown, DrainIsWoken, WorkEndsWithServer

\* A release gives both slots back and wakes everybody.
LEMMA ReleaseKeepsLimiterInv ==
    ASSUME LimiterInv, NEW o \in Operations, Release(o)
    PROVE  LimiterInv'
<1>. DEFINE p == ProjectOf[o]
            before == [operation EXCEPT ![o] = "done"]
<1>. USE LimiterAssumption DEF LimiterAssumption, LimiterInv
<1>1. /\ operation[o] = "holding" /\ NotifyFrom(before)
      /\ total' = total - 1 /\ active' = [active EXCEPT ![p] = @ - 1]
      /\ UNCHANGED <<cancelled, exists, deleted, policy, view>>
      /\ p \in Projects
  BY DEF Release, PoliciesUnchanged
<1>2. before \in [Operations -> Step]  BY DEF LimiterTypes, Step
<1>3. In("waiting")' = {} /\ In("holding")' = In("holding") \ {o} /\ o \in In("holding")
  BY <1>1, <1>2, NotifyEmptiesWaiting DEF In, LimiterTypes
<1>4. CountersMatchHolders' /\ total' \in Nat /\ active' \in [Projects -> Nat]
  <2>1. /\ Cardinality(In("holding") \ {o}) = Cardinality(In("holding")) - 1
        /\ Cardinality(In("holding") \ {o}) \in Nat
    BY <1>3, SetsOfOperationsAreFinite, FS_RemoveElement DEF In
  <2>2. total' = Cardinality(In("holding"))' /\ total' \in Nat /\ total' <= GlobalLimit
    <3>1. total \in Nat /\ GlobalLimit \in Nat /\ total <= GlobalLimit
      BY DEF CountersMatchHolders, LimiterTypes
    <3>2. total = Cardinality(In("holding"))  BY DEF CountersMatchHolders
    <3>3. total' = total - 1  BY <1>1
    <3>4. Cardinality(In("holding"))' = total - 1 /\ total - 1 \in Nat  BY <1>3, <2>1, <3>2
    <3>. QED  BY <3>1, <3>3, <3>4
  <2>3. ASSUME NEW q \in Projects
        PROVE  active'[q] = Cardinality(HoldersOf(q))' /\ active'[q] \in Nat
    <3>1. HoldersOf(q)' = IF q = p THEN HoldersOf(q) \ {o} ELSE HoldersOf(q)
      BY <1>3 DEF HoldersOf, In
    <3>2. q = p => o \in HoldersOf(q)  BY <1>3 DEF HoldersOf
    <3>3. /\ q = p => Cardinality(HoldersOf(q) \ {o}) = Cardinality(HoldersOf(q)) - 1
          /\ Cardinality(HoldersOf(q) \ {o}) \in Nat
      BY <3>2, SetsOfOperationsAreFinite, FS_RemoveElement DEF HoldersOf, In
    <3>. QED  BY <1>1, <3>1, <3>3 DEF CountersMatchHolders, LimiterTypes
  <2>. QED  BY <1>1, <2>2, <2>3 DEF CountersMatchHolders, LimiterTypes
<1>5. LimiterTypes'
  <2>1. operation' \in [Operations -> Step]  BY <1>1, <1>2, NotifyEmptiesWaiting
  <2>. QED  BY <1>1, <1>4, <2>1 DEF LimiterTypes, NotifyFrom
<1>6. NoForgottenWaiter'  BY <1>3 DEF NoForgottenWaiter
<1>7. StopIsKnown' /\ DrainIsWoken' /\ WorkEndsWithServer'
  BY <1>1, <1>3 DEF StopIsKnown, DrainIsWoken, WorkEndsWithServer, NotifyFrom, LimiterTypes
<1>. QED  BY <1>4, <1>5, <1>6, <1>7

\* A save of a policy, whatever its result, wakes everybody.
LEMMA PutLimitsKeepsLimiterInv ==
    ASSUME LimiterInv, NEW a \in Admins, NEW p \in Projects, NEW workers \in WorkerCaps,
           PutLimits(a, p, workers)
    PROVE  LimiterInv'
<1>. USE LimiterAssumption DEF LimiterAssumption, LimiterInv
<1>1. /\ NotifyFrom(operation)
      /\ UNCHANGED <<total, active, cancelled, exists, deleted>>
      /\ view' = [view EXCEPT ![a] = NoView]
      /\ policy' \in {policy, [policy EXCEPT ![p] =
             [revision |-> policy[p].revision + 1, workers |-> workers]]}
  BY DEF PutLimits
<1>2. operation \in [Operations -> Step]  BY DEF LimiterTypes
<1>3. In("waiting")' = {} /\ In("holding")' = In("holding")
  BY <1>1, <1>2, NotifyEmptiesWaiting DEF In
<1>4. LimiterTypes'
  <2>1. policy' \in [Projects -> Policy]  BY <1>1 DEF LimiterTypes, Policy
  <2>2. view' \in [Admins -> [project : SUBSET Projects, policy : Policy]]
    BY <1>1 DEF LimiterTypes, NoView, DefaultPolicy, Policy
  <2>3. operation' \in [Operations -> Step]
    BY <1>1, <1>2, NotifyEmptiesWaiting
  <2>4. server' \in {"up", "looking", "draining", "drained"}
    BY <1>1 DEF LimiterTypes, NotifyFrom
  <2>. QED  BY <1>1, <2>1, <2>2, <2>3, <2>4 DEF LimiterTypes
<1>5. CountersMatchHolders'  BY <1>1, <1>3, SameHolders
<1>6. NoForgottenWaiter'  BY <1>3 DEF NoForgottenWaiter
<1>7. StopIsKnown' /\ DrainIsWoken' /\ WorkEndsWithServer'
  BY <1>1, <1>3 DEF StopIsKnown, DrainIsWoken, WorkEndsWithServer, NotifyFrom, LimiterTypes
<1>. QED  BY <1>4, <1>5, <1>6, <1>7

\* The steps that touch neither operations nor counters.
LEMMA OtherStepsKeepLimiterInv ==
    ASSUME LimiterInv, UNCHANGED <<total, active, operation>>,
           \/ \E o \in Operations : CancelOperation(o)
           \/ \E a \in Admins, p \in Projects : ReadLimits(a, p)
           \/ \E p \in Projects : DeleteProject(p) \/ CreateProject(p)
           \/ Stop \/ LookForActive
    PROVE  LimiterInv'
<1>. USE LimiterAssumption DEF LimiterAssumption, LimiterInv, PoliciesUnchanged
<1>1. /\ In("holding")' = In("holding") /\ In("waiting")' = In("waiting")
  BY DEF In
<1>2. CountersMatchHolders'  BY <1>1, SameHolders
<1>3. CASE \E o \in Operations : CancelOperation(o)
  BY <1>1, <1>2, <1>3, SameWaiters
  DEF CancelOperation, LimiterTypes, StopIsKnown, DrainIsWoken, WorkEndsWithServer
<1>4. CASE \E a \in Admins, p \in Projects : ReadLimits(a, p)
  <2>1. PICK a \in Admins, p \in Projects : ReadLimits(a, p)  BY <1>4
  <2>2. LimiterTypes'  BY <2>1 DEF ReadLimits, LimiterTypes
  <2>. QED  BY <1>1, <1>2, <2>1, <2>2, SameWaiters
       DEF ReadLimits, StopIsKnown, DrainIsWoken, WorkEndsWithServer
<1>5. ASSUME NEW p \in Projects, DeleteProject(p)
      PROVE  LimiterInv'
  <2>1. /\ deleted' = deleted \cup {p} /\ p \in Deletable
        /\ policy' = [policy EXCEPT ![p] = DefaultPolicy]
        /\ UNCHANGED <<cancelled, view, server>>
        /\ exists' \subseteq exists
    BY <1>5 DEF DeleteProject
  <2>2. LimiterTypes'  BY <2>1 DEF LimiterTypes, DefaultPolicy, Policy
  <2>3. \A q \in Projects : q # p => policy'[q] = policy[q]  BY <2>1 DEF LimiterTypes
  <2>4. NoForgottenWaiter'
    BY <1>1, <2>1, <2>3 DEF NoForgottenWaiter, HasRoom, In
  <2>. QED  BY <1>1, <1>2, <2>1, <2>2, <2>4
       DEF StopIsKnown, DrainIsWoken, WorkEndsWithServer
<1>6. CASE \E p \in Projects : CreateProject(p)
  BY <1>1, <1>2, <1>6, SameWaiters
  DEF CreateProject, LimiterTypes, StopIsKnown, DrainIsWoken, WorkEndsWithServer
<1>7. CASE Stop
  BY <1>1, <1>2, <1>7, SameWaiters
  DEF Stop, LimiterTypes, StopIsKnown, DrainIsWoken, WorkEndsWithServer
<1>8. CASE LookForActive
  <2>1. total = 0 => In("holding") = {}
    BY SetsOfOperationsAreFinite, FS_EmptySet DEF CountersMatchHolders, In
  <2>. QED  BY <1>1, <1>2, <1>8, <2>1, SameWaiters
       DEF LookForActive, LimiterTypes, StopIsKnown, DrainIsWoken, WorkEndsWithServer
<1>. QED  BY <1>3, <1>4, <1>5, <1>6, <1>7, <1>8

-----------------------------------------------------------------------------
\* Before the first operation nobody holds or waits.
LEMMA InitLimiterInv == LimiterInit => LimiterInv
<1>. SUFFICES ASSUME LimiterInit PROVE LimiterInv
  OBVIOUS
<1>. USE LimiterAssumption DEF LimiterAssumption, LimiterInit
<1>1. LimiterTypes  BY DEF LimiterTypes, Step, DefaultPolicy, NoView, Policy
<1>2. In("holding") = {} /\ In("waiting") = {} /\ \A p \in Projects : HoldersOf(p) = {}
  BY DEF In, HoldersOf
<1>3. CountersMatchHolders
  <2>1. Cardinality({}) = 0  BY FS_EmptySet
  <2>2. total = 0 /\ total <= GlobalLimit /\ \A p \in Projects : active[p] = 0  OBVIOUS
  <2>. QED  BY <1>2, <2>1, <2>2 DEF CountersMatchHolders
<1>4. NoForgottenWaiter  BY <1>2 DEF NoForgottenWaiter
<1>. QED  BY <1>1, <1>3, <1>4 DEF LimiterInv, StopIsKnown, DrainIsWoken, WorkEndsWithServer

\* The invariant holds in every reachable state.
THEOREM LimiterInvariance == LimiterSpec => []LimiterInv
<1>1. LimiterInv /\ [LimiterNext]_limiterVars => LimiterInv'
  <2>. SUFFICES ASSUME LimiterInv, [LimiterNext]_limiterVars PROVE LimiterInv'
    OBVIOUS
  <2>1. ASSUME NEW o \in Operations, Ask(o) \/ Refuse(o) \/ GiveUp(o)
        PROVE  LimiterInv'
    BY <2>1, IdleMoveKeepsLimiterInv DEF Ask, Refuse, GiveUp
  <2>2. ASSUME NEW o \in Operations, CancelOperation(o)
        PROVE  LimiterInv'
    BY <2>2, OtherStepsKeepLimiterInv DEF CancelOperation
  <2>3. ASSUME NEW a \in Admins, NEW p \in Projects, ReadLimits(a, p)
        PROVE  LimiterInv'
    BY <2>3, OtherStepsKeepLimiterInv DEF ReadLimits
  <2>4. ASSUME NEW p \in Projects, DeleteProject(p) \/ CreateProject(p)
        PROVE  LimiterInv'
    BY <2>4, OtherStepsKeepLimiterInv DEF DeleteProject, CreateProject
  <2>5. CASE Stop \/ LookForActive
    BY <2>5, OtherStepsKeepLimiterInv DEF Stop, LookForActive
  <2>6. CASE UNCHANGED limiterVars
    BY <2>6 DEF limiterVars, LimiterInv, LimiterTypes, CountersMatchHolders, HoldersOf, In, NoForgottenWaiter,
                HasRoom, StopIsKnown, DrainIsWoken, WorkEndsWithServer
  <2>. QED  BY <2>1, <2>2, <2>3, <2>4, <2>5, <2>6,
               AdmitKeepsLimiterInv, WaitKeepsLimiterInv, ReleaseKeepsLimiterInv, PutLimitsKeepsLimiterInv
       DEF LimiterNext
<1>. QED  BY InitLimiterInv, <1>1, PTL DEF LimiterSpec

\* The state keeps its shape.
THEOREM LimiterStateIsTyped == LimiterSpec => []LimiterTypes
<1>1. LimiterInv => LimiterTypes  BY DEF LimiterInv
<1>. QED  BY LimiterInvariance, <1>1, PTL

\* The counters are the holders of slots and never exceed the budget.
THEOREM BudgetIsKept == LimiterSpec => []CountersMatchHolders
<1>1. LimiterInv => CountersMatchHolders  BY DEF LimiterInv
<1>. QED  BY LimiterInvariance, <1>1, PTL

\* No wakeup is lost, however policies change.
THEOREM NoWakeupIsLost == LimiterSpec => [](NoForgottenWaiter /\ DrainIsWoken)
<1>1. LimiterInv => NoForgottenWaiter /\ DrainIsWoken  BY DEF LimiterInv
<1>. QED  BY LimiterInvariance, <1>1, PTL

\* The work of the server ends with it.
THEOREM ServerWorkEnds == LimiterSpec => []WorkEndsWithServer
<1>1. LimiterInv => WorkEndsWithServer  BY DEF LimiterInv
<1>. QED  BY LimiterInvariance, <1>1, PTL

-----------------------------------------------------------------------------
(***************************************************************************)
(* Policies: revisions only grow while a project is not deleted, so a view *)
(* of the current revision is a view of the current policy.                *)
(***************************************************************************)
ViewsAreOfThePast ==
    \A a \in Admins, p \in Projects \ deleted : view[a].project = {p} =>
        /\ view[a].policy.revision <= policy[p].revision
        /\ view[a].policy.revision = policy[p].revision => view[a].policy = policy[p]

\* A save raises the revision, so that every other view becomes an old one.
LEMMA PutLimitsKeepsViews ==
    ASSUME LimiterTypes, ViewsAreOfThePast, NEW a \in Admins, NEW p \in Projects, NEW workers \in WorkerCaps,
           PutLimits(a, p, workers)
    PROVE  /\ ViewsAreOfThePast'
           /\ \A q \in exists \ deleted : policy'[q] # policy[q] =>
                 view[a] = [project |-> {q}, policy |-> policy[q]] /\ view'[a] = NoView
<1>. DEFINE next == [revision |-> policy[p].revision + 1, workers |-> workers]
<1>1. /\ policy \in [Projects -> [revision : Nat, workers : Nat]]
      /\ view \in [Admins -> [project : SUBSET Projects, policy : [revision : Nat, workers : Nat]]]
  BY DEF LimiterTypes, Policy
<1>2. /\ view[a].project = {p} /\ view' = [view EXCEPT ![a] = NoView] /\ deleted' = deleted
      /\ \/ policy' = policy
         \/ policy' = [policy EXCEPT ![p] = next] /\ view[a].policy.revision = policy[p].revision
  BY DEF PutLimits
<1>3. \A b \in Admins : view'[b] = IF b = a THEN NoView ELSE view[b]  BY <1>1, <1>2
<1>4. NoView.project = {}  BY DEF NoView
<1>5. CASE policy' = policy
  BY <1>2, <1>3, <1>4, <1>5 DEF ViewsAreOfThePast
<1>6. CASE policy' = [policy EXCEPT ![p] = next] /\ view[a].policy.revision = policy[p].revision
  <2>1. \A q \in Projects : policy'[q] = IF q = p THEN next ELSE policy[q]  BY <1>1, <1>6
  <2>2. next.revision = policy[p].revision + 1 /\ policy[p].revision \in Nat  BY <1>1
  <2>3. ASSUME NEW b \in Admins, NEW q \in Projects \ deleted, view'[b].project = {q}
        PROVE  /\ view'[b].policy.revision <= policy'[q].revision
               /\ view'[b].policy.revision = policy'[q].revision => view'[b].policy = policy'[q]
    <3>1. b # a /\ view'[b] = view[b]  BY <1>3, <1>4, <2>3
    <3>2. /\ view[b].policy.revision <= policy[q].revision
          /\ view[b].policy.revision = policy[q].revision => view[b].policy = policy[q]
          /\ view[b].policy.revision \in Nat
      BY <1>1, <2>3, <3>1 DEF ViewsAreOfThePast
    <3>3. CASE q = p  BY <2>1, <2>2, <3>1, <3>2, <3>3
    <3>4. CASE q # p  BY <2>1, <3>1, <3>2, <3>4
    <3>. QED  BY <3>3, <3>4
  <2>4. ViewsAreOfThePast'  BY <1>2, <2>3 DEF ViewsAreOfThePast
  <2>5. p \notin deleted => view[a] = [project |-> {p}, policy |-> policy[p]]
    <3>1. p \notin deleted => view[a].policy = policy[p]  BY <1>2, <1>6 DEF ViewsAreOfThePast
    <3>2. view[a] = [project |-> view[a].project, policy |-> view[a].policy]  BY <1>1
    <3>. QED  BY <1>2, <3>1, <3>2
  <2>6. exists \subseteq Projects  BY DEF LimiterTypes
  <2>. QED  BY <1>3, <2>1, <2>4, <2>5, <2>6
<1>. QED  BY <1>2, <1>5, <1>6

\* Every other step leaves policies of projects that stay as they are.
LEMMA NextKeepsViews ==
    ASSUME LimiterTypes, ViewsAreOfThePast, [LimiterNext]_limiterVars
    PROVE  /\ ViewsAreOfThePast'
           /\ \A q \in exists \ deleted' : policy'[q] # policy[q] =>
                 \E a \in Admins : view[a] = [project |-> {q}, policy |-> policy[q]] /\ view'[a] = NoView
<1>. DEFINE Goal ==
       /\ ViewsAreOfThePast'
       /\ \A q \in exists \ deleted' : policy'[q] # policy[q] =>
             \E a \in Admins : view[a] = [project |-> {q}, policy |-> policy[q]] /\ view'[a] = NoView
<1>1. ASSUME PoliciesUnchanged  PROVE Goal
  BY <1>1 DEF PoliciesUnchanged, ViewsAreOfThePast
<1>2. ASSUME NEW a \in Admins, NEW p \in Projects, ReadLimits(a, p)  PROVE Goal
  <2>1. /\ view' = [view EXCEPT ![a] = [project |-> {p}, policy |-> policy[p]]]
        /\ deleted' = deleted /\ policy' = policy
    BY <1>2 DEF ReadLimits
  <2>2. \A b \in Admins : view'[b] = IF b = a THEN [project |-> {p}, policy |-> policy[p]] ELSE view[b]
    BY <2>1 DEF LimiterTypes
  <2>3. policy[p].revision \in Nat  BY DEF LimiterTypes, Policy
  <2>. QED  BY <2>1, <2>2, <2>3 DEF ViewsAreOfThePast
<1>3. ASSUME NEW a \in Admins, NEW p \in Projects, NEW workers \in WorkerCaps, PutLimits(a, p, workers)
      PROVE  Goal
  <2>1. deleted' = deleted  BY <1>3 DEF PutLimits
  <2>. QED  BY <1>3, <2>1, PutLimitsKeepsViews
<1>4. ASSUME NEW p \in Projects, DeleteProject(p)  PROVE Goal
  <2>1. /\ deleted' = deleted \cup {p} /\ view' = view
        /\ policy' = [policy EXCEPT ![p] = DefaultPolicy]
    BY <1>4 DEF DeleteProject
  <2>2. \A q \in Projects : q # p => policy'[q] = policy[q]  BY <2>1 DEF LimiterTypes
  <2>3. exists \subseteq Projects  BY DEF LimiterTypes
  <2>. QED  BY <2>1, <2>2, <2>3 DEF ViewsAreOfThePast
<1>5. ASSUME NEW p \in Projects, CreateProject(p)  PROVE Goal
  BY <1>5 DEF CreateProject, ViewsAreOfThePast
<1>6. CASE UNCHANGED limiterVars
  BY <1>6 DEF limiterVars, ViewsAreOfThePast
<1>. QED
  BY <1>1, <1>2, <1>3, <1>4, <1>5, <1>6
  DEF LimiterNext, Ask, Refuse, Admit, Wait, GiveUp, Release, CancelOperation, Stop, LookForActive

\* A policy is replaced only by somebody who had read exactly that policy.
THEOREM NoPolicyIsOverwrittenUnseen == LimiterSpec => NoSilentOverwrite
<1>1. LimiterInit => ViewsAreOfThePast
  BY DEF LimiterInit, ViewsAreOfThePast, NoView
<1>2. LimiterTypes /\ ViewsAreOfThePast /\ [LimiterNext]_limiterVars => ViewsAreOfThePast'
  BY NextKeepsViews
<1>3. LimiterTypes /\ ViewsAreOfThePast /\ [LimiterNext]_limiterVars =>
        [\A p \in exists \ deleted' : policy'[p] # policy[p] =>
           \E a \in Admins : view[a] = [project |-> {p}, policy |-> policy[p]] /\ view'[a] = NoView]_limiterVars
  BY NextKeepsViews
<1>. QED  BY <1>1, <1>2, <1>3, LimiterStateIsTyped, PTL DEF LimiterSpec, NoSilentOverwrite

=============================================================================
