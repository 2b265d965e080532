------------------------- MODULE RepositoryLimiter -------------------------
(***************************************************************************)
(* The repository budget of internal/workspace/ui/limits.go: every clone,  *)
(* fetch and analysis takes a slot of the server and one of its project,   *)
(* both at once, under a policy administrators may change at any time      *)
(* (store/limits.go), and the shutdown of the server waits until all slots *)
(* are free again (StartListener in ui/server.go).                         *)
(*                                                                         *)
(* One pass of acquireRepository holds repositoryMu from its reads to its  *)
(* decision, and the channel it waits on is read under the same mutex:     *)
(* a pass is one action, and closing the channel moves everybody who       *)
(* waits back to the start of the loop.                                    *)
(*                                                                         *)
(* Abstractions.  An operation is one acquisition, used once.  A policy is *)
(* its revision and its cap on repository workers; max_pending_jobs is     *)
(* RefreshQueue's.  A policy that cannot be read refuses the operation     *)
(* whatever state it is in.                                                *)
(***************************************************************************)
EXTENDS Integers, FiniteSets

CONSTANTS
    Projects,       \* project ids (slugs: an id may be deleted and reused)
    Operations,     \* repository operations
    ProjectOf,      \* operation -> project
    OnRequest,      \* operations under the context of an HTTP request
    Admins,         \* administrators who edit policies
    GlobalLimit,    \* repository workers of the server (4 by default)
    WorkerCaps,     \* values given to repository_workers, 0 inherits
    Edited,         \* bound: projects whose policy is edited
    Deletable,      \* projects that may be deleted and created again, once each
    MaxRevision     \* bound: revision of a policy

ASSUME LimiterAssumption ==
    /\ IsFiniteSet(Operations)
    /\ ProjectOf \in [Operations -> Projects]
    /\ OnRequest \subseteq Operations
    /\ GlobalLimit \in Nat \ {0}
    /\ WorkerCaps \subseteq Nat
    /\ {Edited, Deletable} \subseteq SUBSET Projects
    /\ MaxRevision \in Nat

VARIABLES
    total,       \* repositoryTotal
    active,      \* project -> repositoryActive
    operation,   \* operation -> where it is
    cancelled,   \* operations whose context is done
    exists,      \* projects that exist
    deleted,     \* projects deleted so far
    policy,      \* project -> limits.json
    view,        \* admin -> the project and policy last read, or NoView
    server       \* "up", or how far StartListener is with draining

limiterVars == <<total, active, operation, cancelled, exists, deleted, policy, view, server>>

Policy        == [revision : Nat, workers : Nat]
DefaultPolicy == [revision |-> 0, workers |-> 0]
NoView        == [project |-> {}, policy |-> DefaultPolicy]

\* Mutant of EffectiveLimit: 0 is taken for a cap.
EffectiveLimitAsGiven(configured, global) == IF configured > global THEN global ELSE configured

EffectiveLimit(configured, global) ==
    IF configured = 0 \/ configured > global THEN global ELSE configured

Step == {"idle", "trying", "waiting", "holding", "done", "refused"}

In(step)     == {o \in Operations : operation[o] = step}
HoldersOf(p) == {o \in In("holding") : ProjectOf[o] = p}

\* Mutant of HasRoom: an operation too many.
HasRoomForOneMore(p) ==
    /\ total <= GlobalLimit
    /\ active[p] < EffectiveLimit(policy[p].workers, GlobalLimit)

HasRoom(p) ==
    /\ total < GlobalLimit
    /\ active[p] < EffectiveLimit(policy[p].workers, GlobalLimit)

\* The channel is closed and replaced: with the operations as in `step`, those
\* that wait on it start another pass, and so does the drain.
NotifyFrom(step) ==
    /\ operation' = [o \in Operations |-> IF step[o] = "waiting" THEN "trying" ELSE step[o]]
    /\ server' = IF server = "draining" THEN "looking" ELSE server

Move(o, step) == operation' = [operation EXCEPT ![o] = step]
PoliciesUnchanged == UNCHANGED <<exists, deleted, policy, view>>

(***************************************************************************)
(* acquireRepository                                                       *)
(***************************************************************************)
Ask(o) ==
    /\ operation[o] = "idle"
    /\ Move(o, "trying")
    /\ UNCHANGED <<total, active, cancelled, server>> /\ PoliciesUnchanged

\* The context is done, the project is gone or its policy is unreadable.
Refuse(o) ==
    /\ operation[o] = "trying"
    /\ Move(o, "refused")
    /\ UNCHANGED <<total, active, cancelled, server>> /\ PoliciesUnchanged

\* Mutant of MayProceed: the context is not looked at again after a wait.
MayProceedCancelled(o) == operation[o] = "trying" /\ ProjectOf[o] \in exists

MayProceed(o) == operation[o] = "trying" /\ o \notin cancelled /\ ProjectOf[o] \in exists

Admit(o) ==
    /\ MayProceed(o)
    /\ HasRoom(ProjectOf[o])
    /\ Move(o, "holding")
    /\ total' = total + 1
    /\ active' = [active EXCEPT ![ProjectOf[o]] = @ + 1]
    /\ UNCHANGED <<cancelled, server>> /\ PoliciesUnchanged

Wait(o) ==
    /\ MayProceed(o)
    /\ ~ HasRoom(ProjectOf[o])
    /\ Move(o, "waiting")
    /\ UNCHANGED <<total, active, cancelled, server>> /\ PoliciesUnchanged

GiveUp(o) ==
    /\ operation[o] = "waiting"
    /\ o \in cancelled
    /\ Move(o, "refused")
    /\ UNCHANGED <<total, active, cancelled, server>> /\ PoliciesUnchanged

\* Mutant of Release: nobody is told.
ReleaseQuietly(o) ==
    /\ operation[o] = "holding"
    /\ total' = total - 1
    /\ active' = [active EXCEPT ![ProjectOf[o]] = @ - 1]
    /\ Move(o, "done")
    /\ UNCHANGED <<cancelled, server>> /\ PoliciesUnchanged

Release(o) ==
    /\ operation[o] = "holding"
    /\ total' = total - 1
    /\ active' = [active EXCEPT ![ProjectOf[o]] = @ - 1]
    /\ NotifyFrom([operation EXCEPT ![o] = "done"])
    /\ UNCHANGED cancelled /\ PoliciesUnchanged

\* A cancellation matters to the limiter until the operation has its slot.
CancelOperation(o) ==
    /\ operation[o] \in {"trying", "waiting"}
    /\ o \notin cancelled
    /\ cancelled' = cancelled \cup {o}
    /\ UNCHANGED <<total, active, operation, server>> /\ PoliciesUnchanged

(***************************************************************************)
(* Policies and projects                                                   *)
(***************************************************************************)
ReadLimits(a, p) ==
    /\ p \in exists \cap Edited
    /\ view' = [view EXCEPT ![a] = [project |-> {p}, policy |-> policy[p]]]
    /\ UNCHANGED <<total, active, operation, cancelled, exists, deleted, policy, server>>

\* Mutants of PutLimits: nobody is told; the revision is not compared.
PutLimitsQuietly(a, p, workers) ==
    /\ view[a].project = {p}
    /\ p \in exists
    /\ view[a].policy.revision = policy[p].revision
    /\ policy[p].revision < MaxRevision
    /\ policy' = [policy EXCEPT ![p] = [revision |-> @.revision + 1, workers |-> workers]]
    /\ view' = [view EXCEPT ![a] = NoView]
    /\ UNCHANGED <<total, active, operation, cancelled, exists, deleted, server>>
PutLimitsUnseen(a, p, workers) ==
    /\ view[a].project = {p}
    /\ p \in exists
    /\ policy[p].revision < MaxRevision
    /\ policy' = [policy EXCEPT ![p] = [revision |-> @.revision + 1, workers |-> workers]]
    /\ view' = [view EXCEPT ![a] = NoView]
    /\ NotifyFrom(operation)
    /\ UNCHANGED <<total, active, cancelled, exists, deleted>>

\* The save of an administrator who has read the policy of p: a stale
\* revision is a conflict, and a write that fails may have taken effect.
\* Whatever the result, waiters look again.
PutLimits(a, p, workers) ==
    /\ view[a].project = {p}
    /\ p \in exists
    /\ LET current  == policy[p]
           accepted == view[a].policy.revision = current.revision
           next     == [revision |-> current.revision + 1, workers |-> workers]
       IN  /\ accepted => current.revision < MaxRevision
           /\ policy' \in IF accepted THEN {policy, [policy EXCEPT ![p] = next]}
                                      ELSE {policy}
    /\ view' = [view EXCEPT ![a] = NoView]
    /\ NotifyFrom(operation)
    /\ UNCHANGED <<total, active, cancelled, exists, deleted>>

\* The directory of the project goes, its limits with it; operations of the
\* project are not told.
DeleteProject(p) ==
    /\ p \in (exists \cap Deletable) \ deleted
    /\ exists' = exists \ {p}
    /\ deleted' = deleted \cup {p}
    /\ policy' = [policy EXCEPT ![p] = DefaultPolicy]
    /\ UNCHANGED <<total, active, operation, cancelled, view, server>>

CreateProject(p) ==
    /\ p \in deleted \ exists
    /\ exists' = exists \cup {p}
    /\ UNCHANGED <<total, active, operation, cancelled, deleted, policy, view, server>>

(***************************************************************************)
(* Shutdown                                                                *)
(***************************************************************************)
\* The context of the server ends, and with it that of the work it started;
\* a direct sync (handleSyncRepo) runs under its request, which goes on.
Stop ==
    /\ server = "up"
    /\ server' = "looking"
    /\ cancelled' = cancelled \cup (Operations \ OnRequest)
    /\ UNCHANGED <<total, active, operation>> /\ PoliciesUnchanged

LookForActive ==
    /\ server = "looking"
    /\ server' = IF total = 0 THEN "drained" ELSE "draining"
    /\ UNCHANGED <<total, active, operation, cancelled>> /\ PoliciesUnchanged

LimiterInit ==
    /\ total = 0
    /\ active = [p \in Projects |-> 0]
    /\ operation = [o \in Operations |-> "idle"]
    /\ cancelled = {}
    /\ exists = Projects /\ deleted = {}
    /\ policy = [p \in Projects |-> DefaultPolicy]
    /\ view = [a \in Admins |-> NoView]
    /\ server = "up"

LimiterNext ==
    \/ \E o \in Operations :
          \/ Ask(o) \/ Refuse(o) \/ Admit(o) \/ Wait(o) \/ GiveUp(o)
          \/ Release(o) \/ CancelOperation(o)
    \/ \E a \in Admins, p \in Projects :
          ReadLimits(a, p) \/ \E workers \in WorkerCaps : PutLimits(a, p, workers)
    \/ \E p \in Projects : DeleteProject(p) \/ CreateProject(p)
    \/ Stop \/ LookForActive

LimiterSpec == LimiterInit /\ [][LimiterNext]_limiterVars

\* An operation that may take a pass takes it, an operation that holds a slot
\* ends, and so does one whose context is done.
FairLimiterSpec ==
    /\ LimiterSpec
    /\ \A o \in Operations :
          /\ WF_limiterVars(Admit(o) \/ Wait(o) \/ (~ MayProceed(o) /\ Refuse(o)))
          /\ WF_limiterVars(GiveUp(o)) /\ WF_limiterVars(Release(o))
    /\ WF_limiterVars(LookForActive)

(***************************************************************************)
(* Properties                                                              *)
(***************************************************************************)
LimiterTypes ==
    /\ total \in Nat
    /\ active \in [Projects -> Nat]
    /\ operation \in [Operations -> Step]
    /\ cancelled \subseteq Operations
    /\ exists \subseteq Projects /\ deleted \subseteq Deletable
    /\ policy \in [Projects -> Policy]
    /\ view \in [Admins -> [project : SUBSET Projects, policy : Policy]]
    /\ server \in {"up", "looking", "draining", "drained"}

\* The two counters are the operations that hold a slot, and the server never
\* runs more of them than its budget.
CountersMatchHolders ==
    /\ total = Cardinality(In("holding")) /\ total <= GlobalLimit
    /\ \A p \in Projects : active[p] = Cardinality(HoldersOf(p))

\* No lost wakeup ("Raising a cap wakes waiting work"; "Wake even on an
\* uncertain write result"): whoever waits has no room under the policy on
\* disk as it is now.  Deleting a project resets its policy without waking
\* anybody; then somebody else still holds a slot whose release will.
NoForgottenWaiter ==
    \A o \in In("waiting") :
        LET p == ProjectOf[o]
        IN  /\ p \notin deleted => ~ HasRoom(p)
            /\ total = GlobalLimit \/ active[p] > 0

\* The drain of StartListener cannot miss the last release.
DrainIsWoken == server = "draining" => total > 0

\* Work of the server gets no slot once the drain is over: what the server
\* started has ended or will be refused.
WorkEndsWithServer ==
    server = "drained" => In("holding") \subseteq OnRequest

\* "An outdated admin cannot silently overwrite another's quota": a policy
\* is replaced only by somebody who had read exactly that policy.  (Not so
\* for a project deleted and created again, whose revisions start over.)
NoSilentOverwrite ==
    [][\A p \in exists \ deleted' : policy'[p] # policy[p] =>
         \E a \in Admins : view[a] = [project |-> {p}, policy |-> policy[p]] /\ view'[a] = NoView]_limiterVars

\* Every operation gets a slot or a refusal: slots are released, a cap is
\* never below one, and nobody waits on somebody who waits.
EveryOperationSettles ==
    \A o \in Operations :
        operation[o] \in {"trying", "waiting"} ~> operation[o] \in {"holding", "done", "refused"}

\* A stopped server gets through its drain.
ShutdownDrains == server = "looking" ~> server = "drained"

(***************************************************************************)
(* What a comment says and the code does not do.                           *)
(***************************************************************************)
\* "Direct repository actions share this budget and the server context.
\* Drain their cancelled subprocesses before relinquishing CLI leases": no
\* repository operation holds a slot after the drain.
DrainLeavesNothing == server = "drained" => total = 0

=============================================================================
