--------------------------- MODULE QueueMigration ---------------------------
(***************************************************************************)
(* The home of a workspace as its processes share it: the maintenance      *)
(* lease and the server lock (internal/workspace/homelock), the jobs of    *)
(* the queue in their two forms (store/jobs_sqlite.go: lockJobs) and the   *)
(* offline migration from one to the other (store/queue_migration.go).     *)
(*                                                                         *)
(* AgentHost extends this module with the processes.                       *)
(*                                                                         *)
(* Abstractions.  All jobs are one version number; a write of any of them  *)
(* makes the next.  Locks are the kernel's: they go with their process,    *)
(* however it ends.  The staged database is complete and synced before its *)
(* directory is renamed; what can be lost with the power is the rename.    *)
(* What the import refuses (foreign fields, large files, symlinks) is one  *)
(* of the failures that every step may meet.                               *)
(***************************************************************************)
EXTENDS Integers, FiniteSets

CONSTANTS
    Backends,    \* server processes
    Commands,    \* storage migrate commands
    Analyser,    \* an analyser that has outlived its server
    None,        \* nobody
    MaxVersion   \* bound: writes of jobs

ASSUME MigrationAssumption ==
    /\ Backends \cap Commands = {}
    /\ Analyser \notin Backends \cup Commands
    /\ None \notin Backends \cup Commands \cup {Analyser}
    /\ MaxVersion \in Nat

VARIABLES
    shared,      \* processes that hold the shared lease
    exclusive,   \* the command that holds the exclusive lease
    serverLock,  \* the server that owns the home
    json,        \* version in jobs/*.json
    queue,       \* queue/: whether it is there, its version, whether its name is synced
    acked,       \* version whose write was answered
    exposed,     \* a job was written while the name of queue/ was not synced
    command      \* command -> step and the version it has imported

storage == <<json, queue, acked, exposed>>
leases  == <<shared, exclusive, serverLock>>

NoQueue   == [there |-> FALSE, version |-> 0, synced |-> TRUE]
NoCommand == [step |-> "idle", copy |-> 0]
Exited    == {"idle", "done", "failed"}

\* lockJobs: the directory alone decides which form is the queue.
Live == IF queue.there THEN queue.version ELSE json

WriteJob ==
    /\ Live < MaxVersion
    /\ IF queue.there THEN queue' = [queue EXCEPT !.version = @ + 1] /\ UNCHANGED json
                      ELSE json' = json + 1 /\ UNCHANGED queue
    /\ acked' = Live + 1
    /\ exposed' = (exposed \/ (queue.there /\ ~ queue.synced))

CommandStep(c, step) == command' = [command EXCEPT ![c].step = step]

\* However a command ends, its lease goes with it.
Exit(c, step) ==
    /\ CommandStep(c, step)
    /\ exclusive' = IF exclusive = c THEN None ELSE exclusive

\* Mutant of LeaseIsFree: the command takes the lease beside those who share it.
LeaseIsShared == exclusive = None

LeaseIsFree == exclusive = None /\ shared = {}

TakeLease(c) ==
    /\ command[c].step = "started"
    /\ LeaseIsFree
    /\ exclusive' = c
    /\ CommandStep(c, "leased")
    /\ UNCHANGED <<shared, serverLock, storage>>

\* A queue that is there is verified and left alone: already_migrated.
LookForQueue(c) ==
    /\ command[c].step = "leased"
    /\ \/ queue.there /\ Exit(c, "done")
       \/ ~ queue.there /\ CommandStep(c, "import") /\ UNCHANGED exclusive
    /\ UNCHANGED <<shared, serverLock, storage>>

Import(c) ==
    /\ command[c].step = "import"
    /\ command' = [command EXCEPT ![c] = [step |-> "publish", copy |-> json]]
    /\ UNCHANGED <<leases, storage>>

PublishQueue(c) ==
    /\ command[c].step = "publish"
    /\ ~ queue.there
    /\ queue' = [there |-> TRUE, version |-> command[c].copy, synced |-> FALSE]
    /\ CommandStep(c, "sync")
    /\ UNCHANGED <<leases, json, acked, exposed>>

SyncQueue(c) ==
    /\ command[c].step = "sync"
    /\ queue' = [queue EXCEPT !.synced = TRUE]
    /\ Exit(c, "done")
    /\ UNCHANGED <<shared, serverLock, json, acked, exposed>>

\* Any step may fail, the command may be refused the lease or be killed.
CommandFails(c) ==
    /\ command[c].step \notin Exited
    /\ Exit(c, "failed")
    /\ UNCHANGED <<shared, serverLock, storage>>

\* The rename of queue/ is found done or undone, unless it was synced.
PowerLossOfQueue ==
    /\ queue' \in {[queue EXCEPT !.synced = TRUE]} \cup (IF queue.synced THEN {} ELSE {NoQueue})
    /\ shared' = {} /\ exclusive' = None /\ serverLock' = None
    /\ command' = [c \in Commands |->
           IF command[c].step = "idle" THEN command[c] ELSE [command[c] EXCEPT !.step = "failed"]]
    /\ UNCHANGED <<json, acked, exposed>>

InitStorage ==
    /\ shared = {} /\ exclusive = None /\ serverLock = None
    /\ json = 0 /\ queue = NoQueue /\ acked = 0 /\ exposed = FALSE
    /\ command = [c \in Commands |-> NoCommand]

RunCommand(c) ==
    TakeLease(c) \/ LookForQueue(c) \/ Import(c) \/ PublishQueue(c) \/ SyncQueue(c)

-----------------------------------------------------------------------------
\* Every answered write of a job is in the queue that the next read opens,
\* through failed, repeated and killed migrations and through losses of power;
\* except that a write may be lost with a rename that no migration reported
\* as synced.  queue_migration.go: MigrateQueue; docs/queue-storage.md "it
\* never reimports stale JSON".
JobsSurvive == Live = acked \/ exposed
=============================================================================
