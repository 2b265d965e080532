----------------------------- MODULE AgentHost -----------------------------
(***************************************************************************)
(* The local agent that owns a backend (internal/workspace/agenthost/      *)
(* host.go, cmd/diffmind/agent.go), composed with the home that the        *)
(* backend and the maintenance commands share (QueueMigration).            *)
(*                                                                         *)
(* The host's operations hold its mutex to their end, so one is at work at *)
(* a time; it is a list of pieces that are still to be done, and an error  *)
(* changes the list.  The processes it starts go their own way: a backend  *)
(* may exit at any time, ignore the deadline of a stop, or outlive a       *)
(* controller that dies; a command outlives its controller, too.           *)
(*                                                                         *)
(* Abstractions.  Settings are values of which the host has validated each;*)
(* the bodies of requests are left out, and so is what a command prints.   *)
(* Deadlines (20 s for a start, 15 s for a stop, 5 min for a command) are  *)
(* steps that may come at any time.  A command is a migration; those that  *)
(* only read, or take the lease without writing jobs, change nothing here. *)
(***************************************************************************)
EXTENDS QueueMigration, Sequences, SequencesExt

CONSTANTS
    Settings,        \* values of the settings
    Default,         \* DefaultSettings
    MaxOperations,   \* bound: operations of the agent
    MaxDeaths,       \* bound: controllers and backends that die
    MaxPowerLosses   \* bound: losses of power

ASSUME HostAssumption ==
    /\ Default \in Settings
    /\ {MaxOperations, MaxDeaths, MaxPowerLosses} \subseteq Nat

VARIABLES
    controller,  \* the process that holds the controller lock is up
    host,        \* its Host: cmd, settings
    disk,        \* agent-settings.json, or the default without it
    op,          \* the operation at work: kind, pieces to do, what it remembers
    backend,     \* backend -> state, settings, whether its owner pipe is open
    used         \* operations, deaths and losses of power so far

vars == <<leases, storage, command, controller, host, disk, op, backend, used>>

NoBackend == [state |-> "none", settings |-> Default, owned |-> FALSE]
NoHost    == [cmd |-> None, settings |-> Default]
NoOp      == [kind |-> "none", todo |-> << >>, new |-> Default, old |-> Default, running |-> FALSE,
              command |-> None]
Alive     == {"booting", "leased", "serving", "draining"}

\* What each operation of the host does, piece by piece.
Pieces == [start     |-> <<"start">>,
           stop      |-> <<"stop">>,
           restart   |-> <<"stop", "start">>,
           configure |-> <<"stop", "set", "start", "save">>,
           command   |-> <<"look", "stop", "run", "restart">>,
           exit      |-> <<"quiet_stop", "exit">>]

Doing(piece) == controller /\ op.kind # "none" /\ Head(op.todo) = piece
Go(todo) == op' = IF todo = << >> THEN NoOp ELSE [op EXCEPT !.todo = todo]
Rest == Tail(op.todo)
Done == Go(Rest)

UnchangedHome == UNCHANGED <<leases, storage, command>>

\* status: an exited backend is noticed by whoever asks next.
HasExited(b) == backend[b].state = "exited"
Running == host.cmd # None /\ ~ HasExited(host.cmd)

Forget(b) == IF b = None THEN backend ELSE [backend EXCEPT ![b] = NoBackend]

\* A process that ends lets go of its locks; a server that does not stop by
\* itself may leave an analyser behind, which keeps its share of the lease.
Release(b, left) ==
    /\ shared' = (shared \ {b}) \cup left
    /\ serverLock' = IF serverLock = b THEN None ELSE serverLock
    /\ UNCHANGED exclusive

Left(b) == IF backend[b].state \in {"serving", "draining"} THEN {{}, {Analyser}} ELSE {{}}

(***************************************************************************)
(* Stop                                                                    *)
(***************************************************************************)
\* SIGTERM ends a backend that has not got as far as its handler.
Signal(piece, next) ==
    /\ Doing(piece)
    /\ \/ /\ ~ Running
          /\ backend' = Forget(host.cmd)
          /\ host' = [host EXCEPT !.cmd = None]
          /\ Done
          /\ UNCHANGED leases
       \/ /\ Running
          /\ LET b == host.cmd
             IN  \/ /\ backend[b].state \in {"serving", "draining"}
                    /\ backend' = [backend EXCEPT ![b].state = "draining"]
                    /\ UNCHANGED leases
                 \/ /\ backend[b].state \in {"booting", "leased"}
                    /\ backend' = [backend EXCEPT ![b].state = "exited"]
                    /\ Release(b, {})
          /\ Go(<<next>> \o Rest)
          /\ UNCHANGED host
    /\ UNCHANGED <<storage, command, controller, disk, used>>

StopEnds(piece) ==
    /\ Doing(piece)
    /\ HasExited(host.cmd)
    /\ backend' = Forget(host.cmd)
    /\ host' = [host EXCEPT !.cmd = None]
    /\ Done
    /\ UnchangedHome /\ UNCHANGED <<controller, disk, used>>

\* Mutant of Overdue: the host waits without a deadline.
OverdueNever == FALSE

\* The deadline of a start or a stop may pass whenever the backend still runs.
Overdue == Running

\* After 15 seconds the process group is killed, and stop reports an error,
\* which ends the operation unless it is dropped.
StopKills(piece) ==
    /\ Doing(piece)
    /\ Overdue
    /\ \E left \in Left(host.cmd) : Release(host.cmd, left)
    /\ backend' = Forget(host.cmd)
    /\ host' = [host EXCEPT !.cmd = None]
    /\ Go(IF piece = "stopping" THEN << >> ELSE Rest)
    /\ UNCHANGED <<storage, command, controller, disk, used>>

Stop ==
    \/ Signal("stop", "stopping") \/ StopEnds("stopping") \/ StopKills("stopping")
    \/ Signal("quiet_stop", "quietly_stopping")
    \/ StopEnds("quietly_stopping") \/ StopKills("quietly_stopping")

(***************************************************************************)
(* Start                                                                   *)
(***************************************************************************)
Spawn ==
    /\ Doing("start")
    /\ \/ /\ Running
          /\ Done
          /\ UNCHANGED <<host, backend>>
       \/ /\ ~ Running
          /\ \E b \in Backends :
                 /\ backend[b].state = "none"
                 /\ backend' = [Forget(host.cmd) EXCEPT ![b] =
                        [state |-> "booting", settings |-> host.settings, owned |-> TRUE]]
                 /\ host' = [host EXCEPT !.cmd = b]
          /\ Go(<<"booting">> \o Rest)
    /\ UnchangedHome /\ UNCHANGED <<controller, disk, used>>

SpawnFails ==
    /\ Doing("start")
    /\ ~ Running
    /\ backend' = Forget(host.cmd)
    /\ host' = [host EXCEPT !.cmd = None]
    /\ Go(<<"start_failed">> \o Rest)
    /\ UnchangedHome /\ UNCHANGED <<controller, disk, used>>

\* The backend answers, or is found to have exited.
Ready ==
    /\ Doing("booting")
    /\ \/ /\ backend[host.cmd].state = "serving"
          /\ Done
          /\ UNCHANGED <<host, backend>>
       \/ /\ HasExited(host.cmd)
          /\ backend' = Forget(host.cmd)
          /\ host' = [host EXCEPT !.cmd = None]
          /\ Go(<<"start_failed">> \o Rest)
    /\ UnchangedHome /\ UNCHANGED <<controller, disk, used>>

\* Mutant of AfterTimeout: start gives up and leaves the backend to itself.
AfterTimeoutNothing == [host |-> [host EXCEPT !.cmd = None], todo |-> <<"start_failed">>]

AfterTimeout == [host |-> host, todo |-> <<"quiet_stop", "start_failed">>]

\* 20 seconds are over, or the agent's request has been cancelled.
StartTimesOut ==
    /\ Doing("booting")
    /\ Overdue
    /\ host' = AfterTimeout.host
    /\ Go(AfterTimeout.todo \o Rest)
    /\ UnchangedHome /\ UNCHANGED <<controller, disk, backend, used>>

\* Configure goes back to the old settings and starts once more; the agent
\* that has just been opened gives up; everything else ends with the error.
StartFailed ==
    /\ Doing("start_failed")
    /\ Go(IF Rest = <<"save">> THEN <<"revert", "start">>
          ELSE IF op.kind = "open" THEN <<"exit">> ELSE << >>)
    /\ UnchangedHome /\ UNCHANGED <<controller, host, disk, backend, used>>

Start == Spawn \/ SpawnFails \/ Ready \/ StartTimesOut \/ StartFailed

(***************************************************************************)
(* Configure                                                               *)
(***************************************************************************)
Set ==
    /\ Doing("set")
    /\ host' = [host EXCEPT !.settings = op.new]
    /\ Done
    /\ UnchangedHome /\ UNCHANGED <<controller, disk, backend, used>>

Save ==
    /\ Doing("save")
    /\ disk' = op.new
    /\ Done
    /\ UnchangedHome /\ UNCHANGED <<controller, host, backend, used>>

\* Mutant of AfterSaveFailed: the backend keeps what it has been started with.
AfterSaveFailedRevert == <<"revert">>

AfterSaveFailed == <<"quiet_stop", "revert", "start">>

SaveFails ==
    /\ Doing("save")
    /\ Go(AfterSaveFailed)
    /\ UnchangedHome /\ UNCHANGED <<controller, host, disk, backend, used>>

Revert ==
    /\ Doing("revert")
    /\ host' = [host EXCEPT !.settings = op.old]
    /\ Done
    /\ UnchangedHome /\ UNCHANGED <<controller, disk, backend, used>>

Configure == Set \/ Save \/ SaveFails \/ Revert

(***************************************************************************)
(* Command                                                                 *)
(***************************************************************************)
Look ==
    /\ Doing("look")
    /\ op' = [op EXCEPT !.todo = Rest, !.running = Running]
    /\ UnchangedHome /\ UNCHANGED <<controller, host, disk, backend, used>>

\* The program of the host itself; it may fail to start.
Run ==
    /\ Doing("run")
    /\ \/ \E c \in Commands :
              /\ command[c].step = "idle"
              /\ CommandStep(c, "started")
              /\ op' = [op EXCEPT !.todo = <<"running">> \o Rest, !.command = c]
       \/ Done /\ UNCHANGED command
    /\ UNCHANGED <<leases, storage, controller, host, disk, backend, used>>

CommandEnds ==
    /\ Doing("running")
    /\ command[op.command].step \in Exited
    /\ Done
    /\ UnchangedHome /\ UNCHANGED <<controller, host, disk, backend, used>>

Restart ==
    /\ Doing("restart")
    /\ Go(IF op.running THEN <<"start">> ELSE << >>)
    /\ UnchangedHome /\ UNCHANGED <<controller, host, disk, backend, used>>

Command == Look \/ Run \/ CommandEnds \/ Restart

(***************************************************************************)
(* The backend                                                             *)
(***************************************************************************)
\* The host keeps what it has started until it looks at it again.
Ended(b) == [backend EXCEPT ![b] = IF host.cmd = b THEN [@ EXCEPT !.state = "exited"] ELSE NoBackend]

UnchangedHost == UNCHANGED <<controller, host, disk, op>>

BackendLeases(b) ==
    /\ backend[b].state = "booting"
    /\ exclusive = None
    /\ shared' = shared \cup {b}
    /\ backend' = [backend EXCEPT ![b].state = "leased"]
    /\ UNCHANGED <<exclusive, serverLock, storage, command, used>> /\ UnchangedHost

BackendServes(b) ==
    /\ backend[b].state = "leased"
    /\ serverLock = None
    /\ serverLock' = b
    /\ backend' = [backend EXCEPT ![b].state = "serving"]
    /\ UNCHANGED <<shared, exclusive, storage, command, used>> /\ UnchangedHost

\* Both locks are tried once.
BackendRefused(b) ==
    /\ \/ backend[b].state = "booting" /\ exclusive # None
       \/ backend[b].state = "leased" /\ serverLock # None
    /\ Release(b, {})
    /\ backend' = Ended(b)
    /\ UNCHANGED <<storage, command, used>> /\ UnchangedHost

\* Mutant of LosesOwner: the backend does not watch its owner pipe.
LosesNobody(b) == FALSE

LosesOwner(b) == backend[b].state = "serving" /\ ~ backend[b].owned

Orphaned(b) ==
    /\ LosesOwner(b)
    /\ backend' = [backend EXCEPT ![b].state = "draining"]
    /\ UnchangedHome /\ UNCHANGED used /\ UnchangedHost

Drained(b) ==
    /\ backend[b].state = "draining"
    /\ Release(b, {})
    /\ backend' = Ended(b)
    /\ UNCHANGED <<storage, command, used>> /\ UnchangedHost

Write(b) ==
    /\ backend[b].state \in {"serving", "draining"}
    /\ WriteJob
    /\ UNCHANGED <<leases, command, backend, used>> /\ UnchangedHost

BackendDies(b) ==
    /\ backend[b].state \in Alive
    /\ used.deaths < MaxDeaths
    /\ used' = [used EXCEPT !.deaths = @ + 1]
    /\ \E left \in Left(b) : Release(b, left)
    /\ backend' = Ended(b)
    /\ UNCHANGED <<storage, command>> /\ UnchangedHost

AnalyserEnds ==
    /\ Analyser \in shared
    /\ shared' = shared \ {Analyser}
    /\ UNCHANGED <<exclusive, serverLock, storage, command, backend, used>> /\ UnchangedHost

(***************************************************************************)
(* The controller                                                          *)
(***************************************************************************)
\* runAgent: the settings are read from the disk, the backend is started.
OpenController ==
    /\ ~ controller
    /\ used.operations < MaxOperations
    /\ used' = [used EXCEPT !.operations = @ + 1]
    /\ controller' = TRUE
    /\ host' = [cmd |-> None, settings |-> disk]
    /\ op' = [NoOp EXCEPT !.kind = "open", !.todo = <<"start">>]
    /\ UnchangedHome /\ UNCHANGED <<disk, backend>>

Begin(kind, new) ==
    /\ controller
    /\ op.kind = "none"
    /\ used.operations < MaxOperations
    /\ used' = [used EXCEPT !.operations = @ + 1]
    /\ op' = [NoOp EXCEPT !.kind = kind, !.todo = Pieces[kind], !.new = new, !.old = host.settings]
    /\ UnchangedHome /\ UNCHANGED <<controller, host, disk, backend>>

\* Nobody owns what the controller leaves behind.
Disowned == [b \in Backends |->
    IF backend[b].state \in Alive THEN [backend[b] EXCEPT !.owned = FALSE] ELSE NoBackend]

ControllerGone ==
    /\ controller' = FALSE
    /\ host' = NoHost
    /\ op' = NoOp
    /\ backend' = Disowned
    /\ UnchangedHome /\ UNCHANGED disk

ExitController == Doing("exit") /\ ControllerGone /\ UNCHANGED used

ControllerDies ==
    /\ controller
    /\ used.deaths < MaxDeaths
    /\ used' = [used EXCEPT !.deaths = @ + 1]
    /\ ControllerGone

PowerLoss ==
    /\ used.losses < MaxPowerLosses
    /\ used' = [used EXCEPT !.losses = @ + 1]
    /\ PowerLossOfQueue
    /\ controller' = FALSE /\ host' = NoHost /\ op' = NoOp
    /\ backend' = [b \in Backends |-> NoBackend]
    /\ UNCHANGED disk

-----------------------------------------------------------------------------
Init ==
    /\ InitStorage
    /\ controller = FALSE /\ host = NoHost /\ disk = Default /\ op = NoOp
    /\ backend = [b \in Backends |-> NoBackend]
    /\ used = [operations |-> 0, deaths |-> 0, losses |-> 0]

HostStep == Stop \/ Start \/ Configure \/ Command \/ ExitController

BackendStep(b) ==
    BackendLeases(b) \/ BackendServes(b) \/ BackendRefused(b) \/ Orphaned(b) \/ Drained(b)

CommandProcess(c) ==
    /\ RunCommand(c) \/ CommandFails(c)
    /\ UNCHANGED <<controller, host, disk, op, backend, used>>

Next ==
    \/ HostStep \/ OpenController \/ ControllerDies \/ PowerLoss \/ AnalyserEnds
    \/ \E kind \in DOMAIN Pieces, new \in Settings :
           (kind # "configure" => new = Default) /\ Begin(kind, new)
    \/ \E b \in Backends : BackendStep(b) \/ Write(b) \/ BackendDies(b)
    \/ \E c \in Commands : CommandProcess(c)

Spec == Init /\ [][Next]_vars

\* The host goes on with its operation, commands run or are stopped at their
\* deadline, and a backend without an owner gets on with its boot and its
\* drain; one that has an owner may hang.  Nobody has to open a controller or
\* begin an operation; nothing has to die.
FairSpec ==
    /\ Spec
    /\ WF_vars(HostStep)
    /\ \A b \in Backends : WF_vars(~ backend[b].owned /\ BackendStep(b))
    /\ \A c \in Commands : WF_vars(CommandProcess(c))

-----------------------------------------------------------------------------
(***************************************************************************)
(* Properties                                                              *)
(***************************************************************************)
\* Between operations a backend that serves does so with the settings the
\* host reports and the next controller will read, whatever failed in a
\* configuration.  host.go: Configure sets, starts, saves and takes back.
SettingsAgree ==
    controller /\ op.kind = "none" =>
        /\ host.settings = disk
        /\ Running /\ backend[host.cmd].state = "serving" => backend[host.cmd].settings = disk

\* A live backend whose owner is alive is the one the host knows: none is
\* lost in a failed start, a stop or a maintenance command.  host.go: start
\* and stop set cmd on every path.
NoBackendIsLost ==
    \A b \in Backends : backend[b].state \in Alive /\ backend[b].owned => controller /\ host.cmd = b

\* Every operation of the host comes to its end, with or without an error,
\* so that the mutex is free for the next.  host.go: the deadlines.
HostAnswers == op.kind # "none" ~> op.kind = "none"

\* When the controller goes, its backends go, so that the home is free again.
\* cmd/diffmind/main.go: the owner pipe "handles a killed/crashed controller
\* as well as normal disconnect".
OrphansEnd == ~ controller ~> controller \/ \A b \in Backends : backend[b].state = "none"
=============================================================================
