----------------------------- MODULE GraphRuns -----------------------------
(***************************************************************************)
(* The graph runs of internal/workspace/runmgr/runmgr.go: a run executes   *)
(* in a goroutine of its own, may be cancelled by anybody at any time,     *)
(* records its end in its manifest on disk and streams its events to       *)
(* subscribers that come and go (handlers_runs.go in internal/workspace/ui *)
(* cancels, deletes and streams).  The manifests are all that a restart    *)
(* finds (recoverInterruptedIngestions in ui/ingestion.go).                *)
(*                                                                         *)
(* Each access to the store is atomic, but Cancel reads a manifest in one  *)
(* and writes it back in another, and finish decides the status of a run,  *)
(* saves it, announces it and closes the run in separate steps.            *)
(*                                                                         *)
(* Abstractions.  A manifest is its status.  The events of a run are the   *)
(* numbers 1..emitted, in memory and in events.jsonl alike; the last one   *)
(* of a run that ended tells its end.  A subscriber is the handler that    *)
(* reads the stream (step, got) and the goroutine that pumps events to it  *)
(* (pump); between them is the channel out.  CreateRun gives no id twice:  *)
(* ids are times with a resolution of a second, and a run is taken to need *)
(* longer than that from its creation to its deletion.                     *)
(***************************************************************************)
EXTENDS Integers, Sequences, FiniteSets

CONSTANTS
    Runs,          \* ids of graph runs
    Cancellers,    \* requests and ingestions that cancel or delete runs
    Subscribers,   \* readers of event streams, each used once
    LiveBuffer,    \* capacity of a live channel (256 in the code)
    OutBuffer,     \* capacity of the channel a reader reads (256 in the code)
    MaxEvents,     \* bound: events of a run before its last
    MaxStops,      \* bound: crashes and shutdowns
    MaxFaults      \* bound: event logs that cannot be opened

ASSUME RunsAssumption ==
    /\ {LiveBuffer, OutBuffer} \subseteq Nat \ {0}
    /\ {MaxEvents, MaxStops, MaxFaults} \subseteq Nat

VARIABLES
    server,      \* "up", "stopping" (Shutdown waits) or "down"
    manifest,    \* run -> status on disk, "none" before and after it is there
    created,     \* the ids that CreateRun gave so far
    run,         \* run -> the goroutine: step, cancelled context, chosen status
    emitted,     \* run -> number of events so far
    canceller,   \* canceller -> where it is in Cancel or handleDeleteRun
    subscriber,  \* subscriber -> its stream
    lost,        \* subscribers whose live channel was full once
    used         \* how much of each bound has been used

vars == <<server, manifest, created, run, emitted, canceller, subscriber, lost, used>>

Ended  == {"completed", "failed", "cancelled"}
Status == Ended \cup {"none", "running", "cancelling"}
Steps  == {"absent", "working", "decided", "saved", "announced", "done", "closed"}

NoRun        == [step |-> "absent", cancelled |-> FALSE, status |-> "none"]
NoCancel     == [step |-> "idle", target |-> "none", delete |-> FALSE]
NotListening == [step |-> "idle", source |-> "none", pump |-> "none", stoppable |-> FALSE,
                 live |-> FALSE, next |-> 1, upto |-> 0, queue |-> << >>, hand |-> << >>,
                 out |-> << >>, got |-> << >>]

InMemory(r)     == run[r].step # "absent"
Done(r)         == run[r].step \in {"done", "closed"}
IsActive(r)     == InMemory(r) /\ ~ Done(r)
ListenersOf(r)  == {s \in Subscribers : subscriber[s].live /\ subscriber[s].source = r}
SetStep(r, step) == run' = [run EXCEPT ![r].step = step]

UnchangedStreams == UNCHANGED <<emitted, subscriber, lost>>
UnchangedRuns    == UNCHANGED <<created, server, manifest, run, emitted, canceller, lost, used>>

(***************************************************************************)
(* Start, execute and finish                                               *)
(***************************************************************************)
CreateManifest(r) ==
    /\ r \notin created
    /\ created' = created \cup {r}
    /\ manifest' = [manifest EXCEPT ![r] = "running"]

Start(r) ==
    /\ server = "up"
    /\ CreateManifest(r)
    /\ run' = [run EXCEPT ![r] = [NoRun EXCEPT !.step = "working"]]
    /\ UNCHANGED <<server, canceller, used>> /\ UnchangedStreams

\* The manifest is there, but its event log cannot be opened: no goroutine.
StartFails(r) ==
    /\ server = "up"
    /\ used.faults < MaxFaults
    /\ used' = [used EXCEPT !.faults = @ + 1]
    /\ CreateManifest(r)
    /\ UNCHANGED <<server, run, canceller>> /\ UnchangedStreams

\* An event joins the history and the live channels that have room for it.
Emit(r) ==
    LET event   == emitted[r] + 1
        full(s) == Len(subscriber[s].queue) = LiveBuffer
    IN  /\ emitted' = [emitted EXCEPT ![r] = event]
        /\ lost' = lost \cup {s \in ListenersOf(r) : full(s)}
        /\ subscriber' = [s \in Subscribers |->
               IF s \in ListenersOf(r) /\ ~ full(s)
               THEN [subscriber[s] EXCEPT !.queue = Append(@, event)] ELSE subscriber[s]]

Progress(r) ==
    /\ run[r].step = "working"
    /\ emitted[r] < MaxEvents
    /\ Emit(r)
    /\ UNCHANGED <<created, server, manifest, run, canceller, used>>

\* finish looks at the context before it persists the graph.
Decide(r, status) ==
    /\ run[r].step = "working"
    /\ emitted[r] > 0
    /\ status \in IF run[r].cancelled THEN {"cancelled"} ELSE {"completed", "failed"}
    /\ run' = [run EXCEPT ![r].step = "decided", ![r].status = status]
    /\ UNCHANGED <<created, server, manifest, canceller, used>> /\ UnchangedStreams

SaveEnd(r) ==
    /\ run[r].step = "decided"
    /\ manifest' = [manifest EXCEPT ![r] = run[r].status]
    /\ SetStep(r, "saved")
    /\ UNCHANGED <<created, server, canceller, used>> /\ UnchangedStreams

Announce(r) ==
    /\ run[r].step = "saved"
    /\ Emit(r)
    /\ SetStep(r, "announced")
    /\ UNCHANGED <<created, server, manifest, canceller, used>>

\* The run is done: the live channels are closed.
CloseStreams(r) ==
    /\ run[r].step = "announced"
    /\ SetStep(r, "done")
    /\ subscriber' = [s \in Subscribers |->
           IF s \in ListenersOf(r) THEN [subscriber[s] EXCEPT !.live = FALSE] ELSE subscriber[s]]
    /\ UNCHANGED <<created, server, manifest, emitted, canceller, lost, used>>

\* Mutant of CloseDone: the path of a cancelled run leaves doneCh open.
CloseDoneUncancelled(r) ==
    /\ run[r].step = "done"
    /\ run[r].status # "cancelled"
    /\ SetStep(r, "closed")
    /\ UNCHANGED <<created, server, manifest, canceller, used>> /\ UnchangedStreams

CloseDone(r) ==
    /\ run[r].step = "done"
    /\ SetStep(r, "closed")
    /\ UNCHANGED <<created, server, manifest, canceller, used>> /\ UnchangedStreams

(***************************************************************************)
(* Cancel, and the deletion that cancels first                             *)
(***************************************************************************)
SetCanceller(c, new) == canceller' = [canceller EXCEPT ![c] = new]

\* An unknown or finished run ends the call of Cancel here.
LookForRun(c, r, delete) ==
    /\ server = "up"
    /\ canceller[c].step = "idle"
    /\ delete => manifest[r] # "none"
    /\ IsActive(r) \/ delete
    /\ SetCanceller(c, [step |-> IF IsActive(r) THEN "read" ELSE "remove",
                        target |-> r, delete |-> delete])
    /\ UNCHANGED <<created, server, manifest, run, used>> /\ UnchangedStreams

ReadManifest(c) ==
    /\ canceller[c].step = "read"
    /\ SetCanceller(c, [canceller[c] EXCEPT
           !.step = IF manifest[canceller[c].target] = "running" THEN "mark" ELSE "signal"])
    /\ UNCHANGED <<created, server, manifest, run, used>> /\ UnchangedStreams

\* The manifest that was read is written back as cancelling, its directory
\* made anew if need be.
MarkCancelling(c) ==
    /\ canceller[c].step = "mark"
    /\ manifest' = [manifest EXCEPT ![canceller[c].target] = "cancelling"]
    /\ SetCanceller(c, [canceller[c] EXCEPT !.step = "signal"])
    /\ UNCHANGED <<created, server, run, used>> /\ UnchangedStreams

CancelContext(c) ==
    /\ canceller[c].step = "signal"
    /\ run' = [run EXCEPT ![canceller[c].target].cancelled = TRUE]
    /\ SetCanceller(c, IF canceller[c].delete THEN [canceller[c] EXCEPT !.step = "wait"]
                                              ELSE NoCancel)
    /\ UNCHANGED <<created, server, manifest, used>> /\ UnchangedStreams

\* Mutant of WaitForRun: the deletion goes on once the run is told to stop.
WaitForNothing(c) ==
    /\ canceller[c].step = "wait"
    /\ SetCanceller(c, [canceller[c] EXCEPT !.step = "remove"])
    /\ UNCHANGED <<created, server, manifest, run, used>> /\ UnchangedStreams

\* WaitFor
WaitForRun(c) ==
    /\ canceller[c].step = "wait"
    /\ run[canceller[c].target].step = "closed"
    /\ SetCanceller(c, [canceller[c] EXCEPT !.step = "remove"])
    /\ UNCHANGED <<created, server, manifest, run, used>> /\ UnchangedStreams

DeleteRun(c) ==
    /\ canceller[c].step = "remove"
    /\ manifest' = [manifest EXCEPT ![canceller[c].target] = "none"]
    /\ SetCanceller(c, NoCancel)
    /\ UNCHANGED <<created, server, run, used>> /\ UnchangedStreams

(***************************************************************************)
(* Streams                                                                 *)
(***************************************************************************)
\* Mutant of Subscribe: a live stream is not given the history.
SubscribeToLive(s, r) ==
    /\ server = "up"
    /\ subscriber[s].step = "idle"
    /\ manifest[r] # "none"
    /\ subscriber' = [subscriber EXCEPT ![s] =
           [NotListening EXCEPT !.step = "on", !.source = r, !.pump = "on",
                                !.stoppable = IsActive(r), !.live = IsActive(r),
                                !.upto = IF IsActive(r) THEN 0 ELSE emitted[r]]]
    /\ UnchangedRuns

\* The history so far is replayed; a live channel, registered at the same
\* instant, brings what follows unless the run is done or of another process.
Subscribe(s, r) ==
    /\ server = "up"
    /\ subscriber[s].step = "idle"
    /\ manifest[r] # "none"
    /\ subscriber' = [subscriber EXCEPT ![s] =
           [NotListening EXCEPT !.step = "on", !.source = r, !.pump = "on",
                                !.stoppable = IsActive(r), !.live = IsActive(r),
                                !.upto = emitted[r]]]
    /\ UnchangedRuns

Replaying(s) == subscriber[s].next <= subscriber[s].upto
Pumping(s)   == subscriber[s].pump = "on"
HasRoom(s)   == Len(subscriber[s].out) < OutBuffer
Become(s, new) == subscriber' = [subscriber EXCEPT ![s] = new]

\* Nothing is left of a stream whose reader and pump are both gone.
Gone == [NotListening EXCEPT !.step = "left"]

Replay(s) ==
    /\ Pumping(s) /\ Replaying(s) /\ HasRoom(s)
    /\ Become(s, [subscriber[s] EXCEPT !.next = @ + 1, !.out = Append(@, subscriber[s].next)])
    /\ UnchangedRuns

\* The pump has an event in hand between the live channel and its own.
TakeLive(s) ==
    /\ Pumping(s) /\ ~ Replaying(s)
    /\ subscriber[s].hand = << >> /\ subscriber[s].queue # << >>
    /\ Become(s, [subscriber[s] EXCEPT !.hand = << Head(subscriber[s].queue) >>, !.queue = Tail(@)])
    /\ UnchangedRuns

PassOn(s) ==
    /\ Pumping(s) /\ subscriber[s].hand # << >> /\ HasRoom(s)
    /\ Become(s, [subscriber[s] EXCEPT !.out = @ \o subscriber[s].hand, !.hand = << >>])
    /\ UnchangedRuns

\* After the last event of a replay, or when the live channel is closed.  The
\* channel of a reader that left is never closed.
PumpEnds(s) ==
    /\ Pumping(s) /\ ~ Replaying(s) /\ ~ subscriber[s].live
    /\ subscriber[s].hand = << >> /\ subscriber[s].queue = << >>
    /\ \/ subscriber[s].step = "on" /\ Become(s, [subscriber[s] EXCEPT !.pump = "ended"])
       \/ subscriber[s].step = "left" /\ ~ subscriber[s].stoppable /\ Become(s, Gone)
    /\ UnchangedRuns

\* Mutant of PumpStops: an event in hand is sent whatever else happens.
PumpStopsBetween(s) ==
    /\ Pumping(s) /\ subscriber[s].step = "left" /\ subscriber[s].stoppable
    /\ subscriber[s].hand = << >>
    /\ Become(s, Gone)
    /\ UnchangedRuns

\* Wherever it waits, the pump of a live stream also waits for its reader to
\* leave.  One that only replays does not.
PumpStops(s) ==
    /\ Pumping(s) /\ subscriber[s].step = "left" /\ subscriber[s].stoppable
    /\ Become(s, Gone)
    /\ UnchangedRuns

Receive(s) ==
    /\ subscriber[s].step = "on" /\ subscriber[s].out # << >>
    /\ Become(s, [subscriber[s] EXCEPT !.out = Tail(@), !.got = Append(@, Head(subscriber[s].out))])
    /\ UnchangedRuns

EndOfStream(s) ==
    /\ subscriber[s].step = "on" /\ subscriber[s].pump = "ended" /\ subscriber[s].out = << >>
    /\ Become(s, [subscriber[s] EXCEPT !.step = "ended"])
    /\ UnchangedRuns

\* The reader goes, or may no longer read: it tells the pump and takes the
\* live channel off the list.
Unsubscribe(s) ==
    /\ subscriber[s].step = "on"
    /\ Become(s, IF Pumping(s) THEN [subscriber[s] EXCEPT !.step = "left", !.live = FALSE, !.got = << >>]
                 ELSE Gone)
    /\ UnchangedRuns

(***************************************************************************)
(* The process                                                             *)
(***************************************************************************)
Down ==
    /\ server' = "down"
    /\ run' = [r \in Runs |-> NoRun]
    /\ canceller' = [c \in Cancellers |-> NoCancel]
    /\ subscriber' = [s \in Subscribers |->
           IF subscriber[s].step \in {"on", "left"} THEN Gone ELSE subscriber[s]]
    /\ UNCHANGED <<created, manifest, emitted, lost>>

UseStop == used.stops < MaxStops /\ used' = [used EXCEPT !.stops = @ + 1]

Crash == server # "down" /\ UseStop /\ Down

Shutdown ==
    /\ server = "up"
    /\ UseStop
    /\ server' = "stopping"
    /\ run' = [r \in Runs |-> [run[r] EXCEPT !.cancelled = InMemory(r)]]
    /\ UNCHANGED <<created, manifest, canceller>> /\ UnchangedStreams

ShutdownDone ==
    /\ server = "stopping"
    /\ \A r \in Runs : InMemory(r) => run[r].step = "closed"
    /\ Down
    /\ UNCHANGED used

\* A run that nobody executes any more has failed.
Boot ==
    /\ server = "down"
    /\ server' = "up"
    /\ manifest' = [r \in Runs |-> IF manifest[r] \in {"running", "cancelling"}
                                   THEN "failed" ELSE manifest[r]]
    /\ UNCHANGED <<created, run, canceller, used>> /\ UnchangedStreams

Init ==
    /\ server = "up"
    /\ manifest = [r \in Runs |-> "none"]
    /\ created = {}
    /\ run = [r \in Runs |-> NoRun]
    /\ emitted = [r \in Runs |-> 0]
    /\ canceller = [c \in Cancellers |-> NoCancel]
    /\ subscriber = [s \in Subscribers |-> NotListening]
    /\ lost = {}
    /\ used = [stops |-> 0, faults |-> 0]

RunStep(r) ==
    \/ Progress(r) \/ (\E status \in Ended : Decide(r, status))
    \/ SaveEnd(r) \/ Announce(r) \/ CloseStreams(r) \/ CloseDone(r)

CancelStep(c) ==
    ReadManifest(c) \/ MarkCancelling(c) \/ CancelContext(c) \/ WaitForRun(c) \/ DeleteRun(c)

PumpStep(s) == Replay(s) \/ TakeLive(s) \/ PassOn(s) \/ PumpEnds(s) \/ PumpStops(s)

Next ==
    \/ \E r \in Runs : Start(r) \/ StartFails(r) \/ RunStep(r)
    \/ \E c \in Cancellers : CancelStep(c)
    \/ \E c \in Cancellers, r \in Runs, delete \in BOOLEAN : LookForRun(c, r, delete)
    \/ \E s \in Subscribers, r \in Runs : Subscribe(s, r)
    \/ \E s \in Subscribers : PumpStep(s) \/ Receive(s) \/ EndOfStream(s) \/ Unsubscribe(s)
    \/ Crash \/ Shutdown \/ ShutdownDone \/ Boot

Spec == Init /\ [][Next]_vars

\* Goroutines are scheduled, the pipeline of a run ends, a process that is
\* down is started again.  Readers owe nothing.
FairSpec ==
    /\ Spec
    /\ \A r \in Runs : WF_vars(RunStep(r))
    /\ \A c \in Cancellers : WF_vars(CancelStep(c))
    /\ \A s \in Subscribers : WF_vars(PumpStep(s))
    /\ WF_vars(ShutdownDone \/ Boot)

(***************************************************************************)
(* Properties                                                              *)
(***************************************************************************)
TypeOK ==
    /\ server \in {"up", "stopping", "down"}
    /\ manifest \in [Runs -> Status]
    /\ created \subseteq Runs
    /\ run \in [Runs -> [step : Steps, cancelled : BOOLEAN, status : Ended \cup {"none"}]]
    /\ emitted \in [Runs -> 0..MaxEvents + 1]
    /\ canceller \in [Cancellers ->
           [step : {"idle", "read", "mark", "signal", "wait", "remove"},
            target : Runs \cup {"none"}, delete : BOOLEAN]]
    /\ subscriber \in [Subscribers ->
           [step : {"idle", "on", "ended", "left"}, source : Runs \cup {"none"},
            pump : {"none", "on", "ended"}, stoppable : BOOLEAN, live : BOOLEAN, next : Nat,
            upto : Nat, queue : Seq(Nat), hand : Seq(Nat), out : Seq(Nat), got : Seq(Nat)]]
    /\ lost \subseteq Subscribers
    /\ used \in [stops : 0..MaxStops, faults : 0..MaxFaults]

\* What a subscriber has got and will get from its channel, what is still to
\* be replayed, and what has come live.
Stream(s) ==
    subscriber[s].got \o subscriber[s].out
    \o [k \in 1..(subscriber[s].upto + 1 - subscriber[s].next) |-> subscriber[s].next + k - 1]
    \o subscriber[s].hand \o subscriber[s].queue

\* The replay and the live channel fit together: no event comes twice or out
\* of order whenever the subscription falls, and as long as the channel has
\* not overflowed none is missing ("then streams live events").
StreamsFitTogether ==
    \A s \in Subscribers : subscriber[s].step \in {"on", "ended"} =>
        LET stream == Stream(s)
            r      == subscriber[s].source
        IN  /\ \A k \in 1..Len(stream) - 1 : stream[k] < stream[k + 1]
            /\ s \notin lost /\ (subscriber[s].live \/ Done(r)) =>
                   Len(stream) = emitted[r]

\* The stream of a run that is executed in this process ends only after the
\* event that tells its end.
StreamsEndWithTheRun ==
    \A s \in Subscribers : subscriber[s].step = "ended" /\ InMemory(subscriber[s].source) =>
        /\ Done(subscriber[s].source)
        /\ s \notin lost => Len(subscriber[s].got) = emitted[subscriber[s].source]

\* Manifest and goroutine agree through cancellations, deletions and restarts.
\* Nothing is deleted under a run, as long as its goroutine may still write;
\* and the recovery leaves no unfinished manifest behind: one that is not
\* ended has a run in memory, unless that run could not be started.
ManifestsHaveTheirRuns ==
    \A r \in Runs :
        /\ IsActive(r) => manifest[r] # "none"
        /\ server # "down" /\ used.faults = 0 /\ manifest[r] \in {"running", "cancelling"} => InMemory(r)

\* Whoever deletes a run waits for its goroutine, and is served: the run ends
\* and says so, whatever its readers and the other cancellers do.
DeletionsEnd == \A c \in Cancellers : canceller[c].delete ~> ~ canceller[c].delete

\* Shutdown "waits for durable terminal state" and gets there.
ShutdownCompletes == server = "stopping" ~> server = "down"

\* A reader that leaves a live stream leaves no goroutine behind, whatever
\* the pump was doing, however full the channels, and whether the run goes on.
LeftStreamsEnd ==
    \A s \in Subscribers :
        subscriber[s].step = "left" /\ subscriber[s].stoppable ~> ~ Pumping(s)

(***************************************************************************)
(* What does not hold: the two replays of a finished run wait for room     *)
(* alone, so that they stay for ever when their reader leaves with more    *)
(* than OutBuffer events to come.                                          *)
(***************************************************************************)
EveryPumpEnds == \A s \in Subscribers : subscriber[s].step = "left" ~> ~ Pumping(s)

(***************************************************************************)
(* What a comment says and the code does not do.                           *)
(***************************************************************************)
\* "Unknown/finished runs are a no-op" for Cancel: a run that has ended keeps
\* the manifest it ended with until it is deleted.
FinishedRunsStayFinished ==
    [][\A r \in Runs : Done(r) => manifest'[r] # "cancelling" \/ manifest[r] = "cancelling"]_vars

=============================================================================
