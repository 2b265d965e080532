--------------------------- MODULE ExtractorRuns ---------------------------
(***************************************************************************)
(* The run manager of the extractor's dashboard                            *)
(* (internal/extractor/runner/runner.go), the event bus it streams its     *)
(* runs through (events/bus.go) and the handlers that start, cancel,       *)
(* delete and read runs (ui/handlers_run.go).                              *)
(*                                                                         *)
(* A run lives twice: in memory, under the mutexes of the manager and of   *)
(* the bus, and in its directory, as run_state.json and events.jsonl.      *)
(* Every critical section and every file operation is a step of its own,   *)
(* so the two copies may pass each other.  The process may die at any      *)
(* time; the next one starts with the directories only.                    *)
(*                                                                         *)
(* Abstractions.  An id is the second of its creation and the suffix that  *)
(* keeps it apart from the ids of that second.  One pipeline is one        *)
(* goroutine and emits its events in order, so the sequence number, which  *)
(* Emit takes before the lock, is taken with it here, and no run is        *)
(* finished on the bus while its pipeline emits.  The sends after the lock *)
(* are taken with it too: only the reader's own reads and its departure    *)
(* can come between, and they commute.  Not modelled: writes that fail,    *)
(* for persistState drops its errors; the lifecycle events of the          *)
(* homepage, which re-fetches; the artifacts.                              *)
(***************************************************************************)
EXTENDS Integers, Sequences, FiniteSets, SequencesExt

CONSTANTS
    Starts,        \* POST /api/runs requests, each with the run it starts
    Requests,      \* requests that cancel or delete a run
    Readers,       \* clients of GET /api/runs/{id}/events
    SecondOf,      \* start -> the second in which its id is allocated
    None,          \* no start, no id
    MaxSuffix,     \* bound: ids of one second
    MaxProgress,   \* bound: events of a run between its first and its last
    MaxConnects,   \* bound: connections of one reader
    HistorySize,   \* events the bus keeps of a run (20000 in the dashboard)
    Buffer         \* capacity of a reader's channel (1024; 64 for a replay)

Ids == (Range(SecondOf)) \X (1..MaxSuffix)

ASSUME ExtractorAssumption ==
    /\ DOMAIN SecondOf = Starts
    /\ None \notin Starts \cup Ids
    /\ {HistorySize, Buffer, MaxSuffix} \subseteq Nat \ {0}
    /\ {MaxProgress, MaxConnects} \subseteq Nat

VARIABLES
    runs,       \* id -> the start whose run the manager holds under it
    bus,        \* id -> the start whose run the bus holds under it
    run,        \* start -> its run: step, id, status, context, stream
    disk,       \* id -> its directory: there, run_state.json, events.jsonl
    request,    \* request -> where it is in Cancel or handleRunDelete
    stream,     \* reader -> its connection, on the server's side
    client      \* reader -> what it has read so far

vars == <<runs, bus, run, disk, request, stream, client>>

Ended    == {"completed", "failed", "cancelled"}
Active   == {"running", "cancelling"}
Status   == Ended \cup Active \cup {"none"}
LastKind == [completed |-> "run_completed", failed |-> "run_failed", cancelled |-> "run_cancelled"]
Kinds    == Range(LastKind) \cup {"run_started", "progress"}

NoDirectory == [there |-> FALSE, state |-> "none", log |-> << >>]
NoStart     == [step |-> "idle", id |-> None, status |-> "none", cancelled |-> FALSE, error |-> FALSE,
                seq |-> 0, last |-> "none", history |-> << >>, finished |-> FALSE, file |-> "closed"]
NoRequest   == [step |-> "idle", id |-> None, on |-> None, delete |-> FALSE]
Answered    == [NoRequest EXCEPT !.step = "done"]
NoStream    == [step |-> "away", on |-> None, queue |-> << >>, closed |-> FALSE, listed |-> FALSE,
                closer |-> "none", source |-> << >>, from |-> 1]
NewClient   == [id |-> None, got |-> << >>, lost |-> {}, connects |-> 0, end |-> "none"]

Executing == {"running", "halted"}
Settled   == {"ended", "saved", "done"}

\* The listed subscribers of a run: the bus's subs map.
Subscribers(s) == {r \in Readers : stream[r].listed /\ stream[r].on = s}

Running(id) == \E s \in Starts : runs[id] = s /\ run[s].status = "running"

(***************************************************************************)
(* Start                                                                   *)
(***************************************************************************)
\* The smallest suffix that neither the manager nor a directory has.
Allocate(s) ==
    LET taken(n) == runs[<<SecondOf[s], n>>] # None \/ disk[<<SecondOf[s], n>>].there
        free     == {n \in 1..MaxSuffix : ~ taken(n) /\ \A m \in 1..n - 1 : taken(m)}
    IN  /\ run[s].step = "idle"
        /\ \E n \in free :
               run' = [run EXCEPT ![s].step = "allocated", ![s].id = <<SecondOf[s], n>>]
        /\ UNCHANGED <<runs, bus, disk, request, stream, client>>

\* Mutant of LiveOnBus: StartRun takes every run it finds for a finished one.
NothingLiveOnBus(id) == FALSE

LiveOnBus(id) == \E s \in Starts : bus[id] = s /\ ~ run[s].finished

\* StartRun closes the event log of a run it finds before it knows that the
\* run has finished, and only then refuses a live one.
StartOnBus(s) ==
    LET id  == run[s].id
        old == bus[id]
    IN  /\ run[s].step = "allocated"
        /\ \/ /\ LiveOnBus(id)
              /\ run' = [run EXCEPT ![old].file = "closed", ![s].step = "refused"]
              /\ UNCHANGED <<bus, disk>>
           \/ /\ ~ LiveOnBus(id)
              /\ bus' = [bus EXCEPT ![id] = s]
              /\ disk' = [disk EXCEPT ![id].there = TRUE]
              /\ run' = [run EXCEPT ![s].file = "open", ![s].step = "on_bus"]
        /\ UNCHANGED <<runs, request, stream, client>>

EnterRun(s) ==
    /\ run[s].step = "on_bus"
    /\ runs' = [runs EXCEPT ![run[s].id] = s]
    /\ run' = [run EXCEPT ![s].status = "running", ![s].step = "entered"]
    /\ UNCHANGED <<bus, disk, request, stream, client>>

\* persistState makes the directory if it is gone.
PersistState(id, status) ==
    disk' = [disk EXCEPT ![id].there = TRUE, ![id].state = status]

SaveStart(s) ==
    /\ run[s].step = "entered"
    /\ PersistState(run[s].id, "running")
    /\ run' = [run EXCEPT ![s].step = "running"]
    /\ UNCHANGED <<runs, bus, request, stream, client>>

(***************************************************************************)
(* The pipeline and its events                                             *)
(***************************************************************************)
Kept(history) == IF Len(history) >= HistorySize THEN Tail(history) ELSE history

\* Under the run's mutex the event joins the history, a ring, and the log;
\* then each subscriber's channel takes it or, full, loses it (safeSend).
Emit(s, kind, step, error) ==
    LET seq     == run[s].seq + 1
        id      == run[s].id
        full(r) == Len(stream[r].queue) >= Buffer
    IN  /\ run' = [run EXCEPT ![s].seq = seq, ![s].last = kind, ![s].history = Append(Kept(@), seq),
                              ![s].step = step, ![s].error = error]
        /\ disk' = IF run[s].file = "open" THEN [disk EXCEPT ![id].log = Append(@, seq)] ELSE disk
        /\ stream' = [r \in Readers |->
               IF r \in Subscribers(s) /\ ~ full(r)
               THEN [stream[r] EXCEPT !.queue = Append(@, seq)] ELSE stream[r]]
        /\ client' = [r \in Readers |->
               IF r \in Subscribers(s) /\ full(r)
               THEN [client[r] EXCEPT !.lost = @ \cup {seq}] ELSE client[r]]
        /\ UNCHANGED <<runs, bus, request>>

EmitStarted(s) ==
    /\ run[s].step = "running" /\ run[s].seq = 0
    /\ Emit(s, "run_started", "running", FALSE)

EmitProgress(s) ==
    /\ run[s].step = "running" /\ run[s].seq \in 1..MaxProgress
    /\ Emit(s, "progress", "running", FALSE)

\* buildFailure and assembleResult look at the context when they emit the end.
EmitEnd(s) ==
    /\ run[s].step = "running" /\ run[s].seq > 0
    /\ \E error \in BOOLEAN :
           Emit(s, LastKind[IF run[s].cancelled THEN "cancelled" ELSE IF error THEN "failed" ELSE "completed"],
                "halted", error)

(***************************************************************************)
(* finish                                                                  *)
(***************************************************************************)
\* Mutant of EndStatus: the error of app.Run alone decides.
EndStatusOfError(s, error) == IF error THEN "failed" ELSE "completed"

EndStatus(s, error) == IF run[s].cancelled THEN "cancelled" ELSE IF error THEN "failed" ELSE "completed"

\* app.Run has returned: its artifacts may fail to be written after the last
\* event, and an invalid configuration returns before the first.  A cancelled
\* context decides, whatever app.Run says.
Finish(s) ==
    /\ \E error \in BOOLEAN :
           /\ \/ run[s].step = "running" /\ run[s].seq = 0 /\ error
              \/ run[s].step = "halted" /\ (run[s].error => error)
           /\ run' = [run EXCEPT ![s].step = "ended", ![s].status = EndStatus(s, error)]
    /\ UNCHANGED <<runs, bus, disk, request, stream, client>>

SaveEnd(s) ==
    /\ run[s].step = "ended"
    /\ PersistState(run[s].id, run[s].status)
    /\ run' = [run EXCEPT ![s].step = "saved"]
    /\ UNCHANGED <<runs, bus, request, stream, client>>

HandedOver(r) == [stream[r] EXCEPT !.listed = FALSE, !.closer = "eof"]

\* FinishRun takes the subscribers off the run and leaves each to a closer;
\* then the done channel is closed.
FinishOnBus(s) ==
    /\ run[s].step = "saved"
    /\ run' = [run EXCEPT ![s].finished = TRUE, ![s].file = "closed", ![s].step = "done"]
    /\ stream' = [r \in Readers |->
           IF r \in Subscribers(s) THEN HandedOver(r) ELSE stream[r]]
    /\ UNCHANGED <<runs, bus, disk, request, client>>

(***************************************************************************)
(* Cancel and delete                                                       *)
(***************************************************************************)
\* State: the run in memory, else run_state.json.
StateOf(id) == IF runs[id] # None THEN run[runs[id]].status ELSE disk[id].state

\* A directory or a run that the listing shows; only a deletion looks first.
Ask(q, id, delete) ==
    /\ request[q].step = "idle"
    /\ disk[id].there \/ runs[id] # None
    /\ request' = [request EXCEPT ![q] =
           [id |-> id, delete |-> delete, on |-> runs[id],
            step |-> IF delete /\ StateOf(id) \notin Active THEN "remove" ELSE "cancel"]]
    /\ UNCHANGED <<runs, bus, run, disk, stream, client>>

AfterCancel(q, s) ==
    request' = [request EXCEPT ![q] = IF @.delete THEN [@ EXCEPT !.step = "wait", !.on = s] ELSE Answered]

\* Cancel, under the manager's mutex: only a running run is marked.
MarkCancelling(q) ==
    LET s == runs[request[q].id]
    IN  /\ request[q].step = "cancel"
        /\ \/ /\ Running(request[q].id)
              /\ run' = [run EXCEPT ![s].status = "cancelling"]
              /\ request' = [request EXCEPT ![q].step = "save", ![q].on = s]
           \/ /\ ~ Running(request[q].id)
              /\ AfterCancel(q, s)
              /\ UNCHANGED run
        /\ UNCHANGED <<runs, bus, disk, stream, client>>

\* The mark is persisted outside the mutex, the context cancelled after it.
SaveCancelling(q) ==
    /\ request[q].step = "save"
    /\ PersistState(request[q].id, "cancelling")
    /\ request' = [request EXCEPT ![q].step = "signal"]
    /\ UNCHANGED <<runs, bus, run, stream, client>>

CancelContext(q) ==
    /\ request[q].step = "signal"
    /\ run' = [run EXCEPT ![request[q].on].cancelled = TRUE]
    /\ AfterCancel(q, request[q].on)
    /\ UNCHANGED <<runs, bus, disk, stream, client>>

\* Mutant of Over: WaitFor takes a cancelled run for one that has ended.
OverOnceCancelled(s) == run[s].step = "done" \/ run[s].cancelled

Over(s) == run[s].step = "done"

WaitFor(q) ==
    /\ request[q].step = "wait"
    /\ \A s \in Starts : request[q].on = s => Over(s)
    /\ request' = [request EXCEPT ![q].step = "remove"]
    /\ UNCHANGED <<runs, bus, run, disk, stream, client>>

\* os.RemoveAll, if the directory is there.  An open log is unlinked: what
\* is written to it afterwards is gone.
RemoveRun(q) ==
    LET id == request[q].id
    IN  /\ request[q].step = "remove"
        /\ disk' = [disk EXCEPT ![id] = NoDirectory]
        /\ run' = [s \in Starts |->
               IF run[s].id = id /\ run[s].file = "open"
               THEN [run[s] EXCEPT !.file = "unlinked"] ELSE run[s]]
        /\ request' = [request EXCEPT ![q] = Answered]
        /\ UNCHANGED <<runs, bus, stream, client>>

(***************************************************************************)
(* Readers                                                                 *)
(***************************************************************************)
\* A client comes back with the last number it has read: Last-Event-ID.
LastEventId(r) == IF client[r].got = << >> THEN 0 ELSE Last(client[r].got)

\* Mutant of From: the stream goes on one event too late.
FromOneLater(r) == LastEventId(r) + 2

From(r) == LastEventId(r) + 1

MayConnect(r, id) ==
    /\ stream[r].step = "away"
    /\ client[r].end = "none"
    /\ client[r].connects < MaxConnects
    /\ client[r].id \in {None, id}

Connected(r, id, lost) ==
    client' = [client EXCEPT ![r].id = id, ![r].connects = @ + 1, ![r].lost = @ \cup lost]

\* The history is in order: what is not wanted of it comes first.
Wanted(history, from) ==
    LET skipped == Cardinality({i \in DOMAIN history : history[i] < from})
    IN  SubSeq(history, skipped + 1, Len(history))

\* Subscribe: the history from the wanted number on, as much as the channel
\* holds, in one critical section with the entry in the run's list.
Subscribe(r, id) ==
    LET s      == bus[id]
        wanted == Wanted(run[s].history, From(r))
        queue  == SubSeq(wanted, 1, IF Len(wanted) > Buffer THEN Buffer ELSE Len(wanted))
    IN  /\ MayConnect(r, id)
        /\ s # None
        /\ stream' = [stream EXCEPT ![r] = [NoStream EXCEPT !.step = "live", !.on = s, !.queue = queue,
                          !.listed = TRUE, !.closer = IF run[s].finished THEN "late" ELSE "none"]]
        /\ Connected(r, id, (From(r)..run[s].seq) \ Range(queue))
        /\ UNCHANGED <<runs, bus, run, disk, request>>

\* finishSubscriber: the end of the stream waits for room, at most 30 s.
CloseAtEnd(r) ==
    /\ stream[r].closer = "eof"
    /\ stream' = [stream EXCEPT ![r].closer = "none", ![r].closed = TRUE,
                      ![r].queue = IF Len(@) < Buffer THEN Append(@, 0) ELSE @]
    /\ UNCHANGED <<runs, bus, run, disk, request, client>>

\* 50 ms after a subscription to a finished run.
CloseLate(r) ==
    /\ stream[r].closer = "late"
    /\ stream' = [stream EXCEPT ![r].closer = "none", ![r].closed = TRUE, ![r].listed = FALSE]
    /\ UNCHANGED <<runs, bus, run, disk, request, client>>

\* _eof is 0 here; a closed channel tells the end as well, once it is empty.
Read(r) ==
    LET queue == stream[r].queue
        eof   == IF queue = << >> THEN stream[r].closed ELSE Head(queue) = 0
    IN  /\ stream[r].step = "live"
        /\ \/ /\ eof
              /\ client' = [client EXCEPT ![r].end = "live"]
              /\ stream' = [stream EXCEPT ![r] = NoStream]
           \/ /\ ~ eof
              /\ queue # << >>
              /\ client' = [client EXCEPT ![r].got = Append(@, Head(queue))]
              /\ stream' = [stream EXCEPT ![r].queue = Tail(@)]
        /\ UNCHANGED <<runs, bus, run, disk, request>>

\* The bus does not know the run, its directory has a log: streamReplay.
StartReplay(r, id) ==
    /\ MayConnect(r, id)
    /\ bus[id] = None
    /\ disk[id].log # << >>
    /\ stream' = [stream EXCEPT ![r] = [NoStream EXCEPT !.step = "replay", !.source = disk[id].log,
                                                     !.from = From(r)]]
    /\ Connected(r, id, {})
    /\ UNCHANGED <<runs, bus, run, disk, request>>

ReplayNext(r) ==
    /\ stream[r].step = "replay"
    /\ stream[r].source # << >>
    /\ Len(stream[r].queue) < Buffer
    /\ stream' = [stream EXCEPT ![r].queue = Append(@, Head(stream[r].source)), ![r].source = Tail(@)]
    /\ UNCHANGED <<runs, bus, run, disk, request, client>>

ReplayRead(r) ==
    /\ stream[r].step = "replay"
    /\ stream[r].queue # << >>
    /\ stream' = [stream EXCEPT ![r].queue = Tail(@)]
    /\ client' = IF Head(stream[r].queue) < stream[r].from THEN client
                 ELSE [client EXCEPT ![r].got = Append(@, Head(stream[r].queue))]
    /\ UNCHANGED <<runs, bus, run, disk, request>>

\* The replay has pushed its last event: select may take this before the
\* events that are still in the channel.
ReplayEnd(r) ==
    /\ stream[r].step = "replay"
    /\ stream[r].source = << >>
    /\ client' = [client EXCEPT ![r].end = "replay"]
    /\ stream' = [stream EXCEPT ![r] = NoStream]
    /\ UNCHANGED <<runs, bus, run, disk, request>>

\* The client goes away: cancel takes its channel off the run and closes it.
Leave(r) ==
    /\ stream[r].step # "away"
    /\ stream' = [stream EXCEPT ![r] = NoStream]
    /\ UNCHANGED <<runs, bus, run, disk, request, client>>

(***************************************************************************)
(* The process dies and starts again                                       *)
(***************************************************************************)
Crash ==
    /\ runs' = [id \in Ids |-> None]
    /\ bus' = [id \in Ids |-> None]
    /\ run' = [s \in Starts |->
           IF run[s].step = "idle" THEN run[s]
           ELSE [NoStart EXCEPT !.step = "dead", !.id = run[s].id, !.seq = run[s].seq,
                     !.status = IF run[s].step \in Settled THEN run[s].status ELSE "none"]]
    /\ request' = [q \in Requests |->
           IF request[q].step = "idle" THEN request[q] ELSE Answered]
    /\ stream' = [r \in Readers |-> NoStream]
    /\ UNCHANGED <<disk, client>>

-----------------------------------------------------------------------------
Init ==
    /\ runs = [id \in Ids |-> None]
    /\ bus = [id \in Ids |-> None]
    /\ run = [s \in Starts |-> NoStart]
    /\ disk = [id \in Ids |-> NoDirectory]
    /\ request = [q \in Requests |-> NoRequest]
    /\ stream = [r \in Readers |-> NoStream]
    /\ client = [r \in Readers |-> NewClient]

\* The goroutine of a run, from its id to its done channel.
Execute(s) ==
    \/ StartOnBus(s) \/ EnterRun(s) \/ SaveStart(s)
    \/ EmitStarted(s) \/ EmitProgress(s) \/ EmitEnd(s)
    \/ Finish(s) \/ SaveEnd(s) \/ FinishOnBus(s)

Serve(q) == MarkCancelling(q) \/ SaveCancelling(q) \/ CancelContext(q) \/ WaitFor(q) \/ RemoveRun(q)

Close(r) == CloseAtEnd(r) \/ CloseLate(r)
Listen(r) == Read(r) \/ ReplayNext(r) \/ ReplayRead(r) \/ ReplayEnd(r)

Next ==
    \/ \E s \in Starts : Allocate(s) \/ Execute(s)
    \/ \E q \in Requests : Serve(q) \/ \E id \in Ids, delete \in BOOLEAN : Ask(q, id, delete)
    \/ \E r \in Readers : \/ Close(r) \/ Listen(r) \/ Leave(r)
                          \/ \E id \in Ids : Subscribe(r, id) \/ StartReplay(r, id)
    \/ Crash

Spec == Init /\ [][Next]_vars

-----------------------------------------------------------------------------
(***************************************************************************)
(* Properties                                                              *)
(***************************************************************************)
TypeOK ==
    /\ runs \in [Ids -> Starts \cup {None}]
    /\ bus \in [Ids -> Starts \cup {None}]
    /\ \A s \in Starts :
           /\ run[s].step \in Executing \cup Settled
                                  \cup {"idle", "allocated", "refused", "on_bus", "entered", "dead"}
           /\ run[s].id \in Ids \cup {None}
           /\ run[s].status \in Status
           /\ run[s].last \in Kinds \cup {"none"}
           /\ run[s].seq \in 0..MaxProgress + 2
           /\ Len(run[s].history) <= HistorySize
           /\ run[s].file \in {"closed", "open", "unlinked"}
    /\ \A id \in Ids : disk[id].state \in Status /\ (~ disk[id].there => disk[id] = NoDirectory)
    /\ \A q \in Requests :
           request[q].step \in {"idle", "cancel", "save", "signal", "wait", "remove", "done"}
    /\ \A r \in Readers :
           /\ stream[r].step \in {"away", "live", "replay"}
           /\ Len(stream[r].queue) <= Buffer
           /\ client[r].end \in {"none", "live", "replay"}

\* The id was given to one start only.
Sole(s) == \A t \in Starts \ {s} : run[t].id # run[s].id

\* What a reader has got of a run, over all its connections, comes in order,
\* once, and without a gap that was not a full channel or the end of the
\* history; and a live stream that has told its end has left nothing out.
\* Nobody is left listening to a run that has ended: each stream of it is
\* closed or in the hands of a goroutine that will close it, whether it was
\* there at the end, came later, or has a full channel.  bus.go: replay and
\* live events meet in Subscribe, Emit and FinishRun.
StreamsFitTogether ==
    \A r \in Readers, s \in Starts :
        LET got  == client[r].got
            seen == Range(got) \cup client[r].lost
        IN  /\ client[r].id # None /\ client[r].id = run[s].id /\ Sole(s) =>
                /\ \A i, j \in DOMAIN got : i < j => got[i] < got[j]
                /\ got # << >> => 1..Last(got) \subseteq seen
                /\ client[r].end = "live" => 1..run[s].seq \subseteq seen
            /\ stream[r].step = "live" /\ stream[r].on = s /\ run[s].finished =>
                stream[r].closed \/ stream[r].closer # "none"

\* However a run ends, its status, the last event it streamed, its state file
\* and its log tell one story: a stream that says cancelled or failed belongs
\* to a run that did not complete, the file never names an end the run did
\* not have, never calls an ended run running, and the log that is there has
\* every event.  runner.go: finish, Cancel and persistState race on the file.
OutcomesAgree ==
    \A s \in Starts :
        LET directory == disk[run[s].id]
        IN  /\ run[s].step \in Settled =>
                   /\ run[s].last = "run_cancelled" => run[s].status = "cancelled"
                   /\ run[s].last = "run_failed" => run[s].status # "completed"
                   /\ run[s].status = "completed" => run[s].last = "run_completed"
            /\ run[s].step \in {"saved", "done"} /\ Sole(s) =>
                   /\ directory.state \in Ended => directory.state = run[s].status
                   /\ directory.state # "running"
                   /\ directory.log # << >> => Len(directory.log) = run[s].seq

\* Two starts that were given one id never work under it at the same time.
\* bus.go: StartRun is the only thing that keeps them apart, for the id is
\* chosen (allocateRunID) and taken in two steps.
OneLiveRunPerId ==
    \A s, t \in Starts :
        s # t /\ run[s].step \in Executing /\ run[t].step \in Executing => run[s].id # run[t].id

\* A deletion that found a run in memory takes its directory away only after
\* the run's pipeline has ended.  handlers_run.go: handleRunDelete.
DeletionsWait ==
    [][\A q \in Requests :
           request[q].step = "remove" /\ request'[q].step = "done" =>
               \A s \in Starts : request[q].on = s => run[s].step \in Settled]_vars
=============================================================================
