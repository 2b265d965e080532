--------------------------- MODULE GraphRunsProofs ---------------------------
(***************************************************************************)
(* Safety of GraphRuns for every set of runs, cancellers and subscribers,  *)
(* channels of every capacity and any number of stops and failures.        *)
(*                                                                         *)
(* Two arguments that share the life of a run.  A deletion takes away the  *)
(* manifest of a run only after its goroutine is through, because an id is *)
(* created once.  And a stream is, at every moment, its pieces put end to  *)
(* end: the steps of the pump and of the reader move the border between    *)
(* two pieces, so that only an event of the run changes the whole.         *)
(***************************************************************************)
EXTENDS GraphRuns, SequenceTheorems, TLAPS

(***************************************************************************)
(* The inductive invariant.                                                *)
(***************************************************************************)
\* The id of a run is taken before there is anything of the run.
IdsAreTaken ==
    \A r \in Runs : r \notin created => manifest[r] = "none" /\ ~ InMemory(r) /\ emitted[r] = 0

\* The end that is saved was decided, and the last event is still to come.
RunsProceed ==
    \A r \in Runs : /\ run[r].step = "decided" => run[r].status \in Ended
                    /\ run[r].step \in {"working", "decided", "saved"} => emitted[r] <= MaxEvents

\* A canceller works on a run in memory, and removes one that is through.
CancellersKnow ==
    \A c \in Cancellers :
        /\ canceller[c].step # "idle" => canceller[c].target \in created
        /\ canceller[c].step \in {"read", "mark", "signal", "wait"} => InMemory(canceller[c].target)
        /\ canceller[c].step = "remove" => ~ IsActive(canceller[c].target)

QuietWhenDown ==
    server = "down" => /\ \A r \in Runs : ~ InMemory(r)
                       /\ \A c \in Cancellers : canceller[c].step = "idle"

Listening(s) == subscriber[s].step \in {"on", "ended"}

\* The live channels are those of the readers of active runs.
LiveWhileActive ==
    \A s \in Subscribers :
        /\ Listening(s) => /\ subscriber[s].source \in created
                           /\ subscriber[s].live <=> IsActive(subscriber[s].source)
                           /\ subscriber[s].next <= subscriber[s].upto + 1
                           /\ subscriber[s].hand # << >> => ~ Replaying(s)
        /\ subscriber[s].pump = "ended" \/ ~ Listening(s) => ~ subscriber[s].live
        /\ subscriber[s].step = "ended" => subscriber[s].pump = "ended"

\* Increasing numbers of events that there were.
InOrder(stream, n) ==
    /\ \A k \in 1..Len(stream) : stream[k] <= n
    /\ \A k \in 1..Len(stream) - 1 : stream[k] < stream[k + 1]

StreamIsWhole(s) ==
    LET n == emitted[subscriber[s].source]
    IN  /\ InOrder(Stream(s), n)
        /\ s \notin lost /\ (subscriber[s].live \/ Done(subscriber[s].source)) =>
               Len(Stream(s)) = n

StreamsAreWhole == \A s \in Subscribers : Listening(s) => StreamIsWhole(s)

\* The life of the runs, whoever listens.
RunsAgree ==
    /\ IdsAreTaken
    /\ RunsProceed
    /\ CancellersKnow
    /\ QuietWhenDown
    /\ ManifestsHaveTheirRuns

RunsInv == TypeOK /\ RunsAgree /\ LiveWhileActive /\ StreamsAreWhole

-----------------------------------------------------------------------------
(***************************************************************************)
(* The shape of the state.                                                 *)
(***************************************************************************)
RunRecord    == [step : Steps, cancelled : BOOLEAN, status : Ended \cup {"none"}]
CancelRecord == [step : {"idle", "read", "mark", "signal", "wait", "remove"},
                 target : Runs \cup {"none"}, delete : BOOLEAN]
StreamRecord == [step : {"idle", "on", "ended", "left"}, source : Runs \cup {"none"},
                 pump : {"none", "on", "ended"}, stoppable : BOOLEAN, live : BOOLEAN, next : Nat,
                 upto : Nat, queue : Seq(Nat), hand : Seq(Nat), out : Seq(Nat), got : Seq(Nat)]

RunTypes    == run \in [Runs -> RunRecord] /\ manifest \in [Runs -> Status] /\ created \subseteq Runs
CancelTypes == canceller \in [Cancellers -> CancelRecord]
StreamTypes == /\ emitted \in [Runs -> 0..MaxEvents + 1]
               /\ subscriber \in [Subscribers -> StreamRecord] /\ lost \subseteq Subscribers
ServerTypes == server \in {"up", "stopping", "down"} /\ used \in [stops : 0..MaxStops, faults : 0..MaxFaults]

LEMMA TypesAreParts == TypeOK <=> RunTypes /\ CancelTypes /\ StreamTypes /\ ServerTypes
  BY DEF TypeOK, RunTypes, CancelTypes, StreamTypes, ServerTypes, RunRecord, CancelRecord, StreamRecord

LEMMA UsedTypes ==
    ASSUME ServerTypes,
           \/ UNCHANGED used \/ UseStop
           \/ used.faults < MaxFaults /\ used' = [used EXCEPT !.faults = @ + 1]
    PROVE  /\ used' \in [stops : 0..MaxStops, faults : 0..MaxFaults]
           /\ used'.faults = 0 => used.faults = 0
  BY RunsAssumption DEF RunsAssumption, ServerTypes, UseStop

\* A run that moves on is one step further and nothing else.
LEMMA RunSteps ==
    ASSUME RunTypes, NEW r \in Runs, NEW step \in Steps, SetStep(r, step)
    PROVE  /\ run' \in [Runs -> RunRecord]
           /\ run'[r].step = step /\ run'[r].status = run[r].status
           /\ \A q \in Runs : q # r => run'[q] = run[q]
  BY DEF RunTypes, RunRecord, SetStep

\* An event changes the queues of the listeners.
LEMMA EmitTypes ==
    ASSUME StreamTypes, NEW r \in Runs, emitted[r] <= MaxEvents, Emit(r)
    PROVE  StreamTypes'
<1>1. emitted[r] + 1 \in 0..MaxEvents + 1 /\ emitted[r] + 1 \in Nat
  BY RunsAssumption DEF RunsAssumption, StreamTypes
<1>2. ASSUME NEW s \in Subscribers
      PROVE  [subscriber[s] EXCEPT !.queue = Append(@, emitted[r] + 1)] \in StreamRecord
  <2>1. subscriber[s] \in StreamRecord /\ subscriber[s].queue \in Seq(Nat)
    BY DEF StreamTypes, StreamRecord
  <2>2. Append(subscriber[s].queue, emitted[r] + 1) \in Seq(Nat)  BY <1>1, <2>1, AppendProperties
  <2>. QED  BY <2>1, <2>2 DEF StreamRecord
<1>3. emitted' \in [Runs -> 0..MaxEvents + 1] /\ lost' \subseteq Subscribers
  BY <1>1 DEF Emit, StreamTypes, ListenersOf
<1>4. subscriber' \in [Subscribers -> StreamRecord]
  <2>1. \A s \in Subscribers : subscriber[s] \in StreamRecord  BY DEF StreamTypes
  <2>. QED  BY <1>2, <2>1 DEF Emit
<1>. QED  BY <1>3, <1>4 DEF StreamTypes

LEMMA NotListeningTypes ==
    /\ NotListening \in StreamRecord /\ Gone \in StreamRecord
    /\ \A r \in Runs, upto \in Nat, active \in BOOLEAN :
         [NotListening EXCEPT !.step = "on", !.source = r, !.pump = "on",
                              !.stoppable = active, !.live = active, !.upto = upto] \in StreamRecord
<1>1. << >> \in Seq(Nat)  BY EmptySeq
<1>. QED  BY <1>1 DEF NotListening, Gone, StreamRecord

\* What the pump and the reader do to their stream.
LEMMA PumpTypes ==
    ASSUME StreamTypes, NEW s \in Subscribers,
           PumpStep(s) \/ Receive(s) \/ EndOfStream(s) \/ Unsubscribe(s)
    PROVE  subscriber' \in [Subscribers -> StreamRecord]
<1>. DEFINE u == subscriber[s]
<1>1. /\ u \in StreamRecord /\ u.queue \in Seq(Nat) /\ u.hand \in Seq(Nat) /\ u.out \in Seq(Nat)
      /\ u.got \in Seq(Nat) /\ u.next \in Nat /\ << >> \in Seq(Nat)
  BY EmptySeq DEF StreamTypes, StreamRecord
<1>2. ASSUME NEW new \in StreamRecord, Become(s, new)
      PROVE  subscriber' \in [Subscribers -> StreamRecord]
  BY <1>2 DEF Become, StreamTypes
<1>3. CASE Replay(s)
  <2>1. Append(u.out, u.next) \in Seq(Nat) /\ u.next + 1 \in Nat  BY <1>1, AppendProperties
  <2>2. [u EXCEPT !.next = @ + 1, !.out = Append(@, u.next)] \in StreamRecord
    BY <1>1, <2>1 DEF StreamRecord
  <2>. QED  BY <1>2, <1>3, <2>2 DEF Replay
<1>4. CASE TakeLive(s)
  <2>1. /\ Head(u.queue) \in Nat /\ Tail(u.queue) \in Seq(Nat)
    BY <1>1, <1>4, HeadTailProperties DEF TakeLive
  <2>2. << Head(u.queue) >> \in Seq(Nat)  BY <2>1
  <2>3. [u EXCEPT !.hand = << Head(u.queue) >>, !.queue = Tail(@)] \in StreamRecord
    BY <1>1, <2>1, <2>2 DEF StreamRecord
  <2>. QED  BY <1>2, <1>4, <2>3 DEF TakeLive
<1>5. CASE PassOn(s)
  <2>1. u.out \o u.hand \in Seq(Nat)  BY <1>1, ConcatProperties
  <2>2. [u EXCEPT !.out = @ \o u.hand, !.hand = << >>] \in StreamRecord
    BY <1>1, <2>1 DEF StreamRecord
  <2>. QED  BY <1>2, <1>5, <2>2 DEF PassOn
<1>6. CASE PumpEnds(s) \/ PumpStops(s)
  <2>1. [u EXCEPT !.pump = "ended"] \in StreamRecord  BY <1>1 DEF StreamRecord
  <2>. QED  BY <1>2, <1>6, <2>1, NotListeningTypes DEF PumpEnds, PumpStops
<1>7. CASE Receive(s)
  <2>1. /\ Head(u.out) \in Nat /\ Tail(u.out) \in Seq(Nat)
    BY <1>1, <1>7, HeadTailProperties DEF Receive
  <2>2. Append(u.got, Head(u.out)) \in Seq(Nat)  BY <1>1, <2>1, AppendProperties
  <2>3. [u EXCEPT !.out = Tail(@), !.got = Append(@, Head(u.out))] \in StreamRecord
    BY <1>1, <2>1, <2>2 DEF StreamRecord
  <2>. QED  BY <1>2, <1>7, <2>3 DEF Receive
<1>8. CASE EndOfStream(s) \/ Unsubscribe(s)
  <2>1. /\ [u EXCEPT !.step = "ended"] \in StreamRecord
        /\ [u EXCEPT !.step = "left", !.live = FALSE, !.got = << >>] \in StreamRecord
    BY <1>1 DEF StreamRecord
  <2>. QED  BY <1>2, <1>8, <2>1, NotListeningTypes DEF EndOfStream, Unsubscribe
<1>. QED  BY <1>3, <1>4, <1>5, <1>6, <1>7, <1>8 DEF PumpStep

LEMMA NextTypes ==
    ASSUME RunsInv, [Next]_vars
    PROVE  TypeOK'
<1>0. RunTypes /\ CancelTypes /\ StreamTypes /\ ServerTypes  BY TypesAreParts DEF RunsInv
<1>a. /\ UNCHANGED <<created, manifest, run>> => RunTypes'
      /\ UNCHANGED canceller => CancelTypes'
      /\ UnchangedStreams => StreamTypes'
      /\ UNCHANGED <<server, used>> => ServerTypes'
  BY <1>0 DEF RunTypes, CancelTypes, StreamTypes, ServerTypes, UnchangedStreams
<1>. SUFFICES RunTypes' /\ CancelTypes' /\ StreamTypes' /\ ServerTypes'
  BY DEF TypeOK, RunTypes, CancelTypes, StreamTypes, ServerTypes, RunRecord, CancelRecord, StreamRecord
<1>. DEFINE Goal == RunTypes' /\ CancelTypes' /\ StreamTypes' /\ ServerTypes'
<1>1. ASSUME NEW r \in Runs, Start(r) \/ StartFails(r)  PROVE Goal
  <2>1. RunTypes'
    <3>1. [NoRun EXCEPT !.step = "working"] \in RunRecord  BY DEF NoRun, RunRecord, Steps
    <3>2. run' \in [Runs -> RunRecord]  BY <1>0, <1>1, <3>1 DEF Start, StartFails, RunTypes
    <3>3. CreateManifest(r)  BY <1>1 DEF Start, StartFails
    <3>. QED  BY <1>0, <3>2, <3>3 DEF CreateManifest, RunTypes, Status
  <2>2. ServerTypes'
    BY <1>0, <1>1, UsedTypes DEF Start, StartFails, ServerTypes
  <2>. QED  BY <1>1, <1>a, <2>1, <2>2 DEF Start, StartFails
<1>2. ASSUME NEW r \in Runs, Progress(r) \/ Announce(r)  PROVE Goal
  <2>1. emitted[r] <= MaxEvents
    BY <1>0, <1>2, RunsAssumption
    DEF Progress, Announce, RunsInv, RunsAgree, RunsProceed, StreamTypes, RunsAssumption
  <2>2. StreamTypes'  BY <1>0, <1>2, <2>1, EmitTypes DEF Progress, Announce
  <2>3. RunTypes'
    BY <1>0, <1>2, RunSteps DEF Progress, Announce, RunTypes, Steps
  <2>. QED  BY <1>2, <1>a, <2>2, <2>3 DEF Progress, Announce
<1>3. ASSUME NEW r \in Runs, NEW status \in Ended, Decide(r, status)  PROVE Goal
  <2>1. run' = [run EXCEPT ![r] = [run[r] EXCEPT !.step = "decided", !.status = status]]
    BY <1>0, <1>3 DEF Decide, RunTypes, RunRecord
  <2>2. RunTypes'  BY <1>0, <1>3, <2>1 DEF Decide, RunTypes, RunRecord, Steps
  <2>. QED  BY <1>3, <1>a, <2>2 DEF Decide
<1>4. ASSUME NEW r \in Runs, SaveEnd(r) \/ CloseDone(r)  PROVE Goal
  <2>1. run[r].status \in Status  BY <1>0 DEF RunTypes, RunRecord, Status
  <2>2. RunTypes'  BY <1>0, <1>4, <2>1, RunSteps DEF SaveEnd, CloseDone, RunTypes, Steps
  <2>. QED  BY <1>4, <1>a, <2>2 DEF SaveEnd, CloseDone
<1>5. ASSUME NEW r \in Runs, CloseStreams(r)  PROVE Goal
  <2>1. RunTypes'  BY <1>0, <1>5, RunSteps DEF CloseStreams, RunTypes, Steps
  <2>2. \A s \in Subscribers : /\ subscriber[s] \in StreamRecord
                               /\ [subscriber[s] EXCEPT !.live = FALSE] \in StreamRecord
    BY <1>0 DEF StreamTypes, StreamRecord
  <2>3. StreamTypes'  BY <1>0, <1>5, <2>2 DEF CloseStreams, StreamTypes
  <2>. QED  BY <1>5, <1>a, <2>1, <2>3 DEF CloseStreams
<1>6. ASSUME NEW c \in Cancellers, CancelStep(c)  PROVE Goal
  <2>1. canceller[c].step # "idle" /\ canceller[c].target \in Runs
    BY <1>0, <1>6
    DEF CancelStep, ReadManifest, MarkCancelling, CancelContext, WaitForRun, DeleteRun, RunsInv,
        RunsAgree, CancellersKnow, RunTypes
  <2>2. CancelTypes'
    <3>1. \A step \in {"mark", "signal", "wait", "remove"} :
            [canceller[c] EXCEPT !.step = step] \in CancelRecord
      BY <1>0 DEF CancelTypes, CancelRecord
    <3>2. NoCancel \in CancelRecord  BY DEF NoCancel, CancelRecord
    <3>3. PICK new \in CancelRecord : SetCanceller(c, new)
      BY <1>6, <3>1, <3>2
      DEF CancelStep, ReadManifest, MarkCancelling, CancelContext, WaitForRun, DeleteRun
    <3>. QED  BY <1>0, <3>3 DEF SetCanceller, CancelTypes
  <2>3. RunTypes'
    <3>1. CASE CancelContext(c)
      <4>1. run' = [run EXCEPT ![canceller[c].target] =
                                 [run[canceller[c].target] EXCEPT !.cancelled = TRUE]]
        BY <1>0, <2>1, <3>1 DEF CancelContext, RunTypes, RunRecord
      <4>. QED  BY <1>0, <2>1, <3>1, <4>1 DEF CancelContext, RunTypes, RunRecord
    <3>2. CASE MarkCancelling(c) \/ DeleteRun(c)
      BY <1>0, <2>1, <3>2 DEF MarkCancelling, DeleteRun, RunTypes, Status
    <3>. QED  BY <1>6, <1>a, <3>1, <3>2 DEF CancelStep, ReadManifest, WaitForRun
  <2>. QED
    BY <1>6, <1>a, <2>2, <2>3
    DEF CancelStep, ReadManifest, MarkCancelling, CancelContext, WaitForRun, DeleteRun
<1>7. ASSUME NEW c \in Cancellers, NEW r \in Runs, NEW delete \in BOOLEAN, LookForRun(c, r, delete)
      PROVE  Goal
  <2>1. CancelTypes'
    BY <1>0, <1>7 DEF LookForRun, SetCanceller, CancelTypes, CancelRecord
  <2>. QED  BY <1>7, <1>a, <2>1 DEF LookForRun
<1>8. ASSUME NEW s \in Subscribers, NEW r \in Runs, Subscribe(s, r)  PROVE Goal
  <2>1. emitted[r] \in Nat /\ IsActive(r) \in BOOLEAN
    BY <1>0, RunsAssumption DEF StreamTypes, RunsAssumption, IsActive
  <2>2. StreamTypes'
    BY <1>0, <1>8, <2>1, NotListeningTypes DEF Subscribe, StreamTypes, UnchangedRuns
  <2>. QED  BY <1>8, <1>a, <2>2 DEF Subscribe, UnchangedRuns
<1>9. ASSUME NEW s \in Subscribers, PumpStep(s) \/ Receive(s) \/ EndOfStream(s) \/ Unsubscribe(s)
      PROVE  Goal
  <2>1. subscriber' \in [Subscribers -> StreamRecord]  BY <1>0, <1>9, PumpTypes
  <2>2. UnchangedRuns
    BY <1>9 DEF PumpStep, Replay, TakeLive, PassOn, PumpEnds, PumpStops, Receive, EndOfStream, Unsubscribe
  <2>. QED  BY <1>0, <1>a, <2>1, <2>2 DEF UnchangedRuns, StreamTypes
<1>10. ASSUME Crash \/ ShutdownDone  PROVE Goal
  <2>1. Down /\ (UseStop \/ UNCHANGED used)  BY <1>10 DEF Crash, ShutdownDone
  <2>2. RunTypes'  BY <1>0, <2>1 DEF Down, RunTypes, RunRecord, NoRun, Steps
  <2>3. CancelTypes'  BY <2>1 DEF Down, CancelTypes, CancelRecord, NoCancel
  <2>4. StreamTypes'  BY <1>0, <2>1, NotListeningTypes DEF Down, StreamTypes
  <2>5. ServerTypes'  BY <1>0, <2>1, UsedTypes DEF Down, ServerTypes
  <2>. QED  BY <2>2, <2>3, <2>4, <2>5
<1>11. ASSUME Shutdown  PROVE Goal
  <2>1. \A r \in Runs : [run[r] EXCEPT !.cancelled = InMemory(r)] \in RunRecord
    BY <1>0 DEF RunTypes, RunRecord, InMemory
  <2>2. RunTypes'  BY <1>0, <1>11, <2>1 DEF Shutdown, RunTypes
  <2>3. ServerTypes'  BY <1>0, <1>11, UsedTypes DEF Shutdown, ServerTypes
  <2>. QED  BY <1>11, <1>a, <2>2, <2>3 DEF Shutdown
<1>12. ASSUME Boot  PROVE Goal
  <2>1. RunTypes'  BY <1>0, <1>12 DEF Boot, RunTypes, Status, Ended
  <2>2. ServerTypes'  BY <1>0, <1>12 DEF Boot, ServerTypes
  <2>. QED  BY <1>12, <1>a, <2>1, <2>2 DEF Boot
<1>13. ASSUME UNCHANGED vars  PROVE Goal
  BY <1>13, <1>a DEF vars, UnchangedStreams
<1>. HIDE DEF Goal
<1>14. Goal
  BY <1>1, <1>2, <1>3, <1>4, <1>5, <1>6, <1>7, <1>8, <1>9, <1>10, <1>11, <1>12, <1>13
  DEF Next, RunStep
<1>. QED  BY <1>14 DEF Goal

-----------------------------------------------------------------------------
(***************************************************************************)
(* The runs, their manifests and the cancellers.                           *)
(***************************************************************************)
LEMMA RunsAgreeKept ==
    ASSUME RunsInv, [Next]_vars
    PROVE  RunsAgree'
<1>0. RunTypes /\ CancelTypes /\ StreamTypes /\ ServerTypes /\ MaxEvents \in Nat
  BY TypesAreParts, RunsAssumption DEF RunsInv, RunsAssumption
<1>a. IdsAreTaken /\ RunsProceed /\ CancellersKnow /\ QuietWhenDown /\ ManifestsHaveTheirRuns
  BY DEF RunsInv, RunsAgree
<1>b. \A r \in Runs : emitted[r] \in Nat  BY <1>0 DEF StreamTypes
<1>c. \A c \in Cancellers : canceller[c].step # "idle" => canceller[c].target \in Runs
  BY <1>0, <1>a DEF CancellersKnow, RunTypes
<1>1. ASSUME NEW r \in Runs, Start(r)  PROVE RunsAgree'
  <2>1. /\ run'[r].step = "working" /\ r \notin created /\ created' = created \cup {r}
        /\ manifest'[r] = "running" /\ UNCHANGED <<server, canceller, used, emitted>> /\ server = "up"
        /\ \A q \in Runs : q # r => run'[q] = run[q] /\ manifest'[q] = manifest[q]
    BY <1>0, <1>1 DEF Start, CreateManifest, RunTypes, NoRun, UnchangedStreams
  <2>2. IdsAreTaken'  BY <1>a, <2>1 DEF IdsAreTaken, InMemory
  <2>3. RunsProceed'  BY <1>0, <1>a, <2>1 DEF IdsAreTaken, RunsProceed
  <2>4. CancellersKnow'
    <3>1. \A c \in Cancellers : canceller[c].step # "idle" =>
            canceller[c].target # r /\ canceller[c].target \in created
      BY <1>a, <2>1 DEF CancellersKnow
    <3>. QED  BY <1>a, <1>c, <2>1, <3>1 DEF CancellersKnow, InMemory, IsActive, Done
  <2>5. QuietWhenDown'  BY <2>1 DEF QuietWhenDown
  <2>6. ManifestsHaveTheirRuns'
    BY <1>a, <2>1 DEF ManifestsHaveTheirRuns, InMemory, IsActive, Done
  <2>. QED  BY <2>2, <2>3, <2>4, <2>5, <2>6 DEF RunsAgree
<1>2. ASSUME NEW r \in Runs, StartFails(r)  PROVE RunsAgree'
  <2>1. /\ r \notin created /\ created' = created \cup {r}
        /\ manifest'[r] = "running" /\ UNCHANGED <<server, canceller, run, emitted>> /\ server = "up"
        /\ \A q \in Runs : q # r => manifest'[q] = manifest[q]
        /\ used'.faults # 0
    BY <1>0, <1>2 DEF StartFails, CreateManifest, RunTypes, UnchangedStreams, ServerTypes
  <2>2. IdsAreTaken'  BY <1>a, <2>1 DEF IdsAreTaken, InMemory
  <2>3. RunsProceed'  BY <1>a, <2>1 DEF RunsProceed
  <2>4. CancellersKnow'
    <3>1. \A c \in Cancellers : canceller[c].step # "idle" =>
            canceller[c].target # r /\ canceller[c].target \in created
      BY <1>a, <2>1 DEF CancellersKnow
    <3>. QED  BY <1>a, <1>c, <2>1, <3>1 DEF CancellersKnow, InMemory, IsActive, Done
  <2>5. QuietWhenDown'  BY <2>1 DEF QuietWhenDown
  <2>6. ManifestsHaveTheirRuns'
    BY <1>a, <2>1 DEF ManifestsHaveTheirRuns, InMemory, IsActive, Done
  <2>. QED  BY <2>2, <2>3, <2>4, <2>5, <2>6 DEF RunsAgree
<1>3. ASSUME NEW r \in Runs, NEW step \in Steps \ {"absent", "working", "decided"},
             SetStep(r, step), IsActive(r) \/ step = "closed",
             InMemory(r), emitted' = emitted \/ step = "announced",
             \A q \in Runs : q # r => emitted'[q] = emitted[q],
             UNCHANGED <<server, created, canceller, used>>,
             \A q \in Runs : q # r => manifest'[q] = manifest[q],
             manifest'[r] # "none" \/ (manifest'[r] = manifest[r] /\ (step = "closed" \/ IsActive(r))),
             step = "saved" => run[r].step = "decided"
      PROVE  RunsAgree'
  <2>1. /\ run'[r].step = step /\ \A q \in Runs : q # r => run'[q] = run[q]
    BY <1>0, <1>3, RunSteps
  <2>2. IdsAreTaken'  BY <1>a, <1>3, <2>1 DEF IdsAreTaken, InMemory
  <2>3. RunsProceed'  BY <1>a, <1>3, <2>1 DEF RunsProceed
  <2>4. CancellersKnow'
    BY <1>a, <1>c, <1>3, <2>1 DEF CancellersKnow, InMemory, IsActive, Done, Steps
  <2>5. QuietWhenDown'  BY <1>a, <1>3, <2>1 DEF QuietWhenDown, InMemory
  <2>6. ManifestsHaveTheirRuns'
    BY <1>a, <1>3, <2>1 DEF ManifestsHaveTheirRuns, InMemory, IsActive, Done
  <2>. QED  BY <2>2, <2>3, <2>4, <2>5, <2>6 DEF RunsAgree
<1>4. ASSUME NEW r \in Runs, Progress(r)  PROVE RunsAgree'
  <2>1. /\ run[r].step = "working" /\ emitted'[r] = emitted[r] + 1 /\ emitted[r] < MaxEvents
        /\ \A q \in Runs : q # r => emitted'[q] = emitted[q]
        /\ UNCHANGED <<created, server, manifest, run, canceller, used>>
    BY <1>0, <1>4 DEF Progress, Emit, StreamTypes
  <2>2. IdsAreTaken'  BY <1>a, <2>1 DEF IdsAreTaken, InMemory
  <2>3. RunsProceed'  BY <1>0, <1>a, <1>b, <2>1 DEF RunsProceed
  <2>4. CancellersKnow' /\ QuietWhenDown' /\ ManifestsHaveTheirRuns'
    BY <1>a, <2>1 DEF CancellersKnow, QuietWhenDown, ManifestsHaveTheirRuns, InMemory, IsActive, Done
  <2>. QED  BY <2>2, <2>3, <2>4 DEF RunsAgree
<1>5. ASSUME NEW r \in Runs, NEW status \in Ended, Decide(r, status)  PROVE RunsAgree'
  <2>1. /\ run[r].step = "working" /\ run'[r].step = "decided" /\ run'[r].status = status
        /\ \A q \in Runs : q # r => run'[q] = run[q]
        /\ UNCHANGED <<created, server, manifest, emitted, canceller, used>>
    BY <1>0, <1>5 DEF Decide, RunTypes, RunRecord, UnchangedStreams
  <2>2. IdsAreTaken' /\ RunsProceed'
    BY <1>a, <2>1 DEF IdsAreTaken, RunsProceed, InMemory
  <2>3. CancellersKnow' /\ QuietWhenDown' /\ ManifestsHaveTheirRuns'
    BY <1>a, <1>c, <2>1 DEF CancellersKnow, QuietWhenDown, ManifestsHaveTheirRuns, InMemory, IsActive, Done
  <2>. QED  BY <2>2, <2>3 DEF RunsAgree
<1>6. ASSUME NEW r \in Runs, SaveEnd(r)  PROVE RunsAgree'
  <2>1. run[r].status \in Ended  BY <1>a, <1>6 DEF SaveEnd, RunsProceed
  <2>2. /\ manifest'[r] # "none" /\ \A q \in Runs : q # r => manifest'[q] = manifest[q]
    BY <1>0, <1>6, <2>1 DEF SaveEnd, RunTypes, Ended
  <2>. QED  BY <1>3, <1>6, <2>2
       DEF SaveEnd, Steps, IsActive, InMemory, Done, UnchangedStreams
<1>7. ASSUME NEW r \in Runs, Announce(r)  PROVE RunsAgree'
  <2>1. \A q \in Runs : q # r => emitted'[q] = emitted[q]
    BY <1>0, <1>7 DEF Announce, Emit, StreamTypes
  <2>. QED  BY <1>3, <1>7, <2>1 DEF Announce, Steps, IsActive, InMemory, Done
<1>8. ASSUME NEW r \in Runs, CloseStreams(r)  PROVE RunsAgree'
  BY <1>3, <1>8 DEF CloseStreams, Steps, IsActive, InMemory, Done
<1>9. ASSUME NEW r \in Runs, CloseDone(r)  PROVE RunsAgree'
  BY <1>3, <1>9 DEF CloseDone, Steps, InMemory, UnchangedStreams
<1>10. ASSUME NEW c \in Cancellers, ReadManifest(c) \/ WaitForRun(c)  PROVE RunsAgree'
  <2>1. /\ canceller[c].step \in {"read", "wait"}
        /\ canceller'[c].target = canceller[c].target
        /\ canceller'[c].step \in {"mark", "signal", "remove"}
        /\ canceller'[c].step = "remove" => run[canceller[c].target].step = "closed"
        /\ \A d \in Cancellers : d # c => canceller'[d] = canceller[d]
        /\ UNCHANGED <<created, server, manifest, run, emitted, used>>
    BY <1>0, <1>10
    DEF ReadManifest, WaitForRun, SetCanceller, CancelTypes, CancelRecord, UnchangedStreams
  <2>2. CancellersKnow'
    BY <1>a, <2>1 DEF CancellersKnow, InMemory, IsActive, Done
  <2>3. QuietWhenDown'  BY <1>a, <2>1 DEF QuietWhenDown, InMemory
  <2>4. IdsAreTaken' /\ RunsProceed' /\ ManifestsHaveTheirRuns'
    BY <1>a, <2>1 DEF IdsAreTaken, RunsProceed, ManifestsHaveTheirRuns, InMemory, IsActive, Done
  <2>. QED  BY <2>2, <2>3, <2>4 DEF RunsAgree
<1>11. ASSUME NEW c \in Cancellers, MarkCancelling(c) \/ CancelContext(c) \/ DeleteRun(c)
       PROVE  RunsAgree'
  <2>. DEFINE r == canceller[c].target
  <2>1. /\ canceller[c].step \in {"mark", "signal", "remove"} /\ r \in created /\ r \in Runs
        /\ canceller[c].step # "remove" => InMemory(r)
        /\ canceller[c].step = "remove" => ~ IsActive(r)
        /\ server # "down"
    BY <1>0, <1>a, <1>11
    DEF MarkCancelling, CancelContext, DeleteRun, CancellersKnow, QuietWhenDown, RunTypes
  <2>2. /\ \A q \in Runs : run'[q].step = run[q].step /\ run'[q].status = run[q].status
        /\ \A q \in Runs : q # r => manifest'[q] = manifest[q]
        /\ manifest'[r] = manifest[r] \/ (manifest'[r] = "cancelling" /\ InMemory(r))
           \/ (manifest'[r] = "none" /\ ~ IsActive(r))
    BY <1>0, <1>11, <2>1
    DEF MarkCancelling, CancelContext, DeleteRun, RunTypes, RunRecord
  <2>3. /\ canceller'[c].step \in {"signal", "wait", "idle"}
        /\ canceller'[c].step # "idle" => canceller'[c].target = r /\ canceller[c].step # "remove"
        /\ \A d \in Cancellers : d # c => canceller'[d] = canceller[d]
    BY <1>0, <1>11
    DEF MarkCancelling, CancelContext, DeleteRun, SetCanceller, NoCancel, CancelTypes, CancelRecord
  <2>4. UNCHANGED <<created, server, emitted, used>>
    BY <1>11 DEF MarkCancelling, CancelContext, DeleteRun, UnchangedStreams
  <2>. HIDE DEF r
  <2>5. \A q \in Runs : (InMemory(q)' <=> InMemory(q)) /\ (IsActive(q)' <=> IsActive(q))
    BY <2>2 DEF InMemory, IsActive, Done
  <2>6. IdsAreTaken' /\ RunsProceed'
    BY <1>a, <2>1, <2>2, <2>4, <2>5 DEF IdsAreTaken, RunsProceed
  <2>7. CancellersKnow'
    <3>1. created' \subseteq Runs  BY <1>0, <2>4 DEF RunTypes
    <3>. QED  BY <1>a, <2>1, <2>3, <2>4, <2>5, <3>1 DEF CancellersKnow
  <2>8. QuietWhenDown'  BY <2>1, <2>4 DEF QuietWhenDown
  <2>9. ManifestsHaveTheirRuns'
    BY <1>a, <2>2, <2>4, <2>5 DEF ManifestsHaveTheirRuns
  <2>. QED  BY <2>6, <2>7, <2>8, <2>9 DEF RunsAgree
<1>12. ASSUME NEW c \in Cancellers, NEW r \in Runs, NEW delete \in BOOLEAN, LookForRun(c, r, delete)
       PROVE  RunsAgree'
  <2>1. /\ canceller'[c].target = r /\ server = "up"
        /\ canceller'[c].step = IF IsActive(r) THEN "read" ELSE "remove"
        /\ \A d \in Cancellers : d # c => canceller'[d] = canceller[d]
        /\ UNCHANGED <<created, server, manifest, run, emitted, used>>
    BY <1>0, <1>12 DEF LookForRun, SetCanceller, CancelTypes, UnchangedStreams
  <2>2. r \in created  BY <1>a, <1>12 DEF LookForRun, IdsAreTaken, IsActive
  <2>3. CancellersKnow'
    BY <1>a, <2>1, <2>2 DEF CancellersKnow, InMemory, IsActive, Done
  <2>4. QuietWhenDown'  BY <2>1 DEF QuietWhenDown
  <2>5. IdsAreTaken' /\ RunsProceed' /\ ManifestsHaveTheirRuns'
    BY <1>a, <2>1 DEF IdsAreTaken, RunsProceed, ManifestsHaveTheirRuns, InMemory, IsActive, Done
  <2>. QED  BY <2>3, <2>4, <2>5 DEF RunsAgree
<1>13. ASSUME UNCHANGED <<created, server, manifest, run, emitted, canceller, used>>
       PROVE  RunsAgree'
  BY <1>a, <1>13
  DEF RunsAgree, IdsAreTaken, RunsProceed, CancellersKnow, QuietWhenDown, ManifestsHaveTheirRuns,
      InMemory, IsActive, Done
<1>14. ASSUME \/ \E s \in Subscribers, r \in Runs : Subscribe(s, r)
              \/ \E s \in Subscribers : PumpStep(s) \/ Receive(s) \/ EndOfStream(s) \/ Unsubscribe(s)
              \/ UNCHANGED vars
       PROVE  RunsAgree'
  BY <1>13, <1>14
  DEF Subscribe, PumpStep, Replay, TakeLive, PassOn, PumpEnds, PumpStops, Receive, EndOfStream,
      Unsubscribe, UnchangedRuns, vars
<1>15. ASSUME Crash \/ ShutdownDone  PROVE RunsAgree'
  <2>1. Down  BY <1>15 DEF Crash, ShutdownDone
  <2>2. /\ \A q \in Runs : run'[q].step = "absent"
        /\ \A d \in Cancellers : canceller'[d].step = "idle"
        /\ server' = "down" /\ UNCHANGED <<created, manifest, emitted>>
    BY <2>1 DEF Down, NoRun, NoCancel
  <2>. QED  BY <1>a, <2>2
       DEF RunsAgree, IdsAreTaken, RunsProceed, CancellersKnow, QuietWhenDown, ManifestsHaveTheirRuns,
           InMemory, IsActive, Done
<1>16. ASSUME Shutdown  PROVE RunsAgree'
  <2>1. /\ \A q \in Runs : run'[q].step = run[q].step /\ run'[q].status = run[q].status
        /\ server = "up" /\ server' = "stopping"
        /\ UNCHANGED <<created, manifest, emitted, canceller>> /\ used'.faults = used.faults
    BY <1>0, <1>16 DEF Shutdown, RunTypes, RunRecord, UnchangedStreams, UseStop, ServerTypes
  <2>2. IdsAreTaken' /\ RunsProceed'
    BY <1>a, <2>1 DEF IdsAreTaken, RunsProceed, InMemory
  <2>4. CancellersKnow'
    BY <1>a, <1>c, <2>1 DEF CancellersKnow, InMemory, IsActive, Done
  <2>5. QuietWhenDown' /\ ManifestsHaveTheirRuns'
    BY <1>a, <2>1 DEF QuietWhenDown, ManifestsHaveTheirRuns, InMemory, IsActive, Done
  <2>. QED  BY <2>2, <2>4, <2>5 DEF RunsAgree
<1>17. ASSUME Boot  PROVE RunsAgree'
  <2>1. /\ \A q \in Runs : /\ manifest'[q] \notin {"running", "cancelling"}
                           /\ manifest[q] = "none" => manifest'[q] = "none"
                           /\ ~ InMemory(q)
        /\ \A d \in Cancellers : canceller[d].step = "idle"
        /\ server' = "up" /\ UNCHANGED <<created, run, emitted, canceller, used>>
    BY <1>a, <1>17 DEF Boot, QuietWhenDown, UnchangedStreams
  <2>. QED  BY <1>a, <2>1
       DEF RunsAgree, IdsAreTaken, RunsProceed, CancellersKnow, QuietWhenDown, ManifestsHaveTheirRuns,
           InMemory, IsActive, Done
<1>. QED
  BY <1>1, <1>2, <1>4, <1>5, <1>6, <1>7, <1>8, <1>9, <1>10, <1>11, <1>12, <1>14, <1>15, <1>16, <1>17
  DEF Next, RunStep, CancelStep

-----------------------------------------------------------------------------
(***************************************************************************)
(* A stream is the concatenation of its pieces.                            *)
(***************************************************************************)
\* What is still to be replayed: the numbers from m to n.
Span(m, n) == [k \in 1..(n + 1 - m) |-> m + k - 1]

\* The pieces of a stream: got, in the reader's channel, to be replayed, in
\* the hand of the pump, in the live channel.
Whole(got, out, m, n, hand, queue) == got \o out \o Span(m, n) \o hand \o queue

LEMMA SpanFacts ==
    ASSUME NEW m \in Nat, NEW n \in Nat, m <= n + 1
    PROVE  /\ Span(m, n) \in Seq(Nat) /\ Len(Span(m, n)) = n + 1 - m
           /\ \A k \in 1..(n + 1 - m) : Span(m, n)[k] = m + k - 1
           /\ m = n + 1 => Span(m, n) = << >>
           /\ m <= n => Span(m, n) = << m >> \o Span(m + 1, n)
<1>1. ASSUME NEW i \in Nat, i <= n + 1
      PROVE  /\ Span(i, n) \in Seq(Nat) /\ Len(Span(i, n)) = n + 1 - i
             /\ \A k \in 1..(n + 1 - i) : Span(i, n)[k] = i + k - 1
  <2>1. Span(i, n) \in [1..(n + 1 - i) -> Nat] /\ n + 1 - i \in Nat
    BY <1>1 DEF Span
  <2>2. Span(i, n) \in Seq(Nat)  BY <2>1, SeqDef
  <2>3. Len(Span(i, n)) = n + 1 - i
    BY <2>1, <2>2, LenProperties
  <2>. QED  BY <2>2, <2>3 DEF Span
<1>2. ASSUME m = n + 1  PROVE Span(m, n) = << >>
  BY <1>1, <1>2, EmptySeq
<1>3. ASSUME m <= n  PROVE Span(m, n) = << m >> \o Span(m + 1, n)
  <2>. DEFINE rest == Span(m + 1, n)
              long == Span(m, n)
  <2>1. /\ rest \in Seq(Nat) /\ Len(rest) = n - m
        /\ \A k \in 1..(n - m) : rest[k] = m + k
    <3>1. m + 1 \in Nat /\ m + 1 <= n + 1 /\ n + 1 - (m + 1) = n - m  BY <1>3
    <3>2. /\ rest \in Seq(Nat) /\ Len(rest) = n + 1 - (m + 1)
          /\ \A k \in 1..(n + 1 - (m + 1)) : rest[k] = (m + 1) + k - 1
      BY <1>1, <3>1
    <3>3. \A k \in Int : (m + 1) + k - 1 = m + k  OBVIOUS
    <3>. QED  BY <3>1, <3>2, <3>3
  <2>2. /\ long \in Seq(Nat) /\ Len(long) = n + 1 - m
        /\ \A k \in 1..(n + 1 - m) : long[k] = m + k - 1
    BY <1>1
  <2>. HIDE DEF rest, long
  <2>3. << m >> \in Seq(Nat) /\ Len(<< m >>) = 1 /\ << m >>[1] = m  OBVIOUS
  <2>4. /\ << m >> \o rest \in Seq(Nat) /\ Len(<< m >> \o rest) = 1 + (n - m)
        /\ \A k \in 1..(1 + (n - m)) : (<< m >> \o rest)[k] = IF k <= 1 THEN << m >>[k] ELSE rest[k - 1]
    BY <2>1, <2>3, ConcatProperties
  <2>5. \A k \in 1..(n + 1 - m) : (<< m >> \o rest)[k] = long[k]
    <3>. SUFFICES ASSUME NEW k \in 1..(n + 1 - m)  PROVE (<< m >> \o rest)[k] = long[k]
      OBVIOUS
    <3>1. CASE k = 1  BY <3>1, <1>3, <2>2, <2>3, <2>4
    <3>2. CASE k # 1
      <4>1. k - 1 \in 1..(n - m) /\ k \in 1..(1 + (n - m)) /\ ~ (k <= 1)  BY <3>2
      <4>2. (<< m >> \o rest)[k] = rest[k - 1]  BY <2>4, <4>1
      <4>3. rest[k - 1] = m + (k - 1)  BY <2>1, <4>1
      <4>. QED  BY <2>2, <4>2, <4>3
    <3>. QED  BY <3>1, <3>2
  <2>6. long = << m >> \o rest
    <3>1. Len(long) = Len(<< m >> \o rest)  BY <2>2, <2>4
    <3>. QED  BY <2>2, <2>4, <2>5, <3>1, SeqEqual
  <2>. QED  BY <2>6 DEF rest, long
<1>. QED  BY <1>1, <1>2, <1>3

\* An element at the border of two pieces belongs to either.
LEMMA BorderElement ==
    ASSUME NEW a \in Seq(Nat), NEW b \in Seq(Nat), NEW x \in Nat
    PROVE  /\ Append(a, x) \in Seq(Nat) /\ Append(a, x) = a \o << x >>
           /\ Append(a, x) \o b = a \o (<< x >> \o b)
           /\ a \o Append(b, x) = Append(a \o b, x)
<1>1. << x >> \in Seq(Nat) /\ a \o b \in Seq(Nat)  BY ConcatProperties
<1>2. \A c \in Seq(Nat) : Append(c, x) \in Seq(Nat) /\ Append(c, x) = c \o << x >>
  BY AppendProperties, AppendIsConcat
<1>3. (a \o << x >>) \o b = a \o (<< x >> \o b)  BY <1>1, ConcatAssociative
<1>4. a \o (b \o << x >>) = (a \o b) \o << x >>  BY <1>1, ConcatAssociative
<1>. QED  BY <1>1, <1>2, <1>3, <1>4

LEMMA HeadBorder ==
    ASSUME NEW a \in Seq(Nat), NEW b \in Seq(Nat), b # << >>
    PROVE  /\ Head(b) \in Nat /\ Tail(b) \in Seq(Nat) /\ << Head(b) >> \o Tail(b) = b
           /\ Append(a, Head(b)) \o Tail(b) = a \o b
<1>1. Head(b) \in Nat /\ Tail(b) \in Seq(Nat) /\ Len(Tail(b)) = Len(b) - 1
      /\ \A i \in 1..Len(Tail(b)) : Tail(b)[i] = b[i + 1]
  BY HeadTailProperties
<1>2. << Head(b) >> \o Tail(b) = b
  <2>1. << Head(b) >> \in Seq(Nat) /\ Len(<< Head(b) >>) = 1 /\ << Head(b) >>[1] = b[1]  BY <1>1
  <2>2. /\ << Head(b) >> \o Tail(b) \in Seq(Nat) /\ Len(<< Head(b) >> \o Tail(b)) = 1 + Len(Tail(b))
        /\ \A i \in 1..(1 + Len(Tail(b))) :
             (<< Head(b) >> \o Tail(b))[i] = IF i <= 1 THEN << Head(b) >>[i] ELSE Tail(b)[i - 1]
    BY <1>1, <2>1, ConcatProperties
  <2>3. Len(b) \in Nat \ {0}  BY EmptySeq
  <2>4. \A i \in 1..Len(b) : (<< Head(b) >> \o Tail(b))[i] = b[i]
    BY <1>1, <2>1, <2>2, <2>3
  <2>. QED  BY <1>1, <2>2, <2>3, <2>4, SeqEqual
<1>3. Append(a, Head(b)) \o Tail(b) = a \o (<< Head(b) >> \o Tail(b))
  BY <1>1, BorderElement
<1>. QED  BY <1>1, <1>2, <1>3

\* What moves across the border of two pieces leaves their concatenation, to
\* whatever it is appended, as it was.
LEMMA HeadMoves ==
    ASSUME NEW got \in Seq(Nat), NEW out \in Seq(Nat), NEW rest \in Seq(Nat), NEW x \in Nat
    PROVE  got \o Append(out, x) \o rest = got \o out \o (<< x >> \o rest)
<1>1. got \o Append(out, x) = Append(got \o out, x)  BY BorderElement
<1>2. got \o out \in Seq(Nat)  BY ConcatProperties
<1>3. Append(got \o out, x) \o rest = (got \o out) \o (<< x >> \o rest)  BY <1>2, BorderElement
<1>. QED  BY <1>1, <1>3

LEMMA ReplayMoves ==
    ASSUME NEW got \in Seq(Nat), NEW out \in Seq(Nat), NEW m \in Nat, NEW n \in Nat, m <= n
    PROVE  got \o Append(out, m) \o Span(m + 1, n) = got \o out \o Span(m, n)
<1>1. m + 1 \in Nat /\ m + 1 <= n + 1 /\ m <= n + 1  OBVIOUS
<1>2. Span(m + 1, n) \in Seq(Nat) /\ Span(m, n) = << m >> \o Span(m + 1, n)
  BY <1>1, SpanFacts
<1>3. got \o Append(out, m) \o Span(m + 1, n) = got \o out \o (<< m >> \o Span(m + 1, n))
  BY <1>2, HeadMoves, Zenon
<1>. QED  BY <1>2, <1>3, Zenon

LEMMA LiveJoins ==
    ASSUME NEW a \in Seq(Nat), NEW queue \in Seq(Nat), NEW event \in Nat
    PROVE  a \o Append(queue, event) = Append(a \o queue, event)
BY BorderElement

LEMMA LiveMoves ==
    ASSUME NEW a \in Seq(Nat), NEW queue \in Seq(Nat), queue # << >>
    PROVE  a \o << Head(queue) >> \o Tail(queue) = a \o << >> \o queue
<1>1. a \o << >> = a  BY ConcatEmptySeq
<1>2. Append(a, Head(queue)) \o Tail(queue) = a \o queue /\ Head(queue) \in Nat  BY HeadBorder
<1>3. Append(a, Head(queue)) = a \o << Head(queue) >>  BY <1>2, BorderElement
<1>. QED  BY <1>1, <1>2, <1>3

LEMMA HandMoves ==
    ASSUME NEW got \in Seq(Nat), NEW out \in Seq(Nat), NEW hand \in Seq(Nat)
    PROVE  got \o (out \o hand) \o << >> \o << >> = got \o out \o << >> \o hand
<1>1. (got \o out) \o hand = got \o (out \o hand)  BY ConcatAssociative
<1>2. got \o out \in Seq(Nat) /\ (got \o out) \o hand \in Seq(Nat)  BY ConcatProperties
<1>3. (got \o out) \o << >> = got \o out  BY <1>2, ConcatEmptySeq
<1>4. ((got \o out) \o hand) \o << >> = (got \o out) \o hand  BY <1>2, ConcatEmptySeq
<1>. QED  BY <1>1, <1>3, <1>4

LEMMA PiecesAreSequences ==
    ASSUME NEW got \in Seq(Nat), NEW out \in Seq(Nat), NEW m \in Nat, NEW n \in Nat, m <= n + 1,
           NEW hand \in Seq(Nat), NEW queue \in Seq(Nat)
    PROVE  /\ got \o out \o Span(m, n) \in Seq(Nat)
           /\ got \o out \o Span(m, n) \o hand \in Seq(Nat)
           /\ Whole(got, out, m, n, hand, queue) \in Seq(Nat)
<1>1. Span(m, n) \in Seq(Nat)  BY SpanFacts
<1>2. \A a, b \in Seq(Nat) : a \o b \in Seq(Nat)  BY ConcatProperties
<1>. QED  BY <1>1, <1>2 DEF Whole

\* The next event keeps the order; a stream that misses it does so as well.
LEMMA OrderKept ==
    ASSUME NEW stream \in Seq(Nat), NEW n \in Nat, InOrder(stream, n)
    PROVE  /\ InOrder(Append(stream, n + 1), n + 1) /\ Len(Append(stream, n + 1)) = Len(stream) + 1
           /\ InOrder(stream, n + 1)
<1>1. /\ Append(stream, n + 1) \in Seq(Nat) /\ Len(Append(stream, n + 1)) = Len(stream) + 1
      /\ \A i \in 1..Len(stream) : Append(stream, n + 1)[i] = stream[i]
      /\ Append(stream, n + 1)[Len(stream) + 1] = n + 1
  BY AppendProperties
<1>2. Len(stream) \in Nat /\ \A k \in 1..Len(stream) : stream[k] \in Nat
  BY LenProperties, ElementOfSeq
<1>3. InOrder(stream, n + 1)  BY <1>2 DEF InOrder
<1>4. InOrder(Append(stream, n + 1), n + 1)
  <2>1. \A k \in 1..(Len(stream) + 1) : Append(stream, n + 1)[k] <= n + 1
    BY <1>1, <1>2 DEF InOrder
  <2>2. ASSUME NEW k \in 1..Len(stream)
        PROVE  Append(stream, n + 1)[k] < Append(stream, n + 1)[k + 1]
    <3>1. CASE k = Len(stream)  BY <1>1, <1>2, <3>1 DEF InOrder
    <3>2. CASE k < Len(stream)
      <4>1. k \in 1..Len(stream) - 1 /\ k + 1 \in 1..Len(stream)  BY <1>2, <3>2
      <4>. QED  BY <1>1, <4>1 DEF InOrder
    <3>. QED  BY <1>2, <3>1, <3>2
  <2>. QED  BY <1>1, <1>2, <2>1, <2>2 DEF InOrder
<1>. QED  BY <1>1, <1>3, <1>4

\* A new stream is the history so far.
LEMMA HistoryInOrder ==
    ASSUME NEW n \in Nat
    PROVE  LET stream == Whole(<< >>, << >>, 1, n, << >>, << >>)
           IN  stream \in Seq(Nat) /\ InOrder(stream, n) /\ Len(stream) = n
<1>1. /\ << >> \in Seq(Nat) /\ Span(1, n) \in Seq(Nat) /\ Len(Span(1, n)) = n
      /\ \A k \in 1..n : Span(1, n)[k] = k
  <2>1. 1 <= n + 1 /\ n + 1 - 1 = n  OBVIOUS
  <2>2. /\ Span(1, n) \in Seq(Nat) /\ Len(Span(1, n)) = n + 1 - 1
        /\ \A k \in 1..(n + 1 - 1) : Span(1, n)[k] = 1 + k - 1
    BY <2>1, SpanFacts
  <2>3. \A k \in Int : 1 + k - 1 = k  OBVIOUS
  <2>. QED  BY <2>1, <2>2, <2>3, EmptySeq
<1>2. Whole(<< >>, << >>, 1, n, << >>, << >>) = Span(1, n)
  BY <1>1, ConcatEmptySeq DEF Whole
<1>. QED  BY <1>1, <1>2 DEF InOrder

-----------------------------------------------------------------------------
(***************************************************************************)
(* The streams under the steps.                                            *)
(***************************************************************************)
LEMMA StreamPieces ==
    ASSUME NEW s \in Subscribers
    PROVE  LET u == subscriber[s] v == subscriber'[s]
           IN  /\ Stream(s) = Whole(u.got, u.out, u.next, u.upto, u.hand, u.queue)
               /\ Stream(s)' = Whole(v.got, v.out, v.next, v.upto, v.hand, v.queue)
  BY DEF Stream, Whole, Span

\* The pieces of a stream that is listened to.
LEMMA PieceTypes ==
    ASSUME RunTypes, StreamTypes, LiveWhileActive, NEW s \in Subscribers, Listening(s)
    PROVE  LET u == subscriber[s]
           IN  /\ u.got \in Seq(Nat) /\ u.out \in Seq(Nat) /\ u.hand \in Seq(Nat) /\ u.queue \in Seq(Nat)
               /\ u.next \in Nat /\ u.upto \in Nat /\ u.next <= u.upto + 1
               /\ u.source \in Runs /\ emitted[u.source] \in Nat
               /\ Stream(s) \in Seq(Nat)
<1>. DEFINE u == subscriber[s]
<1>1. /\ u.got \in Seq(Nat) /\ u.out \in Seq(Nat) /\ u.hand \in Seq(Nat) /\ u.queue \in Seq(Nat)
      /\ u.next \in Nat /\ u.upto \in Nat
  BY DEF StreamTypes, StreamRecord
<1>2. u.next <= u.upto + 1 /\ u.source \in Runs  BY DEF LiveWhileActive, RunTypes
<1>3. emitted[u.source] \in Nat  BY <1>2, RunsAssumption DEF StreamTypes, RunsAssumption
<1>4. Whole(u.got, u.out, u.next, u.upto, u.hand, u.queue) \in Seq(Nat)
  BY <1>1, <1>2, PiecesAreSequences
<1>. QED  BY <1>1, <1>2, <1>3, <1>4, StreamPieces

\* Moving the border between two pieces leaves the stream as it is; an event
\* in the live channel joins it at the end.
LEMMA StreamMoves ==
    ASSUME RunTypes, StreamTypes, LiveWhileActive, NEW s \in Subscribers, Listening(s)
    PROVE  LET u == subscriber[s]
               stream == Whole(u.got, u.out, u.next, u.upto, u.hand, u.queue)
           IN  /\ u.next <= u.upto =>
                    Whole(u.got, Append(u.out, u.next), u.next + 1, u.upto, u.hand, u.queue) = stream
               /\ u.hand = << >> /\ u.queue # << >> =>
                    Whole(u.got, u.out, u.next, u.upto, << Head(u.queue) >>, Tail(u.queue)) = stream
               /\ u.next = u.upto + 1 =>
                    Whole(u.got, u.out \o u.hand, u.next, u.upto, << >>, u.queue) = stream
               /\ u.out # << >> =>
                    Whole(Append(u.got, Head(u.out)), Tail(u.out), u.next, u.upto, u.hand, u.queue) = stream
               /\ \A event \in Nat :
                    Whole(u.got, u.out, u.next, u.upto, u.hand, Append(u.queue, event)) =
                    Append(stream, event)
<1>. DEFINE u == subscriber[s]
            stream == Whole(u.got, u.out, u.next, u.upto, u.hand, u.queue)
<1>1. /\ u.got \in Seq(Nat) /\ u.out \in Seq(Nat) /\ u.hand \in Seq(Nat) /\ u.queue \in Seq(Nat)
      /\ u.next \in Nat /\ u.upto \in Nat /\ u.next <= u.upto + 1
  BY PieceTypes
<1>2. /\ u.got \o u.out \o Span(u.next, u.upto) \in Seq(Nat)
      /\ u.got \o u.out \o Span(u.next, u.upto) \o u.hand \in Seq(Nat)
  BY <1>1, PiecesAreSequences, Zenon
<1>3. u.next <= u.upto =>
        Whole(u.got, Append(u.out, u.next), u.next + 1, u.upto, u.hand, u.queue) = stream
  BY <1>1, ReplayMoves, Zenon DEF Whole
<1>4. u.hand = << >> /\ u.queue # << >> =>
        Whole(u.got, u.out, u.next, u.upto, << Head(u.queue) >>, Tail(u.queue)) = stream
  BY <1>1, <1>2, LiveMoves, Zenon DEF Whole
<1>5. ASSUME u.next = u.upto + 1
      PROVE  Whole(u.got, u.out \o u.hand, u.next, u.upto, << >>, u.queue) = stream
  <2>1. u.got \o (u.out \o u.hand) \o << >> \o << >> = u.got \o u.out \o << >> \o u.hand
    BY <1>1, HandMoves, Zenon
  <2>2. Span(u.next, u.upto) = << >>  BY <1>1, <1>5, SpanFacts, Zenon
  <2>. QED  BY <2>1, <2>2, Zenon DEF Whole
<1>6. ASSUME u.out # << >>
      PROVE  Whole(Append(u.got, Head(u.out)), Tail(u.out), u.next, u.upto, u.hand, u.queue) = stream
  <2>1. Append(u.got, Head(u.out)) \o Tail(u.out) = u.got \o u.out  BY <1>1, <1>6, HeadBorder, Zenon
  <2>. QED  BY <2>1, Zenon DEF Whole
<1>7. \A event \in Nat :
        Whole(u.got, u.out, u.next, u.upto, u.hand, Append(u.queue, event)) = Append(stream, event)
  BY <1>1, <1>2, LiveJoins, Zenon DEF Whole
<1>. QED  BY <1>3, <1>4, <1>5, <1>6, <1>7, Zenon

\* Between events a stream is as it was, or its pieces have moved.
LEMMA StreamStays ==
    ASSUME NEW s \in Subscribers, StreamIsWhole(s), Stream(s)' = Stream(s),
           subscriber'[s].source = subscriber[s].source,
           emitted'[subscriber[s].source] = emitted[subscriber[s].source],
           lost \subseteq lost',
           subscriber'[s].live \/ Done(subscriber[s].source)' =>
               subscriber[s].live \/ Done(subscriber[s].source)
    PROVE  StreamIsWhole(s)'
<1>. DEFINE r == subscriber[s].source
<1>1. /\ InOrder(Stream(s), emitted[r])
      /\ s \notin lost /\ (subscriber[s].live \/ Done(r)) => Len(Stream(s)) = emitted[r]
  BY DEF StreamIsWhole
<1>2. InOrder(Stream(s)', emitted'[subscriber'[s].source])  BY <1>1
<1>3. s \notin lost' /\ (subscriber'[s].live \/ Done(subscriber[s].source)') =>
        Len(Stream(s)') = emitted'[subscriber'[s].source]
  BY <1>1
<1>. QED  BY <1>2, <1>3 DEF StreamIsWhole, InOrder, Done

\* A stream whose record is untouched stays, whatever else happens, unless
\* its run emits or ends.
LEMMA UntouchedStays ==
    ASSUME NEW s \in Subscribers, StreamIsWhole(s), subscriber'[s] = subscriber[s],
           emitted'[subscriber[s].source] = emitted[subscriber[s].source],
           lost \subseteq lost',
           subscriber[s].live \/ Done(subscriber[s].source)' =>
               subscriber[s].live \/ Done(subscriber[s].source)
    PROVE  StreamIsWhole(s)'
<1>1. Stream(s)' = Stream(s)  BY StreamPieces
<1>. QED  BY <1>1, StreamStays

\* An event reaches the streams of its run that are not full.
LEMMA EmitStreams ==
    ASSUME RunTypes, StreamTypes, LiveWhileActive, StreamsAreWhole,
           NEW r \in Runs, IsActive(r), IsActive(r)', Emit(r), created' = created,
           \A q \in Runs : q # r => run'[q] = run[q]
    PROVE  LiveWhileActive' /\ StreamsAreWhole'
<1>. DEFINE event   == emitted[r] + 1
            full(s) == Len(subscriber[s].queue) = LiveBuffer
<1>1. \A s \in Subscribers : subscriber[s] \in StreamRecord  BY DEF StreamTypes
<1>2. \A s \in Subscribers :
        IF s \in ListenersOf(r) /\ ~ full(s)
        THEN subscriber'[s] = [subscriber[s] EXCEPT !.queue = Append(@, event)]
        ELSE subscriber'[s] = subscriber[s]
  BY DEF Emit
<1>3. /\ emitted'[r] = event /\ \A q \in Runs : q # r => emitted'[q] = emitted[q]
      /\ lost' = lost \cup {s \in ListenersOf(r) : full(s)}
  BY DEF Emit, StreamTypes
<1>4. \A q \in Runs : (IsActive(q)' <=> IsActive(q)) /\ (q # r => (Done(q)' <=> Done(q)))
  BY DEF IsActive, Done, InMemory
<1>5. \A s \in Subscribers :
        /\ subscriber'[s].step = subscriber[s].step /\ subscriber'[s].source = subscriber[s].source
        /\ subscriber'[s].live = subscriber[s].live /\ subscriber'[s].pump = subscriber[s].pump
        /\ subscriber'[s].next = subscriber[s].next /\ subscriber'[s].upto = subscriber[s].upto
        /\ subscriber'[s].hand = subscriber[s].hand /\ subscriber'[s].out = subscriber[s].out
        /\ subscriber'[s].got = subscriber[s].got
  BY <1>1, <1>2 DEF StreamRecord
<1>6. \A s \in Subscribers : /\ (Listening(s)' <=> Listening(s)) /\ (Replaying(s)' <=> Replaying(s))
                             /\ Listening(s) => subscriber[s].source \in Runs
  BY <1>5 DEF Listening, Replaying, LiveWhileActive, RunTypes
<1>7. LiveWhileActive'
  BY <1>4, <1>5, <1>6 DEF LiveWhileActive, IsActive, InMemory, Done
<1>8. ASSUME NEW s \in Subscribers, Listening(s)  PROVE StreamIsWhole(s)'
  <2>1. CASE subscriber[s].source # r
    <3>1. s \notin ListenersOf(r)  BY <2>1 DEF ListenersOf
    <3>. QED  BY <1>2, <1>3, <1>4, <1>6, <1>8, <2>1, <3>1, UntouchedStays DEF StreamsAreWhole
  <2>2. CASE subscriber[s].source = r
    <3>1. subscriber[s].live /\ s \in ListenersOf(r) /\ emitted[r] \in Nat /\ Stream(s) \in Seq(Nat)
      BY <1>8, <2>2, PieceTypes DEF LiveWhileActive, ListenersOf
    <3>2. InOrder(Stream(s), emitted[r]) /\ (s \notin lost => Len(Stream(s)) = emitted[r])
      BY <1>8, <2>2, <3>1 DEF StreamsAreWhole, StreamIsWhole
    <3>3. CASE full(s)
      <4>1. Stream(s)' = Stream(s)  BY <1>2, <3>3, StreamPieces
      <4>2. InOrder(Stream(s), event)  BY <3>1, <3>2, OrderKept
      <4>3. s \in lost'  BY <1>3, <3>1, <3>3
      <4>4. emitted'[subscriber'[s].source] = event  BY <1>3, <1>5, <2>2
      <4>. QED  BY <4>1, <4>2, <4>3, <4>4 DEF StreamIsWhole, InOrder
    <3>4. CASE ~ full(s)
      <4>1. Stream(s)' = Append(Stream(s), event)
        <5>. DEFINE u == subscriber[s]
        <5>1. subscriber'[s] = [u EXCEPT !.queue = Append(@, event)] /\ u \in StreamRecord
          BY <1>1, <1>2, <3>1, <3>4
        <5>2. subscriber'[s].queue = Append(u.queue, event)  BY <5>1 DEF StreamRecord
        <5>3. event \in Nat  BY <3>1
        <5>4. Whole(u.got, u.out, u.next, u.upto, u.hand, Append(u.queue, event)) =
              Append(Whole(u.got, u.out, u.next, u.upto, u.hand, u.queue), event)
          BY <1>8, <5>3, StreamMoves, Zenon
        <5>. QED  BY <1>5, <5>2, <5>4, StreamPieces
      <4>2. /\ InOrder(Append(Stream(s), event), event)
            /\ Len(Append(Stream(s), event)) = Len(Stream(s)) + 1
        BY <3>1, <3>2, OrderKept
      <4>3. emitted'[subscriber'[s].source] = event  BY <1>3, <1>5, <2>2
      <4>4. s \notin lost' => s \notin lost  BY <1>3
      <4>. QED  BY <3>1, <3>2, <4>1, <4>2, <4>3, <4>4 DEF StreamIsWhole, InOrder
    <3>. QED  BY <3>3, <3>4
  <2>. QED  BY <2>1, <2>2
<1>. QED  BY <1>6, <1>7, <1>8 DEF StreamsAreWhole

\* A step that touches no stream, and no run's place among the active ones
\* once it is created.
LEMMA QuietStreams ==
    ASSUME RunsInv, UnchangedStreams, created \subseteq created',
           \A r \in created : (IsActive(r)' <=> IsActive(r)) /\ (Done(r)' <=> Done(r))
    PROVE  LiveWhileActive' /\ StreamsAreWhole'
<1>1. subscriber' = subscriber /\ emitted' = emitted /\ lost' = lost  BY DEF UnchangedStreams
<1>2. LiveWhileActive /\ StreamsAreWhole  BY DEF RunsInv
<1>3. \A s \in Subscribers : Listening(s) => subscriber[s].source \in created
  BY <1>2 DEF LiveWhileActive
<1>4. LiveWhileActive'
  BY <1>1, <1>2, <1>3 DEF LiveWhileActive, Listening, Replaying, IsActive, Done, InMemory
<1>5. ASSUME NEW s \in Subscribers, Listening(s)'  PROVE StreamIsWhole(s)'
  <2>1. Listening(s)  BY <1>1, <1>5 DEF Listening
  <2>2. StreamIsWhole(s)  BY <1>2, <2>1 DEF StreamsAreWhole
  <2>3. Done(subscriber[s].source)' => Done(subscriber[s].source)
    BY <1>1, <1>3, <2>1 DEF Done
  <2>. QED  BY <1>1, <2>2, <2>3, UntouchedStays
<1>. QED  BY <1>4, <1>5 DEF StreamsAreWhole

\* The steps of the runs and of their cancellers, but for those that emit or
\* close streams.
LEMMA RunsLeaveStreams ==
    ASSUME RunsInv,
           \/ \E r \in Runs : Start(r) \/ StartFails(r) \/ SaveEnd(r) \/ CloseDone(r)
           \/ \E r \in Runs, status \in Ended : Decide(r, status)
           \/ \E c \in Cancellers : CancelStep(c)
           \/ \E c \in Cancellers, r \in Runs, delete \in BOOLEAN : LookForRun(c, r, delete)
           \/ Shutdown \/ Boot
    PROVE  LiveWhileActive' /\ StreamsAreWhole'
<1>0. RunTypes /\ CancelTypes /\ RunsAgree  BY TypesAreParts DEF RunsInv
<1>. DEFINE Quiet == /\ UnchangedStreams /\ created \subseteq created'
                     /\ \A r \in created : (IsActive(r)' <=> IsActive(r)) /\ (Done(r)' <=> Done(r))
<1>1. ASSUME NEW r \in Runs, Start(r) \/ StartFails(r)  PROVE Quiet
  BY <1>0, <1>1 DEF Start, StartFails, CreateManifest, IsActive, Done, InMemory, RunTypes
<1>2. ASSUME NEW r \in Runs, SaveEnd(r) \/ CloseDone(r)  PROVE Quiet
  <2>1. \A q \in Runs : q # r => run'[q] = run[q]
    BY <1>0, <1>2, RunSteps DEF SaveEnd, CloseDone, Steps
  <2>2. \/ run[r].step = "decided" /\ run'[r].step = "saved"
        \/ run[r].step = "done" /\ run'[r].step = "closed"
    <3>1. ASSUME NEW step \in Steps, SetStep(r, step)  PROVE run'[r].step = step
      BY <1>0, <3>1, RunSteps
    <3>2. CASE SaveEnd(r)
      <4>1. run[r].step = "decided" /\ SetStep(r, "saved") /\ "saved" \in Steps  BY <3>2 DEF SaveEnd, Steps
      <4>. QED  BY <3>1, <4>1
    <3>3. CASE CloseDone(r)
      <4>1. run[r].step = "done" /\ SetStep(r, "closed") /\ "closed" \in Steps  BY <3>3 DEF CloseDone, Steps
      <4>. QED  BY <3>1, <4>1
    <3>. QED  BY <1>2, <3>2, <3>3
  <2>. QED
    BY <1>0, <1>2, <2>1, <2>2 DEF SaveEnd, CloseDone, IsActive, Done, InMemory, RunTypes
<1>3. ASSUME NEW r \in Runs, NEW status \in Ended, Decide(r, status)  PROVE Quiet
  <2>1. run' = [run EXCEPT ![r] = [run[r] EXCEPT !.step = "decided", !.status = status]]
    BY <1>0, <1>3 DEF Decide, RunTypes, RunRecord
  <2>. QED  BY <1>0, <1>3, <2>1 DEF Decide, IsActive, Done, InMemory, RunTypes, RunRecord
<1>4. ASSUME NEW c \in Cancellers, CancelStep(c)  PROVE Quiet
  <2>1. CASE CancelContext(c)
    <3>1. canceller[c].target \in Runs
      BY <1>0, <2>1 DEF CancelContext, RunsAgree, CancellersKnow, RunTypes
    <3>2. run' = [run EXCEPT ![canceller[c].target] =
                               [run[canceller[c].target] EXCEPT !.cancelled = TRUE]]
      BY <1>0, <2>1, <3>1 DEF CancelContext, RunTypes, RunRecord
    <3>3. \A r \in Runs : run'[r].step = run[r].step
      BY <1>0, <3>1, <3>2 DEF RunTypes, RunRecord
    <3>. QED  BY <1>0, <2>1, <3>3 DEF CancelContext, IsActive, Done, InMemory, RunTypes
  <2>2. CASE ReadManifest(c) \/ MarkCancelling(c) \/ WaitForRun(c) \/ DeleteRun(c)
    BY <2>2 DEF ReadManifest, MarkCancelling, WaitForRun, DeleteRun, IsActive, Done, InMemory
  <2>. QED  BY <1>4, <2>1, <2>2 DEF CancelStep
<1>5. ASSUME NEW c \in Cancellers, NEW r \in Runs, NEW delete \in BOOLEAN, LookForRun(c, r, delete)
      PROVE  Quiet
  BY <1>5 DEF LookForRun, IsActive, Done, InMemory
<1>6. ASSUME Shutdown  PROVE Quiet
  <2>1. \A r \in Runs : run'[r].step = run[r].step
    BY <1>0, <1>6 DEF Shutdown, RunTypes, RunRecord
  <2>. QED  BY <1>0, <1>6, <2>1 DEF Shutdown, IsActive, Done, InMemory, RunTypes
<1>7. ASSUME Boot  PROVE Quiet
  BY <1>7 DEF Boot, IsActive, Done, InMemory
<1>. QED  BY <1>1, <1>2, <1>3, <1>4, <1>5, <1>6, <1>7, QuietStreams

\* The streams of a run that is done get no more.
LEMMA ClosedStreams ==
    ASSUME RunsInv, NEW r \in Runs, CloseStreams(r)
    PROVE  LiveWhileActive' /\ StreamsAreWhole'
<1>0. RunTypes /\ StreamTypes /\ LiveWhileActive /\ StreamsAreWhole  BY TypesAreParts DEF RunsInv
<1>1. /\ IsActive(r) /\ ~ IsActive(r)' /\ Done(r)'
      /\ \A q \in Runs : q # r => (IsActive(q)' <=> IsActive(q)) /\ (Done(q)' <=> Done(q))
  BY <1>0, RunSteps DEF CloseStreams, IsActive, Done, InMemory, Steps
<1>2. \A s \in Subscribers :
        /\ subscriber'[s].step = subscriber[s].step /\ subscriber'[s].source = subscriber[s].source
        /\ subscriber'[s].live <=> (subscriber[s].live /\ subscriber[s].source # r)
        /\ subscriber'[s].pump = subscriber[s].pump
        /\ subscriber'[s].next = subscriber[s].next /\ subscriber'[s].upto = subscriber[s].upto
        /\ subscriber'[s].hand = subscriber[s].hand /\ subscriber'[s].out = subscriber[s].out
        /\ subscriber'[s].got = subscriber[s].got /\ subscriber'[s].queue = subscriber[s].queue
  <2>. SUFFICES ASSUME NEW s \in Subscribers
                PROVE  LET u == subscriber[s] v == subscriber'[s]
                       IN  /\ v.step = u.step /\ v.source = u.source
                           /\ v.live <=> (u.live /\ u.source # r)
                           /\ v.pump = u.pump /\ v.next = u.next /\ v.upto = u.upto /\ v.hand = u.hand
                           /\ v.out = u.out /\ v.got = u.got /\ v.queue = u.queue
    OBVIOUS
  <2>1. subscriber[s] \in StreamRecord  BY <1>0 DEF StreamTypes
  <2>2. subscriber'[s] = IF subscriber[s].live /\ subscriber[s].source = r
                         THEN [subscriber[s] EXCEPT !.live = FALSE] ELSE subscriber[s]
    BY DEF CloseStreams, ListenersOf
  <2>. QED  BY <2>1, <2>2 DEF StreamRecord
<1>3. created' = created /\ emitted' = emitted /\ lost' = lost  BY DEF CloseStreams
<1>4. \A s \in Subscribers : /\ (Listening(s)' <=> Listening(s)) /\ (Replaying(s)' <=> Replaying(s))
                             /\ Listening(s) => subscriber[s].source \in Runs
  BY <1>0, <1>2 DEF Listening, Replaying, LiveWhileActive, RunTypes
<1>5. LiveWhileActive'
  <2>. SUFFICES ASSUME NEW s \in Subscribers
                PROVE  /\ Listening(s)' =>
                            /\ subscriber'[s].source \in created'
                            /\ subscriber'[s].live <=> IsActive(subscriber[s].source)'
                            /\ subscriber'[s].next <= subscriber'[s].upto + 1
                            /\ subscriber'[s].hand # << >> => ~ Replaying(s)'
                       /\ subscriber'[s].pump = "ended" \/ ~ Listening(s)' => ~ subscriber'[s].live
                       /\ subscriber'[s].step = "ended" => subscriber'[s].pump = "ended"
    BY DEF LiveWhileActive
  <2>1. Listening(s) => (subscriber'[s].live <=> IsActive(subscriber[s].source)')
    <3>1. ASSUME Listening(s)
          PROVE  /\ subscriber[s].source \in Runs
                 /\ subscriber[s].live <=> IsActive(subscriber[s].source)
      BY <1>0, <1>4, <3>1 DEF LiveWhileActive
    <3>2. CASE subscriber[s].source = r
      <4>1. Listening(s) => ~ subscriber'[s].live /\ ~ IsActive(subscriber[s].source)'
        BY <1>1, <1>2, <3>2 DEF IsActive, InMemory, Done
      <4>. QED  BY <4>1
    <3>3. CASE subscriber[s].source # r
      <4>1. Listening(s) => (IsActive(subscriber[s].source)' <=> IsActive(subscriber[s].source))
        BY <1>1, <1>2, <3>1, <3>3 DEF IsActive, InMemory, Done
      <4>. QED  BY <1>2, <3>1, <3>3, <4>1
    <3>. QED  BY <3>2, <3>3
  <2>2. /\ Listening(s) => /\ subscriber[s].source \in created
                           /\ subscriber[s].next <= subscriber[s].upto + 1
                           /\ subscriber[s].hand # << >> => ~ Replaying(s)
        /\ subscriber[s].pump = "ended" \/ ~ Listening(s) => ~ subscriber[s].live
        /\ subscriber[s].step = "ended" => subscriber[s].pump = "ended"
    BY <1>0 DEF LiveWhileActive
  <2>. QED  BY <1>2, <1>3, <1>4, <2>1, <2>2
<1>6. ASSUME NEW s \in Subscribers, Listening(s)  PROVE StreamIsWhole(s)'
  <2>1. Stream(s)' = Stream(s)  BY <1>2, StreamPieces
  <2>2. subscriber'[s].live \/ Done(subscriber[s].source)' =>
          subscriber[s].live \/ Done(subscriber[s].source)
    BY <1>0, <1>1, <1>2, <1>4, <1>6 DEF LiveWhileActive, Done
  <2>3. StreamIsWhole(s)  BY <1>0, <1>6 DEF StreamsAreWhole
  <2>. QED  BY <1>2, <1>3, <2>1, <2>2, <2>3, StreamStays
<1>. QED  BY <1>4, <1>5, <1>6 DEF StreamsAreWhole

\* What LiveWhileActive says of one reader.
LiveAt(s) ==
    /\ Listening(s) => /\ subscriber[s].source \in created
                       /\ subscriber[s].live <=> IsActive(subscriber[s].source)
                       /\ subscriber[s].next <= subscriber[s].upto + 1
                       /\ subscriber[s].hand # << >> => ~ Replaying(s)
    /\ subscriber[s].pump = "ended" \/ ~ Listening(s) => ~ subscriber[s].live
    /\ subscriber[s].step = "ended" => subscriber[s].pump = "ended"

\* A step of one reader, its pump or its handler, is a matter of its stream.
LEMMA OneStream ==
    ASSUME RunsInv, NEW s \in Subscribers, UnchangedRuns,
           \A t \in Subscribers : t # s => subscriber'[t] = subscriber[t],
           LiveAt(s)', Listening(s)' => StreamIsWhole(s)'
    PROVE  LiveWhileActive' /\ StreamsAreWhole'
<1>0. LiveWhileActive /\ StreamsAreWhole  BY DEF RunsInv
<1>1. created' = created /\ run' = run /\ emitted' = emitted /\ lost' = lost  BY DEF UnchangedRuns
<1>2. ASSUME NEW t \in Subscribers, t # s
      PROVE  LiveAt(t)' /\ (Listening(t)' => StreamIsWhole(t)')
  <2>1. LiveAt(t)  BY <1>0 DEF LiveWhileActive, LiveAt
  <2>2. LiveAt(t)'
    BY <1>1, <1>2, <2>1 DEF LiveAt, Listening, Replaying, IsActive, InMemory, Done
  <2>3. ASSUME Listening(t)'  PROVE StreamIsWhole(t)'
    <3>1. StreamIsWhole(t)  BY <1>0, <1>2, <2>3 DEF StreamsAreWhole, Listening
    <3>2. Done(subscriber[t].source)' => Done(subscriber[t].source)
      BY <1>1, <1>2 DEF Done
    <3>. QED  BY <1>1, <1>2, <3>1, <3>2, UntouchedStays
  <2>. QED  BY <2>2, <2>3
<1>3. \A t \in Subscribers : LiveAt(t)' /\ (Listening(t)' => StreamIsWhole(t)')
  BY <1>2
<1>. QED  BY <1>3 DEF LiveWhileActive, LiveAt, StreamsAreWhole

LEMMA SubscribedStream ==
    ASSUME RunsInv, NEW s \in Subscribers, NEW r \in Runs, Subscribe(s, r)
    PROVE  LiveWhileActive' /\ StreamsAreWhole'
<1>0. RunTypes /\ StreamTypes /\ IdsAreTaken  BY TypesAreParts DEF RunsInv, RunsAgree
<1>1. r \in created /\ emitted[r] \in Nat
  BY <1>0, RunsAssumption DEF Subscribe, IdsAreTaken, StreamTypes, RunsAssumption
<1>2. subscriber'[s] = [NotListening EXCEPT !.step = "on", !.source = r, !.pump = "on",
                                            !.stoppable = IsActive(r), !.live = IsActive(r),
                                            !.upto = emitted[r]]
  BY <1>0 DEF Subscribe, StreamTypes
<1>3. LET v == subscriber'[s]
      IN  /\ v.step = "on" /\ v.source = r /\ v.pump = "on" /\ (v.live <=> IsActive(r))
          /\ v.next = 1 /\ v.upto = emitted[r] /\ v.queue = << >> /\ v.hand = << >>
          /\ v.out = << >> /\ v.got = << >>
  BY <1>2 DEF NotListening
<1>4. UnchangedRuns /\ \A t \in Subscribers : t # s => subscriber'[t] = subscriber[t]
  BY <1>0 DEF Subscribe, StreamTypes
<1>5. LiveAt(s)'
  <2>1. subscriber'[s].live <=> IsActive(subscriber[s].source)'
    BY <1>3, <1>4 DEF IsActive, InMemory, Done, UnchangedRuns
  <2>2. created' = created  BY <1>4 DEF UnchangedRuns
  <2>. QED  BY <1>1, <1>3, <2>1, <2>2 DEF LiveAt, Listening
<1>6. StreamIsWhole(s)'
  <2>1. Stream(s)' = Whole(<< >>, << >>, 1, emitted[r], << >>, << >>)
    BY <1>3, StreamPieces
  <2>2. InOrder(Stream(s)', emitted[r]) /\ Len(Stream(s)') = emitted[r]
    BY <1>1, <2>1, HistoryInOrder
  <2>3. emitted'[subscriber'[s].source] = emitted[r]  BY <1>3, <1>4 DEF UnchangedRuns
  <2>. QED  BY <2>2, <2>3 DEF StreamIsWhole, InOrder
<1>. QED  BY <1>4, <1>5, <1>6, OneStream

\* The pump and the reader move the borders between the pieces.
LEMMA PumpedStream ==
    ASSUME RunsInv, NEW s \in Subscribers,
           PumpStep(s) \/ Receive(s) \/ EndOfStream(s) \/ Unsubscribe(s)
    PROVE  LiveWhileActive' /\ StreamsAreWhole'
<1>0. RunTypes /\ StreamTypes /\ LiveWhileActive /\ StreamsAreWhole  BY TypesAreParts DEF RunsInv
<1>. DEFINE u == subscriber[s]
            v == subscriber'[s]
<1>1. u \in StreamRecord /\ LiveAt(s)
  BY <1>0 DEF StreamTypes, LiveWhileActive, LiveAt
<1>2. /\ UnchangedRuns
      /\ \A t \in Subscribers : t # s => subscriber'[t] = subscriber[t]
  BY <1>0 DEF PumpStep, Replay, TakeLive, PassOn, PumpEnds, PumpStops, Receive, EndOfStream,
              Unsubscribe, Become, StreamTypes
<1>3. \A new : Become(s, new) => v = new  BY <1>0 DEF Become, StreamTypes
<1>4. created' = created /\ emitted' = emitted /\ lost' = lost /\ run' = run
  BY <1>2 DEF UnchangedRuns
\* The stream of a reader that stays where it is.
<1>5. ASSUME v.step = u.step, v.source = u.source, v.live = u.live, v.pump = u.pump,
             Listening(s) => /\ Stream(s)' = Stream(s) /\ v.next <= v.upto + 1
                             /\ v.hand # << >> => ~ Replaying(s)'
      PROVE  LiveWhileActive' /\ StreamsAreWhole'
  <2>1. Listening(s)' <=> Listening(s)  BY <1>5 DEF Listening
  <2>2. Listening(s) => (v.live <=> IsActive(subscriber[s].source)')
    BY <1>1, <1>4, <1>5 DEF LiveAt, IsActive, InMemory, Done
  <2>3. LiveAt(s)'  BY <1>1, <1>4, <1>5, <2>1, <2>2 DEF LiveAt
  <2>4. ASSUME Listening(s)'  PROVE StreamIsWhole(s)'
    <3>1. StreamIsWhole(s)  BY <1>0, <2>1, <2>4 DEF StreamsAreWhole
    <3>2. Done(subscriber[s].source)' => Done(subscriber[s].source)  BY <1>4, <1>5 DEF Done
    <3>. QED  BY <1>4, <1>5, <2>1, <2>4, <3>1, <3>2, StreamStays
  <2>. QED  BY <1>2, <2>3, <2>4, OneStream
\* The stream that nobody listens to any more.
<1>6. ASSUME ~ Listening(s)', ~ v.live, v.step # "ended"
      PROVE  LiveWhileActive' /\ StreamsAreWhole'
  <2>1. LiveAt(s)'  BY <1>6 DEF LiveAt
  <2>. QED  BY <1>2, <1>6, <2>1, OneStream
<1>7. CASE Replay(s)
  <2>1. v = [u EXCEPT !.next = @ + 1, !.out = Append(@, u.next)]
    BY <1>3, <1>7 DEF Replay
  <2>2. /\ v.step = u.step /\ v.source = u.source /\ v.live = u.live /\ v.pump = u.pump
        /\ v.next = u.next + 1 /\ v.upto = u.upto /\ v.out = Append(u.out, u.next)
        /\ v.got = u.got /\ v.hand = u.hand /\ v.queue = u.queue
    BY <1>1, <2>1 DEF StreamRecord
  <2>3. u.next <= u.upto /\ u.next \in Nat /\ u.upto \in Nat
    BY <1>1, <1>7 DEF Replay, Replaying, StreamRecord
  <2>4. Listening(s) => Stream(s)' = Stream(s)
    BY <1>0, <2>2, <2>3, StreamMoves, StreamPieces, Zenon
  <2>5. Listening(s) => v.hand = << >>  BY <1>1, <1>7, <2>2 DEF LiveAt, Replay
  <2>. QED  BY <1>5, <2>2, <2>3, <2>4, <2>5
<1>8. CASE TakeLive(s)
  <2>1. v = [u EXCEPT !.hand = << Head(u.queue) >>, !.queue = Tail(@)]
    BY <1>3, <1>8 DEF TakeLive
  <2>2. /\ v.step = u.step /\ v.source = u.source /\ v.live = u.live /\ v.pump = u.pump
        /\ v.next = u.next /\ v.upto = u.upto /\ v.out = u.out
        /\ v.got = u.got /\ v.hand = << Head(u.queue) >> /\ v.queue = Tail(u.queue)
    BY <1>1, <2>1 DEF StreamRecord
  <2>3. u.hand = << >> /\ u.queue # << >> /\ ~ Replaying(s)  BY <1>8 DEF TakeLive
  <2>4. Listening(s) => Stream(s)' = Stream(s)
    BY <1>0, <2>2, <2>3, StreamMoves, StreamPieces, Zenon
  <2>5. Listening(s) => v.next <= v.upto + 1  BY <1>1, <2>2 DEF LiveAt
  <2>6. ~ Replaying(s)'  BY <2>2, <2>3 DEF Replaying
  <2>. QED  BY <1>5, <2>2, <2>4, <2>5, <2>6
<1>9. CASE PassOn(s)
  <2>1. v = [u EXCEPT !.out = @ \o u.hand, !.hand = << >>]
    BY <1>3, <1>9 DEF PassOn
  <2>2. /\ v.step = u.step /\ v.source = u.source /\ v.live = u.live /\ v.pump = u.pump
        /\ v.next = u.next /\ v.upto = u.upto /\ v.out = u.out \o u.hand
        /\ v.got = u.got /\ v.hand = << >> /\ v.queue = u.queue
    BY <1>1, <2>1 DEF StreamRecord
  <2>3. Listening(s) => u.next = u.upto + 1
    BY <1>1, <1>9 DEF LiveAt, PassOn, Replaying, StreamRecord
  <2>4. Listening(s) => Stream(s)' = Stream(s)
    BY <1>0, <2>2, <2>3, StreamMoves, StreamPieces, Zenon
  <2>5. Listening(s) => v.next <= v.upto + 1  BY <1>1, <2>2 DEF LiveAt
  <2>. QED  BY <1>5, <2>2, <2>4, <2>5
<1>10. CASE Receive(s)
  <2>1. v = [u EXCEPT !.out = Tail(@), !.got = Append(@, Head(u.out))]
    BY <1>3, <1>10 DEF Receive
  <2>2. /\ v.step = u.step /\ v.source = u.source /\ v.live = u.live /\ v.pump = u.pump
        /\ v.next = u.next /\ v.upto = u.upto /\ v.out = Tail(u.out)
        /\ v.got = Append(u.got, Head(u.out)) /\ v.hand = u.hand /\ v.queue = u.queue
    BY <1>1, <2>1 DEF StreamRecord
  <2>3. u.out # << >>  BY <1>10 DEF Receive
  <2>4. Listening(s) => Stream(s)' = Stream(s)
    BY <1>0, <2>2, <2>3, StreamMoves, StreamPieces, Zenon
  <2>5. Listening(s) => v.next <= v.upto + 1 /\ (v.hand # << >> => ~ Replaying(s)')
    BY <1>1, <2>2 DEF LiveAt, Replaying
  <2>. QED  BY <1>5, <2>2, <2>4, <2>5
\* The pump of a stream that is not live any more, or its reader, is through.
<1>11. ASSUME \/ v = [u EXCEPT !.pump = "ended"] /\ u.step = "on"
              \/ v = [u EXCEPT !.step = "ended"] /\ u.step = "on" /\ u.pump = "ended",
              ~ u.live
       PROVE  LiveWhileActive' /\ StreamsAreWhole'
  <2>1. /\ v.source = u.source /\ v.live = u.live /\ v.pump = "ended"
        /\ v.next = u.next /\ v.upto = u.upto /\ v.out = u.out
        /\ v.got = u.got /\ v.hand = u.hand /\ v.queue = u.queue
    BY <1>1, <1>11 DEF StreamRecord
  <2>2. Listening(s)' /\ Listening(s)  BY <1>1, <1>11 DEF Listening, StreamRecord
  <2>3. LiveAt(s)'
    <3>1. ~ IsActive(subscriber[s].source)'
      BY <1>1, <1>4, <1>11, <2>1, <2>2 DEF LiveAt, IsActive, InMemory, Done
    <3>2. /\ v.next <= v.upto + 1 /\ (v.hand # << >> => ~ Replaying(s)')
          /\ v.source \in created' /\ ~ v.live
      BY <1>1, <1>4, <1>11, <2>1, <2>2 DEF LiveAt, Replaying
    <3>. QED  BY <2>1, <3>1, <3>2 DEF LiveAt
  <2>4. StreamIsWhole(s)'
    <3>1. StreamIsWhole(s)  BY <1>0, <2>2 DEF StreamsAreWhole
    <3>2. Done(subscriber[s].source)' => Done(subscriber[s].source)  BY <1>4, <2>1 DEF Done
    <3>3. Stream(s)' = Stream(s)  BY <2>1, StreamPieces
    <3>. QED  BY <1>4, <2>1, <3>1, <3>2, <3>3, StreamStays
  <2>. QED  BY <1>2, <2>3, <2>4, OneStream
<1>12. CASE PumpEnds(s) \/ EndOfStream(s)
  <2>1. CASE v = Gone  BY <1>6, <2>1 DEF Gone, NotListening, Listening
  <2>2. CASE v # Gone
    <3>1. EndOfStream(s) => ~ u.live  BY <1>1 DEF EndOfStream, LiveAt
    <3>. QED  BY <1>3, <1>11, <1>12, <2>2, <3>1 DEF PumpEnds, EndOfStream
  <2>. QED  BY <2>1, <2>2
<1>13. CASE PumpStops(s) \/ Unsubscribe(s)
  <2>1. v = Gone \/ v = [u EXCEPT !.step = "left", !.live = FALSE, !.got = << >>]
    BY <1>3, <1>13 DEF PumpStops, Unsubscribe
  <2>2. v.step = "left" /\ ~ v.live
    BY <1>1, <2>1 DEF Gone, NotListening, StreamRecord
  <2>. QED  BY <1>6, <2>2 DEF Listening
<1>. QED  BY <1>7, <1>8, <1>9, <1>10, <1>12, <1>13 DEF PumpStep

\* A process that goes down takes its streams with it; those that had ended
\* stay as they were.
LEMMA StreamsOfTheDead ==
    ASSUME RunsInv, Down
    PROVE  LiveWhileActive' /\ StreamsAreWhole'
<1>0. StreamTypes /\ LiveWhileActive /\ StreamsAreWhole  BY TypesAreParts DEF RunsInv
<1>1. \A r \in Runs : ~ IsActive(r)' /\ ~ Done(r)'
  BY DEF Down, IsActive, InMemory, Done, NoRun
<1>2. created' = created /\ emitted' = emitted /\ lost' = lost  BY DEF Down
<1>3. ASSUME NEW s \in Subscribers
      PROVE  LiveAt(s)' /\ (Listening(s)' => StreamIsWhole(s)')
  <2>1. LiveAt(s)  BY <1>0 DEF LiveWhileActive, LiveAt
  <2>2. CASE subscriber[s].step \in {"on", "left"}
    <3>1. subscriber'[s] = Gone  BY <2>2 DEF Down
    <3>2. subscriber'[s].step = "left" /\ ~ subscriber'[s].live  BY <3>1 DEF Gone, NotListening
    <3>. QED  BY <3>2 DEF LiveAt, Listening
  <2>3. CASE subscriber[s].step \notin {"on", "left"}
    <3>1. subscriber'[s] = subscriber[s]  BY <2>3 DEF Down
    <3>2. ~ subscriber[s].live  BY <2>1, <2>3 DEF LiveAt, Listening
    <3>3. ASSUME Listening(s)
          PROVE  subscriber[s].source \in Runs /\ ~ IsActive(subscriber[s].source)'
                 /\ ~ Done(subscriber[s].source)'
      <4>1. RunTypes  BY TypesAreParts DEF RunsInv
      <4>2. subscriber[s].source \in Runs  BY <2>1, <3>3, <4>1 DEF LiveAt, RunTypes
      <4>. QED  BY <1>1, <3>1, <4>2 DEF IsActive, InMemory, Done
    <3>4. LiveAt(s)'  BY <1>2, <2>1, <3>1, <3>2, <3>3 DEF LiveAt, Listening, Replaying
    <3>5. ASSUME Listening(s)'  PROVE StreamIsWhole(s)'
      <4>1. Listening(s)  BY <3>1, <3>5 DEF Listening
      <4>2. StreamIsWhole(s)  BY <1>0, <4>1 DEF StreamsAreWhole
      <4>. QED  BY <1>2, <3>1, <3>3, <4>1, <4>2, UntouchedStays
    <3>. QED  BY <3>4, <3>5
  <2>. QED  BY <2>2, <2>3
<1>. QED  BY <1>3 DEF LiveWhileActive, LiveAt, StreamsAreWhole

LEMMA NextStreams ==
    ASSUME RunsInv, [Next]_vars
    PROVE  LiveWhileActive' /\ StreamsAreWhole'
<1>0. RunTypes /\ StreamTypes /\ LiveWhileActive /\ StreamsAreWhole  BY TypesAreParts DEF RunsInv
<1>1. ASSUME NEW r \in Runs, Progress(r) \/ Announce(r)
      PROVE  LiveWhileActive' /\ StreamsAreWhole'
  <2>1. Emit(r) /\ created' = created /\ IsActive(r)
    BY <1>1 DEF Progress, Announce, IsActive, InMemory, Done
  <2>2. IsActive(r)' /\ \A q \in Runs : q # r => run'[q] = run[q]
    <3>1. CASE Progress(r)  BY <2>1, <3>1 DEF Progress, IsActive, InMemory, Done
    <3>2. CASE Announce(r)
      BY <1>0, <3>2, RunSteps DEF Announce, Steps, IsActive, InMemory, Done
    <3>. QED  BY <1>1, <3>1, <3>2
  <2>. QED  BY <1>0, <2>1, <2>2, EmitStreams
<1>2. ASSUME UNCHANGED vars  PROVE LiveWhileActive' /\ StreamsAreWhole'
  BY <1>2, QuietStreams DEF vars, UnchangedStreams, IsActive, InMemory, Done
<1>3. Crash \/ ShutdownDone => Down  BY DEF Crash, ShutdownDone
<1>. QED
  BY <1>1, <1>2, <1>3, RunsLeaveStreams, ClosedStreams, SubscribedStream, PumpedStream, StreamsOfTheDead
  DEF Next, RunStep

-----------------------------------------------------------------------------
(***************************************************************************)
(* The theorems.                                                           *)
(***************************************************************************)
LEMMA InitRunsInv == Init => RunsInv
<1>. SUFFICES ASSUME Init  PROVE RunsInv
  OBVIOUS
<1>1. TypeOK
  <2>1. RunTypes /\ CancelTypes /\ ServerTypes
    BY RunsAssumption
    DEF Init, RunsAssumption, RunTypes, CancelTypes, ServerTypes, RunRecord, CancelRecord, NoRun,
        NoCancel, Steps, Status
  <2>2. StreamTypes
    <3>1. NotListening \in StreamRecord  BY NotListeningTypes
    <3>2. emitted \in [Runs -> 0..MaxEvents + 1]  BY RunsAssumption DEF Init, RunsAssumption
    <3>. QED  BY <3>1, <3>2 DEF Init, StreamTypes
  <2>. QED  BY <2>1, <2>2, TypesAreParts
<1>2. RunsAgree
  BY DEF Init, RunsAgree, IdsAreTaken, RunsProceed, CancellersKnow, QuietWhenDown,
         ManifestsHaveTheirRuns, NoRun, NoCancel, InMemory, IsActive, Done
<1>3. \A s \in Subscribers : subscriber[s] = NotListening  BY DEF Init
<1>4. LiveWhileActive /\ StreamsAreWhole
  BY <1>3 DEF LiveWhileActive, StreamsAreWhole, Listening, NotListening
<1>. QED  BY <1>1, <1>2, <1>4 DEF RunsInv

\* The inductive invariant holds for any number of runs, cancellers and
\* subscribers, whatever the capacities of the channels.
THEOREM RunsInvariance == Spec => []RunsInv
<1>1. RunsInv /\ [Next]_vars => RunsInv'
  BY NextTypes, RunsAgreeKept, NextStreams DEF RunsInv
<1>. QED  BY InitRunsInv, <1>1, PTL DEF Spec

\* Every variable keeps its type.
THEOREM RunsTypeCorrect == Spec => []TypeOK
<1>1. RunsInv => TypeOK  BY DEF RunsInv
<1>. QED  BY RunsInvariance, <1>1, PTL

\* However runs are cancelled, deleted and recovered, by whomever and in
\* whatever order, no manifest is deleted under a goroutine that still writes,
\* and an unfinished one has its goroutine.
THEOREM ManifestsAgree == Spec => []ManifestsHaveTheirRuns
<1>1. RunsInv => ManifestsHaveTheirRuns  BY DEF RunsInv, RunsAgree
<1>. QED  BY RunsInvariance, <1>1, PTL

\* Whenever a reader subscribes, and whatever its capacities, history and live
\* channel fit together: every event once, in order, and without a gap unless
\* the live channel overflowed.
THEOREM StreamsAreInOrder == Spec => []StreamsFitTogether
<1>1. RunsInv => StreamsFitTogether
  <2>. SUFFICES ASSUME RunsInv, NEW s \in Subscribers, Listening(s)
                PROVE  /\ \A k \in 1..Len(Stream(s)) - 1 : Stream(s)[k] < Stream(s)[k + 1]
                       /\ s \notin lost /\ (subscriber[s].live \/ Done(subscriber[s].source)) =>
                              Len(Stream(s)) = emitted[subscriber[s].source]
    BY DEF StreamsFitTogether, Listening
  <2>1. StreamIsWhole(s)  BY DEF RunsInv, StreamsAreWhole
  <2>. QED  BY <2>1 DEF StreamIsWhole, InOrder
<1>. QED  BY RunsInvariance, <1>1, PTL

=============================================================================
