------------------------ MODULE ExtractorRunsProofs ------------------------
(***************************************************************************)
(* Safety of ExtractorRuns for every number of starts, requests, readers,  *)
(* events and connections, and every size of the history and of the        *)
(* channels.                                                               *)
(*                                                                         *)
(* The invariant has three layers.  Each run and what the two maps say of  *)
(* it; the directories and the requests about them; the readers.  What is  *)
(* said of a directory or of a reader holds for an id that one start only  *)
(* has got (Sole): ids are given again, and then logs and streams mix.     *)
(***************************************************************************)
EXTENDS ExtractorRuns, SequenceTheorems, FiniteSetTheorems, TLAPS

Live     == {"on_bus", "entered", "running", "halted", "ended", "saved"}
Entered  == {"entered", "running", "halted"}
InMemory == Entered \cup Settled
Silent   == {"idle", "allocated", "refused", "on_bus", "entered"}
RunSteps == {"idle", "allocated", "refused", "dead"} \cup Live \cup {"done"}

RunTypes == [step : RunSteps, id : Ids \cup {None}, status : Status, cancelled : BOOLEAN, error : BOOLEAN,
             seq : Nat, last : Kinds \cup {"none"}, history : Seq(Nat), finished : BOOLEAN,
             file : {"closed", "open", "unlinked"}]
DiskTypes == [there : BOOLEAN, state : Status, log : Seq(Nat)]
RequestTypes == [step : {"idle", "cancel", "save", "signal", "wait", "remove", "done"},
                 id : Ids \cup {None}, on : Starts \cup {None}, delete : BOOLEAN]
StreamTypes == [step : {"away", "live", "replay"}, on : Starts \cup {None}, queue : Seq(Nat),
                closed : BOOLEAN, listed : BOOLEAN, closer : {"none", "eof", "late"},
                source : Seq(Nat), from : Nat]
ClientTypes == [id : Ids \cup {None}, got : Seq(Nat), lost : SUBSET Nat, connects : Nat,
                end : {"none", "live", "replay"}]

Types ==
    /\ runs \in [Ids -> Starts \cup {None}] /\ bus \in [Ids -> Starts \cup {None}]
    /\ run \in [Starts -> RunTypes]
    /\ disk \in [Ids -> DiskTypes]
    /\ request \in [Requests -> RequestTypes]
    /\ stream \in [Readers -> StreamTypes] /\ client \in [Readers -> ClientTypes]

(***************************************************************************)
(* The runs.                                                               *)
(***************************************************************************)
\* The history ends with the last event and has no gap.
HistoryFits(s) ==
    LET history == run[s].history
    IN  /\ Len(history) <= run[s].seq /\ Len(history) <= HistorySize
        /\ \A i \in 1..Len(history) : history[i] = run[s].seq - Len(history) + i

\* What a run's last event says of its context and of its error.
EndFits(s) ==
    /\ run[s].step = "running" => run[s].seq <= MaxProgress + 1 /\ (run[s].seq = 0 => run[s].last = "none")
    /\ run[s].step = "halted" =>
           /\ run[s].last = "run_cancelled" => run[s].cancelled
           /\ run[s].last = "run_failed" => run[s].error
           /\ ~ run[s].cancelled /\ ~ run[s].error => run[s].last = "run_completed"
    /\ run[s].step \in Settled =>
           /\ run[s].last = "run_cancelled" => run[s].status = "cancelled"
           /\ run[s].last = "run_failed" => run[s].status # "completed"
           /\ run[s].status = "completed" => run[s].last = "run_completed"

RunFits(s) ==
    /\ run[s].step = "idle" => run[s] = NoStart
    /\ run[s].step # "idle" => run[s].id \in Ids
    /\ run[s].step \in Silent => run[s].seq = 0 /\ run[s].last = "none" /\ run[s].history = << >>
    /\ run[s].seq <= MaxProgress + 2
    /\ run[s].step \in Entered => run[s].status \in Active
    /\ run[s].step \in Settled => run[s].status \in Ended
    /\ run[s].finished <=> run[s].step = "done"
    /\ run[s].file # "closed" => run[s].step \in Live
    /\ HistoryFits(s) /\ EndFits(s)

\* The bus has every run from its start to the next one of its id, and the
\* manager every run that has been entered.
BusHasIt(s) == run[s].step \in Live => bus[run[s].id] = s
MapsFit ==
    /\ \A s \in Starts : BusHasIt(s)
    /\ \A id \in Ids, s \in Starts :
           /\ bus[id] = s => run[s].id = id /\ run[s].step \in Live \cup {"done"}
           /\ runs[id] = s => run[s].id = id /\ run[s].step \in InMemory

RunsFit == (\A s \in Starts : RunFits(s)) /\ MapsFit

(***************************************************************************)
(* The directories and the requests.                                       *)
(***************************************************************************)
Given(id) == \E s \in Starts : run[s].id = id

DirectoriesFit ==
    \A id \in Ids :
        /\ ~ disk[id].there => disk[id] = NoDirectory
        /\ disk[id].there => Given(id)
        /\ \A s \in Starts : run[s].id = id /\ run[s].file = "open" => disk[id].there

RequestFits(q) ==
    /\ request[q].id # None => Given(request[q].id)
    /\ request[q].step \notin {"idle", "done"} => request[q].id \in Ids
    /\ request[q].step = "idle" => request[q] = NoRequest
    /\ \A s \in Starts : request[q].on = s =>
           /\ run[s].step \in InMemory
           /\ request[q].step = "remove" => run[s].step \in Settled

\* The directory of an id that has been given once.
SoleFits(s) ==
    LET directory == disk[run[s].id]
    IN  /\ run[s].step = "allocated" =>
               directory = NoDirectory /\ \A q \in Requests : request[q].id # run[s].id
        /\ run[s].step \in Live => run[s].file # "closed"
        /\ run[s].file = "open" => Len(directory.log) = run[s].seq
        /\ run[s].file = "unlinked" => directory.log = << >>
        /\ Len(directory.log) <= run[s].seq
        /\ \A i \in 1..Len(directory.log) : directory.log[i] = i
        /\ run[s].step \in {"saved", "done"} =>
               /\ directory.state \in {"none", "cancelling", run[s].status}
               /\ directory.log # << >> => Len(directory.log) = run[s].seq

DiskFits ==
    /\ DirectoriesFit
    /\ \A q \in Requests : RequestFits(q)
    /\ \A s \in Starts : run[s].step # "idle" /\ Sole(s) => SoleFits(s)

(***************************************************************************)
(* The readers.                                                            *)
(***************************************************************************)
\* The connection, whatever it carries.
ConnectionFits(r) ==
    /\ stream[r].step = "away" => stream[r] = NoStream
    /\ stream[r].step # "away" => client[r].id \in Ids
    /\ stream[r].step = "replay" =>
           stream[r].closer = "none" /\ ~ stream[r].listed /\ ~ stream[r].closed /\ stream[r].on = None
    /\ stream[r].step = "live" =>
           /\ stream[r].on \in Starts
           /\ run[stream[r].on].id = client[r].id
           /\ run[stream[r].on].step \in Live \cup {"done"}
           /\ stream[r].listed \/ run[stream[r].on].step = "done"
           /\ stream[r].closed \/ stream[r].closer # "none" <=> run[stream[r].on].step = "done"
           /\ stream[r].closer # "none" => ~ stream[r].closed
           /\ \A i \in 1..Len(stream[r].queue) :
                  stream[r].queue[i] = 0 => i = Len(stream[r].queue) /\ stream[r].closed
    /\ Len(stream[r].queue) <= Buffer
    /\ client[r].id = None => client[r].got = << >> /\ client[r].lost = {}
    /\ client[r].id # None => Given(client[r].id)

Seen(r) == Range(client[r].got) \cup client[r].lost

\* What has been read of a run, over all connections.
GotFits(r, s) ==
    LET got == client[r].got
    IN  /\ \A i \in 1..Len(got) : got[i] \in 1..run[s].seq
        /\ \A i, j \in 1..Len(got) : i < j => got[i] < got[j]
        /\ 1..LastEventId(r) \subseteq Seen(r)
        /\ client[r].end = "live" => 1..run[s].seq \subseteq Seen(r) /\ run[s].step \in {"done", "dead"}

\* A live channel has the rest, in order.
LiveFits(r, s) ==
    LET queue == stream[r].queue
    IN  /\ \A i \in 1..Len(queue) : queue[i] <= run[s].seq /\ (queue[i] # 0 => queue[i] > LastEventId(r))
        /\ \A i, j \in 1..Len(queue) : i < j => queue[j] = 0 \/ queue[i] < queue[j]
        /\ 1..run[s].seq \subseteq Seen(r) \cup Range(queue)

\* A replay has read the first k events of the log.
ReplayFits(r, s) ==
    LET queue  == stream[r].queue
        source == stream[r].source
        from   == stream[r].from
    IN  \E k \in 0..run[s].seq :
            /\ k + Len(queue) + Len(source) <= run[s].seq
            /\ \A i \in 1..Len(queue) : queue[i] = k + i
            /\ \A j \in 1..Len(source) : source[j] = k + Len(queue) + j
            /\ from >= 1 /\ LastEventId(r) = IF k < from - 1 THEN from - 1 ELSE k

ReaderFits(r, s) ==
    /\ GotFits(r, s)
    /\ stream[r].step = "live" => LiveFits(r, s)
    /\ stream[r].step = "replay" => ReplayFits(r, s)

ReadersFit ==
    \A r \in Readers :
        /\ ConnectionFits(r)
        /\ \A s \in Starts : client[r].id # None /\ client[r].id = run[s].id /\ Sole(s) => ReaderFits(r, s)

ExtractorInv == Types /\ RunsFit /\ DiskFits /\ ReadersFit

-----------------------------------------------------------------------------
(***************************************************************************)
(* Names, and what follows from the invariant at once.                     *)
(***************************************************************************)
LEMMA Endings ==
    /\ LastKind["completed"] = "run_completed" /\ LastKind["failed"] = "run_failed"
    /\ LastKind["cancelled"] = "run_cancelled"
    /\ Kinds = {"run_completed", "run_failed", "run_cancelled", "run_started", "progress"}
<1>1. /\ LastKind["completed"] = "run_completed" /\ LastKind["failed"] = "run_failed"
      /\ LastKind["cancelled"] = "run_cancelled" /\ DOMAIN LastKind = {"completed", "failed", "cancelled"}
  BY DEF LastKind
<1>2. Range(LastKind) = {"run_completed", "run_failed", "run_cancelled"}
  BY <1>1 DEF Range
<1>. QED  BY <1>1, <1>2 DEF Kinds

LEMMA NoneIsNothing == None \notin Starts /\ None \notin Ids
  BY ExtractorAssumption DEF ExtractorAssumption

LEMMA IdsOfSecond == \A s \in Starts, n \in 1..MaxSuffix : <<SecondOf[s], n>> \in Ids
  BY ExtractorAssumption DEF ExtractorAssumption, Ids, Range

LEMMA AtRun ==
    ASSUME ExtractorInv, NEW s \in Starts
    PROVE  /\ run[s] \in RunTypes /\ RunFits(s) /\ BusHasIt(s)
           /\ Types /\ RunsFit /\ DiskFits /\ ReadersFit
           /\ run[s].step # "idle" => run[s].id \in Ids /\ run[s].id # None
  BY NoneIsNothing DEF ExtractorInv, Types, RunsFit, MapsFit, RunFits

\* Ids stay, so nobody is alone with one who was not before.
IdsStay == \A t \in Starts : run[t].step # "idle" => run'[t].id = run[t].id

LEMMA SoleStays ==
    ASSUME ExtractorInv, IdsStay, NEW s \in Starts, run[s].step # "idle", Sole(s)'
    PROVE  Sole(s)
<1>. SUFFICES ASSUME NEW t \in Starts \ {s}  PROVE run[t].id # run[s].id
  BY DEF Sole
<1>1. run[s].id \in Ids /\ run[s].id # None /\ run'[s].id = run[s].id  BY AtRun DEF IdsStay
<1>2. CASE run[t].step = "idle"
  <2>1. run[t].id = None  BY <1>2, AtRun DEF RunFits, NoStart
  <2>. QED  BY <1>1, <2>1
<1>3. CASE run[t].step # "idle"
  <2>1. run'[t].id = run[t].id /\ run'[t].id # run'[s].id  BY <1>3 DEF IdsStay, Sole
  <2>. QED  BY <1>1, <2>1
<1>. QED  BY <1>2, <1>3

\* An id that has been given stays given, and to a start that is not idle.
LEMMA GivenStays ==
    ASSUME ExtractorInv, IdsStay, NEW id, id # None, Given(id)
    PROVE  Given(id)'
<1>1. PICK t \in Starts : run[t].id = id  BY DEF Given
<1>2. run[t].step # "idle"  BY <1>1, AtRun DEF RunFits, NoStart
<1>. QED  BY <1>1, <1>2 DEF Given, IdsStay

\* Whoever gets a given id shares it.
LEMMA GivenIsShared ==
    ASSUME ExtractorInv, IdsStay, NEW s \in Starts, run[s].step = "idle",
           NEW id, id # None, Given(id), run'[s].id = id
    PROVE  ~ Sole(s)'
<1>1. PICK t \in Starts : run[t].id = id  BY DEF Given
<1>2. run[t].step # "idle" /\ run[s].id = None  BY <1>1, AtRun DEF RunFits, NoStart
<1>3. run'[t].id = id /\ t # s  BY <1>1, <1>2 DEF IdsStay
<1>. QED  BY <1>3 DEF Sole

-----------------------------------------------------------------------------
(***************************************************************************)
(* What the parts need of the runs.                                        *)
(***************************************************************************)
\* No run goes back: what readers and requests rely on.
RunsGoOn ==
    /\ IdsStay
    /\ \A t \in Starts : run[t].step # "idle" =>
           /\ run'[t].seq = run[t].seq
           /\ run[t].step \in Live => run'[t].step \in Live
           /\ run[t].step \in {"done", "dead"} => run'[t].step = run[t].step
           /\ run[t].step \in InMemory => run'[t].step \in InMemory
           /\ run[t].step \in Settled => run'[t].step \in Settled

\* Readers are left alone by whoever touches neither them nor a number.
LEMMA ReadersStay ==
    ASSUME ExtractorInv, RunsGoOn, stream' = stream, client' = client
    PROVE  ReadersFit'
<1>. SUFFICES ASSUME NEW r \in Readers
              PROVE  /\ ConnectionFits(r)'
                     /\ \A s \in Starts : client[r].id # None /\ client[r].id = run'[s].id /\ Sole(s)' => ReaderFits(r, s)'
  BY DEF ReadersFit
<1>0. IdsStay /\ ConnectionFits(r) /\ Types  BY DEF RunsGoOn, ExtractorInv, ReadersFit
<1>1. ConnectionFits(r)'
  <2>1. client[r].id # None => Given(client[r].id)'  BY <1>0, GivenStays DEF ConnectionFits
  <2>2. ASSUME stream[r].step = "live"
        PROVE  /\ run'[stream[r].on].id = client[r].id
               /\ run'[stream[r].on].step \in Live \cup {"done"}
               /\ run'[stream[r].on].step = "done" <=> run[stream[r].on].step = "done"
    <3>1. /\ stream[r].on \in Starts /\ run[stream[r].on].id = client[r].id
          /\ run[stream[r].on].step \in Live \cup {"done"}
      BY <1>0, <2>2 DEF ConnectionFits
    <3>. QED  BY <3>1 DEF RunsGoOn, IdsStay, Live
  <2>. QED  BY <1>0, <2>1, <2>2 DEF ConnectionFits
<1>2. ASSUME NEW s \in Starts, client[r].id # None, client[r].id = run'[s].id, Sole(s)'
      PROVE  ReaderFits(r, s)'
  <2>1. run[s].step # "idle"  BY <1>0, <1>2, GivenIsShared DEF ConnectionFits
  <2>2. Sole(s) /\ run'[s].id = run[s].id /\ run'[s].seq = run[s].seq
        /\ (run[s].step \in {"done", "dead"} => run'[s].step = run[s].step)
    <3>1. Sole(s)  BY <1>0, <1>2, <2>1, SoleStays
    <3>. QED  BY <2>1, <3>1 DEF RunsGoOn, IdsStay
  <2>3. ReaderFits(r, s)  BY <1>2, <2>2 DEF ExtractorInv, ReadersFit
  <2>4. Seen(r)' = Seen(r) /\ LastEventId(r)' = LastEventId(r)  BY DEF Seen, LastEventId
  <2>5. GotFits(r, s)'  BY <2>2, <2>3, <2>4 DEF ReaderFits, GotFits
  <2>6. stream[r].step = "live" => LiveFits(r, s)'  BY <2>2, <2>3, <2>4 DEF ReaderFits, LiveFits
  <2>7. stream[r].step = "replay" => ReplayFits(r, s)'  BY <2>2, <2>3, <2>4 DEF ReaderFits, ReplayFits
  <2>. QED  BY <2>5, <2>6, <2>7 DEF ReaderFits
<1>. QED  BY <1>1, <1>2

\* Requests are left alone by whoever does not write them.
RunsHold ==
    /\ IdsStay
    /\ \A t \in Starts : run[t].step # "idle" =>
           /\ run[t].step \in InMemory => run'[t].step \in InMemory
           /\ run[t].step \in Settled => run'[t].step \in Settled

LEMMA RequestsHold ==
    ASSUME ExtractorInv, RunsHold, NEW q \in Requests, request'[q] = request[q]
    PROVE  RequestFits(q)'
<1>1. RequestFits(q) /\ IdsStay /\ request[q] \in RequestTypes  BY DEF ExtractorInv, DiskFits, RunsHold, Types
<1>2. request[q].id # None => Given(request[q].id)'  BY <1>1, GivenStays DEF RequestFits
<1>3. ASSUME NEW s \in Starts, request[q].on = s
      PROVE  run'[s].step \in InMemory /\ (request[q].step = "remove" => run'[s].step \in Settled)
  <2>1. run[s].step \in InMemory /\ (request[q].step = "remove" => run[s].step \in Settled)
    BY <1>1, <1>3 DEF RequestFits
  <2>2. run[s].step # "idle"  BY <2>1 DEF InMemory, Entered, Settled
  <2>. QED  BY <2>1, <2>2 DEF RunsHold
<1>. QED  BY <1>1, <1>2, <1>3 DEF RequestFits

LEMMA RequestsStay ==
    ASSUME ExtractorInv, RunsGoOn, NEW q \in Requests, request'[q] = request[q]
    PROVE  RequestFits(q)'
<1>1. RunsHold  BY DEF RunsGoOn, RunsHold
<1>. QED  BY <1>1, RequestsHold

\* Directories are left alone by whoever writes neither disk nor file.
LEMMA DirectoriesStay ==
    ASSUME ExtractorInv, RunsGoOn, disk' = disk,
           \A t \in Starts : run'[t].file = "open" => run[t].step # "idle" /\ run[t].file = "open"
    PROVE  DirectoriesFit'
<1>1. DirectoriesFit /\ IdsStay  BY DEF ExtractorInv, DiskFits, RunsGoOn
<1>2. ASSUME NEW id \in Ids  PROVE disk[id].there => Given(id)'
  BY <1>1, NoneIsNothing, GivenStays DEF DirectoriesFit
<1>3. ASSUME NEW id \in Ids, NEW s \in Starts, run'[s].id = id, run'[s].file = "open"  PROVE disk[id].there
  BY <1>1, <1>3 DEF DirectoriesFit, IdsStay
<1>. QED  BY <1>1, <1>2, <1>3 DEF DirectoriesFit

\* One run moves and keeps its id and its class.
LEMMA OneRunMoves ==
    ASSUME ExtractorInv, NEW s \in Starts, runs' = runs, bus' = bus,
           \A t \in Starts : t # s => run'[t] = run[t],
           run'[s].id = run[s].id, run[s].step # "idle", RunFits(s)',
           run'[s].step \in Live => run[s].step \in Live,
           run[s].step \in Live \cup {"done"} => run'[s].step \in Live \cup {"done"},
           run[s].step \in InMemory => run'[s].step \in InMemory
    PROVE  RunsFit'
<1>1. RunsFit  BY DEF ExtractorInv
<1>2. \A t \in Starts : RunFits(t)'
  <2>. SUFFICES ASSUME NEW t \in Starts, t # s  PROVE RunFits(t)'
    OBVIOUS
  <2>1. RunFits(t) /\ run'[t] = run[t]  BY <1>1 DEF RunsFit
  <2>. QED  BY <2>1 DEF RunFits, HistoryFits, EndFits
<1>3. \A t \in Starts : BusHasIt(t)'
  <2>. SUFFICES ASSUME NEW t \in Starts  PROVE BusHasIt(t)'
    OBVIOUS
  <2>1. BusHasIt(t) /\ (t # s => run'[t] = run[t])  BY <1>1 DEF RunsFit, MapsFit
  <2>. QED  BY <2>1 DEF BusHasIt
<1>4. \A id \in Ids, t \in Starts :
          /\ bus[id] = t => run'[t].id = id /\ run'[t].step \in Live \cup {"done"}
          /\ runs[id] = t => run'[t].id = id /\ run'[t].step \in InMemory
  BY <1>1 DEF RunsFit, MapsFit
<1>. QED  BY <1>2, <1>3, <1>4 DEF RunsFit, MapsFit

-----------------------------------------------------------------------------
(***************************************************************************)
(* A run gets its id.                                                      *)
(***************************************************************************)
LEMMA AllocateKeeps ==
    ASSUME ExtractorInv, NEW s \in Starts, Allocate(s)
    PROVE  ExtractorInv'
<1>1. PICK n \in 1..MaxSuffix :
          /\ runs[<<SecondOf[s], n>>] = None /\ ~ disk[<<SecondOf[s], n>>].there
          /\ run' = [run EXCEPT ![s].step = "allocated", ![s].id = <<SecondOf[s], n>>]
  BY DEF Allocate
<1>2. /\ run[s].step = "idle" /\ UNCHANGED <<runs, bus, disk, request, stream, client>>
      /\ run[s] = NoStart /\ run[s] \in RunTypes /\ Types /\ RunsFit /\ DiskFits
  BY AtRun DEF Allocate, RunFits
<1>. DEFINE id == <<SecondOf[s], n>>
<1>3. id \in Ids /\ id # None  BY <1>1, IdsOfSecond, NoneIsNothing
<1>. HIDE DEF id
<1>4. /\ run'[s] = [NoStart EXCEPT !.step = "allocated", !.id = id]
      /\ \A t \in Starts : t # s => run'[t] = run[t]
      /\ run'[s] \in RunTypes /\ run' \in [Starts -> RunTypes]
  <2>1. "allocated" \in RunSteps  BY DEF RunSteps
  <2>2. run' = [run EXCEPT ![s].step = "allocated", ![s].id = id]  BY <1>1 DEF id
  <2>3. run'[s] = [NoStart EXCEPT !.step = "allocated", !.id = id] /\ \A t \in Starts : t # s => run'[t] = run[t]
    BY <1>2, <2>2 DEF Types
  <2>4. [run[s] EXCEPT !.step = "allocated", !.id = id] \in RunTypes
    BY <1>2, <1>3, <2>1 DEF RunTypes
  <2>. QED  BY <1>2, <2>2, <2>3, <2>4 DEF Types
<1>5. Types'  BY <1>2, <1>4 DEF Types
<1>6. /\ run'[s].step = "allocated" /\ run'[s].id = id /\ run'[s].seq = 0 /\ run'[s].last = "none"
      /\ run'[s].history = << >> /\ run'[s].file = "closed" /\ ~ run'[s].finished
  BY <1>4 DEF NoStart
<1>7. RunFits(s)'
  <2>1. HistoryFits(s)'  BY <1>6, ExtractorAssumption DEF HistoryFits, ExtractorAssumption
  <2>2. EndFits(s)'  BY <1>6 DEF EndFits, Settled
  <2>3. 0 <= MaxProgress + 2  BY ExtractorAssumption DEF ExtractorAssumption
  <2>. QED  BY <1>3, <1>6, <2>1, <2>2, <2>3 DEF RunFits, Silent, Entered, Settled, Live
<1>8. RunsFit'
  <2>1. \A t \in Starts : RunFits(t)'
    <3>. SUFFICES ASSUME NEW t \in Starts, t # s  PROVE RunFits(t)'
      BY <1>7
    <3>1. RunFits(t) /\ run'[t] = run[t]  BY <1>2, <1>4 DEF RunsFit
    <3>. QED  BY <3>1 DEF RunFits, HistoryFits, EndFits
  <2>2. \A i \in Ids : bus[i] # s /\ runs[i] # s
    BY <1>2 DEF RunsFit, MapsFit, Live, InMemory, Entered, Settled
  <2>3. ASSUME NEW t \in Starts  PROVE BusHasIt(t)'
    <3>1. CASE t = s  BY <1>6, <3>1 DEF BusHasIt, Live
    <3>2. CASE t # s
      <4>1. BusHasIt(t) /\ run'[t] = run[t] /\ bus' = bus  BY <1>2, <1>4, <3>2 DEF RunsFit, MapsFit
      <4>. QED  BY <4>1 DEF BusHasIt
    <3>. QED  BY <3>1, <3>2
  <2>. QED  BY <1>2, <1>4, <2>1, <2>2, <2>3 DEF RunsFit, MapsFit
<1>9. RunsGoOn  BY <1>2, <1>4 DEF RunsGoOn, IdsStay
<1>10. ReadersFit'  BY <1>2, <1>9, ReadersStay
<1>11. DirectoriesFit'
  <2>1. \A t \in Starts : run'[t].file = "open" => run[t].step # "idle" /\ run[t].file = "open"
    BY <1>2, <1>4, <1>6 DEF RunsFit, RunFits, Live
  <2>. QED  BY <1>2, <1>9, <2>1, DirectoriesStay
<1>12. \A q \in Requests : RequestFits(q)'  BY <1>2, <1>9, RequestsStay
<1>13. ASSUME NEW t \in Starts, run'[t].step # "idle", Sole(t)'  PROVE SoleFits(t)'
  <2>1. CASE t = s
    <3>1. disk[id] = NoDirectory  BY <1>1, <1>2, <1>3 DEF DiskFits, DirectoriesFit, id
    <3>2. ASSUME NEW q \in Requests, request[q].id = id  PROVE FALSE
      <4>1. Given(id)  BY <1>2, <1>3, <3>2 DEF DiskFits, RequestFits
      <4>. QED  BY <1>2, <1>3, <1>6, <1>9, <1>13, <2>1, <4>1, GivenIsShared DEF RunsGoOn
    <3>. QED  BY <1>2, <1>6, <2>1, <3>1, <3>2 DEF SoleFits, NoDirectory, Live
  <2>2. CASE t # s
    <3>1. run'[t] = run[t] /\ run[t].step # "idle"  BY <1>4, <1>13, <2>2
    <3>2. Sole(t)  BY <1>9, <1>13, <3>1, SoleStays DEF RunsGoOn
    <3>3. SoleFits(t)  BY <1>2, <3>1, <3>2 DEF DiskFits
    <3>. QED  BY <1>2, <3>1, <3>3 DEF SoleFits
  <2>. QED  BY <2>1, <2>2
<1>14. DiskFits'  BY <1>11, <1>12, <1>13 DEF DiskFits
<1>. QED  BY <1>5, <1>8, <1>10, <1>14 DEF ExtractorInv

-----------------------------------------------------------------------------
(***************************************************************************)
(* A run on its way: it writes its own directory only.                     *)
(***************************************************************************)
LEMMA OthersStay ==
    ASSUME ExtractorInv, RunsGoOn, NEW s \in Starts, run[s].step # "idle",
           NEW t \in Starts, t # s, run'[t] = run[t], run[t].step # "idle", Sole(t)',
           \A id \in Ids : id # run[s].id => disk'[id] = disk[id], request' = request
    PROVE  SoleFits(t)'
<1>1. Sole(t)  BY SoleStays DEF RunsGoOn
<1>2. SoleFits(t) /\ run[t].id \in Ids /\ run[s].id # run[t].id
  BY <1>1, AtRun DEF ExtractorInv, DiskFits, Sole
<1>. QED  BY <1>2 DEF SoleFits

\* What a run has to show after a step of its own that leaves the maps, the
\* requests and the readers alone.
LEMMA RunMoves ==
    ASSUME ExtractorInv, NEW s \in Starts, UNCHANGED <<runs, bus, request, stream, client>>,
           \A t \in Starts : t # s => run'[t] = run[t],
           run' \in [Starts -> RunTypes], disk' \in [Ids -> DiskTypes],
           run[s].step \in Live, run'[s].step \in Live, run'[s].id = run[s].id, run'[s].seq = run[s].seq,
           run[s].step \in InMemory => run'[s].step \in InMemory,
           run[s].step \in Settled => run'[s].step \in Settled,
           run'[s].file = "open" => run[s].file = "open",
           RunFits(s)', Sole(s)' /\ SoleFits(s) => SoleFits(s)',
           \A id \in Ids : id # run[s].id => disk'[id] = disk[id],
           disk[run[s].id].there => disk'[run[s].id].there,
           ~ disk'[run[s].id].there => disk'[run[s].id] = NoDirectory
    PROVE  ExtractorInv'
<1>1. Types' /\ run[s].step # "idle" /\ run[s].id \in Ids /\ run[s].id # None
  BY AtRun DEF Types, Live
<1>2. RunsFit'  BY <1>1, OneRunMoves
<1>3. RunsGoOn  BY <1>1 DEF RunsGoOn, IdsStay, Live, Settled
<1>4. ReadersFit'  BY <1>3, ReadersStay
<1>5. \A q \in Requests : RequestFits(q)'  BY <1>3, RequestsStay
<1>6. DirectoriesFit'
  <2>1. DirectoriesFit  BY DEF ExtractorInv, DiskFits
  <2>2. ASSUME NEW id \in Ids  PROVE disk'[id].there => Given(id)'
    <3>1. CASE id = run[s].id  BY <1>1, <3>1 DEF Given
    <3>2. CASE id # run[s].id
      <4>1. disk[id].there => Given(id)  BY <2>1 DEF DirectoriesFit
      <4>2. Given(id) => Given(id)'  BY <1>3, NoneIsNothing, GivenStays DEF RunsGoOn
      <4>. QED  BY <3>2, <4>1, <4>2
    <3>. QED  BY <3>1, <3>2
  <2>3. ASSUME NEW id \in Ids, NEW t \in Starts, run'[t].id = id, run'[t].file = "open"  PROVE disk'[id].there
    <3>1. run[t].id = id /\ run[t].file = "open"  BY <2>3
    <3>2. disk[id].there  BY <2>1, <3>1 DEF DirectoriesFit
    <3>. QED  BY <3>2
  <2>4. ASSUME NEW id \in Ids, ~ disk'[id].there  PROVE disk'[id] = NoDirectory
    BY <2>1, <2>4 DEF DirectoriesFit
  <2>. QED  BY <2>2, <2>3, <2>4 DEF DirectoriesFit
<1>7. ASSUME NEW t \in Starts, run'[t].step # "idle", Sole(t)'  PROVE SoleFits(t)'
  <2>1. CASE t = s
    <3>1. Sole(s)  BY <1>1, <1>3, <1>7, <2>1, SoleStays DEF RunsGoOn
    <3>2. SoleFits(s)  BY <1>1, <3>1 DEF ExtractorInv, DiskFits
    <3>. QED  BY <1>7, <2>1, <3>2
  <2>2. CASE t # s
    <3>1. run'[t] = run[t] /\ run[t].step # "idle"  BY <1>7, <2>2
    <3>. QED  BY <1>1, <1>3, <1>7, <2>2, <3>1, OthersStay
  <2>. QED  BY <2>1, <2>2
<1>8. DiskFits'  BY <1>5, <1>6, <1>7 DEF DiskFits
<1>. QED  BY <1>1, <1>2, <1>4, <1>8 DEF ExtractorInv

\* The bus takes the run, or refuses it for a live one of its id.
LEMMA StartOnBusKeeps ==
    ASSUME ExtractorInv, NEW s \in Starts, StartOnBus(s)
    PROVE  ExtractorInv'
<1>0. PICK id \in Ids : id = run[s].id
  BY AtRun DEF StartOnBus
<1>1. /\ run[s].step = "allocated" /\ UNCHANGED <<runs, request, stream, client>>
      /\ run[s] \in RunTypes /\ RunFits(s) /\ Types /\ RunsFit /\ DiskFits
      /\ id = run[s].id /\ id # None
  BY <1>0, AtRun DEF StartOnBus
<1>2. /\ run[s].seq = 0 /\ run[s].last = "none" /\ run[s].history = << >> /\ run[s].file = "closed" /\ ~ run[s].finished
  BY <1>1 DEF RunFits, Silent, Live, RunTypes
<1>3. \A i \in Ids : bus[i] # s /\ runs[i] # s
  BY <1>1 DEF RunsFit, MapsFit, Live, InMemory, Entered, Settled
<1>4. 0 <= MaxProgress + 2 /\ Len(run[s].history) = 0 /\ HistorySize \in Nat
  BY <1>2, EmptySeq, ExtractorAssumption DEF ExtractorAssumption
<1>5. CASE LiveOnBus(id)
  <2>0. PICK old \in Starts : bus[id] = old  BY <1>5 DEF LiveOnBus
  <2>1. /\ old # s /\ run[old].id = id /\ run[old].step \in Live \cup {"done"}
    BY <1>1, <1>3, <2>0 DEF RunsFit, MapsFit
  <2>2. UNCHANGED <<bus, disk>> /\ run' = [run EXCEPT ![old].file = "closed", ![s].step = "refused"]
    BY <1>1, <1>5, <2>0 DEF StartOnBus
  <2>3. /\ run'[s] = [run[s] EXCEPT !.step = "refused"] /\ run'[old] = [run[old] EXCEPT !.file = "closed"]
        /\ \A t \in Starts : t # s /\ t # old => run'[t] = run[t]
        /\ run'[s] \in RunTypes /\ run'[old] \in RunTypes /\ run' \in [Starts -> RunTypes]
    <3>1. "refused" \in RunSteps  BY DEF RunSteps
    <3>2. /\ run'[s] = [run[s] EXCEPT !.step = "refused"] /\ run'[old] = [run[old] EXCEPT !.file = "closed"]
          /\ \A t \in Starts : t # s /\ t # old => run'[t] = run[t]
      BY <1>1, <2>1, <2>2 DEF Types
    <3>3. run'[s] \in RunTypes /\ run'[old] \in RunTypes
      <4>1. run[old] \in RunTypes  BY <1>1 DEF Types
      <4>2. [run[s] EXCEPT !.step = "refused"] \in RunTypes  BY <1>1, <3>1 DEF RunTypes
      <4>3. [run[old] EXCEPT !.file = "closed"] \in RunTypes  BY <4>1 DEF RunTypes
      <4>. QED  BY <3>2, <4>2, <4>3
    <3>4. \A t \in Starts : run'[t] \in RunTypes  BY <1>1, <3>2, <3>3 DEF Types
    <3>5. run' = [t \in Starts |-> run'[t]]  BY <1>1, <2>2 DEF Types
    <3>. QED  BY <3>2, <3>3, <3>4, <3>5
  <2>4. Types'  BY <1>1, <2>2, <2>3 DEF Types
  <2>5. /\ run'[s].step = "refused" /\ run'[s].id = id /\ run'[s].seq = 0 /\ run'[s].last = "none"
        /\ run'[s].history = << >> /\ run'[s].file = "closed" /\ ~ run'[s].finished
    BY <1>1, <1>2, <2>3 DEF RunTypes
  <2>6. /\ run'[old].step = run[old].step /\ run'[old].id = id /\ run'[old].seq = run[old].seq
        /\ run'[old].last = run[old].last /\ run'[old].history = run[old].history
        /\ run'[old].status = run[old].status /\ run'[old].cancelled = run[old].cancelled
        /\ run'[old].error = run[old].error /\ run'[old].finished = run[old].finished
        /\ run'[old].file = "closed"
    BY <1>1, <2>1, <2>3 DEF Types, RunTypes
  <2>7. \A t \in Starts : RunFits(t)'
    <3>1. RunFits(s)'
      <4>1. HistoryFits(s)'  BY <1>4, <2>5 DEF HistoryFits
      <4>2. EndFits(s)'  BY <2>5 DEF EndFits, Settled
      <4>. QED  BY <1>1, <1>4, <2>5, <4>1, <4>2 DEF RunFits, Silent, Entered, Settled, Live
    <3>2. RunFits(old)'
      <4>1. RunFits(old)  BY <1>1, <2>1 DEF RunsFit
      <4>2. HistoryFits(old)'  BY <2>6, <4>1 DEF RunFits, HistoryFits
      <4>3. EndFits(old)'  BY <2>6, <4>1 DEF RunFits, EndFits
      <4>. QED  BY <2>1, <2>6, <4>1, <4>2, <4>3 DEF RunFits, Live
    <3>3. ASSUME NEW t \in Starts, t # s, t # old  PROVE RunFits(t)'
      <4>1. RunFits(t) /\ run'[t] = run[t]  BY <1>1, <2>3, <3>3 DEF RunsFit
      <4>. QED  BY <4>1 DEF RunFits, HistoryFits, EndFits
    <3>. QED  BY <3>1, <3>2, <3>3
  <2>. DEFINE Same(t) == run'[t].step = run[t].step /\ run'[t].id = run[t].id /\ run'[t].seq = run[t].seq
  <2>16. \A t \in Starts : t # s => Same(t)  BY <2>1, <2>3, <2>6
  <2>8. RunsFit'
    <3>1. ASSUME NEW t \in Starts  PROVE BusHasIt(t)'
      <4>1. "refused" \notin Live /\ BusHasIt(t)  BY <1>1 DEF Live, RunsFit, MapsFit
      <4>2. t # s => Same(t)  BY <2>16
      <4>. QED  BY <2>2, <2>5, <4>1, <4>2 DEF BusHasIt
    <3>2. \A i \in Ids, t \in Starts :
              /\ bus[i] = t => run'[t].id = i /\ run'[t].step \in Live \cup {"done"}
              /\ runs[i] = t => run'[t].id = i /\ run'[t].step \in InMemory
      BY <1>1, <1>3, <2>16 DEF RunsFit, MapsFit
    <3>. QED  BY <1>1, <2>2, <2>7, <3>1, <3>2 DEF RunsFit, MapsFit
  <2>9. RunsGoOn
    <3>1. run[s].step \notin Live \cup InMemory \cup Settled \cup {"done", "dead"} /\ run'[s].id = run[s].id
          /\ run'[s].seq = run[s].seq
      BY <1>1, <1>2, <2>5 DEF Live, InMemory, Entered, Settled
    <3>. QED  BY <2>16, <3>1 DEF RunsGoOn, IdsStay
  <2>10. ReadersFit'  BY <1>1, <2>9, ReadersStay
  <2>11. \A q \in Requests : RequestFits(q)'  BY <1>1, <2>9, RequestsStay
  <2>12. DirectoriesFit'
    <3>1. \A t \in Starts : run'[t].file = "open" => run[t].step # "idle" /\ run[t].file = "open"
      BY <1>1, <2>3, <2>5, <2>6 DEF RunsFit, RunFits, Live
    <3>. QED  BY <2>2, <2>9, <3>1, DirectoriesStay
  <2>13. ASSUME NEW t \in Starts, run'[t].step # "idle", Sole(t)'  PROVE SoleFits(t)'
    <3>1. t # s /\ t # old  BY <2>1, <2>5, <2>6, <2>13 DEF Sole
    <3>2. run'[t] = run[t] /\ run[t].step # "idle"  BY <2>3, <2>13, <3>1
    <3>. QED  BY <1>1, <2>2, <2>9, <2>13, <3>1, <3>2, OthersStay
  <2>14. DiskFits'  BY <2>11, <2>12, <2>13 DEF DiskFits
  <2>. QED  BY <2>4, <2>8, <2>10, <2>14 DEF ExtractorInv
<1>6. CASE ~ LiveOnBus(id)
  <2>1. /\ bus' = [bus EXCEPT ![id] = s] /\ disk' = [disk EXCEPT ![id].there = TRUE]
        /\ run' = [run EXCEPT ![s].file = "open", ![s].step = "on_bus"]
    BY <1>1, <1>6 DEF StartOnBus
  <2>2. /\ run'[s] = [run[s] EXCEPT !.file = "open", !.step = "on_bus"]
        /\ \A t \in Starts : t # s => run'[t] = run[t]
        /\ run'[s] \in RunTypes /\ run' \in [Starts -> RunTypes]
    <3>1. "on_bus" \in RunSteps  BY DEF RunSteps, Live
    <3>. QED  BY <1>1, <2>1, <3>1 DEF Types, RunTypes
  <2>3. /\ run'[s].step = "on_bus" /\ run'[s].id = id /\ run'[s].seq = 0 /\ run'[s].last = "none"
        /\ run'[s].history = << >> /\ run'[s].file = "open" /\ ~ run'[s].finished
    BY <1>1, <1>2, <2>2 DEF RunTypes
  <2>4. /\ disk'[id].there /\ disk'[id].log = disk[id].log /\ disk'[id].state = disk[id].state
        /\ \A i \in Ids : i # id => disk'[i] = disk[i]
        /\ disk' \in [Ids -> DiskTypes]
    BY <1>1, <2>1 DEF Types, DiskTypes
  <2>5. bus'[id] = s /\ (\A i \in Ids : i # id => bus'[i] = bus[i]) /\ bus' \in [Ids -> Starts \cup {None}]
    BY <1>1, <2>1 DEF Types
  <2>6. Types'  BY <1>1, <2>2, <2>4, <2>5 DEF Types
  <2>7. \A t \in Starts : RunFits(t)'
    <3>1. RunFits(s)'
      <4>1. HistoryFits(s)'  BY <1>4, <2>3 DEF HistoryFits
      <4>2. EndFits(s)'  BY <2>3 DEF EndFits, Settled
      <4>. QED  BY <1>1, <1>4, <2>3, <4>1, <4>2 DEF RunFits, Silent, Entered, Settled, Live
    <3>2. ASSUME NEW t \in Starts, t # s  PROVE RunFits(t)'
      <4>1. RunFits(t) /\ run'[t] = run[t]  BY <1>1, <2>2, <3>2 DEF RunsFit
      <4>. QED  BY <4>1 DEF RunFits, HistoryFits, EndFits
    <3>. QED  BY <3>1, <3>2
  <2>8. ASSUME NEW t \in Starts  PROVE BusHasIt(t)'
    <3>1. CASE t = s  BY <2>3, <2>5, <3>1 DEF BusHasIt
    <3>2. CASE t # s /\ run[t].step \in Live
      <4>1. bus[run[t].id] = t /\ ~ run[t].finished /\ run[t].id \in Ids
        BY <3>2, AtRun DEF BusHasIt, RunFits, Live
      <4>2. run[t].id # id  BY <1>6, <4>1 DEF LiveOnBus
      <4>. QED  BY <2>2, <2>5, <3>2, <4>1, <4>2 DEF BusHasIt
    <3>3. CASE t # s /\ run[t].step \notin Live  BY <2>2, <3>3 DEF BusHasIt
    <3>. QED  BY <3>1, <3>2, <3>3
  <2>9. RunsFit'
    <3>1. \A i \in Ids, t \in Starts :
              /\ bus'[i] = t => run'[t].id = i /\ run'[t].step \in Live \cup {"done"}
              /\ runs[i] = t => run'[t].id = i /\ run'[t].step \in InMemory
      <4>1. "on_bus" \in Live  BY DEF Live
      <4>2. ASSUME NEW i \in Ids, NEW t \in Starts, bus'[i] = t
            PROVE  run'[t].id = i /\ run'[t].step \in Live \cup {"done"}
        <5>1. CASE i = id  BY <1>1, <2>3, <2>5, <4>1, <4>2, <5>1
        <5>2. CASE i # id
          <6>1. bus[i] = t /\ t # s  BY <1>3, <2>5, <4>2, <5>2
          <6>. QED  BY <1>1, <2>2, <6>1 DEF RunsFit, MapsFit
        <5>. QED  BY <5>1, <5>2
      <4>3. ASSUME NEW i \in Ids, NEW t \in Starts, runs[i] = t
            PROVE  run'[t].id = i /\ run'[t].step \in InMemory
        BY <1>1, <1>3, <2>2, <4>3 DEF RunsFit, MapsFit
      <4>. QED  BY <4>2, <4>3
    <3>. QED  BY <1>1, <2>7, <2>8, <3>1 DEF RunsFit, MapsFit
  <2>10. RunsGoOn
    <3>1. run[s].step \notin Live \cup InMemory \cup Settled \cup {"done", "dead"} /\ run'[s].id = run[s].id
          /\ run'[s].seq = run[s].seq
      BY <1>1, <1>2, <2>3 DEF Live, InMemory, Entered, Settled
    <3>. QED  BY <2>2, <3>1 DEF RunsGoOn, IdsStay
  <2>11. ReadersFit'  BY <1>1, <2>10, ReadersStay
  <2>12. \A q \in Requests : RequestFits(q)'  BY <1>1, <2>10, RequestsStay
  <2>13. DirectoriesFit'
    <3>1. DirectoriesFit  BY <1>1 DEF DiskFits
    <3>2. Given(id)'  BY <2>3 DEF Given
    <3>3. \A i \in Ids : i # id => (disk[i].there => Given(i)')
      BY <2>10, <3>1, NoneIsNothing, GivenStays DEF DirectoriesFit, RunsGoOn
    <3>4. \A i \in Ids, t \in Starts : i # id /\ run'[t].id = i /\ run'[t].file = "open" => disk[i].there
      BY <2>2, <2>3, <3>1 DEF DirectoriesFit
    <3>5. \A i \in Ids : ~ disk'[i].there => disk'[i] = NoDirectory  BY <2>4, <3>1 DEF DirectoriesFit
    <3>. QED  BY <2>4, <3>2, <3>3, <3>4, <3>5 DEF DirectoriesFit
  <2>14. ASSUME NEW t \in Starts, run'[t].step # "idle", Sole(t)'  PROVE SoleFits(t)'
    <3>1. CASE t = s
      <4>1. Sole(s)  BY <1>1, <2>10, <2>14, <3>1, SoleStays DEF RunsGoOn
      <4>2. disk[id] = NoDirectory  BY <1>1, <4>1 DEF DiskFits, SoleFits
      <4>3. disk'[id].log = << >> /\ Len(disk'[id].log) = 0  BY <2>4, <4>2, EmptySeq DEF NoDirectory
      <4>. QED  BY <2>3, <3>1, <4>3 DEF SoleFits
    <3>2. CASE t # s
      <4>1. run'[t] = run[t] /\ run[t].step # "idle"  BY <2>2, <2>14, <3>2
      <4>. QED  BY <1>1, <2>4, <2>10, <2>14, <3>2, <4>1, OthersStay
    <3>. QED  BY <3>1, <3>2
  <2>15. DiskFits'  BY <2>12, <2>13, <2>14 DEF DiskFits
  <2>. QED  BY <2>6, <2>9, <2>11, <2>15 DEF ExtractorInv
<1>. QED  BY <1>5, <1>6

\* The manager enters the run.
LEMMA EnterRunKeeps ==
    ASSUME ExtractorInv, NEW s \in Starts, EnterRun(s)
    PROVE  ExtractorInv'
<1>0. PICK id \in Ids : id = run[s].id
  BY AtRun DEF EnterRun
<1>1. /\ run[s].step = "on_bus" /\ UNCHANGED <<bus, disk, request, stream, client>>
      /\ runs' = [runs EXCEPT ![id] = s]
      /\ run' = [run EXCEPT ![s].status = "running", ![s].step = "entered"]
      /\ run[s] \in RunTypes /\ RunFits(s) /\ Types /\ RunsFit /\ DiskFits
  BY <1>0, AtRun DEF EnterRun
<1>2. /\ run[s].seq = 0 /\ run[s].last = "none" /\ run[s].history = << >> /\ ~ run[s].finished
  BY <1>1 DEF RunFits, Silent, RunTypes
<1>3. /\ run'[s] = [run[s] EXCEPT !.status = "running", !.step = "entered"]
      /\ \A t \in Starts : t # s => run'[t] = run[t]
      /\ run'[s] \in RunTypes /\ run' \in [Starts -> RunTypes]
  <2>1. "entered" \in RunSteps /\ "running" \in Status  BY DEF RunSteps, Live, Status, Active
  <2>. QED  BY <1>1, <2>1 DEF Types, RunTypes
<1>4. /\ run'[s].step = "entered" /\ run'[s].id = id /\ run'[s].seq = 0 /\ run'[s].last = "none"
      /\ run'[s].history = << >> /\ run'[s].file = run[s].file /\ ~ run'[s].finished /\ run'[s].status = "running"
  BY <1>0, <1>1, <1>2, <1>3 DEF RunTypes
<1>5. runs'[id] = s /\ (\A i \in Ids : i # id => runs'[i] = runs[i]) /\ runs' \in [Ids -> Starts \cup {None}]
  BY <1>1 DEF Types
<1>6. Types'  BY <1>1, <1>3, <1>5 DEF Types
<1>7. \A t \in Starts : RunFits(t)'
  <2>1. RunFits(s)'
    <3>1. HistoryFits(s)'
      <4>1. Len(run'[s].history) = 0 /\ HistorySize \in Nat
        BY <1>4, EmptySeq, ExtractorAssumption DEF ExtractorAssumption
      <4>. QED  BY <1>4, <4>1 DEF HistoryFits
    <3>2. EndFits(s)'  BY <1>4 DEF EndFits, Settled
    <3>3. 0 <= MaxProgress + 2  BY ExtractorAssumption DEF ExtractorAssumption
    <3>. QED  BY <1>4, <3>1, <3>2, <3>3 DEF RunFits, Silent, Entered, Settled, Live, Active
  <2>2. ASSUME NEW t \in Starts, t # s  PROVE RunFits(t)'
    <3>1. RunFits(t) /\ run'[t] = run[t]  BY <1>1, <1>3, <2>2 DEF RunsFit
    <3>. QED  BY <3>1 DEF RunFits, HistoryFits, EndFits
  <2>. QED  BY <2>1, <2>2
<1>8. "on_bus" \in Live /\ "entered" \in Live /\ "entered" \in InMemory /\ "on_bus" \notin InMemory
  BY DEF Live, InMemory, Entered, Settled
<1>9. RunsFit'
  <2>1. ASSUME NEW t \in Starts  PROVE BusHasIt(t)'
    <3>1. BusHasIt(t)  BY <1>1 DEF RunsFit, MapsFit
    <3>. QED  BY <1>0, <1>1, <1>3, <1>4, <1>8, <3>1 DEF BusHasIt
  <2>2. ASSUME NEW i \in Ids, NEW t \in Starts, bus[i] = t
        PROVE  run'[t].id = i /\ run'[t].step \in Live \cup {"done"}
    BY <1>0, <1>1, <1>3, <1>4, <1>8, <2>2 DEF RunsFit, MapsFit
  <2>3. ASSUME NEW i \in Ids, NEW t \in Starts, runs'[i] = t
        PROVE  run'[t].id = i /\ run'[t].step \in InMemory
    <3>1. CASE i = id  BY <1>4, <1>5, <1>8, <2>3, <3>1
    <3>2. CASE i # id
      <4>1. run[t].id = i /\ run[t].step \in InMemory  BY <1>1, <1>5, <2>3, <3>2 DEF RunsFit, MapsFit
      <4>. QED  BY <1>0, <1>3, <3>2, <4>1
    <3>. QED  BY <3>1, <3>2
  <2>. QED  BY <1>1, <1>7, <2>1, <2>2, <2>3 DEF RunsFit, MapsFit
<1>10. RunsGoOn
  <2>1. "on_bus" \notin {"done", "dead"} \cup Settled  BY DEF Settled
  <2>. QED  BY <1>0, <1>1, <1>2, <1>3, <1>4, <1>8, <2>1 DEF RunsGoOn, IdsStay
<1>11. ReadersFit'  BY <1>1, <1>10, ReadersStay
<1>12. \A q \in Requests : RequestFits(q)'  BY <1>1, <1>10, RequestsStay
<1>13. DirectoriesFit'
  <2>1. \A t \in Starts : run'[t].file = "open" => run[t].step # "idle" /\ run[t].file = "open"
    BY <1>1, <1>3, <1>4 DEF RunsFit, RunFits, Live
  <2>. QED  BY <1>1, <1>10, <2>1, DirectoriesStay
<1>14. ASSUME NEW t \in Starts, run'[t].step # "idle", Sole(t)'  PROVE SoleFits(t)'
  <2>1. CASE t = s
    <3>1. Sole(s)  BY <1>1, <1>10, <1>14, <2>1, SoleStays DEF RunsGoOn
    <3>2. SoleFits(s)  BY <1>1, <3>1 DEF DiskFits
    <3>. QED  BY <1>0, <1>1, <1>2, <1>4, <1>8, <2>1, <3>2 DEF SoleFits
  <2>2. CASE t # s
    <3>1. run'[t] = run[t] /\ run[t].step # "idle"  BY <1>3, <1>14, <2>2
    <3>. QED  BY <1>1, <1>10, <1>14, <2>2, <3>1, OthersStay
  <2>. QED  BY <2>1, <2>2
<1>15. DiskFits'  BY <1>12, <1>13, <1>14 DEF DiskFits
<1>. QED  BY <1>6, <1>9, <1>11, <1>15 DEF ExtractorInv

\* persistState writes the state and makes the directory if need be.
LEMMA Persisted ==
    ASSUME ExtractorInv, NEW id \in Ids, NEW status \in Status, PersistState(id, status)
    PROVE  /\ disk' \in [Ids -> DiskTypes]
           /\ disk'[id].there /\ disk'[id].state = status /\ disk'[id].log = disk[id].log
           /\ \A i \in Ids : i # id => disk'[i] = disk[i]
  BY DEF ExtractorInv, Types, DiskTypes, PersistState

LEMMA SaveStartKeeps ==
    ASSUME ExtractorInv, NEW s \in Starts, SaveStart(s)
    PROVE  ExtractorInv'
<1>1. /\ run[s].step = "entered" /\ UNCHANGED <<runs, bus, request, stream, client>>
      /\ PersistState(run[s].id, "running") /\ run' = [run EXCEPT ![s].step = "running"]
      /\ run[s] \in RunTypes /\ RunFits(s) /\ Types /\ run[s].id \in Ids
  BY AtRun DEF SaveStart
<1>2. /\ run[s].seq = 0 /\ run[s].last = "none" /\ run[s].history = << >>
  BY <1>1 DEF RunFits, Silent
<1>3. /\ run'[s] = [run[s] EXCEPT !.step = "running"] /\ run' \in [Starts -> RunTypes]
      /\ \A t \in Starts : t # s => run'[t] = run[t]
  <2>1. "running" \in RunSteps  BY DEF RunSteps, Live
  <2>. QED  BY <1>1, <2>1 DEF Types, RunTypes
<1>4. /\ run'[s].step = "running" /\ run'[s].id = run[s].id /\ run'[s].seq = run[s].seq
      /\ run'[s].last = run[s].last /\ run'[s].history = run[s].history /\ run'[s].status = run[s].status
      /\ run'[s].file = run[s].file /\ run'[s].finished = run[s].finished
  BY <1>1, <1>3 DEF RunTypes
<1>5. /\ disk' \in [Ids -> DiskTypes] /\ disk'[run[s].id].there /\ disk'[run[s].id].log = disk[run[s].id].log
      /\ \A i \in Ids : i # run[s].id => disk'[i] = disk[i]
  <2>1. "running" \in Status  BY DEF Status, Active
  <2>. QED  BY <1>1, <2>1, Persisted
<1>6. RunFits(s)'
  <2>1. HistoryFits(s)'  BY <1>1, <1>4 DEF RunFits, HistoryFits
  <2>2. EndFits(s)'
    <3>1. 0 <= MaxProgress + 1  BY ExtractorAssumption DEF ExtractorAssumption
    <3>. QED  BY <1>2, <1>4, <3>1 DEF EndFits, Settled
  <2>. QED  BY <1>1, <1>4, <2>1, <2>2 DEF RunFits, Silent, Entered, Settled, Live
<1>7. SoleFits(s) => SoleFits(s)'
  BY <1>1, <1>4, <1>5 DEF SoleFits, Live
<1>8. "entered" \in Live /\ "running" \in Live /\ "running" \in InMemory /\ "entered" \notin Settled
  BY DEF Live, InMemory, Entered, Settled
<1>. QED  BY <1>1, <1>3, <1>4, <1>5, <1>6, <1>7, <1>8, RunMoves

\* The end of app.Run decides the status together with the context.
LEMMA FinishKeeps ==
    ASSUME ExtractorInv, NEW s \in Starts, Finish(s)
    PROVE  ExtractorInv'
<1>1. PICK error \in BOOLEAN :
          /\ \/ run[s].step = "running" /\ run[s].seq = 0 /\ error
             \/ run[s].step = "halted" /\ (run[s].error => error)
          /\ run' = [run EXCEPT ![s].step = "ended", ![s].status = EndStatus(s, error)]
  BY DEF Finish
<1>2. /\ UNCHANGED <<runs, bus, disk, request, stream, client>>
      /\ run[s] \in RunTypes /\ RunFits(s) /\ Types /\ run[s].id \in Ids
  BY <1>1, AtRun DEF Finish
<1>. DEFINE status == EndStatus(s, error)
<1>3. /\ status \in Ended /\ (run[s].cancelled => status = "cancelled")
      /\ ~ run[s].cancelled => status = IF error THEN "failed" ELSE "completed"
  BY DEF EndStatus, Ended
<1>. HIDE DEF status
<1>4. /\ run'[s] = [run[s] EXCEPT !.step = "ended", !.status = status] /\ run' \in [Starts -> RunTypes]
      /\ \A t \in Starts : t # s => run'[t] = run[t]
  <2>1. "ended" \in RunSteps /\ status \in Status  BY <1>3 DEF RunSteps, Live, Status
  <2>2. run' = [run EXCEPT ![s].step = "ended", ![s].status = status]  BY <1>1 DEF status
  <2>. QED  BY <1>2, <2>1, <2>2 DEF Types, RunTypes
<1>5. /\ run'[s].step = "ended" /\ run'[s].id = run[s].id /\ run'[s].seq = run[s].seq
      /\ run'[s].last = run[s].last /\ run'[s].history = run[s].history /\ run'[s].status = status
      /\ run'[s].file = run[s].file /\ run'[s].finished = run[s].finished
  BY <1>2, <1>4 DEF RunTypes
<1>6. RunFits(s)'
  <2>1. HistoryFits(s)'  BY <1>2, <1>5 DEF RunFits, HistoryFits
  <2>2. EndFits(s) /\ ~ run[s].finished  BY <1>1, <1>2 DEF RunFits
  <2>3. /\ run[s].last = "run_cancelled" => status = "cancelled"
        /\ run[s].last = "run_failed" => status # "completed"
        /\ status = "completed" => run[s].last = "run_completed"
    <3>1. CASE run[s].step = "running" /\ run[s].seq = 0 /\ error
      <4>1. run[s].last = "none"  BY <2>2, <3>1 DEF EndFits
      <4>. QED  BY <1>2, <1>3, <3>1, <4>1 DEF RunTypes
    <3>2. CASE run[s].step = "halted" /\ (run[s].error => error)
      <4>1. /\ run[s].last = "run_cancelled" => run[s].cancelled
            /\ run[s].last = "run_failed" => run[s].error
            /\ ~ run[s].cancelled /\ ~ run[s].error => run[s].last = "run_completed"
        BY <2>2, <3>2 DEF EndFits
      <4>2. run[s].cancelled \in BOOLEAN /\ run[s].error \in BOOLEAN  BY <1>2 DEF RunTypes
      <4>. QED  BY <1>3, <3>2, <4>1, <4>2
    <3>. QED  BY <1>1, <3>1, <3>2
  <2>4. EndFits(s)'  BY <1>5, <2>3 DEF EndFits
  <2>5. "ended" \in Settled /\ "ended" \in Live /\ "ended" \notin Entered \cup Silent \cup {"idle", "done"}
    BY DEF Settled, Live, Entered, Silent
  <2>. QED  BY <1>2, <1>3, <1>5, <2>1, <2>2, <2>4, <2>5 DEF RunFits
<1>7. run[s].step \in Live /\ run'[s].step \in Live /\ run'[s].step \in InMemory /\ run[s].step \notin Settled
  BY <1>1, <1>5 DEF Live, InMemory, Entered, Settled
<1>8. SoleFits(s) => SoleFits(s)'
  BY <1>2, <1>5, <1>7 DEF SoleFits
<1>9. disk' \in [Ids -> DiskTypes] /\ (~ disk[run[s].id].there => disk[run[s].id] = NoDirectory)
  BY <1>2 DEF Types, ExtractorInv, DiskFits, DirectoriesFit
<1>. QED  BY <1>2, <1>4, <1>5, <1>6, <1>7, <1>8, <1>9, RunMoves

LEMMA SaveEndKeeps ==
    ASSUME ExtractorInv, NEW s \in Starts, SaveEnd(s)
    PROVE  ExtractorInv'
<1>1. /\ run[s].step = "ended" /\ UNCHANGED <<runs, bus, request, stream, client>>
      /\ PersistState(run[s].id, run[s].status) /\ run' = [run EXCEPT ![s].step = "saved"]
      /\ run[s] \in RunTypes /\ RunFits(s) /\ Types /\ run[s].id \in Ids
  BY AtRun DEF SaveEnd
<1>2. /\ run'[s] = [run[s] EXCEPT !.step = "saved"] /\ run' \in [Starts -> RunTypes]
      /\ \A t \in Starts : t # s => run'[t] = run[t]
  <2>1. "saved" \in RunSteps  BY DEF RunSteps, Live
  <2>. QED  BY <1>1, <2>1 DEF Types, RunTypes
<1>3. /\ run'[s].step = "saved" /\ run'[s].id = run[s].id /\ run'[s].seq = run[s].seq
      /\ run'[s].last = run[s].last /\ run'[s].history = run[s].history /\ run'[s].status = run[s].status
      /\ run'[s].file = run[s].file /\ run'[s].finished = run[s].finished
  BY <1>1, <1>2 DEF RunTypes
<1>4. /\ disk' \in [Ids -> DiskTypes] /\ disk'[run[s].id].there /\ disk'[run[s].id].log = disk[run[s].id].log
      /\ disk'[run[s].id].state = run[s].status
      /\ \A i \in Ids : i # run[s].id => disk'[i] = disk[i]
  <2>1. run[s].status \in Status  BY <1>1 DEF RunTypes
  <2>. QED  BY <1>1, <2>1, Persisted
<1>5. {"saved", "ended"} \subseteq Settled \cap Live \cap InMemory
      /\ "saved" \notin Entered \cup Silent \cup {"idle", "done"}
  BY DEF Settled, Live, Entered, Silent, InMemory
<1>6. RunFits(s)'
  <2>1. HistoryFits(s)'  BY <1>1, <1>3 DEF RunFits, HistoryFits
  <2>2. EndFits(s)'  BY <1>1, <1>3, <1>5 DEF RunFits, EndFits
  <2>. QED  BY <1>1, <1>3, <1>5, <2>1, <2>2 DEF RunFits
<1>7. SoleFits(s) => SoleFits(s)'
  <2>1. run[s].file = "open" \/ run[s].file = "unlinked" \/ run[s].file = "closed"  BY <1>1 DEF RunTypes
  <2>. QED  BY <1>1, <1>3, <1>4, <1>5, <2>1 DEF SoleFits
<1>. QED  BY <1>1, <1>2, <1>3, <1>4, <1>5, <1>6, <1>7, RunMoves

-----------------------------------------------------------------------------
(***************************************************************************)
(* Requests: no run leaves its place for one.                              *)
(***************************************************************************)
LEMMA ServeMoves ==
    ASSUME ExtractorInv, NEW q \in Requests, UNCHANGED <<runs, bus, stream, client>>,
           run' \in [Starts -> RunTypes], disk' \in [Ids -> DiskTypes],
           request' \in [Requests -> RequestTypes],
           \A p \in Requests : p # q => request'[p] = request[p],
           \A t \in Starts : run'[t].step = run[t].step /\ run'[t].id = run[t].id /\ run'[t].seq = run[t].seq,
           \A t \in Starts : RunFits(t)', RequestFits(q)', DirectoriesFit',
           \A t \in Starts : run[t].step # "idle" /\ Sole(t) /\ SoleFits(t) => SoleFits(t)'
    PROVE  ExtractorInv'
<1>1. Types /\ RunsFit /\ DiskFits  BY DEF ExtractorInv
<1>2. Types'  BY <1>1 DEF Types
<1>3. RunsGoOn  BY DEF RunsGoOn, IdsStay
<1>4. RunsFit'
  <2>1. ASSUME NEW t \in Starts  PROVE BusHasIt(t)'  BY <1>1 DEF RunsFit, MapsFit, BusHasIt
  <2>. QED  BY <1>1, <2>1 DEF RunsFit, MapsFit
<1>5. ReadersFit'  BY <1>3, ReadersStay
<1>6. \A p \in Requests : RequestFits(p)'
  <2>1. \A p \in Requests : p # q => RequestFits(p)'  BY <1>3, RequestsStay
  <2>. QED  BY <2>1
<1>7. \A t \in Starts : run'[t].step # "idle" /\ Sole(t)' => SoleFits(t)'
  <2>. SUFFICES ASSUME NEW t \in Starts, run'[t].step # "idle", Sole(t)'  PROVE SoleFits(t)'
    OBVIOUS
  <2>1. run[t].step # "idle"  OBVIOUS
  <2>2. Sole(t)  BY <1>3, <2>1, SoleStays DEF RunsGoOn
  <2>3. SoleFits(t)  BY <1>1, <2>1, <2>2 DEF DiskFits
  <2>. QED  BY <2>1, <2>2, <2>3
<1>8. DiskFits'  BY <1>6, <1>7 DEF DiskFits
<1>. QED  BY <1>2, <1>4, <1>5, <1>8 DEF ExtractorInv

\* No request is about the only start of an id before that has begun.
LEMMA NobodyAsksTooEarly ==
    ASSUME ExtractorInv, NEW t \in Starts, run[t].step = "allocated", Sole(t), NEW id \in Ids, id = run[t].id
    PROVE  /\ ~ disk[id].there /\ runs[id] = None
           /\ \A q \in Requests : request[q].id # id
<1>1. SoleFits(t) /\ MapsFit /\ Types  BY DEF ExtractorInv, DiskFits, RunsFit
<1>2. disk[id] = NoDirectory /\ \A q \in Requests : request[q].id # id  BY <1>1 DEF SoleFits
<1>3. ASSUME NEW u \in Starts, runs[id] = u  PROVE FALSE
  <2>1. run[u].id = id /\ run[u].step \in InMemory  BY <1>1, <1>3 DEF MapsFit
  <2>2. u # t  BY <2>1 DEF InMemory, Entered, Settled
  <2>. QED  BY <2>1, <2>2 DEF Sole
<1>. QED  BY <1>1, <1>2, <1>3 DEF Types, NoDirectory

LEMMA AnswersFit ==
    /\ Answered \in RequestTypes /\ Answered.step = "done" /\ Answered.id = None /\ Answered.on = None
    /\ NoRequest \in RequestTypes /\ NoRequest.step = "idle" /\ NoRequest.id = None /\ NoRequest.on = None
  BY DEF Answered, NoRequest, RequestTypes

\* What the run of an entry in the manager's map is known to be.
LEMMA EntriesAreRuns ==
    ASSUME ExtractorInv, NEW id \in Ids, NEW s \in Starts, runs[id] = s
    PROVE  /\ run[s].id = id /\ run[s].step \in InMemory
           /\ run[s].status \in Active => run[s].step \in Entered
           /\ run[s].status \notin Active => run[s].step \in Settled
  BY AtRun DEF RunsFit, MapsFit, InMemory, RunFits, Active, Ended

LEMMA AskKeeps ==
    ASSUME ExtractorInv, NEW q \in Requests, NEW id \in Ids, NEW delete \in BOOLEAN, Ask(q, id, delete)
    PROVE  ExtractorInv'
<1>. DEFINE step == IF delete /\ StateOf(id) \notin Active THEN "remove" ELSE "cancel"
            new == [id |-> id, delete |-> delete, on |-> runs[id], step |-> step]
<1>1. /\ UNCHANGED <<runs, bus, run, disk, stream, client>> /\ request' = [request EXCEPT ![q] = new]
      /\ disk[id].there \/ runs[id] # None
      /\ Types /\ RunsFit /\ DiskFits
  BY DEF Ask, ExtractorInv
<1>2. new \in RequestTypes /\ request'[q] = new /\ request' \in [Requests -> RequestTypes]
      /\ (\A p \in Requests : p # q => request'[p] = request[p])
  <2>1. runs[id] \in Starts \cup {None}  BY <1>1 DEF Types
  <2>2. new \in RequestTypes  BY <2>1 DEF RequestTypes
  <2>. QED  BY <1>1, <2>2 DEF Types
<1>3. RequestFits(q)'
  <2>1. Given(id)
    <3>1. disk[id].there => Given(id)  BY <1>1 DEF DiskFits, DirectoriesFit
    <3>2. runs[id] \in Starts => Given(id)  BY EntriesAreRuns DEF Given
    <3>. QED  BY <1>1, <3>1, <3>2 DEF Types
  <2>2. ASSUME NEW s \in Starts, runs[id] = s
        PROVE  run[s].step \in InMemory /\ (step = "remove" => run[s].step \in Settled)
    <3>1. runs[id] # None  BY <2>2, NoneIsNothing
    <3>2. step = "remove" => run[s].status \notin Active  BY <2>2, <3>1 DEF StateOf
    <3>. QED  BY <2>2, <3>2, EntriesAreRuns
  <2>3. /\ request'[q].id = id /\ request'[q].on = runs[id] /\ request'[q].step = step
        /\ step \notin {"idle", "done"}
    BY <1>2
  <2>. HIDE DEF step, new
  <2>4. Given(id)'  BY <1>1, <2>1 DEF Given
  <2>. QED  BY <1>1, <2>2, <2>3, <2>4 DEF RequestFits
<1>4. request'[q].id = id  BY <1>2
<1>. HIDE DEF step, new
<1>5. ASSUME NEW t \in Starts, run[t].step # "idle", Sole(t), SoleFits(t)  PROVE SoleFits(t)'
  <2>1. run[t].step = "allocated" => run[t].id # id  BY <1>1, <1>5, NobodyAsksTooEarly
  <2>. QED  BY <1>1, <1>2, <1>4, <1>5, <2>1 DEF SoleFits
<1>6. DirectoriesFit' /\ (\A t \in Starts : RunFits(t)')
  <2>1. ASSUME NEW t \in Starts  PROVE RunFits(t)'
    BY <1>1 DEF RunsFit, RunFits, HistoryFits, EndFits
  <2>2. DirectoriesFit'
    <3>1. \A i \in Ids : Given(i)' <=> Given(i)  BY <1>1 DEF Given
    <3>. QED  BY <1>1, <3>1 DEF DiskFits, DirectoriesFit
  <2>. QED  BY <2>1, <2>2
<1>. QED  BY <1>1, <1>2, <1>3, <1>5, <1>6, ServeMoves DEF Types

\* A request that goes on with its id.
LEMMA ServesOn ==
    ASSUME ExtractorInv, NEW q \in Requests, UNCHANGED <<runs, bus, run, disk, stream, client>>,
           request' \in [Requests -> RequestTypes],
           \A p \in Requests : p # q => request'[p] = request[p],
           request'[q].id \in {request[q].id, None}, RequestFits(q)'
    PROVE  ExtractorInv'
<1>1. Types /\ RunsFit /\ DiskFits  BY DEF ExtractorInv
<1>2. ASSUME NEW t \in Starts, run[t].step # "idle", Sole(t), SoleFits(t)  PROVE SoleFits(t)'
  <2>1. run[t].id # None  BY <1>2, AtRun
  <2>. QED  BY <1>2, <2>1 DEF SoleFits
<1>3. ASSUME NEW t \in Starts  PROVE RunFits(t)'
  BY <1>1 DEF RunsFit, RunFits, HistoryFits, EndFits
<1>4. DirectoriesFit'
  <2>1. \A i \in Ids : Given(i)' <=> Given(i)  BY DEF Given
  <2>. QED  BY <1>1, <2>1 DEF DiskFits, DirectoriesFit
<1>. QED  BY <1>1, <1>2, <1>3, <1>4, ServeMoves DEF Types

\* Cancel has found a running run and marks it, or has nothing to mark.
LEMMA MarkCancellingKeeps ==
    ASSUME ExtractorInv, NEW q \in Requests, MarkCancelling(q)
    PROVE  ExtractorInv'
<1>1. /\ request[q].step = "cancel" /\ UNCHANGED <<runs, bus, disk, stream, client>>
      /\ Types /\ RunsFit /\ DiskFits /\ RequestFits(q) /\ request[q] \in RequestTypes
  BY DEF MarkCancelling, ExtractorInv, DiskFits, Types
<1>2. PICK id \in Ids : id = request[q].id  BY <1>1 DEF RequestFits
<1>3. Given(id) /\ id # None  BY <1>1, <1>2, NoneIsNothing DEF RequestFits
<1>4. CASE Running(id)
  <2>1. PICK s \in Starts : runs[id] = s /\ run[s].status = "running"  BY <1>4 DEF Running
  <2>2. /\ run' = [run EXCEPT ![s].status = "cancelling"]
        /\ request' = [request EXCEPT ![q].step = "save", ![q].on = s]
    BY <1>2, <1>4, <2>1 DEF MarkCancelling
  <2>3. run[s].id = id /\ run[s].step \in Entered /\ run[s].step \in InMemory /\ run[s] \in RunTypes /\ RunFits(s)
    BY <2>1, EntriesAreRuns, AtRun DEF Active
  <2>4. /\ run'[s] = [run[s] EXCEPT !.status = "cancelling"] /\ run' \in [Starts -> RunTypes]
        /\ \A t \in Starts : t # s => run'[t] = run[t]
    <3>1. "cancelling" \in Status  BY DEF Status, Active
    <3>. QED  BY <1>1, <2>2, <2>3, <3>1 DEF Types, RunTypes
  <2>5. /\ run'[s].step = run[s].step /\ run'[s].id = run[s].id /\ run'[s].seq = run[s].seq
        /\ run'[s].last = run[s].last /\ run'[s].history = run[s].history /\ run'[s].status = "cancelling"
        /\ run'[s].cancelled = run[s].cancelled /\ run'[s].error = run[s].error
        /\ run'[s].file = run[s].file /\ run'[s].finished = run[s].finished
    BY <2>3, <2>4 DEF RunTypes
  <2>6. /\ request'[q].step = "save" /\ request'[q].on = s /\ request'[q].id = id
        /\ request' \in [Requests -> RequestTypes] /\ \A p \in Requests : p # q => request'[p] = request[p]
    BY <1>1, <1>2, <2>2 DEF Types, RequestTypes
  <2>7. \A t \in Starts : RunFits(t)'
    <3>1. RunFits(s)'
      <4>1. HistoryFits(s)'  BY <2>3, <2>5 DEF RunFits, HistoryFits
      <4>2. EndFits(s)'  BY <2>3, <2>5 DEF RunFits, EndFits, Entered, Settled
      <4>. QED  BY <2>3, <2>5, <4>1, <4>2 DEF RunFits, Entered, Settled, Active
    <3>2. ASSUME NEW t \in Starts, t # s  PROVE RunFits(t)'
      BY <1>1, <2>4, <3>2 DEF RunsFit, RunFits, HistoryFits, EndFits
    <3>. QED  BY <3>1, <3>2
  <2>8. \A i \in Ids : Given(i)' <=> Given(i)  BY <2>4, <2>5 DEF Given
  <2>9. RequestFits(q)'
    BY <1>2, <1>3, <2>3, <2>5, <2>6, <2>8 DEF RequestFits
  <2>10. DirectoriesFit'
    <3>1. DirectoriesFit  BY <1>1 DEF DiskFits
    <3>2. \A t \in Starts : run'[t].id = run[t].id /\ run'[t].file = run[t].file  BY <2>4, <2>5
    <3>. QED  BY <1>1, <2>8, <3>1, <3>2 DEF DirectoriesFit
  <2>11. ASSUME NEW t \in Starts, SoleFits(t)  PROVE SoleFits(t)'
    <3>1. /\ run'[t].step = run[t].step /\ run'[t].id = run[t].id /\ run'[t].seq = run[t].seq
          /\ run'[t].file = run[t].file
          /\ run[t].step \in {"saved", "done"} => run'[t].status = run[t].status
      BY <2>3, <2>4, <2>5 DEF Entered
    <3>2. \A p \in Requests : request'[p].id = request[p].id  BY <1>2, <2>6
    <3>. QED  BY <1>1, <2>11, <3>1, <3>2 DEF SoleFits
  <2>12. \A t \in Starts : run'[t].step = run[t].step /\ run'[t].id = run[t].id /\ run'[t].seq = run[t].seq
    BY <2>4, <2>5
  <2>13. disk' \in [Ids -> DiskTypes]  BY <1>1 DEF Types
  <2>. QED  BY <1>1, <2>4, <2>6, <2>7, <2>9, <2>10, <2>11, <2>12, <2>13, ServeMoves
<1>5. CASE ~ Running(id)
  <2>1. AfterCancel(q, runs[id]) /\ run' = run  BY <1>2, <1>5 DEF MarkCancelling
  <2>2. runs[id] \in Starts \cup {None}  BY <1>1 DEF Types
  <2>3. \A s \in Starts : runs[id] = s => run[s].step \in InMemory  BY EntriesAreRuns
  <2>4. CASE request[q].delete
    <3>1. request' = [request EXCEPT ![q].step = "wait", ![q].on = runs[id]]  BY <1>1, <2>1, <2>4 DEF AfterCancel, Types
    <3>2. /\ request'[q].step = "wait" /\ request'[q].on = runs[id] /\ request'[q].id = id
          /\ request' \in [Requests -> RequestTypes] /\ \A p \in Requests : p # q => request'[p] = request[p]
      BY <1>1, <1>2, <2>2, <3>1 DEF Types, RequestTypes
    <3>3. Given(id)'  BY <1>3, <2>1 DEF Given
    <3>4. RequestFits(q)'  BY <1>2, <2>1, <2>3, <3>2, <3>3 DEF RequestFits
    <3>. QED  BY <1>1, <1>2, <2>1, <3>2, <3>4, ServesOn
  <2>5. CASE ~ request[q].delete
    <3>1. request' = [request EXCEPT ![q] = Answered]  BY <1>1, <2>1, <2>5 DEF AfterCancel
    <3>2. /\ request'[q] = Answered /\ request' \in [Requests -> RequestTypes]
          /\ \A p \in Requests : p # q => request'[p] = request[p]
      BY <1>1, <3>1, AnswersFit DEF Types
    <3>3. RequestFits(q)'  BY <3>2, AnswersFit, NoneIsNothing DEF RequestFits
    <3>. QED  BY <1>1, <2>1, <3>2, <3>3, AnswersFit, ServesOn
  <2>. QED  BY <2>4, <2>5
<1>. QED  BY <1>4, <1>5

LEMMA SaveCancellingKeeps ==
    ASSUME ExtractorInv, NEW q \in Requests, SaveCancelling(q)
    PROVE  ExtractorInv'
<1>1. /\ request[q].step = "save" /\ UNCHANGED <<runs, bus, run, stream, client>>
      /\ PersistState(request[q].id, "cancelling") /\ request' = [request EXCEPT ![q].step = "signal"]
      /\ Types /\ RunsFit /\ DiskFits /\ RequestFits(q) /\ request[q] \in RequestTypes
  BY DEF SaveCancelling, ExtractorInv, DiskFits, Types
<1>2. PICK id \in Ids : id = request[q].id  BY <1>1 DEF RequestFits
<1>3. Given(id) /\ id # None  BY <1>1, <1>2, NoneIsNothing DEF RequestFits
<1>4. /\ disk' \in [Ids -> DiskTypes] /\ disk'[id].there /\ disk'[id].log = disk[id].log
      /\ disk'[id].state = "cancelling"
      /\ \A i \in Ids : i # id => disk'[i] = disk[i]
  <2>1. "cancelling" \in Status  BY DEF Status, Active
  <2>. QED  BY <1>1, <1>2, <2>1, Persisted
<1>5. /\ request'[q].step = "signal" /\ request'[q].id = id /\ request'[q].on = request[q].on
      /\ request' \in [Requests -> RequestTypes] /\ \A p \in Requests : p # q => request'[p] = request[p]
  BY <1>1, <1>2 DEF Types, RequestTypes
<1>6. \A i \in Ids : Given(i)' <=> Given(i)  BY <1>1 DEF Given
<1>7. RequestFits(q)'
  <2>1. Given(id)'  BY <1>3, <1>6
  <2>. QED  BY <1>1, <1>5, <2>1 DEF RequestFits
<1>8. DirectoriesFit'
  <2>1. DirectoriesFit  BY <1>1 DEF DiskFits
  <2>. QED  BY <1>1, <1>3, <1>4, <1>6, <2>1 DEF DirectoriesFit
<1>9. ASSUME NEW t \in Starts, run[t].step # "idle", Sole(t), SoleFits(t)  PROVE SoleFits(t)'
  <2>1. run[t].step = "allocated" => run[t].id # id  BY <1>2, <1>9, NobodyAsksTooEarly
  <2>2. run[t].id \in Ids  BY <1>9, AtRun
  <2>3. \A p \in Requests : request'[p].id = request[p].id  BY <1>2, <1>5
  <2>4. CASE run[t].id = id  BY <1>1, <1>4, <1>9, <2>1, <2>3, <2>4 DEF SoleFits
  <2>5. CASE run[t].id # id
    <3>1. disk'[run[t].id] = disk[run[t].id]  BY <1>4, <2>2, <2>5
    <3>. QED  BY <1>1, <1>9, <2>3, <3>1 DEF SoleFits
  <2>. QED  BY <2>4, <2>5
<1>10. ASSUME NEW t \in Starts  PROVE RunFits(t)'
  BY <1>1 DEF RunsFit, RunFits, HistoryFits, EndFits
<1>. QED  BY <1>1, <1>4, <1>5, <1>7, <1>8, <1>9, <1>10, ServeMoves DEF Types

LEMMA CancelContextKeeps ==
    ASSUME ExtractorInv, NEW q \in Requests, CancelContext(q)
    PROVE  ExtractorInv'
<1>1. /\ request[q].step = "signal" /\ UNCHANGED <<runs, bus, disk, stream, client>>
      /\ run' = [run EXCEPT ![request[q].on].cancelled = TRUE] /\ AfterCancel(q, request[q].on)
      /\ Types /\ RunsFit /\ DiskFits /\ RequestFits(q) /\ request[q] \in RequestTypes
  BY DEF CancelContext, ExtractorInv, DiskFits, Types
<1>2. PICK id \in Ids : id = request[q].id  BY <1>1 DEF RequestFits
<1>3. Given(id) /\ id # None  BY <1>1, <1>2, NoneIsNothing DEF RequestFits
<1>4. ASSUME NEW t \in Starts
      PROVE  /\ run'[t] \in RunTypes
             /\ run'[t].step = run[t].step /\ run'[t].id = run[t].id /\ run'[t].seq = run[t].seq
             /\ run'[t].last = run[t].last /\ run'[t].history = run[t].history /\ run'[t].status = run[t].status
             /\ run'[t].error = run[t].error /\ run'[t].file = run[t].file /\ run'[t].finished = run[t].finished
             /\ run'[t].cancelled = run[t].cancelled \/ run'[t].cancelled = TRUE
             /\ request[q].on # t => run'[t] = run[t]
  <2>1. run[t] \in RunTypes  BY <1>1 DEF Types
  <2>2. CASE t = request[q].on
    <3>1. run'[t] = [run[t] EXCEPT !.cancelled = TRUE]  BY <1>1, <2>2 DEF Types
    <3>. QED  BY <2>1, <2>2, <3>1 DEF RunTypes
  <2>3. CASE t # request[q].on
    <3>1. run'[t] = run[t]  BY <1>1, <2>3 DEF Types
    <3>. QED  BY <2>1, <3>1
  <2>. QED  BY <2>2, <2>3
<1>5. run' \in [Starts -> RunTypes]
  <2>1. run' = [t \in Starts |-> run'[t]]  BY <1>1 DEF Types
  <2>. QED  BY <1>4, <2>1
<1>6. ASSUME NEW t \in Starts  PROVE RunFits(t)'
  <2>1. RunFits(t)  BY AtRun
  <2>2. run[t].step = "idle" => run'[t] = run[t]
    <3>1. request[q].on = t => run[t].step # "idle"  BY <1>1 DEF RequestFits, InMemory, Entered, Settled
    <3>. QED  BY <1>4, <3>1
  <2>3. HistoryFits(t)'
    <3>1. run'[t].history = run[t].history /\ run'[t].seq = run[t].seq  BY <1>4
    <3>. QED  BY <2>1, <3>1 DEF RunFits, HistoryFits
  <2>4. EndFits(t)'
    <3>1. EndFits(t)  BY <2>1 DEF RunFits
    <3>. QED  BY <1>4, <3>1 DEF EndFits
  <2>. QED  BY <1>4, <2>1, <2>2, <2>3, <2>4 DEF RunFits
<1>7. \A i \in Ids : Given(i)' <=> Given(i)  BY <1>4 DEF Given
<1>8. DirectoriesFit'
  <2>1. DirectoriesFit  BY <1>1 DEF DiskFits
  <2>2. \A t \in Starts : run'[t].id = run[t].id /\ run'[t].file = run[t].file  BY <1>4
  <2>. QED  BY <1>1, <1>7, <2>1, <2>2 DEF DirectoriesFit
<1>9. /\ request' \in [Requests -> RequestTypes] /\ \A p \in Requests : p # q => request'[p] = request[p]
      /\ request'[q].id \in {id, None} /\ RequestFits(q)'
  <2>1. CASE request[q].delete
    <3>1. request' = [request EXCEPT ![q].step = "wait", ![q].on = request[q].on]
      BY <1>1, <2>1 DEF AfterCancel, Types
    <3>2. /\ request'[q].step = "wait" /\ request'[q].on = request[q].on /\ request'[q].id = id
          /\ request' \in [Requests -> RequestTypes] /\ \A p \in Requests : p # q => request'[p] = request[p]
      BY <1>1, <1>2, <3>1 DEF Types, RequestTypes
    <3>3. Given(id)'  BY <1>3, <1>7
    <3>4. \A s \in Starts : request[q].on = s => run'[s].step \in InMemory  BY <1>1, <1>4 DEF RequestFits
    <3>5. RequestFits(q)'  BY <1>2, <3>2, <3>3, <3>4 DEF RequestFits
    <3>. QED  BY <3>2, <3>5
  <2>2. CASE ~ request[q].delete
    <3>1. request' = [request EXCEPT ![q] = Answered]  BY <1>1, <2>2 DEF AfterCancel
    <3>2. /\ request'[q] = Answered /\ request' \in [Requests -> RequestTypes]
          /\ \A p \in Requests : p # q => request'[p] = request[p]
      BY <1>1, <3>1, AnswersFit DEF Types
    <3>3. RequestFits(q)'  BY <3>2, AnswersFit, NoneIsNothing DEF RequestFits
    <3>. QED  BY <3>2, <3>3, AnswersFit
  <2>. QED  BY <2>1, <2>2
<1>10. ASSUME NEW t \in Starts, run[t].step # "idle", Sole(t), SoleFits(t)  PROVE SoleFits(t)'
  <2>1. run[t].id # None  BY <1>10, AtRun
  <2>2. \A p \in Requests : request[p].id # run[t].id => request'[p].id # run[t].id
    BY <1>2, <1>9, <2>1
  <2>3. /\ run'[t].step = run[t].step /\ run'[t].id = run[t].id /\ run'[t].seq = run[t].seq
        /\ run'[t].file = run[t].file /\ run'[t].status = run[t].status
    BY <1>4
  <2>. QED  BY <1>1, <1>10, <2>2, <2>3 DEF SoleFits
<1>. QED  BY <1>1, <1>4, <1>5, <1>6, <1>8, <1>9, <1>10, ServeMoves DEF Types

\* A deletion has seen its run end.
LEMMA WaitForKeeps ==
    ASSUME ExtractorInv, NEW q \in Requests, WaitFor(q)
    PROVE  ExtractorInv'
<1>1. /\ request[q].step = "wait" /\ UNCHANGED <<runs, bus, run, disk, stream, client>>
      /\ \A s \in Starts : request[q].on = s => run[s].step = "done"
      /\ request' = [request EXCEPT ![q].step = "remove"]
      /\ Types /\ RequestFits(q) /\ request[q] \in RequestTypes
  BY DEF WaitFor, Over, ExtractorInv, DiskFits, Types
<1>2. PICK id \in Ids : id = request[q].id  BY <1>1 DEF RequestFits
<1>3. Given(id)'  BY <1>1, <1>2, NoneIsNothing DEF RequestFits, Given
<1>4. /\ request'[q].step = "remove" /\ request'[q].on = request[q].on /\ request'[q].id = id
      /\ request' \in [Requests -> RequestTypes] /\ \A p \in Requests : p # q => request'[p] = request[p]
  BY <1>1, <1>2 DEF Types, RequestTypes
<1>5. RequestFits(q)'
  <2>1. "done" \in Settled /\ "done" \in InMemory  BY DEF Settled, InMemory
  <2>. QED  BY <1>1, <1>3, <1>4, <2>1 DEF RequestFits
<1>. QED  BY <1>1, <1>2, <1>4, <1>5, ServesOn

\* The directory goes, and an open log with it.
LEMMA RemoveRunKeeps ==
    ASSUME ExtractorInv, NEW q \in Requests, RemoveRun(q)
    PROVE  ExtractorInv'
<1>1. /\ request[q].step = "remove" /\ UNCHANGED <<runs, bus, stream, client>>
      /\ request' = [request EXCEPT ![q] = Answered]
      /\ Types /\ RunsFit /\ DiskFits /\ RequestFits(q) /\ request[q] \in RequestTypes
  BY DEF RemoveRun, ExtractorInv, DiskFits, Types
<1>2. PICK id \in Ids : id = request[q].id  BY <1>1 DEF RequestFits
<1>3. /\ disk' = [disk EXCEPT ![id] = NoDirectory]
      /\ run' = [s \in Starts |-> IF run[s].id = id /\ run[s].file = "open"
                                  THEN [run[s] EXCEPT !.file = "unlinked"] ELSE run[s]]
  BY <1>2 DEF RemoveRun
<1>4. ASSUME NEW t \in Starts
      PROVE  /\ run'[t] \in RunTypes
             /\ run'[t].step = run[t].step /\ run'[t].id = run[t].id /\ run'[t].seq = run[t].seq
             /\ run'[t].last = run[t].last /\ run'[t].history = run[t].history /\ run'[t].status = run[t].status
             /\ run'[t].error = run[t].error /\ run'[t].finished = run[t].finished
             /\ run'[t].cancelled = run[t].cancelled
             /\ run'[t].file = IF run[t].id = id /\ run[t].file = "open" THEN "unlinked" ELSE run[t].file
             /\ run[t].file # "open" => run'[t] = run[t]
  <2>1. run[t] \in RunTypes  BY <1>1 DEF Types
  <2>2. CASE run[t].id = id /\ run[t].file = "open"
    <3>1. run'[t] = [run[t] EXCEPT !.file = "unlinked"]  BY <1>3, <2>2
    <3>. QED  BY <2>1, <2>2, <3>1 DEF RunTypes
  <2>3. CASE ~ (run[t].id = id /\ run[t].file = "open")
    <3>1. run'[t] = run[t]  BY <1>3, <2>3
    <3>. QED  BY <2>1, <2>3, <3>1
  <2>. QED  BY <2>2, <2>3
<1>5. run' \in [Starts -> RunTypes]  BY <1>3, <1>4
<1>6. NoDirectory \in DiskTypes /\ ~ NoDirectory.there /\ NoDirectory.log = << >> /\ NoDirectory.state = "none"
      /\ Len(NoDirectory.log) = 0
  <2>1. "none" \in Status  BY DEF Status
  <2>. QED  BY <2>1 DEF NoDirectory, DiskTypes
<1>7. disk' \in [Ids -> DiskTypes] /\ disk'[id] = NoDirectory /\ \A i \in Ids : i # id => disk'[i] = disk[i]
  BY <1>1, <1>3, <1>6 DEF Types
<1>8. /\ request'[q] = Answered /\ request' \in [Requests -> RequestTypes]
      /\ \A p \in Requests : p # q => request'[p] = request[p]
  BY <1>1, AnswersFit DEF Types
<1>9. RequestFits(q)'  BY <1>8, AnswersFit, NoneIsNothing DEF RequestFits
<1>10. ASSUME NEW t \in Starts  PROVE RunFits(t)'
  <2>1. RunFits(t) /\ run[t] \in RunTypes  BY AtRun
  <2>2. HistoryFits(t)'  BY <1>4, <2>1 DEF RunFits, HistoryFits
  <2>3. EndFits(t)'
    <3>1. EndFits(t)  BY <2>1 DEF RunFits
    <3>. QED  BY <1>4, <3>1 DEF EndFits
  <2>4. run[t].step = "idle" => run'[t] = run[t]
    <3>1. run[t].step = "idle" => run[t].file = "closed"  BY <2>1 DEF RunFits, NoStart
    <3>. QED  BY <1>4, <3>1
  <2>5. run'[t].file # "closed" => run[t].step \in Live  BY <1>4, <2>1 DEF RunFits
  <2>. QED  BY <1>4, <2>1, <2>2, <2>3, <2>4, <2>5 DEF RunFits
<1>11. \A i \in Ids : Given(i)' <=> Given(i)  BY <1>4 DEF Given
<1>12. DirectoriesFit'
  <2>1. DirectoriesFit  BY <1>1 DEF DiskFits
  <2>2. ASSUME NEW i \in Ids, i # id
        PROVE  /\ ~ disk'[i].there => disk'[i] = NoDirectory
               /\ disk'[i].there => Given(i)'
               /\ \A s \in Starts : run'[s].id = i /\ run'[s].file = "open" => disk'[i].there
    <3>1. \A s \in Starts : run'[s].id = run[s].id /\ (run'[s].file = "open" => run[s].file = "open")  BY <1>4
    <3>. QED  BY <1>7, <1>11, <2>1, <2>2, <3>1 DEF DirectoriesFit
  <2>3. ASSUME NEW s \in Starts, run'[s].id = id, run'[s].file = "open"  PROVE FALSE
    BY <1>4, <2>3
  <2>. QED  BY <1>6, <1>7, <2>2, <2>3 DEF DirectoriesFit
<1>13. ASSUME NEW t \in Starts, run[t].step # "idle", Sole(t), SoleFits(t)  PROVE SoleFits(t)'
  <2>1. run[t].id # None /\ run[t].id \in Ids /\ run[t] \in RunTypes  BY <1>13, AtRun
  <2>2. \A p \in Requests : request[p].id # run[t].id => request'[p].id # run[t].id
    BY <1>8, <2>1, AnswersFit
  <2>3. /\ run'[t].step = run[t].step /\ run'[t].id = run[t].id /\ run'[t].seq = run[t].seq
        /\ run'[t].file = IF run[t].id = id /\ run[t].file = "open" THEN "unlinked" ELSE run[t].file
        /\ run'[t].status = run[t].status
    BY <1>4
  <2>4. CASE run[t].id = id
    <3>1. run[t].step # "allocated"  BY <1>2, <1>13, <2>4, NobodyAsksTooEarly
    <3>2. disk'[run'[t].id] = NoDirectory  BY <1>7, <2>3, <2>4
    <3>3. run[t].seq >= 0 /\ run[t].seq \in Nat  BY <2>1 DEF RunTypes
    <3>. QED  BY <1>6, <1>13, <2>3, <2>4, <3>1, <3>2, <3>3 DEF SoleFits
  <2>5. CASE run[t].id # id
    <3>1. disk'[run'[t].id] = disk[run[t].id]  BY <1>7, <2>1, <2>3, <2>5
    <3>. QED  BY <1>13, <2>2, <2>3, <2>5, <3>1 DEF SoleFits
  <2>. QED  BY <2>4, <2>5
<1>. QED  BY <1>1, <1>4, <1>5, <1>7, <1>8, <1>9, <1>10, <1>12, <1>13, ServeMoves DEF Types

-----------------------------------------------------------------------------
(***************************************************************************)
(* The pipeline's events.                                                  *)
(***************************************************************************)
\* The history after one more event.
EndsWith(history, n) == \A i \in 1..Len(history) : history[i] = n - Len(history) + i

LEMMA HistoryGoesOn ==
    ASSUME NEW history \in Seq(Nat), NEW n \in Nat, Len(history) <= n, Len(history) <= HistorySize,
           EndsWith(history, n),
           NEW after, after = Append(Kept(history), n + 1)
    PROVE  /\ after \in Seq(Nat) /\ Len(after) <= n + 1 /\ Len(after) <= HistorySize
           /\ EndsWith(after, n + 1)
<1>0. HistorySize \in Nat /\ HistorySize >= 1 /\ Len(history) \in Nat
  BY ExtractorAssumption DEF ExtractorAssumption
<1>1. CASE Len(history) >= HistorySize
  <2>1. Kept(history) = Tail(history) /\ history # << >> /\ Len(history) >= 1
    BY <1>0, <1>1, EmptySeq DEF Kept
  <2>2. PICK kept \in Seq(Nat) : kept = Tail(history)  BY <2>1, HeadTailProperties
  <2>3. Len(kept) = Len(history) - 1 /\ \A i \in 1..Len(kept) : kept[i] = history[i + 1]
    BY <2>1, <2>2, HeadTailProperties
  <2>4. /\ after \in Seq(Nat) /\ Len(after) = Len(kept) + 1
        /\ \A i \in 1..Len(after) : after[i] = IF i <= Len(kept) THEN kept[i] ELSE n + 1
    BY <2>1, <2>2, AppendProperties
  <2>5. ASSUME NEW i \in 1..Len(after)  PROVE after[i] = n + 1 - Len(after) + i
    <3>1. CASE i <= Len(kept)
      <4>1. i \in 1..Len(kept) /\ i \in Nat /\ i + 1 \in 1..Len(history)  BY <1>0, <2>3, <2>4, <3>1
      <4>2. after[i] = kept[i] /\ kept[i] = history[i + 1]  BY <2>3, <2>4, <3>1, <4>1
      <4>3. history[i + 1] = n - Len(history) + (i + 1)  BY <4>1 DEF EndsWith
      <4>4. Len(after) = Len(history)  BY <1>0, <2>3, <2>4
      <4>5. i \in Nat  BY <4>1
      <4>6. n - Len(history) + (i + 1) = n + 1 - Len(history) + i  BY <1>0, <4>5
      <4>. QED  BY <4>2, <4>3, <4>4, <4>6
    <3>2. CASE i > Len(kept)
      <4>1. after[i] = n + 1  BY <2>4, <3>2
      <4>2. i = Len(after) /\ i \in Nat  BY <1>0, <2>3, <2>4, <3>2
      <4>. QED  BY <4>1, <4>2
    <3>3. i \in Int /\ Len(kept) \in Int  BY <1>0, <2>3
    <3>. QED  BY <3>1, <3>2, <3>3
  <2>6. Len(after) = Len(history)  BY <1>0, <2>3, <2>4
  <2>. QED  BY <1>0, <2>4, <2>5, <2>6 DEF EndsWith
<1>2. CASE Len(history) < HistorySize
  <2>1. Kept(history) = history  BY <1>0, <1>2 DEF Kept
  <2>2. /\ after \in Seq(Nat) /\ Len(after) = Len(history) + 1
        /\ \A i \in 1..Len(after) : after[i] = IF i <= Len(history) THEN history[i] ELSE n + 1
    BY <2>1, AppendProperties
  <2>3. ASSUME NEW i \in 1..Len(after)  PROVE after[i] = n + 1 - Len(after) + i
    <3>1. CASE i <= Len(history)
      <4>1. after[i] = history[i] /\ i \in 1..Len(history) /\ i \in Nat  BY <1>0, <2>2, <3>1
      <4>2. history[i] = n - Len(history) + i  BY <4>1 DEF EndsWith
      <4>3. PICK l \in Nat : Len(history) = l /\ Len(after) = l + 1  BY <1>0, <2>2
      <4>4. \A a, b \in Int : n - a + b = n + 1 - (a + 1) + b  OBVIOUS
      <4>5. i \in Int  BY <4>1
      <4>6. history[i] = n - l + i  BY <4>2, <4>3
      <4>7. n - l + i = n + 1 - (l + 1) + i  BY <4>4, <4>5
      <4>. QED  BY <4>1, <4>3, <4>6, <4>7
    <3>2. CASE i > Len(history)
      <4>1. after[i] = n + 1 /\ i = Len(after) /\ i \in Nat  BY <1>0, <2>2, <3>2
      <4>. QED  BY <4>1
    <3>. QED  BY <1>0, <2>2, <3>1, <3>2
  <2>. QED  BY <1>0, <1>2, <2>2, <2>3 DEF EndsWith
<1>. QED  BY <1>0, <1>1, <1>2

\* The last number that a reader has read.
LEMMA LastSeen ==
    ASSUME NEW r \in Readers, NEW s \in Starts, client[r] \in ClientTypes, run[s] \in RunTypes, GotFits(r, s)
    PROVE  /\ LastEventId(r) \in 0..run[s].seq
           /\ \A i \in 1..Len(client[r].got) : client[r].got[i] <= LastEventId(r)
           /\ client[r].got # << >> => LastEventId(r) = client[r].got[Len(client[r].got)] /\ LastEventId(r) > 0
<1>. DEFINE got == client[r].got
<1>1. got \in Seq(Nat) /\ run[s].seq \in Nat /\ Len(got) \in Nat  BY DEF ClientTypes, RunTypes
<1>2. CASE got = << >>
  <2>1. Len(got) = 0  BY <1>2, EmptySeq
  <2>. QED  BY <1>1, <1>2, <2>1 DEF LastEventId
<1>3. CASE got # << >>
  <2>1. Len(got) >= 1  BY <1>1, <1>3, EmptySeq
  <2>2. LastEventId(r) = got[Len(got)]  BY <1>3 DEF LastEventId, Last
  <2>3. got[Len(got)] \in 1..run[s].seq  BY <1>1, <2>1 DEF GotFits
  <2>4. ASSUME NEW i \in 1..Len(got)  PROVE got[i] <= got[Len(got)]
    <3>1. i < Len(got) => got[i] < got[Len(got)]  BY <1>1, <2>1 DEF GotFits
    <3>2. got[i] \in Nat /\ got[Len(got)] \in Nat  BY <1>1, <2>1
    <3>. QED  BY <1>1, <3>1, <3>2
  <2>. QED  BY <1>1, <1>3, <2>2, <2>3, <2>4
<1>. QED  BY <1>2, <1>3

\* Who listens to a run that has begun and not ended is on its list.
LEMMA ListenersAreListed ==
    ASSUME ExtractorInv, NEW s \in Starts, run[s].step \in Live, NEW r \in Readers
    PROVE  /\ stream[r].listed /\ stream[r].on = s =>
                  /\ stream[r].step = "live" /\ client[r].id = run[s].id
                  /\ ~ stream[r].closed /\ stream[r].closer = "none"
           /\ stream[r].step = "live" /\ stream[r].on = s => stream[r].listed
           /\ stream[r].step = "live" /\ Sole(s) /\ client[r].id = run[s].id => stream[r].on = s
<1>1. ConnectionFits(r) /\ stream[r] \in StreamTypes  BY DEF ExtractorInv, ReadersFit, Types
<1>2. run[s].step # "done"  BY DEF Live
<1>3. stream[r].listed => stream[r].step = "live"  BY <1>1 DEF ConnectionFits, StreamTypes, NoStream
<1>. QED  BY <1>1, <1>2, <1>3 DEF ConnectionFits, Sole

\* What the readers get of an event: those on the list, in their channel or,
\* if it is full, never.
Reached(s, seq) ==
    /\ stream' = [r \in Readers |->
           IF r \in Subscribers(s) /\ ~ (Len(stream[r].queue) >= Buffer)
           THEN [stream[r] EXCEPT !.queue = Append(@, seq)] ELSE stream[r]]
    /\ client' = [r \in Readers |->
           IF r \in Subscribers(s) /\ Len(stream[r].queue) >= Buffer
           THEN [client[r] EXCEPT !.lost = @ \cup {seq}] ELSE client[r]]

LEMMA EmitReaches ==
    ASSUME ExtractorInv, NEW s \in Starts, run[s].step = "running", IdsStay,
           NEW seq \in Nat, seq = run[s].seq + 1, run'[s].seq = seq, run'[s].step \in {"running", "halted"},
           \A t \in Starts : t # s => run'[t] = run[t],
           Reached(s, seq)
    PROVE  /\ ReadersFit'
           /\ stream' \in [Readers -> StreamTypes] /\ client' \in [Readers -> ClientTypes]
<1>1. /\ Types /\ run[s] \in RunTypes /\ run[s].seq \in Nat /\ run[s].id \in Ids /\ run[s].id # None
      /\ run'[s].id = run[s].id /\ run[s].step \in Live /\ run'[s].step \in Live
      /\ run[s].step \notin {"done", "dead"}
      /\ Buffer \in Nat
  BY AtRun, ExtractorAssumption DEF RunTypes, Live, IdsStay, ExtractorAssumption
<1>2. \A t \in Starts : run[t].step # "idle" /\ Sole(t)' => Sole(t)  BY SoleStays
<1>3. ASSUME NEW r \in Readers
      PROVE  /\ stream[r] \in StreamTypes /\ client[r] \in ClientTypes /\ ConnectionFits(r)
             /\ stream[r].queue \in Seq(Nat) /\ client[r].got \in Seq(Nat) /\ client[r].lost \subseteq Nat
             /\ Len(stream[r].queue) \in Nat
             /\ \A id \in Ids : id = client[r].id => Given(id)'
  <2>1. /\ stream[r] \in StreamTypes /\ client[r] \in ClientTypes /\ ConnectionFits(r)
    BY <1>1 DEF Types, ExtractorInv, ReadersFit
  <2>2. ASSUME NEW id \in Ids, id = client[r].id  PROVE Given(id)'
    <3>1. Given(id) /\ id # None  BY <2>1, <2>2, NoneIsNothing DEF ConnectionFits
    <3>. QED  BY <3>1, GivenStays
  <2>. QED  BY <2>1, <2>2 DEF StreamTypes, ClientTypes
\* A reader that is not on the list sees nothing.
<1>4. ASSUME NEW r \in Readers, r \notin Subscribers(s)
      PROVE  /\ stream'[r] = stream[r] /\ client'[r] = client[r] /\ ConnectionFits(r)'
             /\ \A t \in Starts : client[r].id # None /\ client[r].id = run'[t].id /\ Sole(t)' => ReaderFits(r, t)'
  <2>1. stream'[r] = stream[r] /\ client'[r] = client[r]  BY <1>4 DEF Reached
  <2>2. stream[r].step = "live" => stream[r].on # s
    BY <1>1, <1>4, ListenersAreListed DEF Subscribers
  <2>3. ConnectionFits(r)'
    <3>1. ConnectionFits(r) /\ \A id \in Ids : id = client[r].id => Given(id)'  BY <1>3
    <3>2. client'[r].id # None => Given(client[r].id)'
      <4>1. client[r].id \in Ids \cup {None}  BY <1>3 DEF ClientTypes
      <4>. QED  BY <2>1, <3>1, <4>1
    <3>3. stream[r].step = "live" => run'[stream[r].on] = run[stream[r].on]  BY <2>2, <3>1 DEF ConnectionFits
    <3>. QED  BY <2>1, <3>1, <3>2, <3>3 DEF ConnectionFits
  <2>4. ASSUME NEW t \in Starts, client[r].id # None, client[r].id = run'[t].id, Sole(t)'
        PROVE  ReaderFits(r, t)'
    <3>1. run[t].step # "idle"
      <4>1. Given(client[r].id)  BY <1>3, <2>4 DEF ConnectionFits
      <4>. QED  BY <2>4, <4>1, GivenIsShared
    <3>2. Sole(t) /\ run'[t].id = run[t].id  BY <1>2, <2>4, <3>1 DEF IdsStay
    <3>3. ReaderFits(r, t)  BY <2>4, <3>2 DEF ExtractorInv, ReadersFit
    <3>4. Seen(r)' = Seen(r) /\ LastEventId(r)' = LastEventId(r)  BY <2>1 DEF Seen, LastEventId
    <3>5. CASE t # s
      <4>1. run'[t] = run[t]  BY <3>5
      <4>2. GotFits(r, t)'  BY <2>1, <3>3, <3>4, <4>1 DEF ReaderFits, GotFits
      <4>3. ASSUME stream[r].step = "live"  PROVE LiveFits(r, t)'
        <5>1. LiveFits(r, t)  BY <3>3, <4>3 DEF ReaderFits
        <5>. QED  BY <2>1, <3>4, <4>1, <5>1 DEF LiveFits
      <4>4. stream[r].step = "replay" => ReplayFits(r, t)'  BY <2>1, <3>3, <3>4, <4>1 DEF ReaderFits, ReplayFits
      <4>. QED  BY <2>1, <4>2, <4>3, <4>4 DEF ReaderFits
    <3>6. CASE t = s
      <4>1. stream[r].step # "live"
        BY <1>1, <2>2, <2>4, <3>2, <3>6, ListenersAreListed
      <4>2. client[r].end # "live"  BY <1>1, <3>3, <3>6 DEF ReaderFits, GotFits
      <4>3. GotFits(r, t)'
        <5>1. GotFits(r, t)  BY <3>3 DEF ReaderFits
        <5>2. \A i \in 1..Len(client[r].got) : client[r].got[i] \in 1..seq  BY <1>1, <3>6, <5>1 DEF GotFits
        <5>. QED  BY <2>1, <3>4, <3>6, <4>2, <5>1, <5>2 DEF GotFits
      <4>4. stream[r].step = "replay" => ReplayFits(r, t)'
        <5>. SUFFICES ASSUME stream[r].step = "replay"  PROVE ReplayFits(r, t)'
          OBVIOUS
        <5>1. ReplayFits(r, s)  BY <3>3, <3>6 DEF ReaderFits
        <5>2. PICK q \in Nat, l \in Nat : q = Len(stream[r].queue) /\ l = Len(stream[r].source)
          <6>1. stream[r].source \in Seq(Nat)  BY <1>3 DEF StreamTypes
          <6>. QED  BY <1>3, <6>1, LenProperties
        <5>3. PICK k \in 0..run[s].seq :
                  /\ k + q + l <= run[s].seq
                  /\ \A i \in 1..q : stream[r].queue[i] = k + i
                  /\ \A j \in 1..l : stream[r].source[j] = k + q + j
                  /\ stream[r].from >= 1
                  /\ LastEventId(r) = IF k < stream[r].from - 1 THEN stream[r].from - 1 ELSE k
          BY <5>1, <5>2 DEF ReplayFits
        <5>4. k \in 0..seq /\ k + q + l <= seq
          <6>1. PICK m \in Nat : m = run[s].seq  BY <1>1
          <6>2. k \in Nat /\ k <= m /\ k + q + l <= m  BY <5>3, <6>1
          <6>3. seq = m + 1  BY <6>1
          <6>. QED  BY <6>2, <6>3
        <5>. QED  BY <2>1, <3>4, <3>6, <5>2, <5>3, <5>4 DEF ReplayFits
      <4>. QED  BY <2>1, <4>1, <4>3, <4>4 DEF ReaderFits
    <3>. QED  BY <3>5, <3>6
  <2>. QED  BY <2>1, <2>3, <2>4
\* One that is on the list.
<1>5. ASSUME NEW r \in Readers, r \in Subscribers(s)
      PROVE  /\ stream'[r] \in StreamTypes /\ client'[r] \in ClientTypes /\ client'[r].id = client[r].id
             /\ ConnectionFits(r)'
             /\ \A t \in Starts : client[r].id # None /\ client[r].id = run'[t].id /\ Sole(t)' => ReaderFits(r, t)'
  <2>1. /\ stream[r].step = "live" /\ stream[r].on = s /\ stream[r].listed /\ client[r].id = run[s].id
        /\ ~ stream[r].closed /\ stream[r].closer = "none"
    BY <1>1, <1>5, ListenersAreListed DEF Subscribers
  <2>. DEFINE full == Len(stream[r].queue) >= Buffer
  <2>2. /\ full => stream'[r] = stream[r] /\ client'[r] = [client[r] EXCEPT !.lost = @ \cup {seq}]
        /\ ~ full => stream'[r] = [stream[r] EXCEPT !.queue = Append(@, seq)] /\ client'[r] = client[r]
    BY <1>5 DEF Reached
  <2>3. /\ client'[r] \in ClientTypes /\ client'[r].id = client[r].id /\ client'[r].got = client[r].got
        /\ client'[r].end = client[r].end
        /\ client'[r].lost = IF full THEN client[r].lost \cup {seq} ELSE client[r].lost
    <3>1. CASE full
      <4>1. client'[r] = [client[r] EXCEPT !.lost = @ \cup {seq}]  BY <2>2, <3>1
      <4>2. client[r].lost \cup {seq} \in SUBSET Nat  BY <1>3
      <4>. QED  BY <1>3, <3>1, <4>1, <4>2 DEF ClientTypes
    <3>2. CASE ~ full  BY <1>3, <2>2, <3>2
    <3>. QED  BY <3>1, <3>2
  <2>4. /\ stream'[r] \in StreamTypes
        /\ stream'[r].step = "live" /\ stream'[r].on = s /\ stream'[r].listed /\ ~ stream'[r].closed
        /\ stream'[r].closer = "none"
        /\ stream'[r].queue = IF full THEN stream[r].queue ELSE Append(stream[r].queue, seq)
    <3>1. CASE full  BY <1>3, <2>1, <2>2, <3>1
    <3>2. CASE ~ full
      <4>1. stream'[r] = [stream[r] EXCEPT !.queue = Append(@, seq)]  BY <2>2, <3>2
      <4>2. Append(stream[r].queue, seq) \in Seq(Nat)  BY <1>3
      <4>. QED  BY <1>3, <2>1, <3>2, <4>1, <4>2 DEF StreamTypes
    <3>. QED  BY <3>1, <3>2
  <2>5. PICK queue \in Seq(Nat) : queue = stream[r].queue  BY <1>3
  <2>6. PICK longer \in Seq(Nat) : longer = Append(queue, seq)  BY AppendProperties
  <2>7. /\ Len(queue) \in Nat /\ Len(longer) = Len(queue) + 1
        /\ \A i \in 1..Len(longer) : longer[i] = IF i <= Len(queue) THEN queue[i] ELSE seq
        /\ Range(longer) = Range(queue) \cup {seq}
    <3>1. /\ Len(queue) \in Nat /\ Len(longer) = Len(queue) + 1
          /\ \A i \in 1..Len(longer) : longer[i] = IF i <= Len(queue) THEN queue[i] ELSE seq
      BY <2>6, AppendProperties
    <3>2. Range(longer) = Range(queue) \cup {seq}
      <4>1. DOMAIN longer = 1..Len(longer) /\ DOMAIN queue = 1..Len(queue)  OBVIOUS
      <4>2. \A i \in 1..Len(queue) : i \in 1..Len(longer) /\ longer[i] = queue[i]  BY <3>1
      <4>3. Len(longer) \in 1..Len(longer) /\ longer[Len(longer)] = seq  BY <3>1
      <4>4. \A i \in 1..Len(longer) : i \in 1..Len(queue) \/ longer[i] = seq  BY <3>1
      <4>. QED  BY <4>1, <4>2, <4>3, <4>4 DEF Range
    <3>. QED  BY <3>1, <3>2
  <2>8. /\ stream'[r].queue = IF full THEN queue ELSE longer
        /\ full <=> Len(queue) >= Buffer
    BY <2>4, <2>5, <2>6
  <2>. HIDE DEF full
  <2>9. ConnectionFits(r)'
    <3>1. \A i \in 1..Len(queue) : queue[i] # 0 /\ Len(queue) <= Buffer
      BY <1>3, <2>1, <2>5 DEF ConnectionFits
    <3>2. Len(queue) <= Buffer  BY <1>3, <2>5 DEF ConnectionFits
    <3>3. ASSUME NEW i \in 1..Len(longer)  PROVE longer[i] # 0
      <4>1. seq # 0  BY <1>1
      <4>2. i \in 1..Len(queue) \/ longer[i] = seq  BY <2>7
      <4>3. i \in 1..Len(queue) => longer[i] = queue[i]  BY <2>7
      <4>. QED  BY <3>1, <4>1, <4>2, <4>3
    <3>4. ~ full => Len(longer) <= Buffer  BY <1>1, <2>7, <2>8
    <3>5. /\ Len(stream'[r].queue) <= Buffer
          /\ \A i \in 1..Len(stream'[r].queue) : stream'[r].queue[i] # 0
      BY <2>8, <3>1, <3>2, <3>3, <3>4
    <3>6. client'[r].id = client[r].id /\ client[r].id \in Ids /\ client[r].id # None /\ Given(client[r].id)'
      BY <1>1, <2>1, <2>3, NoneIsNothing DEF Given
    <3>7. run'[s].id = client'[r].id /\ run'[s].step \in Live /\ run'[s].step # "done"
      BY <1>1, <2>1, <2>3 DEF Live
    <3>. QED  BY <2>4, <3>5, <3>6, <3>7 DEF ConnectionFits
  <2>10. ASSUME NEW t \in Starts, client[r].id = run'[t].id, Sole(t)'
         PROVE  ReaderFits(r, t)'
    <3>1. t = s  BY <1>1, <2>1, <2>10 DEF Sole
    <3>2. Sole(s)  BY <1>1, <1>2, <2>10, <3>1 DEF Live
    <3>3. ReaderFits(r, s)  BY <1>1, <2>1, <3>2 DEF ExtractorInv, ReadersFit
    <3>4. GotFits(r, s) /\ LiveFits(r, s)  BY <2>1, <3>3 DEF ReaderFits
    <3>5. client[r].end # "live"  BY <1>1, <3>4 DEF GotFits
    <3>6. /\ LastEventId(r)' = LastEventId(r) /\ LastEventId(r) \in 0..run[s].seq
          /\ Seen(r)' = Seen(r) \cup (IF full THEN {seq} ELSE {})
      BY <1>1, <1>3, <2>3, <3>4, LastSeen DEF LastEventId, Seen
    <3>7. GotFits(r, s)'
      <4>1. \A i \in 1..Len(client[r].got) : client[r].got[i] \in 1..seq
        <5>1. \A i \in 1..Len(client[r].got) : client[r].got[i] \in 1..run[s].seq  BY <3>4 DEF GotFits
        <5>2. 1..run[s].seq \subseteq 1..seq  BY <1>1
        <5>. QED  BY <5>1, <5>2
      <4>. QED  BY <2>3, <3>4, <3>5, <3>6, <4>1 DEF GotFits
    <3>8. LiveFits(r, s)'
      <4>1. /\ \A i \in 1..Len(queue) : queue[i] <= run[s].seq /\ (queue[i] # 0 => queue[i] > LastEventId(r))
            /\ \A i, j \in 1..Len(queue) : i < j => queue[j] = 0 \/ queue[i] < queue[j]
            /\ 1..run[s].seq \subseteq Seen(r) \cup Range(queue)
        BY <2>5, <3>4 DEF LiveFits
      <4>2. \A i \in 1..Len(queue) : queue[i] \in Nat  OBVIOUS
      <4>3. /\ \A i \in 1..Len(queue) : queue[i] <= seq
            /\ \A i \in 1..Len(longer) : longer[i] <= seq /\ (longer[i] # 0 => longer[i] > LastEventId(r))
        <5>1. ASSUME NEW i \in 1..Len(queue)  PROVE queue[i] <= seq
          <6>1. queue[i] <= run[s].seq /\ queue[i] \in Nat  BY <4>1, <4>2
          <6>. QED  BY <1>1, <6>1
        <5>2. ASSUME NEW i \in 1..Len(longer)
              PROVE  longer[i] <= seq /\ (longer[i] # 0 => longer[i] > LastEventId(r))
          <6>1. CASE i \in 1..Len(queue)
            <7>1. longer[i] = queue[i]  BY <2>7, <6>1
            <7>. QED  BY <4>1, <5>1, <6>1, <7>1
          <6>2. CASE i \notin 1..Len(queue)
            <7>1. longer[i] = seq  BY <2>7, <6>2
            <7>2. seq > LastEventId(r)  BY <1>1, <3>6
            <7>. QED  BY <7>1, <7>2
          <6>. QED  BY <6>1, <6>2
        <5>. QED  BY <5>1, <5>2
      <4>4. \A i, j \in 1..Len(longer) : i < j => longer[j] = 0 \/ longer[i] < longer[j]
        <5>. SUFFICES ASSUME NEW i \in 1..Len(longer), NEW j \in 1..Len(longer), i < j
                      PROVE  longer[j] = 0 \/ longer[i] < longer[j]
          OBVIOUS
        <5>1. i \in 1..Len(queue) /\ longer[i] = queue[i]  BY <2>7
        <5>2. CASE j \in 1..Len(queue)
          <6>1. longer[j] = queue[j]  BY <2>7, <5>2
          <6>. QED  BY <4>1, <5>1, <5>2, <6>1
        <5>3. CASE j \notin 1..Len(queue)
          <6>1. longer[j] = seq  BY <2>7, <5>3
          <6>2. queue[i] <= run[s].seq /\ queue[i] \in Nat  BY <4>1, <4>2, <5>1
          <6>3. queue[i] < seq
            <7>1. seq = run[s].seq + 1 /\ run[s].seq \in Nat  BY <1>1
            <7>2. \A a, b, c \in Nat : a <= b /\ c = b + 1 => a < c  OBVIOUS
            <7>. QED  BY <6>2, <7>1, <7>2, Zenon
          <6>. QED  BY <5>1, <6>1, <6>3
        <5>. QED  BY <5>2, <5>3
      <4>5. 1..seq \subseteq Seen(r)' \cup (IF full THEN Range(queue) ELSE Range(longer))
        <5>1. 1..seq = 1..run[s].seq \cup {seq}  BY <1>1
        <5>. QED  BY <2>7, <3>6, <4>1, <5>1
      <4>6. CASE full
        <5>1. stream'[r].queue = queue  BY <2>8, <4>6
        <5>2. \A i \in 1..Len(queue) : queue[i] <= seq /\ (queue[i] # 0 => queue[i] > LastEventId(r)')
          BY <3>6, <4>1, <4>3
        <5>3. 1..seq \subseteq Seen(r)' \cup Range(queue)  BY <4>5, <4>6
        <5>. QED  BY <4>1, <5>1, <5>2, <5>3 DEF LiveFits
      <4>7. CASE ~ full
        <5>1. stream'[r].queue = longer  BY <2>8, <4>7
        <5>2. \A i \in 1..Len(longer) : longer[i] <= seq /\ (longer[i] # 0 => longer[i] > LastEventId(r)')
          BY <3>6, <4>3
        <5>3. 1..seq \subseteq Seen(r)' \cup Range(longer)  BY <4>5, <4>7
        <5>. QED  BY <4>4, <5>1, <5>2, <5>3 DEF LiveFits
      <4>. QED  BY <4>6, <4>7
    <3>. QED  BY <2>4, <3>1, <3>7, <3>8 DEF ReaderFits
  <2>. QED  BY <2>3, <2>4, <2>9, <2>10
<1>6. ReadersFit'
  <2>. SUFFICES ASSUME NEW r \in Readers
                PROVE  /\ ConnectionFits(r)'
                       /\ \A t \in Starts : client'[r].id # None /\ client'[r].id = run'[t].id /\ Sole(t)'
                                                => ReaderFits(r, t)'
    BY DEF ReadersFit
  <2>1. CASE r \in Subscribers(s)  BY <1>5, <2>1
  <2>2. CASE r \notin Subscribers(s)  BY <1>4, <2>2
  <2>. QED  BY <2>1, <2>2
<1>7. \A r \in Readers : stream'[r] \in StreamTypes /\ client'[r] \in ClientTypes  BY <1>3, <1>4, <1>5
<1>8. stream' = [r \in Readers |-> stream'[r]] /\ client' = [r \in Readers |-> client'[r]]  BY DEF Reached
<1>. QED  BY <1>6, <1>7, <1>8

LEMMA EmitKeeps ==
    ASSUME ExtractorInv, NEW s \in Starts, NEW kind \in Kinds, NEW step \in {"running", "halted"},
           NEW error \in BOOLEAN, run[s].step = "running", run[s].seq <= MaxProgress + 1,
           step = "running" => run[s].seq <= MaxProgress,
           step = "halted" =>
               /\ kind = "run_cancelled" => run[s].cancelled
               /\ kind = "run_failed" => error
               /\ ~ run[s].cancelled /\ ~ error => kind = "run_completed",
           Emit(s, kind, step, error)
    PROVE  ExtractorInv'
<1>1. /\ Types /\ RunsFit /\ DiskFits /\ run[s] \in RunTypes /\ RunFits(s) /\ run[s].id # None
      /\ UNCHANGED <<runs, bus, request>> /\ run[s].step \in Live /\ run[s].step \in InMemory
      /\ run[s].history \in Seq(Nat) /\ MaxProgress \in Nat
  BY AtRun, ExtractorAssumption DEF Live, InMemory, Entered, Emit, RunTypes, ExtractorAssumption
<1>2. PICK seq \in Nat, n \in Nat, id \in Ids : n = run[s].seq /\ seq = n + 1 /\ id = run[s].id
  <2>1. run[s].seq \in Nat /\ run[s].seq + 1 \in Nat /\ run[s].id \in Ids
    BY <1>1, AtRun DEF RunTypes
  <2>. QED  BY <2>1
<1>3. PICK history : history = Append(Kept(run[s].history), seq)  OBVIOUS
<1>4. history \in Seq(Nat) /\ Len(history) <= seq /\ Len(history) <= HistorySize /\ EndsWith(history, seq)
  <2>1. /\ Len(run[s].history) <= n /\ Len(run[s].history) <= HistorySize
        /\ EndsWith(run[s].history, n)
    BY <1>1, <1>2 DEF RunFits, HistoryFits, EndsWith
  <2>. QED  BY <1>1, <1>2, <1>3, <2>1, HistoryGoesOn
<1>5. /\ run' = [run EXCEPT ![s].seq = seq, ![s].last = kind, ![s].history = Append(Kept(@), seq),
                             ![s].step = step, ![s].error = error]
      /\ disk' = IF run[s].file = "open" THEN [disk EXCEPT ![id].log = Append(@, seq)] ELSE disk
      /\ Reached(s, seq)
  BY <1>2 DEF Emit, Reached
<1>6. /\ run'[s] = [run[s] EXCEPT !.seq = seq, !.last = kind, !.history = history, !.step = step, !.error = error]
      /\ run' \in [Starts -> RunTypes]
      /\ \A t \in Starts : t # s => run'[t] = run[t]
  <2>1. /\ run'[s] = [run[s] EXCEPT !.seq = seq, !.last = kind, !.history = history, !.step = step, !.error = error]
        /\ \A t \in Starts : t # s => run'[t] = run[t]
    <3>1. /\ run'[s] = [run[s] EXCEPT !.seq = seq, !.last = kind, !.history = Append(Kept(@), seq),
                                       !.step = step, !.error = error]
          /\ \A t \in Starts : t # s => run'[t] = run[t]
      BY <1>1, <1>5 DEF Types
    <3>2. run[s].history = run[s].history /\ "history" \in DOMAIN run[s]  BY <1>1 DEF RunTypes
    <3>. QED  BY <1>1, <1>3, <3>1, <3>2 DEF RunTypes
  <2>2. run'[s] \in RunTypes
    <3>1. step \in RunSteps  BY DEF RunSteps, Live
    <3>. QED  BY <1>1, <1>4, <2>1, <3>1 DEF RunTypes
  <2>3. run' = [t \in Starts |-> run'[t]]  BY <1>1, <1>5 DEF Types
  <2>. QED  BY <1>1, <2>1, <2>2, <2>3 DEF Types
<1>7. /\ run'[s].step = step /\ run'[s].id = id /\ run'[s].seq = seq /\ run'[s].last = kind
      /\ run'[s].history = history /\ run'[s].error = error /\ run'[s].cancelled = run[s].cancelled
      /\ run'[s].status = run[s].status /\ run'[s].file = run[s].file /\ run'[s].finished = run[s].finished
  BY <1>1, <1>2, <1>6 DEF RunTypes
<1>8. IdsStay /\ RunsHold
  <2>1. step \in InMemory /\ run[s].step \notin Settled  BY DEF InMemory, Entered, Settled
  <2>2. IdsStay  BY <1>2, <1>6, <1>7 DEF IdsStay
  <2>. QED  BY <1>6, <1>7, <2>1, <2>2 DEF RunsHold
<1>9. RunFits(s)'
  <2>1. HistoryFits(s)'  BY <1>4, <1>7 DEF HistoryFits, EndsWith
  <2>2. EndFits(s)'
    <3>1. step = "running" => seq <= MaxProgress + 1 /\ seq # 0  BY <1>1, <1>2
    <3>. QED  BY <1>7, <3>1 DEF EndFits, Settled
  <2>3. seq <= MaxProgress + 2  BY <1>1, <1>2
  <2>. QED  BY <1>1, <1>2, <1>7, <2>1, <2>2, <2>3 DEF RunFits, Silent, Entered, Settled, Live
<1>10. RunsFit'
  <2>1. run'[s].step \in Live /\ run'[s].step \in InMemory  BY <1>7 DEF Live, InMemory, Entered
  <2>. QED  BY <1>1, <1>2, <1>6, <1>7, <1>9, <2>1, OneRunMoves
<1>11. ReadersFit' /\ stream' \in [Readers -> StreamTypes] /\ client' \in [Readers -> ClientTypes]
  <2>1. seq = run[s].seq + 1 /\ run'[s].seq = seq /\ run'[s].step \in {"running", "halted"}  BY <1>2, <1>7
  <2>. QED  BY <1>5, <1>6, <1>8, <2>1, EmitReaches
<1>12. \A q \in Requests : RequestFits(q)'  BY <1>1, <1>8, RequestsHold
<1>13. PICK log \in Seq(Nat), longer \in Seq(Nat) : log = disk[id].log /\ longer = Append(log, seq)
  BY <1>1, AppendProperties DEF Types, DiskTypes
<1>14. /\ disk' \in [Ids -> DiskTypes] /\ disk'[id].there = disk[id].there /\ disk'[id].state = disk[id].state
       /\ disk'[id].log = IF run[s].file = "open" THEN longer ELSE log
       /\ run[s].file # "open" => disk' = disk
       /\ \A i \in Ids : i # id => disk'[i] = disk[i]
  <2>1. CASE run[s].file = "open"
    <3>1. disk' = [disk EXCEPT ![id].log = Append(@, seq)]  BY <1>5, <2>1
    <3>. QED  BY <1>1, <1>13, <2>1, <3>1 DEF Types, DiskTypes
  <2>2. CASE run[s].file # "open"  BY <1>1, <1>5, <1>13, <2>2 DEF Types
  <2>. QED  BY <2>1, <2>2
<1>15. DirectoriesFit'
  <2>1. DirectoriesFit  BY <1>1 DEF DiskFits
  <2>2. run[s].file = "open" => disk[id].there  BY <1>2, <2>1 DEF DirectoriesFit
  <2>3. \A i \in Ids : Given(i) => Given(i)'  BY <1>8, GivenStays, NoneIsNothing
  <2>4. \A t \in Starts : run'[t].id = run[t].id /\ run'[t].file = run[t].file  BY <1>2, <1>6, <1>7
  <2>5. \A i \in Ids : disk'[i].there = disk[i].there  BY <1>14
  <2>6. \A i \in Ids : ~ disk'[i].there => disk'[i] = disk[i]  BY <1>14, <2>2
  <2>7. ASSUME NEW i \in Ids
        PROVE  /\ ~ disk'[i].there => disk'[i] = NoDirectory
               /\ disk'[i].there => Given(i)'
               /\ \A t \in Starts : run'[t].id = i /\ run'[t].file = "open" => disk'[i].there
    <3>1. disk'[i].there = disk[i].there /\ (~ disk'[i].there => disk'[i] = disk[i])  BY <2>5, <2>6
    <3>2. (~ disk[i].there => disk[i] = NoDirectory) /\ (disk[i].there => Given(i))  BY <2>1 DEF DirectoriesFit
    <3>3. \A t \in Starts : run[t].id = i /\ run[t].file = "open" => disk[i].there  BY <2>1 DEF DirectoriesFit
    <3>. QED  BY <2>3, <2>4, <3>1, <3>2, <3>3
  <2>. QED  BY <2>7 DEF DirectoriesFit
<1>16. ASSUME NEW t \in Starts, run'[t].step # "idle", Sole(t)'  PROVE SoleFits(t)'
  <2>1. CASE t = s
    <3>1. Sole(s)  BY <1>1, <1>8, <1>16, <2>1, SoleStays DEF Live
    <3>2. SoleFits(s)  BY <1>1, <3>1 DEF DiskFits
    <3>3. /\ run[s].file # "closed" /\ (run[s].file = "open" => Len(log) = n)
          /\ (run[s].file = "unlinked" => log = << >>) /\ Len(log) <= n
          /\ \A i \in 1..Len(log) : log[i] = i
      BY <1>1, <1>2, <1>13, <3>2 DEF SoleFits
    <3>4. CASE run[s].file = "open"
      <4>1. disk'[run'[s].id].log = longer  BY <1>7, <1>14, <3>4
      <4>2. /\ Len(longer) = Len(log) + 1
            /\ \A i \in 1..Len(longer) : longer[i] = IF i <= Len(log) THEN log[i] ELSE seq
        BY <1>13, AppendProperties
      <4>3. Len(longer) = seq  BY <1>2, <3>3, <3>4, <4>2
      <4>4. ASSUME NEW i \in 1..Len(longer)  PROVE longer[i] = i
        <5>1. i \in 1..Len(log) \/ i = seq  BY <1>2, <3>3, <3>4, <4>3
        <5>2. i \in 1..Len(log) => longer[i] = log[i]  BY <4>2
        <5>3. i = seq => longer[i] = seq  BY <1>2, <3>3, <3>4, <4>2, <4>3
        <5>. QED  BY <3>3, <5>1, <5>2, <5>3
      <4>. QED  BY <1>7, <2>1, <3>3, <3>4, <4>1, <4>3, <4>4 DEF SoleFits, Live
    <3>5. CASE run[s].file = "unlinked"
      <4>1. disk'[run'[s].id].log = log /\ log = << >> /\ Len(log) = 0  BY <1>7, <1>14, <3>3, <3>5, EmptySeq
      <4>. QED  BY <1>7, <2>1, <3>3, <3>5, <4>1 DEF SoleFits, Live
    <3>. QED  BY <1>1, <3>3, <3>4, <3>5 DEF RunTypes
  <2>2. CASE t # s
    <3>1. run'[t] = run[t] /\ run[t].step # "idle"  BY <1>6, <1>16, <2>2
    <3>2. Sole(t)  BY <1>8, <1>16, <3>1, SoleStays
    <3>3. SoleFits(t) /\ run[t].id \in Ids /\ run[t].id # id
      BY <1>1, <1>2, <2>2, <3>1, <3>2, AtRun DEF DiskFits, Sole
    <3>. QED  BY <1>1, <1>14, <3>1, <3>3 DEF SoleFits
  <2>. QED  BY <2>1, <2>2
<1>17. DiskFits'  BY <1>12, <1>15, <1>16 DEF DiskFits
<1>18. Types'  BY <1>1, <1>6, <1>11, <1>14 DEF Types
<1>. QED  BY <1>10, <1>11, <1>17, <1>18 DEF ExtractorInv

LEMMA PipelineKeeps ==
    ASSUME ExtractorInv, NEW s \in Starts, EmitStarted(s) \/ EmitProgress(s) \/ EmitEnd(s)
    PROVE  ExtractorInv'
<1>1. run[s].step = "running"  BY DEF EmitStarted, EmitProgress, EmitEnd
<1>2. run[s].seq \in Nat /\ run[s].seq <= MaxProgress + 1 /\ run[s].cancelled \in BOOLEAN /\ MaxProgress \in Nat
  BY <1>1, AtRun, ExtractorAssumption DEF RunTypes, RunFits, EndFits, ExtractorAssumption
<1>3. CASE EmitStarted(s)
  <2>1. "run_started" \in Kinds /\ run[s].seq <= MaxProgress /\ Emit(s, "run_started", "running", FALSE)
    <3>1. run[s].seq = 0 /\ Emit(s, "run_started", "running", FALSE)  BY <1>3 DEF EmitStarted
    <3>2. 0 <= MaxProgress  BY <1>2
    <3>. QED  BY <3>1, <3>2, Endings
  <2>. QED  BY <1>1, <1>2, <2>1, EmitKeeps
<1>4. CASE EmitProgress(s)
  <2>1. "progress" \in Kinds /\ run[s].seq <= MaxProgress /\ Emit(s, "progress", "running", FALSE)
    <3>1. run[s].seq \in 1..MaxProgress /\ Emit(s, "progress", "running", FALSE)  BY <1>4 DEF EmitProgress
    <3>2. run[s].seq <= MaxProgress  BY <1>2, <3>1
    <3>. QED  BY <3>1, <3>2, Endings
  <2>. QED  BY <1>1, <1>2, <2>1, EmitKeeps
<1>5. CASE EmitEnd(s)
  <2>1. PICK error \in BOOLEAN :
            Emit(s, LastKind[IF run[s].cancelled THEN "cancelled" ELSE IF error THEN "failed" ELSE "completed"],
                 "halted", error)
    BY <1>5 DEF EmitEnd
  <2>2. PICK kind : kind = LastKind[IF run[s].cancelled THEN "cancelled" ELSE IF error THEN "failed" ELSE "completed"]
    OBVIOUS
  <2>3. /\ kind \in Kinds
        /\ kind = "run_cancelled" => run[s].cancelled
        /\ kind = "run_failed" => error
        /\ ~ run[s].cancelled /\ ~ error => kind = "run_completed"
    BY <1>2, <2>2, Endings
  <2>4. Emit(s, kind, "halted", error)  BY <2>1, <2>2
  <2>. QED  BY <1>1, <1>2, <2>3, <2>4, EmitKeeps
<1>. QED  BY <1>3, <1>4, <1>5

-----------------------------------------------------------------------------
(***************************************************************************)
(* The end of a run, and the readers that hear of it.                      *)
(***************************************************************************)
\* Whoever has read of an id that is given once has read of a run that was
\* there before.
LEMMA ReadersKnow ==
    ASSUME ExtractorInv, IdsStay, NEW r \in Readers, NEW t \in Starts,
           client[r].id # None, client[r].id = run'[t].id, Sole(t)'
    PROVE  run[t].step # "idle" /\ Sole(t) /\ run'[t].id = run[t].id /\ ReaderFits(r, t)
<1>1. ConnectionFits(r)  BY DEF ExtractorInv, ReadersFit
<1>2. Given(client[r].id)  BY <1>1 DEF ConnectionFits
<1>3. run[t].step # "idle"  BY <1>2, GivenIsShared
<1>4. Sole(t) /\ run'[t].id = run[t].id  BY <1>3, SoleStays DEF IdsStay
<1>. QED  BY <1>3, <1>4 DEF ExtractorInv, ReadersFit

\* What the channel of a reader holds is all that counts of its stream.
LEMMA ReaderKeeps ==
    ASSUME NEW r \in Readers, NEW t \in Starts, ReaderFits(r, t), client'[r] = client[r],
           run'[t].seq = run[t].seq, run[t].step \in {"done", "dead"} => run'[t].step \in {"done", "dead"},
           stream'[r].step \in {"live", "replay"} =>
               /\ stream'[r].step = stream[r].step /\ stream'[r].queue = stream[r].queue
               /\ stream'[r].source = stream[r].source /\ stream'[r].from = stream[r].from
    PROVE  ReaderFits(r, t)'
<1>1. Seen(r)' = Seen(r) /\ LastEventId(r)' = LastEventId(r)  BY DEF Seen, LastEventId
<1>2. GotFits(r, t)'
  <2>1. GotFits(r, t)  BY DEF ReaderFits
  <2>. QED  BY <1>1, <2>1 DEF GotFits
<1>3. ASSUME stream'[r].step = "live"  PROVE LiveFits(r, t)'
  <2>1. LiveFits(r, t) /\ stream'[r].queue = stream[r].queue  BY <1>3 DEF ReaderFits
  <2>. QED  BY <1>1, <2>1 DEF LiveFits
<1>4. ASSUME stream'[r].step = "replay"  PROVE ReplayFits(r, t)'
  <2>1. /\ ReplayFits(r, t) /\ stream'[r].queue = stream[r].queue
        /\ stream'[r].source = stream[r].source /\ stream'[r].from = stream[r].from
    BY <1>4 DEF ReaderFits
  <2>. QED  BY <1>1, <2>1 DEF ReplayFits
<1>. QED  BY <1>2, <1>3, <1>4 DEF ReaderFits

LEMMA FinishOnBusKeeps ==
    ASSUME ExtractorInv, NEW s \in Starts, FinishOnBus(s)
    PROVE  ExtractorInv'
<1>1. /\ run[s].step = "saved" /\ UNCHANGED <<runs, bus, disk, request, client>>
      /\ run' = [run EXCEPT ![s].finished = TRUE, ![s].file = "closed", ![s].step = "done"]
      /\ Types /\ RunsFit /\ DiskFits /\ run[s] \in RunTypes /\ RunFits(s) /\ run[s].id \in Ids /\ run[s].id # None
  BY AtRun DEF FinishOnBus
<1>2. \A r \in Readers : stream'[r] = IF r \in Subscribers(s) THEN HandedOver(r) ELSE stream[r]
  BY DEF FinishOnBus
<1>3. /\ run'[s] = [run[s] EXCEPT !.finished = TRUE, !.file = "closed", !.step = "done"]
      /\ run' \in [Starts -> RunTypes] /\ \A t \in Starts : t # s => run'[t] = run[t]
  <2>1. "done" \in RunSteps  BY DEF RunSteps
  <2>. QED  BY <1>1, <2>1 DEF Types, RunTypes
<1>4. /\ run'[s].step = "done" /\ run'[s].id = run[s].id /\ run'[s].seq = run[s].seq
      /\ run'[s].last = run[s].last /\ run'[s].history = run[s].history /\ run'[s].status = run[s].status
      /\ run'[s].file = "closed" /\ run'[s].finished
  BY <1>1, <1>3 DEF RunTypes
<1>5. /\ {"saved", "done"} \subseteq Settled /\ {"saved", "done"} \subseteq InMemory /\ "saved" \in Live
      /\ "done" \notin Entered \cup Silent \cup Live \cup {"idle"}
  BY DEF Settled, Live, Entered, Silent, InMemory
<1>6. IdsStay /\ RunsHold
  <2>1. IdsStay  BY <1>3, <1>4 DEF IdsStay
  <2>. QED  BY <1>3, <1>4, <1>5, <2>1 DEF RunsHold
<1>7. RunFits(s)'
  <2>1. HistoryFits(s)'
    <3>1. HistoryFits(s) /\ run'[s].history = run[s].history /\ run'[s].seq = run[s].seq
      BY <1>1, <1>4 DEF RunFits
    <3>. QED  BY <3>1 DEF HistoryFits
  <2>2. EndFits(s)'  BY <1>1, <1>4, <1>5 DEF RunFits, EndFits
  <2>. QED  BY <1>1, <1>4, <1>5, <2>1, <2>2 DEF RunFits
<1>8. RunsFit'  BY <1>1, <1>3, <1>4, <1>5, <1>7, OneRunMoves
<1>9. DiskFits'
  <2>1. \A q \in Requests : RequestFits(q)'  BY <1>1, <1>6, RequestsHold
  <2>2. DirectoriesFit'
    <3>1. DirectoriesFit  BY <1>1 DEF DiskFits
    <3>2. \A i \in Ids : Given(i) => Given(i)'  BY <1>6, GivenStays, NoneIsNothing
    <3>3. \A t \in Starts : run'[t].file = "open" => run'[t].id = run[t].id /\ run[t].file = "open"
      BY <1>3, <1>4
    <3>. QED  BY <1>1, <3>1, <3>2, <3>3 DEF DirectoriesFit
  <2>3. ASSUME NEW t \in Starts, run'[t].step # "idle", Sole(t)'  PROVE SoleFits(t)'
    <3>1. run[t].step # "idle"  BY <1>1, <1>3, <2>3
    <3>2. Sole(t)  BY <1>6, <2>3, <3>1, SoleStays
    <3>3. SoleFits(t)  BY <1>1, <3>1, <3>2 DEF DiskFits
    <3>4. CASE t = s
      <4>1. /\ SoleFits(s) /\ run[s].step = "saved" /\ disk' = disk
            /\ run'[s].step = "done" /\ run'[s].id = run[s].id /\ run'[s].seq = run[s].seq
            /\ run'[s].file = "closed" /\ run'[s].status = run[s].status
        BY <1>1, <1>4, <3>3, <3>4
      <4>. QED  BY <3>4, <4>1 DEF SoleFits, Live
    <3>5. CASE t # s
      <4>1. run'[t] = run[t]  BY <1>3, <3>5
      <4>. QED  BY <1>1, <3>3, <4>1 DEF SoleFits
    <3>. QED  BY <3>4, <3>5
  <2>. QED  BY <2>1, <2>2, <2>3 DEF DiskFits
<1>10. ASSUME NEW r \in Readers
       PROVE  /\ stream'[r] \in StreamTypes /\ ConnectionFits(r)'
              /\ \A t \in Starts : client'[r].id # None /\ client'[r].id = run'[t].id /\ Sole(t)'
                                       => ReaderFits(r, t)'
  <2>1. ConnectionFits(r) /\ stream[r] \in StreamTypes /\ client'[r] = client[r] /\ client[r] \in ClientTypes
    BY <1>1 DEF ExtractorInv, ReadersFit, Types
  <2>2. \A id \in Ids : id = client[r].id => Given(id)'
    <3>1. \A id \in Ids : id = client[r].id => Given(id)  BY <2>1, NoneIsNothing DEF ConnectionFits
    <3>. QED  BY <1>6, <3>1, GivenStays, NoneIsNothing
  <2>3. client'[r].id # None => Given(client[r].id)'  BY <2>1, <2>2 DEF ClientTypes
  <2>4. /\ stream'[r] \in StreamTypes /\ stream'[r].step = stream[r].step /\ stream'[r].queue = stream[r].queue
        /\ stream'[r].source = stream[r].source /\ stream'[r].from = stream[r].from
        /\ stream'[r].on = stream[r].on /\ stream'[r].closed = stream[r].closed
        /\ r \in Subscribers(s) => ~ stream'[r].listed /\ stream'[r].closer = "eof"
        /\ r \notin Subscribers(s) => stream'[r] = stream[r]
    <3>1. CASE r \in Subscribers(s)
      <4>1. stream'[r] = [stream[r] EXCEPT !.listed = FALSE, !.closer = "eof"]  BY <1>2, <3>1 DEF HandedOver
      <4>. QED  BY <2>1, <3>1, <4>1 DEF StreamTypes
    <3>2. CASE r \notin Subscribers(s)
      <4>1. stream'[r] = stream[r]  BY <1>2, <3>2
      <4>. QED  BY <2>1, <3>2, <4>1
    <3>. QED  BY <3>1, <3>2
  <2>5. ConnectionFits(r)'
    <3>1. CASE r \in Subscribers(s)
      <4>1. /\ stream[r].step = "live" /\ stream[r].on = s /\ client[r].id = run[s].id /\ ~ stream[r].closed
        BY <1>1, <1>5, <3>1, ListenersAreListed DEF Subscribers
      <4>. QED  BY <1>1, <1>4, <2>1, <2>3, <2>4, <3>1, <4>1 DEF ConnectionFits
    <3>2. CASE r \notin Subscribers(s)
      <4>1. stream[r].step = "live" => stream[r].on # s
        BY <1>1, <1>5, <3>2, ListenersAreListed DEF Subscribers
      <4>2. stream[r].step = "live" => run'[stream[r].on] = run[stream[r].on]
        BY <1>3, <2>1, <4>1 DEF ConnectionFits
      <4>. QED  BY <2>1, <2>3, <2>4, <3>2, <4>2 DEF ConnectionFits
    <3>. QED  BY <3>1, <3>2
  <2>6. ASSUME NEW t \in Starts, client'[r].id # None, client'[r].id = run'[t].id, Sole(t)'
        PROVE  ReaderFits(r, t)'
    <3>1. ReaderFits(r, t)  BY <1>6, <2>1, <2>6, ReadersKnow
    <3>2. run'[t].seq = run[t].seq /\ (run[t].step \in {"done", "dead"} => run'[t].step \in {"done", "dead"})
      BY <1>1, <1>3, <1>4
    <3>. QED  BY <2>1, <2>4, <3>1, <3>2, ReaderKeeps
  <2>. QED  BY <2>4, <2>5, <2>6
<1>11. ReadersFit'  BY <1>10 DEF ReadersFit
<1>12. stream' = [r \in Readers |-> stream'[r]]  BY DEF FinishOnBus
<1>13. Types'
  <2>1. stream' \in [Readers -> StreamTypes]  BY <1>10, <1>12
  <2>. QED  BY <1>1, <1>3, <2>1 DEF Types
<1>. QED  BY <1>8, <1>9, <1>11, <1>13 DEF ExtractorInv

-----------------------------------------------------------------------------
(***************************************************************************)
(* A reader comes, reads and goes; nothing else moves.                     *)
(***************************************************************************)
LEMMA ReaderMoves ==
    ASSUME ExtractorInv, UNCHANGED <<runs, bus, run, disk, request>>, NEW r \in Readers,
           stream' \in [Readers -> StreamTypes], client' \in [Readers -> ClientTypes],
           \A p \in Readers : p # r => stream'[p] = stream[p] /\ client'[p] = client[p],
           ConnectionFits(r)',
           \A t \in Starts : client'[r].id # None /\ client'[r].id = run[t].id /\ Sole(t) => ReaderFits(r, t)'
    PROVE  ExtractorInv'
<1>1. Types /\ RunsFit /\ DiskFits  BY DEF ExtractorInv
<1>2. Types'  BY <1>1 DEF Types
<1>3. IdsStay /\ RunsHold  BY DEF RunsHold, IdsStay
<1>4. RunsFit'
  <2>1. \A t \in Starts : RunFits(t)' /\ BusHasIt(t)'
    BY <1>1 DEF RunsFit, MapsFit, RunFits, HistoryFits, EndFits, BusHasIt
  <2>. QED  BY <1>1, <2>1 DEF RunsFit, MapsFit
<1>5. \A t \in Starts : Sole(t)' <=> Sole(t)  BY DEF Sole
<1>6. DiskFits'
  <2>1. \A q \in Requests : RequestFits(q)'  BY <1>3, RequestsHold
  <2>2. DirectoriesFit'
    <3>1. \A i \in Ids : Given(i)' <=> Given(i)  BY DEF Given
    <3>. QED  BY <1>1, <3>1 DEF DiskFits, DirectoriesFit
  <2>3. ASSUME NEW t \in Starts, run'[t].step # "idle", Sole(t)'  PROVE SoleFits(t)'
    <3>1. SoleFits(t)  BY <1>1, <1>5, <2>3 DEF DiskFits
    <3>. QED  BY <3>1 DEF SoleFits
  <2>. QED  BY <2>1, <2>2, <2>3 DEF DiskFits
<1>7. ASSUME NEW p \in Readers, p # r
      PROVE  /\ ConnectionFits(p)'
             /\ \A t \in Starts : client'[p].id # None /\ client'[p].id = run'[t].id /\ Sole(t)' => ReaderFits(p, t)'
  <2>1. ConnectionFits(p) /\ stream'[p] = stream[p] /\ client'[p] = client[p]
    BY <1>7 DEF ExtractorInv, ReadersFit
  <2>2. ConnectionFits(p)'
    <3>1. client[p].id # None => Given(client[p].id)  BY <2>1 DEF ConnectionFits
    <3>2. client'[p].id # None => Given(client[p].id)'  BY <2>1, <3>1 DEF Given
    <3>. QED  BY <2>1, <3>2 DEF ConnectionFits
  <2>3. ASSUME NEW t \in Starts, client'[p].id # None, client'[p].id = run'[t].id, Sole(t)'  PROVE ReaderFits(p, t)'
    <3>1. ReaderFits(p, t)  BY <1>5, <2>1, <2>3 DEF ExtractorInv, ReadersFit
    <3>. QED  BY <2>1, <3>1, ReaderKeeps
  <2>. QED  BY <2>2, <2>3
<1>8. ReadersFit'
  <2>1. \A t \in Starts : client'[r].id # None /\ client'[r].id = run'[t].id /\ Sole(t)' => ReaderFits(r, t)'
    BY <1>5
  <2>. QED  BY <1>7, <2>1 DEF ReadersFit
<1>. QED  BY <1>2, <1>4, <1>6, <1>8 DEF ExtractorInv

\* What Subscribe replays of a history.
LEMMA WantedFits ==
    ASSUME NEW history \in Seq(Nat), NEW n \in Nat, Len(history) <= n, EndsWith(history, n),
           NEW from \in Nat \ {0}, NEW wanted, wanted = Wanted(history, from)
    PROVE  /\ wanted \in Seq(Nat)
           /\ \A i \in 1..Len(wanted) : wanted[i] \in from..n
           /\ \A i, j \in 1..Len(wanted) : i < j => wanted[i] < wanted[j]
<1>1. PICK l \in Nat : l = Len(history)  BY LenProperties
<1>2. DOMAIN history = 1..l /\ l <= n  BY <1>1
<1>3. \A i \in 1..l : history[i] = n - l + i  BY <1>1 DEF EndsWith
<1>4. PICK m \in Int : m = from - 1 - n + l  OBVIOUS
<1>5. PICK k \in 0..l : \A i \in 1..l : i <= k <=> i <= m
  <2>1. CASE m < 0
    <3>1. 0 \in 0..l /\ \A i \in 1..l : i <= 0 <=> i <= m  BY <2>1
    <3>. QED  BY <3>1
  <2>2. CASE m > l
    <3>1. l \in 0..l /\ \A i \in 1..l : i <= l <=> i <= m  BY <2>2
    <3>. QED  BY <3>1
  <2>3. CASE m >= 0 /\ m <= l
    <3>1. m \in 0..l  BY <2>3
    <3>. QED  BY <3>1
  <2>. QED  BY <2>1, <2>2, <2>3
<1>6. \A i \in 1..l : history[i] < from <=> i <= k
  <2>. SUFFICES ASSUME NEW i \in 1..l  PROVE history[i] < from <=> i <= m
    BY <1>5
  <2>1. history[i] = n - l + i /\ i \in Int  BY <1>3
  <2>2. (n - l + i < from) <=> i <= m  BY <1>4, <2>1
  <2>. QED  BY <2>1, <2>2
<1>7. {i \in DOMAIN history : history[i] < from} = 1..k
  <2>1. 1..k \subseteq 1..l /\ \A i \in 1..l : i \in 1..k <=> i <= k  BY <1>5
  <2>. QED  BY <1>2, <1>6, <2>1
<1>8. Cardinality({i \in DOMAIN history : history[i] < from}) = k
  <2>1. k \in Int /\ k >= 0  OBVIOUS
  <2>2. Cardinality(1..k) = IF 1 > k THEN 0 ELSE k - 1 + 1  BY <2>1, FS_Interval
  <2>3. Cardinality(1..k) = k  BY <2>1, <2>2
  <2>. QED  BY <1>7, <2>3
<1>9. wanted = SubSeq(history, k + 1, l)  BY <1>1, <1>8 DEF Wanted
<1>10. /\ wanted \in Seq(Nat) /\ Len(wanted) = l - k
       /\ \A i \in 1..l - k : wanted[i] = history[k + i]
  <2>1. k + 1 \in Int /\ l \in Int /\ \A i \in k + 1..l : history[i] \in Nat  BY <1>1
  <2>2. /\ wanted \in Seq(Nat) /\ Len(wanted) = IF k + 1 <= l THEN l - (k + 1) + 1 ELSE 0
        /\ \A i \in 1..l - (k + 1) + 1 : wanted[i] = history[k + 1 + i - 1]
    BY <1>9, <2>1, SubSeqProperties
  <2>3. Len(wanted) = l - k  BY <2>2
  <2>4. ASSUME NEW i \in 1..l - k  PROVE wanted[i] = history[k + i]
    <3>1. i \in 1..l - (k + 1) + 1 /\ k + 1 + i - 1 = k + i  OBVIOUS
    <3>. QED  BY <2>2, <3>1
  <2>. QED  BY <2>2, <2>3, <2>4
<1>11. ASSUME NEW i \in 1..l - k  PROVE wanted[i] = n - l + (k + i) /\ wanted[i] \in from..n
  <2>1. k + i \in 1..l /\ ~ (k + i <= k)  OBVIOUS
  <2>2. history[k + i] = n - l + (k + i) /\ ~ (history[k + i] < from)  BY <1>3, <1>6, <2>1
  <2>3. n - l + (k + i) \in Nat /\ n - l + (k + i) <= n  BY <1>2, <2>1
  <2>. QED  BY <1>10, <2>2, <2>3
<1>12. ASSUME NEW i \in 1..l - k, NEW j \in 1..l - k, i < j  PROVE wanted[i] < wanted[j]
  <2>1. wanted[i] = n - l + (k + i) /\ wanted[j] = n - l + (k + j)  BY <1>11
  <2>2. n - l + (k + i) < n - l + (k + j)  BY <1>12
  <2>. QED  BY <2>1, <2>2
<1>. QED  BY <1>10, <1>11, <1>12

LEMMA StreamsStart ==
    /\ NoStream \in StreamTypes /\ NoStream.step = "away" /\ NoStream.on = None /\ NoStream.queue = << >>
    /\ NoStream.closer = "none" /\ ~ NoStream.closed /\ ~ NoStream.listed /\ NoStream.source = << >>
    /\ Len(NoStream.queue) = 0 /\ Buffer \in Nat /\ Buffer >= 1
  BY ExtractorAssumption DEF NoStream, StreamTypes, ExtractorAssumption

\* A reader that has left, with what it has read.
LEMMA ReaderLeaves ==
    ASSUME ExtractorInv, NEW r \in Readers, UNCHANGED <<runs, bus, run, disk, request>>,
           stream' = [stream EXCEPT ![r] = NoStream], client' \in [Readers -> ClientTypes],
           \A p \in Readers : p # r => client'[p] = client[p], client'[r].id = client[r].id,
           client'[r].got = client[r].got, client'[r].lost = client[r].lost,
           client'[r].end = "live" /\ client[r].end # "live" =>
               \A t \in Starts : client[r].id = run[t].id /\ Sole(t) =>
                   1..run[t].seq \subseteq Seen(r) /\ run[t].step \in {"done", "dead"}
    PROVE  ExtractorInv'
<1>1. Types /\ ConnectionFits(r) /\ client[r] \in ClientTypes  BY DEF ExtractorInv, ReadersFit, Types
<1>2. stream'[r] = NoStream /\ stream' \in [Readers -> StreamTypes] /\ \A p \in Readers : p # r => stream'[p] = stream[p]
  BY <1>1, StreamsStart DEF Types
<1>3. ConnectionFits(r)'
  <2>1. client[r].id # None => Given(client[r].id)  BY <1>1 DEF ConnectionFits
  <2>2. client'[r].id # None => Given(client[r].id)'  BY <2>1 DEF Given
  <2>3. stream'[r].step = "away" /\ Len(stream'[r].queue) <= Buffer /\ stream'[r] = NoStream  BY <1>2, StreamsStart
  <2>. QED  BY <1>1, <2>2, <2>3 DEF ConnectionFits
<1>4. ASSUME NEW t \in Starts, client'[r].id # None, client'[r].id = run[t].id, Sole(t)
      PROVE  ReaderFits(r, t)'
  <2>1. GotFits(r, t)  BY <1>4 DEF ExtractorInv, ReadersFit, ReaderFits
  <2>2. Seen(r)' = Seen(r) /\ LastEventId(r)' = LastEventId(r)  BY DEF Seen, LastEventId
  <2>3. GotFits(r, t)'  BY <1>4, <2>1, <2>2 DEF GotFits
  <2>4. stream'[r].step = "away"  BY <1>2, StreamsStart
  <2>. QED  BY <2>3, <2>4 DEF ReaderFits
<1>. QED  BY <1>2, <1>3, <1>4, ReaderMoves

LEMMA LeaveKeeps ==
    ASSUME ExtractorInv, NEW r \in Readers, Leave(r)
    PROVE  ExtractorInv'
<1>1. client' \in [Readers -> ClientTypes] /\ client' = client  BY DEF Leave, ExtractorInv, Types
<1>. QED  BY <1>1, ReaderLeaves DEF Leave

LEMMA ReplayEndKeeps ==
    ASSUME ExtractorInv, NEW r \in Readers, ReplayEnd(r)
    PROVE  ExtractorInv'
<1>1. /\ client' = [client EXCEPT ![r].end = "replay"] /\ stream' = [stream EXCEPT ![r] = NoStream]
      /\ UNCHANGED <<runs, bus, run, disk, request>> /\ Types /\ client[r] \in ClientTypes
  BY DEF ReplayEnd, ExtractorInv, Types
<1>2. /\ client' \in [Readers -> ClientTypes] /\ (\A p \in Readers : p # r => client'[p] = client[p])
      /\ client'[r].id = client[r].id /\ client'[r].got = client[r].got /\ client'[r].lost = client[r].lost
      /\ client'[r].end = "replay"
  BY <1>1 DEF Types, ClientTypes
<1>. QED  BY <1>1, <1>2, ReaderLeaves

\* The end of the stream goes into the channel if there is room.
LEMMA CloseAtEndKeeps ==
    ASSUME ExtractorInv, NEW r \in Readers, CloseAtEnd(r)
    PROVE  ExtractorInv'
<1>1. /\ stream[r].closer = "eof" /\ UNCHANGED <<runs, bus, run, disk, request, client>>
      /\ stream' = [stream EXCEPT ![r].closer = "none", ![r].closed = TRUE,
                        ![r].queue = IF Len(@) < Buffer THEN Append(@, 0) ELSE @]
      /\ Types /\ ConnectionFits(r) /\ stream[r] \in StreamTypes /\ client[r] \in ClientTypes
  BY DEF CloseAtEnd, ExtractorInv, ReadersFit, Types
<1>2. stream[r].step = "live"
  BY <1>1, StreamsStart DEF ConnectionFits, StreamTypes
<1>3. PICK queue \in Seq(Nat), longer \in Seq(Nat) : queue = stream[r].queue /\ longer = Append(queue, 0)
  <2>1. stream[r].queue \in Seq(Nat)  BY <1>1 DEF StreamTypes
  <2>2. Append(stream[r].queue, 0) \in Seq(Nat)  BY <2>1
  <2>. QED  BY <2>1, <2>2
<1>4. /\ Len(longer) = Len(queue) + 1 /\ Len(queue) \in Nat
      /\ \A i \in 1..Len(longer) : longer[i] = IF i <= Len(queue) THEN queue[i] ELSE 0
  BY <1>3, AppendProperties
<1>5. PICK after \in Seq(Nat) : after = IF Len(queue) < Buffer THEN longer ELSE queue  OBVIOUS
<1>6. /\ stream'[r] = [stream[r] EXCEPT !.closer = "none", !.closed = TRUE, !.queue = after]
      /\ stream' \in [Readers -> StreamTypes] /\ \A p \in Readers : p # r => stream'[p] = stream[p]
  BY <1>1, <1>3, <1>5 DEF Types, StreamTypes
<1>7. /\ stream'[r].step = "live" /\ stream'[r].on = stream[r].on /\ stream'[r].listed = stream[r].listed
      /\ stream'[r].closed /\ stream'[r].closer = "none" /\ stream'[r].queue = after
  BY <1>1, <1>2, <1>6 DEF StreamTypes
<1>8. /\ \A i \in 1..Len(queue) : queue[i] # 0
      /\ Len(queue) <= Buffer
  BY <1>1, <1>2, <1>3 DEF ConnectionFits
<1>9. /\ Len(after) <= Buffer
      /\ \A i \in 1..Len(after) : after[i] = 0 => i = Len(after)
      /\ \A i \in 1..Len(after) : (i \in 1..Len(queue) /\ after[i] = queue[i]) \/ (i = Len(after) /\ after[i] = 0)
      /\ \A i \in 1..Len(queue) : i \in 1..Len(after) /\ after[i] = queue[i]
  <2>1. CASE Len(queue) < Buffer
    <3>1. after = longer /\ Len(longer) <= Buffer  BY <1>4, <1>5, <2>1, StreamsStart
    <3>2. ASSUME NEW i \in 1..Len(longer)
          PROVE  (i \in 1..Len(queue) /\ longer[i] = queue[i]) \/ (i = Len(longer) /\ longer[i] = 0)
      <4>0. i \in Nat /\ i >= 1  BY <1>4
      <4>1. CASE i <= Len(queue)
        <5>1. i \in 1..Len(queue)  BY <1>4, <4>0, <4>1
        <5>2. longer[i] = queue[i]  BY <1>4, <4>1
        <5>. QED  BY <5>1, <5>2
      <4>2. CASE i > Len(queue)
        <5>1. i = Len(longer) /\ ~ (i <= Len(queue))  BY <1>4, <4>2
        <5>. QED  BY <1>4, <5>1
      <4>. QED  BY <1>4, <4>0, <4>1, <4>2
    <3>3. ASSUME NEW i \in 1..Len(queue)  PROVE i \in 1..Len(longer) /\ longer[i] = queue[i]
      BY <1>4
    <3>. QED  BY <1>8, <3>1, <3>2, <3>3
  <2>2. CASE ~ (Len(queue) < Buffer)
    <3>1. after = queue  BY <1>5, <2>2
    <3>2. \A i \in 1..Len(after) : after[i] # 0 /\ i \in 1..Len(queue) /\ after[i] = queue[i]  BY <1>8, <3>1
    <3>3. \A i \in 1..Len(queue) : i \in 1..Len(after) /\ after[i] = queue[i]  BY <3>1
    <3>4. Len(after) <= Buffer  BY <1>8, <3>1
    <3>5. \A i \in 1..Len(after) : after[i] = 0 => i = Len(after)  BY <3>2
    <3>6. \A i \in 1..Len(after) : (i \in 1..Len(queue) /\ after[i] = queue[i]) \/ (i = Len(after) /\ after[i] = 0)
      BY <3>2
    <3>. QED  BY <3>3, <3>4, <3>5, <3>6
  <2>. QED  BY <2>1, <2>2
<1>10. ConnectionFits(r)'
  <2>1. client[r].id # None => Given(client[r].id)  BY <1>1 DEF ConnectionFits
  <2>2. client'[r].id # None => Given(client[r].id)'  BY <1>1, <2>1 DEF Given
  <2>. QED  BY <1>1, <1>2, <1>7, <1>9, <2>2 DEF ConnectionFits
<1>11. ASSUME NEW t \in Starts, client'[r].id # None, client'[r].id = run[t].id, Sole(t)
       PROVE  ReaderFits(r, t)'
  <2>1. GotFits(r, t) /\ LiveFits(r, t)  BY <1>1, <1>2, <1>11 DEF ExtractorInv, ReadersFit, ReaderFits
  <2>2. Seen(r)' = Seen(r) /\ LastEventId(r)' = LastEventId(r)  BY <1>1 DEF Seen, LastEventId
  <2>3. GotFits(r, t)'  BY <1>1, <2>1, <2>2 DEF GotFits
  <2>4. LiveFits(r, t)'
    <3>1. /\ \A i \in 1..Len(queue) : queue[i] <= run[t].seq /\ (queue[i] # 0 => queue[i] > LastEventId(r))
          /\ \A i, j \in 1..Len(queue) : i < j => queue[j] = 0 \/ queue[i] < queue[j]
          /\ 1..run[t].seq \subseteq Seen(r) \cup Range(queue)
      BY <1>3, <2>1 DEF LiveFits
    <3>2. 0 <= run[t].seq  BY <1>1 DEF Types, RunTypes
    <3>3. \A i \in 1..Len(after) : after[i] <= run[t].seq /\ (after[i] # 0 => after[i] > LastEventId(r))
      BY <1>9, <3>1, <3>2
    <3>4. ASSUME NEW i \in 1..Len(after), NEW j \in 1..Len(after), i < j
          PROVE  after[j] = 0 \/ after[i] < after[j]
      <4>1. i # Len(after)  BY <3>4
      <4>2. i \in 1..Len(queue) /\ after[i] = queue[i]  BY <1>9, <4>1
      <4>. QED  BY <1>9, <3>1, <3>4, <4>2
    <3>5. Range(queue) \subseteq Range(after)
      <4>1. DOMAIN queue = 1..Len(queue) /\ DOMAIN after = 1..Len(after)  OBVIOUS
      <4>. QED  BY <1>9, <4>1 DEF Range
    <3>6. 1..run[t].seq \subseteq Seen(r) \cup Range(after)  BY <3>1, <3>5
    <3>. QED  BY <1>1, <1>7, <2>2, <3>3, <3>4, <3>6 DEF LiveFits
  <2>. QED  BY <1>7, <2>3, <2>4 DEF ReaderFits
<1>. QED  BY <1>1, <1>6, <1>10, <1>11, ReaderMoves DEF Types

\* Who came after the end is closed without one.
LEMMA CloseLateKeeps ==
    ASSUME ExtractorInv, NEW r \in Readers, CloseLate(r)
    PROVE  ExtractorInv'
<1>1. /\ stream[r].closer = "late" /\ UNCHANGED <<runs, bus, run, disk, request, client>>
      /\ stream' = [stream EXCEPT ![r].closer = "none", ![r].closed = TRUE, ![r].listed = FALSE]
      /\ Types /\ ConnectionFits(r) /\ stream[r] \in StreamTypes /\ client[r] \in ClientTypes
  BY DEF CloseLate, ExtractorInv, ReadersFit, Types
<1>2. stream[r].step = "live"
  BY <1>1, StreamsStart DEF ConnectionFits, StreamTypes
<1>3. /\ stream'[r] = [stream[r] EXCEPT !.closer = "none", !.closed = TRUE, !.listed = FALSE]
      /\ stream' \in [Readers -> StreamTypes] /\ \A p \in Readers : p # r => stream'[p] = stream[p]
  BY <1>1 DEF Types, StreamTypes
<1>4. /\ stream'[r].step = "live" /\ stream'[r].on = stream[r].on /\ ~ stream'[r].listed
      /\ stream'[r].closed /\ stream'[r].closer = "none" /\ stream'[r].queue = stream[r].queue
      /\ stream'[r].source = stream[r].source /\ stream'[r].from = stream[r].from
  BY <1>1, <1>2, <1>3 DEF StreamTypes
<1>5. ConnectionFits(r)'
  <2>1. client[r].id # None => Given(client[r].id)  BY <1>1 DEF ConnectionFits
  <2>2. client'[r].id # None => Given(client[r].id)'  BY <1>1, <2>1 DEF Given
  <2>. QED  BY <1>1, <1>2, <1>4, <2>2 DEF ConnectionFits
<1>6. ASSUME NEW t \in Starts, client'[r].id # None, client'[r].id = run[t].id, Sole(t)
      PROVE  ReaderFits(r, t)'
  <2>1. ReaderFits(r, t)  BY <1>1, <1>6 DEF ExtractorInv, ReadersFit
  <2>. QED  BY <1>1, <1>2, <1>4, <2>1, ReaderKeeps
<1>. QED  BY <1>1, <1>3, <1>5, <1>6, ReaderMoves DEF Types

\* A reader takes the next event, or hears of the end.
LEMMA ReadKeeps ==
    ASSUME ExtractorInv, NEW r \in Readers, Read(r)
    PROVE  ExtractorInv'
<1>1. /\ stream[r].step = "live" /\ UNCHANGED <<runs, bus, run, disk, request>>
      /\ Types /\ ConnectionFits(r) /\ stream[r] \in StreamTypes /\ client[r] \in ClientTypes
      /\ client[r].id # None
  BY NoneIsNothing DEF Read, ExtractorInv, ReadersFit, Types, ConnectionFits
<1>2. PICK queue \in Seq(Nat), got \in Seq(Nat) : queue = stream[r].queue /\ got = client[r].got
  BY <1>1 DEF StreamTypes, ClientTypes
\* Alone under the id, the reader is on the run's stream.
<1>3. ASSUME NEW t \in Starts, client[r].id = run[t].id, Sole(t)
      PROVE  /\ GotFits(r, t) /\ stream[r].on = t /\ run[t] \in RunTypes
             /\ \A i \in 1..Len(queue) : queue[i] <= run[t].seq /\ (queue[i] # 0 => queue[i] > LastEventId(r))
             /\ \A i, j \in 1..Len(queue) : i < j => queue[j] = 0 \/ queue[i] < queue[j]
             /\ 1..run[t].seq \subseteq Seen(r) \cup Range(queue)
  <2>1. GotFits(r, t) /\ LiveFits(r, t)  BY <1>1, <1>3 DEF ExtractorInv, ReadersFit, ReaderFits
  <2>2. stream[r].on = t  BY <1>1, <1>3 DEF ConnectionFits, Sole
  <2>. QED  BY <1>1, <1>2, <2>1, <2>2 DEF LiveFits, Types
<1>4. \A i \in 1..Len(queue) : queue[i] = 0 => i = Len(queue) /\ stream[r].closed
  BY <1>1, <1>2 DEF ConnectionFits
<1>5. stream[r].closed => run[stream[r].on].step = "done"
  BY <1>1 DEF ConnectionFits
<1>6. CASE /\ IF queue = << >> THEN stream[r].closed ELSE Head(queue) = 0
           /\ client' = [client EXCEPT ![r].end = "live"] /\ stream' = [stream EXCEPT ![r] = NoStream]
  <2>1. /\ client' \in [Readers -> ClientTypes] /\ (\A p \in Readers : p # r => client'[p] = client[p])
        /\ client'[r].id = client[r].id /\ client'[r].got = client[r].got /\ client'[r].lost = client[r].lost
    BY <1>1, <1>6 DEF Types, ClientTypes
  <2>2. stream[r].closed /\ \A x \in Range(queue) : x = 0
    <3>1. CASE queue = << >>
      <4>1. Range(queue) = {}  BY <3>1 DEF Range
      <4>. QED  BY <1>6, <3>1, <4>1
    <3>2. CASE queue # << >>
      <4>1. Len(queue) \in Nat /\ Len(queue) >= 1 /\ queue[1] = 0  BY <1>6, <3>2, EmptySeq
      <4>2. Len(queue) = 1 /\ stream[r].closed
        <5>1. 1 \in 1..Len(queue)  BY <4>1
        <5>. QED  BY <1>4, <4>1, <5>1
      <4>3. DOMAIN queue = {1}
        <5>1. DOMAIN queue = 1..1  BY <4>2
        <5>. QED  BY <5>1
      <4>. QED  BY <4>1, <4>2, <4>3 DEF Range
    <3>. QED  BY <3>1, <3>2
  <2>3. ASSUME NEW t \in Starts, client[r].id = run[t].id, Sole(t)
        PROVE  1..run[t].seq \subseteq Seen(r) /\ run[t].step \in {"done", "dead"}
    <3>1. 1..run[t].seq \subseteq Seen(r) \cup Range(queue) /\ stream[r].on = t  BY <1>3, <2>3
    <3>2. \A x \in 1..run[t].seq : x # 0
      <4>1. run[t].seq \in Nat  BY <1>3, <2>3 DEF RunTypes
      <4>. QED  BY <4>1
    <3>. QED  BY <1>5, <2>2, <3>1, <3>2
  <2>. QED  BY <1>1, <1>6, <2>1, <2>3, ReaderLeaves
<1>7. CASE /\ ~ (IF queue = << >> THEN stream[r].closed ELSE Head(queue) = 0) /\ queue # << >>
           /\ client' = [client EXCEPT ![r].got = Append(@, Head(queue))]
           /\ stream' = [stream EXCEPT ![r].queue = Tail(@)]
  <2>1. PICK head \in Nat, tail \in Seq(Nat), more \in Seq(Nat) :
            head = Head(queue) /\ tail = Tail(queue) /\ more = Append(got, head)
    <3>1. Head(queue) \in Nat /\ Tail(queue) \in Seq(Nat)  BY <1>7, HeadTailProperties
    <3>2. Append(got, Head(queue)) \in Seq(Nat)  BY <3>1
    <3>. QED  BY <3>1, <3>2
  <2>2. /\ head # 0 /\ head = queue[1] /\ Len(queue) \in Nat /\ Len(queue) >= 1 /\ Len(tail) = Len(queue) - 1
        /\ \A i \in 1..Len(tail) : i + 1 \in 1..Len(queue) /\ tail[i] = queue[i + 1]
    <3>1. Len(queue) \in Nat /\ Len(queue) >= 1  BY <1>7, EmptySeq
    <3>2. Len(tail) = Len(queue) - 1 /\ \A i \in 1..Len(tail) : tail[i] = queue[i + 1]
      BY <1>7, <2>1, HeadTailProperties
    <3>3. \A i \in 1..Len(tail) : i + 1 \in 1..Len(queue)  BY <3>1, <3>2
    <3>4. head # 0 /\ head = queue[1]  BY <1>7, <2>1
    <3>. QED  BY <3>1, <3>2, <3>3, <3>4
  <2>3. /\ Len(got) \in Nat /\ Len(more) = Len(got) + 1
        /\ \A i \in 1..Len(more) : more[i] = IF i <= Len(got) THEN got[i] ELSE head
    BY <2>1, AppendProperties
  <2>4. Range(more) = Range(got) \cup {head}
    <3>1. DOMAIN more = 1..Len(more) /\ DOMAIN got = 1..Len(got)  OBVIOUS
    <3>2. \A i \in 1..Len(got) : i \in 1..Len(more) /\ more[i] = got[i]  BY <2>3
    <3>3. Len(more) \in 1..Len(more) /\ more[Len(more)] = head
      <4>1. Len(more) \in 1..Len(more) /\ ~ (Len(more) <= Len(got))  BY <2>3
      <4>. QED  BY <2>3, <4>1
    <3>4. \A i \in 1..Len(more) : i \in 1..Len(got) \/ more[i] = head  BY <2>3
    <3>. QED  BY <3>1, <3>2, <3>3, <3>4 DEF Range
  <2>5. /\ stream'[r] = [stream[r] EXCEPT !.queue = tail] /\ client'[r] = [client[r] EXCEPT !.got = more]
        /\ stream' \in [Readers -> StreamTypes] /\ client' \in [Readers -> ClientTypes]
        /\ \A p \in Readers : p # r => stream'[p] = stream[p] /\ client'[p] = client[p]
    BY <1>1, <1>2, <1>7, <2>1 DEF Types, StreamTypes, ClientTypes
  <2>6. /\ stream'[r].step = "live" /\ stream'[r].on = stream[r].on /\ stream'[r].listed = stream[r].listed
        /\ stream'[r].closed = stream[r].closed /\ stream'[r].closer = stream[r].closer /\ stream'[r].queue = tail
        /\ client'[r].id = client[r].id /\ client'[r].got = more /\ client'[r].lost = client[r].lost
        /\ client'[r].end = client[r].end
    BY <1>1, <2>5 DEF StreamTypes, ClientTypes
  <2>7. ConnectionFits(r)'
    <3>1. client[r].id # None => Given(client[r].id)  BY <1>1 DEF ConnectionFits
    <3>2. client'[r].id # None => Given(client[r].id)'  BY <1>1, <2>6, <3>1 DEF Given
    <3>3. Len(tail) <= Buffer  BY <1>1, <1>2, <2>2, StreamsStart DEF ConnectionFits
    <3>4. ASSUME NEW i \in 1..Len(tail), tail[i] = 0  PROVE i = Len(tail) /\ stream[r].closed
      <4>1. i + 1 = Len(queue) /\ stream[r].closed  BY <1>4, <2>2, <3>4
      <4>. QED  BY <2>2, <4>1
    <3>. QED  BY <1>1, <2>6, <3>2, <3>3, <3>4 DEF ConnectionFits
  <2>8. ASSUME NEW t \in Starts, client'[r].id # None, client'[r].id = run[t].id, Sole(t)
        PROVE  ReaderFits(r, t)'
    <3>1. /\ GotFits(r, t) /\ run[t].seq \in Nat
          /\ \A i \in 1..Len(queue) : queue[i] <= run[t].seq /\ (queue[i] # 0 => queue[i] > LastEventId(r))
          /\ \A i, j \in 1..Len(queue) : i < j => queue[j] = 0 \/ queue[i] < queue[j]
          /\ 1..run[t].seq \subseteq Seen(r) \cup Range(queue)
      BY <1>3, <2>6, <2>8 DEF RunTypes
    <3>2. head <= run[t].seq /\ head > LastEventId(r) /\ 1 \in 1..Len(queue)  BY <2>2, <3>1
    <3>3. /\ LastEventId(r) \in 0..run[t].seq
          /\ \A i \in 1..Len(got) : got[i] <= LastEventId(r)
      BY <1>1, <1>2, <3>1, LastSeen DEF Types
    <3>4. LastEventId(r)' = head
      <4>1. more # << >> /\ more[Len(more)] = head
        <5>1. Len(more) \in 1..Len(more) /\ ~ (Len(more) <= Len(got)) /\ Len(more) # 0  BY <2>3
        <5>2. more # << >>  BY <5>1, EmptySeq
        <5>. QED  BY <2>3, <5>1, <5>2
      <4>. QED  BY <2>6, <4>1 DEF LastEventId, Last
    <3>5. Seen(r)' = Seen(r) \cup {head}  BY <1>2, <2>4, <2>6 DEF Seen
    <3>6. 1..head \subseteq Seen(r) \cup {head}
      <4>. SUFFICES ASSUME NEW x \in 1..head, x \notin Seen(r)  PROVE x = head
        OBVIOUS
      <4>0. x \in Range(queue)
        <5>1. head \in Nat /\ head <= run[t].seq /\ run[t].seq \in Nat  BY <2>2, <3>1, <3>2
        <5>2. x \in 1..run[t].seq  BY <5>1
        <5>3. 1..run[t].seq \subseteq Seen(r) \cup Range(queue)  BY <3>1
        <5>. QED  BY <5>2, <5>3
      <4>1. PICK i \in 1..Len(queue) : x = queue[i]
        <5>1. DOMAIN queue = 1..Len(queue)  OBVIOUS
        <5>. QED  BY <4>0, <5>1 DEF Range
      <4>2. i > 1 => queue[i] = 0 \/ queue[1] < queue[i]  BY <3>1, <3>2
      <4>3. queue[i] \in Nat /\ i \in Nat /\ x >= 1 /\ x <= head  OBVIOUS
      <4>. QED  BY <2>2, <4>1, <4>2, <4>3
    <3>7. GotFits(r, t)'
      <4>1. /\ \A i \in 1..Len(got) : got[i] \in 1..run[t].seq
            /\ \A i, j \in 1..Len(got) : i < j => got[i] < got[j]
        BY <1>2, <3>1 DEF GotFits
      <4>2. client[r].end = "live" => 1..run[t].seq \subseteq Seen(r) /\ run[t].step \in {"done", "dead"}
        BY <3>1 DEF GotFits
      <4>3. \A i \in 1..Len(more) : more[i] \in 1..run[t].seq
        <5>1. head \in 1..run[t].seq  BY <2>2, <3>2
        <5>2. \A i \in 1..Len(more) : (i \in 1..Len(got) /\ more[i] = got[i]) \/ more[i] = head  BY <2>3
        <5>. QED  BY <4>1, <5>1, <5>2
      <4>4. ASSUME NEW i \in 1..Len(more), NEW j \in 1..Len(more), i < j  PROVE more[i] < more[j]
        <5>0. i \in 1..Len(got) /\ more[i] = got[i]  BY <2>3, <4>4
        <5>1. i \in 1..Len(got) /\ more[i] = got[i] /\ got[i] <= LastEventId(r)  BY <3>3, <5>0
        <5>2. CASE j <= Len(got)
          <6>1. j \in 1..Len(got) /\ more[j] = got[j]  BY <2>3, <5>2
          <6>. QED  BY <4>1, <4>4, <5>1, <6>1
        <5>3. CASE ~ (j <= Len(got))
          <6>1. more[j] = head  BY <2>3, <5>3
          <6>2. got[i] \in Nat  BY <5>1
          <6>3. head > LastEventId(r) /\ LastEventId(r) \in Nat /\ head \in Nat  BY <2>2, <3>2, <3>3
          <6>. QED  BY <5>1, <6>1, <6>2, <6>3
        <5>. QED  BY <5>2, <5>3
      <4>. QED  BY <1>1, <2>6, <3>4, <3>5, <3>6, <4>2, <4>3, <4>4 DEF GotFits
    <3>8. LiveFits(r, t)'
      <4>1. ASSUME NEW i \in 1..Len(tail)
            PROVE  tail[i] <= run[t].seq /\ (tail[i] # 0 => tail[i] > head)
        <5>1. i + 1 \in 1..Len(queue) /\ tail[i] = queue[i + 1] /\ i + 1 > 1  BY <2>2
        <5>2. queue[i + 1] <= run[t].seq  BY <3>1, <5>1
        <5>3. queue[i + 1] = 0 \/ queue[1] < queue[i + 1]  BY <3>1, <3>2, <5>1
        <5>4. queue[i + 1] \in Nat  BY <5>1
        <5>. QED  BY <2>2, <5>1, <5>2, <5>3, <5>4
      <4>2. ASSUME NEW i \in 1..Len(tail), NEW j \in 1..Len(tail), i < j
            PROVE  tail[j] = 0 \/ tail[i] < tail[j]
        <5>1. /\ i + 1 \in 1..Len(queue) /\ tail[i] = queue[i + 1] /\ j + 1 \in 1..Len(queue)
              /\ tail[j] = queue[j + 1]
          BY <2>2
        <5>2. i + 1 < j + 1  BY <2>2, <4>2
        <5>. QED  BY <3>1, <5>1, <5>2
      <4>3. Range(queue) \subseteq Range(tail) \cup {head}
        <5>0. DOMAIN queue = 1..Len(queue) /\ DOMAIN tail = 1..Len(tail)  OBVIOUS
        <5>a. Range(queue) = {queue[i] : i \in 1..Len(queue)} /\ head = queue[1]  BY <2>2, <5>0 DEF Range
        <5>. SUFFICES ASSUME NEW i \in 1..Len(queue), i # 1  PROVE queue[i] \in Range(tail)
          BY <5>a
        <5>1. i - 1 \in 1..Len(tail) /\ (i - 1) + 1 = i  BY <2>2
        <5>2. tail[i - 1] = queue[i]  BY <2>2, <5>1
        <5>. QED  BY <5>0, <5>1, <5>2 DEF Range
      <4>4. 1..run[t].seq \subseteq Seen(r) \cup {head} \cup Range(tail)  BY <3>1, <4>3
      <4>. QED  BY <1>1, <2>6, <3>4, <3>5, <4>1, <4>2, <4>4 DEF LiveFits
    <3>. QED  BY <2>6, <3>7, <3>8 DEF ReaderFits
  <2>. QED  BY <1>1, <2>5, <2>7, <2>8, ReaderMoves
<1>8. QED  BY <1>2, <1>6, <1>7 DEF Read

\* A client comes with the last number it has, and keeps what it has.
LEMMA LastIsNumber ==
    ASSUME NEW r \in Readers, client[r] \in ClientTypes
    PROVE  LastEventId(r) \in Nat
<1>1. client[r].got \in Seq(Nat)  BY DEF ClientTypes
<1>2. client[r].got # << >> => Len(client[r].got) \in 1..Len(client[r].got)  BY <1>1, EmptySeq
<1>. QED  BY <1>1, <1>2 DEF LastEventId, Last

LEMMA SubscribeKeeps ==
    ASSUME ExtractorInv, NEW r \in Readers, NEW id \in Ids, Subscribe(r, id)
    PROVE  ExtractorInv'
<1>1. /\ UNCHANGED <<runs, bus, run, disk, request>> /\ MayConnect(r, id) /\ bus[id] # None
      /\ Types /\ RunsFit /\ ConnectionFits(r) /\ stream[r] \in StreamTypes /\ client[r] \in ClientTypes
  BY DEF Subscribe, ExtractorInv, ReadersFit, Types
<1>2. /\ client[r].id \in {None, id} /\ client[r].end = "none"
  BY <1>1 DEF MayConnect
<1>3. PICK s \in Starts : s = bus[id]  BY <1>1 DEF Types
<1>4. /\ run[s].id = id /\ run[s].step \in Live \cup {"done"} /\ RunFits(s) /\ run[s] \in RunTypes
      /\ run[s].history \in Seq(Nat) /\ run[s].seq \in Nat
  BY <1>1, <1>3, AtRun DEF RunsFit, MapsFit, RunTypes
<1>5. PICK from \in Nat \ {0} : from = From(r) /\ from = LastEventId(r) + 1
  <2>1. LastEventId(r) + 1 \in Nat \ {0}  BY <1>1, LastIsNumber
  <2>. QED  BY <2>1 DEF From
<1>6. PICK wanted : wanted = Wanted(run[s].history, from)  OBVIOUS
<1>7. PICK queue : queue = SubSeq(wanted, 1, IF Len(wanted) > Buffer THEN Buffer ELSE Len(wanted))  OBVIOUS
<1>8. PICK lost : lost = (from..run[s].seq) \ Range(queue)  OBVIOUS
<1>9. /\ stream' = [stream EXCEPT ![r] = [NoStream EXCEPT !.step = "live", !.on = s, !.queue = queue,
                        !.listed = TRUE, !.closer = IF run[s].finished THEN "late" ELSE "none"]]
      /\ client' = [client EXCEPT ![r].id = id, ![r].connects = @ + 1, ![r].lost = @ \cup lost]
  BY <1>3, <1>5, <1>6, <1>7, <1>8 DEF Subscribe, Connected
<1>10. /\ wanted \in Seq(Nat)
       /\ \A i \in 1..Len(wanted) : wanted[i] \in from..run[s].seq
       /\ \A i, j \in 1..Len(wanted) : i < j => wanted[i] < wanted[j]
  <2>1. Len(run[s].history) <= run[s].seq /\ EndsWith(run[s].history, run[s].seq)
    BY <1>4 DEF RunFits, HistoryFits, EndsWith
  <2>. QED  BY <1>4, <1>6, <2>1, WantedFits
<1>11. /\ queue \in Seq(Nat) /\ Len(queue) <= Buffer
       /\ \A i \in 1..Len(queue) : queue[i] \in from..run[s].seq
       /\ \A i, j \in 1..Len(queue) : i < j => queue[i] < queue[j]
  <2>1. PICK n \in Nat : n = IF Len(wanted) > Buffer THEN Buffer ELSE Len(wanted)
    BY <1>10, StreamsStart
  <2>2. n <= Buffer /\ n <= Len(wanted)  BY <1>10, <2>1, StreamsStart
  <2>3. 1..n \subseteq 1..Len(wanted)  BY <1>10, <2>2
  <2>4. \A i \in 1..n : wanted[i] \in Nat  BY <1>10, <2>3
  <2>5. /\ queue \in Seq(Nat) /\ Len(queue) = IF 1 <= n THEN n - 1 + 1 ELSE 0
        /\ \A i \in 1..n - 1 + 1 : queue[i] = wanted[1 + i - 1]
    BY <1>7, <2>1, <2>4, SubSeqProperties
  <2>6. Len(queue) = n /\ \A i \in 1..n : queue[i] = wanted[i]
    <3>1. Len(queue) = n  BY <2>5
    <3>2. ASSUME NEW i \in 1..n  PROVE queue[i] = wanted[i]
      <4>1. i \in 1..n - 1 + 1 /\ 1 + i - 1 = i  OBVIOUS
      <4>. QED  BY <2>5, <4>1
    <3>. QED  BY <3>1, <3>2
  <2>. QED  BY <1>10, <2>2, <2>3, <2>5, <2>6
<1>12. lost \subseteq Nat /\ lost \subseteq from..run[s].seq  BY <1>4, <1>8
<1>13. /\ stream'[r] = [NoStream EXCEPT !.step = "live", !.on = s, !.queue = queue,
                            !.listed = TRUE, !.closer = IF run[s].finished THEN "late" ELSE "none"]
       /\ stream' \in [Readers -> StreamTypes] /\ \A p \in Readers : p # r => stream'[p] = stream[p]
  BY <1>1, <1>9, <1>11, StreamsStart DEF Types, StreamTypes
<1>14. /\ client'[r] = [client[r] EXCEPT !.id = id, !.connects = @ + 1, !.lost = @ \cup lost]
       /\ client' \in [Readers -> ClientTypes] /\ \A p \in Readers : p # r => client'[p] = client[p]
  <2>1. client[r].lost \cup lost \in SUBSET Nat /\ client[r].connects + 1 \in Nat
    <3>1. client[r].lost \subseteq Nat /\ client[r].connects \in Nat  BY <1>1 DEF ClientTypes
    <3>2. client[r].lost \cup lost \in SUBSET Nat  BY <1>12, <3>1
    <3>3. client[r].connects + 1 \in Nat  BY <3>1
    <3>. QED  BY <3>2, <3>3
  <2>2. /\ client'[r] = [client[r] EXCEPT !.id = id, !.connects = @ + 1, !.lost = @ \cup lost]
        /\ \A p \in Readers : p # r => client'[p] = client[p]
    BY <1>1, <1>9 DEF Types
  <2>3. client'[r] \in ClientTypes  BY <1>1, <2>1, <2>2 DEF ClientTypes
  <2>4. client' = [p \in Readers |-> client'[p]]  BY <1>1, <1>9 DEF Types
  <2>. QED  BY <1>1, <2>2, <2>3, <2>4 DEF Types
<1>15. /\ stream'[r].step = "live" /\ stream'[r].on = s /\ stream'[r].queue = queue /\ stream'[r].listed
       /\ ~ stream'[r].closed /\ stream'[r].closer = IF run[s].finished THEN "late" ELSE "none"
       /\ client'[r].id = id /\ client'[r].got = client[r].got /\ client'[r].lost = client[r].lost \cup lost
       /\ client'[r].end = "none"
  BY <1>1, <1>2, <1>13, <1>14, StreamsStart DEF ClientTypes, StreamTypes
<1>16. ConnectionFits(r)'
  <2>1. Given(id)'  BY <1>1, <1>4 DEF Given
  <2>2. run[s].finished <=> run[s].step = "done"  BY <1>4 DEF RunFits
  <2>3. \A i \in 1..Len(queue) : queue[i] # 0  BY <1>4, <1>11
  <2>4. id # None  BY NoneIsNothing
  <2>. QED  BY <1>1, <1>3, <1>4, <1>11, <1>15, <2>1, <2>2, <2>3, <2>4 DEF ConnectionFits
<1>17. ASSUME NEW t \in Starts, client'[r].id # None, client'[r].id = run[t].id, Sole(t)
       PROVE  ReaderFits(r, t)'
  <2>1. t = s  BY <1>4, <1>15, <1>17 DEF Sole
  <2>2. LastEventId(r)' = LastEventId(r) /\ LastEventId(r) \in Nat /\ Seen(r)' = Seen(r) \cup lost
    BY <1>1, <1>15, LastIsNumber DEF LastEventId, Seen
  <2>3. GotFits(r, s)
    <3>1. CASE client[r].id = id
      <4>1. client[r].id # None  BY <3>1, NoneIsNothing
      <4>. QED  BY <1>4, <1>17, <2>1, <3>1, <4>1 DEF ExtractorInv, ReadersFit, ReaderFits
    <3>2. CASE client[r].id # id
      <4>1. client[r].got = << >> /\ LastEventId(r) = 0 /\ Len(client[r].got) = 0
        BY <1>1, <1>2, <3>2, EmptySeq DEF ConnectionFits, LastEventId
      <4>. QED  BY <1>2, <4>1 DEF GotFits
    <3>. QED  BY <3>1, <3>2
  <2>4. GotFits(r, s)'  BY <1>1, <1>15, <2>2, <2>3 DEF GotFits
  <2>5. LiveFits(r, s)'
    <3>1. \A i \in 1..Len(queue) : queue[i] <= run[s].seq /\ queue[i] > LastEventId(r)
      BY <1>4, <1>5, <1>11, <2>2
    <3>2. 1..run[s].seq \subseteq Seen(r) \cup lost \cup Range(queue)
      <4>1. 1..run[s].seq \subseteq 1..LastEventId(r) \cup from..run[s].seq  BY <1>4, <1>5, <2>2
      <4>. QED  BY <1>8, <2>3, <4>1 DEF GotFits
    <3>. QED  BY <1>1, <1>11, <1>15, <2>2, <3>1, <3>2 DEF LiveFits
  <2>. QED  BY <1>15, <2>1, <2>4, <2>5 DEF ReaderFits
<1>. QED  BY <1>1, <1>13, <1>14, <1>16, <1>17, ReaderMoves

LEMMA StartReplayKeeps ==
    ASSUME ExtractorInv, NEW r \in Readers, NEW id \in Ids, StartReplay(r, id)
    PROVE  ExtractorInv'
<1>1. /\ UNCHANGED <<runs, bus, run, disk, request>> /\ MayConnect(r, id) /\ disk[id].log # << >>
      /\ Types /\ DiskFits /\ ConnectionFits(r) /\ stream[r] \in StreamTypes /\ client[r] \in ClientTypes
      /\ client[r].id \in {None, id} /\ client[r].end = "none"
  BY DEF StartReplay, MayConnect, ExtractorInv, ReadersFit, Types
<1>2. PICK from \in Nat \ {0} : from = From(r) /\ from = LastEventId(r) + 1
  <2>1. LastEventId(r) + 1 \in Nat \ {0}  BY <1>1, LastIsNumber
  <2>. QED  BY <2>1 DEF From
<1>3. PICK log \in Seq(Nat) : log = disk[id].log  BY <1>1 DEF Types, DiskTypes
<1>4. Given(id)
  <2>1. disk[id] # NoDirectory  BY <1>1 DEF NoDirectory
  <2>. QED  BY <1>1, <2>1 DEF DiskFits, DirectoriesFit
<1>5. /\ stream' = [stream EXCEPT ![r] = [NoStream EXCEPT !.step = "replay", !.source = log, !.from = from]]
      /\ client' = [client EXCEPT ![r].id = id, ![r].connects = @ + 1, ![r].lost = @ \cup {}]
  BY <1>2, <1>3 DEF StartReplay, Connected
<1>6. /\ stream'[r] = [NoStream EXCEPT !.step = "replay", !.source = log, !.from = from]
      /\ stream' \in [Readers -> StreamTypes] /\ \A p \in Readers : p # r => stream'[p] = stream[p]
  BY <1>1, <1>5, StreamsStart DEF Types, StreamTypes
<1>7. /\ client'[r] = [client[r] EXCEPT !.id = id, !.connects = @ + 1, !.lost = @ \cup {}]
      /\ client' \in [Readers -> ClientTypes] /\ \A p \in Readers : p # r => client'[p] = client[p]
  <2>1. client[r].lost \cup {} \in SUBSET Nat /\ client[r].connects + 1 \in Nat  BY <1>1 DEF ClientTypes
  <2>2. /\ client'[r] = [client[r] EXCEPT !.id = id, !.connects = @ + 1, !.lost = @ \cup {}]
        /\ \A p \in Readers : p # r => client'[p] = client[p]
    BY <1>1, <1>5 DEF Types
  <2>3. client'[r] \in ClientTypes  BY <1>1, <2>1, <2>2 DEF ClientTypes
  <2>4. client' = [p \in Readers |-> client'[p]]  BY <1>1, <1>5 DEF Types
  <2>. QED  BY <1>1, <2>2, <2>3, <2>4 DEF Types
<1>8. /\ stream'[r].step = "replay" /\ stream'[r].on = None /\ stream'[r].queue = << >> /\ ~ stream'[r].listed
      /\ ~ stream'[r].closed /\ stream'[r].closer = "none" /\ stream'[r].source = log /\ stream'[r].from = from
      /\ client'[r].id = id /\ client'[r].got = client[r].got /\ client'[r].lost = client[r].lost
      /\ client'[r].end = "none" /\ Len(stream'[r].queue) = 0
  BY <1>1, <1>6, <1>7, StreamsStart DEF ClientTypes, StreamTypes
<1>9. ConnectionFits(r)'
  <2>1. Given(id)' /\ id # None  BY <1>1, <1>4, NoneIsNothing DEF Given
  <2>. QED  BY <1>8, <2>1, StreamsStart DEF ConnectionFits
<1>10. ASSUME NEW t \in Starts, client'[r].id # None, client'[r].id = run[t].id, Sole(t)
       PROVE  ReaderFits(r, t)'
  <2>1. run[t].step # "idle" /\ run[t].id = id
    <3>1. run[t].id # None  BY <1>10
    <3>. QED  BY <1>8, <1>10, <3>1, AtRun DEF RunFits, NoStart
  <2>2. LastEventId(r)' = LastEventId(r) /\ LastEventId(r) \in Nat /\ Seen(r)' = Seen(r)
    BY <1>1, <1>8, LastIsNumber DEF LastEventId, Seen
  <2>3. GotFits(r, t)
    <3>1. CASE client[r].id = id
      <4>1. client[r].id # None  BY <3>1, NoneIsNothing
      <4>. QED  BY <1>10, <2>1, <3>1, <4>1 DEF ExtractorInv, ReadersFit, ReaderFits
    <3>2. CASE client[r].id # id
      <4>1. client[r].got = << >> /\ LastEventId(r) = 0 /\ Len(client[r].got) = 0
        BY <1>1, <3>2, EmptySeq DEF ConnectionFits, LastEventId
      <4>. QED  BY <1>1, <4>1 DEF GotFits
    <3>. QED  BY <3>1, <3>2
  <2>4. GotFits(r, t)'  BY <1>1, <1>8, <2>2, <2>3 DEF GotFits
  <2>5. ReplayFits(r, t)'
    <3>1. PICK seq \in Nat : seq = run[t].seq  BY AtRun DEF RunTypes
    <3>2. Len(log) <= seq /\ \A j \in 1..Len(log) : log[j] = j
      BY <1>1, <1>3, <1>10, <2>1, <3>1 DEF DiskFits, SoleFits
    <3>3. 0 \in 0..seq /\ 0 + 0 + Len(log) <= seq  BY <3>2
    <3>4. \A j \in 1..Len(log) : log[j] = 0 + 0 + j  BY <3>2
    <3>5. from >= 1 /\ LastEventId(r) = IF 0 < from - 1 THEN from - 1 ELSE 0  BY <1>2, <2>2
    <3>6. \E k \in 0..seq :
              /\ k + 0 + Len(log) <= seq
              /\ \A i \in 1..0 : stream'[r].queue[i] = k + i
              /\ \A j \in 1..Len(log) : log[j] = k + 0 + j
              /\ from >= 1 /\ LastEventId(r) = IF k < from - 1 THEN from - 1 ELSE k
      <4>1. \A i \in 1..0 : stream'[r].queue[i] = 0 + i  OBVIOUS
      <4>. QED  BY <3>3, <3>4, <3>5, <4>1
    <3>. QED  BY <1>1, <1>8, <2>2, <3>1, <3>6 DEF ReplayFits
  <2>. QED  BY <1>8, <2>4, <2>5 DEF ReaderFits
<1>. QED  BY <1>1, <1>6, <1>7, <1>9, <1>10, ReaderMoves

\* The replay pushes the log's next event.
LEMMA ReplayNextKeeps ==
    ASSUME ExtractorInv, NEW r \in Readers, ReplayNext(r)
    PROVE  ExtractorInv'
<1>1. /\ stream[r].step = "replay" /\ stream[r].source # << >> /\ Len(stream[r].queue) < Buffer
      /\ stream' = [stream EXCEPT ![r].queue = Append(@, Head(stream[r].source)), ![r].source = Tail(@)]
      /\ UNCHANGED <<runs, bus, run, disk, request, client>>
      /\ Types /\ ConnectionFits(r) /\ stream[r] \in StreamTypes /\ client[r] \in ClientTypes
  BY DEF ReplayNext, ExtractorInv, ReadersFit, Types
<1>2. PICK queue \in Seq(Nat), source \in Seq(Nat) : queue = stream[r].queue /\ source = stream[r].source
  BY <1>1 DEF StreamTypes
<1>3. PICK head \in Nat, tail \in Seq(Nat), longer \in Seq(Nat) :
          head = Head(source) /\ tail = Tail(source) /\ longer = Append(queue, head)
  <2>1. Head(source) \in Nat /\ Tail(source) \in Seq(Nat)  BY <1>1, <1>2, HeadTailProperties
  <2>2. Append(queue, Head(source)) \in Seq(Nat)  BY <2>1
  <2>. QED  BY <2>1, <2>2
<1>4. /\ head = source[1] /\ Len(source) \in Nat /\ Len(source) >= 1 /\ Len(tail) = Len(source) - 1
      /\ Len(queue) \in Nat /\ Len(longer) = Len(queue) + 1
      /\ \A j \in 1..Len(tail) : j + 1 \in 1..Len(source) /\ tail[j] = source[j + 1]
      /\ \A i \in 1..Len(longer) : longer[i] = IF i <= Len(queue) THEN queue[i] ELSE head
  <2>1. Len(source) \in Nat /\ Len(source) >= 1  BY <1>1, <1>2, EmptySeq
  <2>2. Len(tail) = Len(source) - 1 /\ \A j \in 1..Len(tail) : tail[j] = source[j + 1]
    BY <1>1, <1>2, <1>3, HeadTailProperties
  <2>3. \A j \in 1..Len(tail) : j + 1 \in 1..Len(source)  BY <2>1, <2>2
  <2>4. /\ Len(queue) \in Nat /\ Len(longer) = Len(queue) + 1
        /\ \A i \in 1..Len(longer) : longer[i] = IF i <= Len(queue) THEN queue[i] ELSE head
    BY <1>3, AppendProperties
  <2>5. head = source[1]  BY <1>1, <1>2, <1>3
  <2>. QED  BY <2>1, <2>2, <2>3, <2>4, <2>5
<1>5. /\ stream'[r] = [stream[r] EXCEPT !.queue = longer, !.source = tail]
      /\ stream' \in [Readers -> StreamTypes] /\ \A p \in Readers : p # r => stream'[p] = stream[p]
  BY <1>1, <1>2, <1>3 DEF Types, StreamTypes
<1>6. /\ stream'[r].step = "replay" /\ stream'[r].on = stream[r].on /\ stream'[r].listed = stream[r].listed
      /\ stream'[r].closed = stream[r].closed /\ stream'[r].closer = stream[r].closer
      /\ stream'[r].queue = longer /\ stream'[r].source = tail /\ stream'[r].from = stream[r].from
  BY <1>1, <1>5 DEF StreamTypes
<1>7. ConnectionFits(r)'
  <2>1. client[r].id # None => Given(client[r].id)  BY <1>1 DEF ConnectionFits
  <2>2. client'[r].id # None => Given(client[r].id)'  BY <1>1, <2>1 DEF Given
  <2>3. Len(longer) <= Buffer  BY <1>1, <1>2, <1>4, StreamsStart
  <2>. QED  BY <1>1, <1>6, <2>2, <2>3 DEF ConnectionFits
<1>8. ASSUME NEW t \in Starts, client'[r].id # None, client'[r].id = run[t].id, Sole(t)
      PROVE  ReaderFits(r, t)'
  <2>1. GotFits(r, t) /\ ReplayFits(r, t)  BY <1>1, <1>8 DEF ExtractorInv, ReadersFit, ReaderFits
  <2>2. Seen(r)' = Seen(r) /\ LastEventId(r)' = LastEventId(r)  BY <1>1 DEF Seen, LastEventId
  <2>3. GotFits(r, t)'  BY <1>1, <2>1, <2>2 DEF GotFits
  <2>4. ReplayFits(r, t)'
    <3>1. PICK seq \in Nat : seq = run[t].seq  BY <1>1 DEF Types, RunTypes
    <3>2. PICK q \in Nat, l \in Nat : q = Len(queue) /\ l = Len(tail) /\ Len(source) = l + 1 /\ Len(longer) = q + 1
      BY <1>4
    <3>3. PICK k \in 0..seq :
              /\ k + q + (l + 1) <= seq
              /\ \A i \in 1..q : queue[i] = k + i
              /\ \A j \in 1..l + 1 : source[j] = k + q + j
              /\ stream[r].from >= 1
              /\ LastEventId(r) = IF k < stream[r].from - 1 THEN stream[r].from - 1 ELSE k
      BY <1>2, <2>1, <3>1, <3>2 DEF ReplayFits
    <3>4. k + (q + 1) + l <= seq  BY <3>3
    <3>5. ASSUME NEW i \in 1..q + 1  PROVE longer[i] = k + i
      <4>1. CASE i <= q
        <5>1. i \in 1..q /\ longer[i] = queue[i]  BY <1>4, <3>2, <4>1
        <5>. QED  BY <3>3, <5>1
      <4>2. CASE i > q
        <5>1. i = q + 1 /\ ~ (i <= q) /\ i \in 1..Len(longer)  BY <3>2, <4>2
        <5>2. longer[i] = source[1] /\ 1 \in 1..l + 1  BY <1>4, <3>2, <5>1
        <5>3. source[1] = k + q + 1  BY <3>3, <5>2
        <5>4. k + q + 1 = k + i  BY <5>1
        <5>. QED  BY <5>2, <5>3, <5>4
      <4>. QED  BY <4>1, <4>2
    <3>6. ASSUME NEW j \in 1..l  PROVE tail[j] = k + (q + 1) + j
      <4>1. j + 1 \in 1..l + 1 /\ tail[j] = source[j + 1]  BY <1>4, <3>2
      <4>2. source[j + 1] = k + q + (j + 1)  BY <3>3, <4>1
      <4>3. k + q + (j + 1) = k + (q + 1) + j  OBVIOUS
      <4>. QED  BY <4>1, <4>2, <4>3
    <3>7. /\ Len(stream'[r].queue) = q + 1 /\ Len(stream'[r].source) = l
          /\ stream'[r].queue = longer /\ stream'[r].source = tail /\ stream'[r].from = stream[r].from
          /\ run'[t].seq = seq /\ LastEventId(r)' = LastEventId(r)
      BY <1>1, <1>6, <2>2, <3>1, <3>2
    <3>8. \E h \in 0..seq :
              /\ h + (q + 1) + l <= seq
              /\ \A i \in 1..q + 1 : longer[i] = h + i
              /\ \A j \in 1..l : tail[j] = h + (q + 1) + j
              /\ stream[r].from >= 1
              /\ LastEventId(r) = IF h < stream[r].from - 1 THEN stream[r].from - 1 ELSE h
      BY <3>3, <3>4, <3>5, <3>6
    <3>. QED  BY <3>7, <3>8 DEF ReplayFits
  <2>. QED  BY <1>6, <2>3, <2>4 DEF ReaderFits
<1>. QED  BY <1>1, <1>5, <1>7, <1>8, ReaderMoves DEF Types

\* The client reads what the replay has pushed, and skips what it has.
LEMMA ReplayReadKeeps ==
    ASSUME ExtractorInv, NEW r \in Readers, ReplayRead(r)
    PROVE  ExtractorInv'
<1>1. /\ stream[r].step = "replay" /\ stream[r].queue # << >>
      /\ stream' = [stream EXCEPT ![r].queue = Tail(@)]
      /\ client' = IF Head(stream[r].queue) < stream[r].from THEN client
                   ELSE [client EXCEPT ![r].got = Append(@, Head(stream[r].queue))]
      /\ UNCHANGED <<runs, bus, run, disk, request>>
      /\ Types /\ ConnectionFits(r) /\ stream[r] \in StreamTypes /\ client[r] \in ClientTypes
  BY DEF ReplayRead, ExtractorInv, ReadersFit, Types
<1>2. PICK queue \in Seq(Nat), got \in Seq(Nat), from \in Nat :
          queue = stream[r].queue /\ got = client[r].got /\ from = stream[r].from
  BY <1>1 DEF StreamTypes, ClientTypes
<1>3. PICK head \in Nat, tail \in Seq(Nat), more \in Seq(Nat) :
          head = Head(queue) /\ tail = Tail(queue) /\ more = Append(got, head)
  <2>1. Head(queue) \in Nat /\ Tail(queue) \in Seq(Nat)  BY <1>1, <1>2, HeadTailProperties
  <2>2. Append(got, Head(queue)) \in Seq(Nat)  BY <2>1
  <2>. QED  BY <2>1, <2>2
<1>4. /\ head = queue[1] /\ Len(queue) \in Nat /\ Len(queue) >= 1 /\ Len(tail) = Len(queue) - 1
      /\ \A i \in 1..Len(tail) : i + 1 \in 1..Len(queue) /\ tail[i] = queue[i + 1]
      /\ Len(got) \in Nat /\ Len(more) = Len(got) + 1
      /\ \A i \in 1..Len(more) : more[i] = IF i <= Len(got) THEN got[i] ELSE head
  <2>1. Len(queue) \in Nat /\ Len(queue) >= 1  BY <1>1, <1>2, EmptySeq
  <2>2. Len(tail) = Len(queue) - 1 /\ \A i \in 1..Len(tail) : tail[i] = queue[i + 1]
    BY <1>1, <1>2, <1>3, HeadTailProperties
  <2>3. \A i \in 1..Len(tail) : i + 1 \in 1..Len(queue)
    <3>1. Len(tail) = Len(queue) - 1  BY <2>2
    <3>. QED  BY <2>1, <3>1
  <2>4. /\ Len(got) \in Nat /\ Len(more) = Len(got) + 1
        /\ \A i \in 1..Len(more) : more[i] = IF i <= Len(got) THEN got[i] ELSE head
    BY <1>3, AppendProperties
  <2>5. head = queue[1]  BY <1>1, <1>2, <1>3
  <2>. QED  BY <2>1, <2>2, <2>3, <2>4, <2>5
<1>5. Range(more) = Range(got) \cup {head}
  <2>1. DOMAIN more = 1..Len(more) /\ DOMAIN got = 1..Len(got)  OBVIOUS
  <2>2. ASSUME NEW i \in 1..Len(got)  PROVE i \in 1..Len(more) /\ more[i] = got[i]
    <3>1. i \in 1..Len(more) /\ i <= Len(got)  BY <1>4
    <3>. QED  BY <1>4, <3>1
  <2>3. Len(more) \in 1..Len(more) /\ more[Len(more)] = head
    <3>1. Len(more) \in 1..Len(more) /\ ~ (Len(more) <= Len(got))  BY <1>4
    <3>. QED  BY <1>4, <3>1
  <2>4. \A i \in 1..Len(more) : i \in 1..Len(got) \/ more[i] = head  BY <1>4
  <2>. QED  BY <2>1, <2>2, <2>3, <2>4 DEF Range
<1>6. /\ stream'[r] = [stream[r] EXCEPT !.queue = tail]
      /\ stream' \in [Readers -> StreamTypes] /\ \A p \in Readers : p # r => stream'[p] = stream[p]
  BY <1>1, <1>2, <1>3 DEF Types, StreamTypes
<1>7. /\ stream'[r].step = "replay" /\ stream'[r].on = stream[r].on /\ stream'[r].listed = stream[r].listed
      /\ stream'[r].closed = stream[r].closed /\ stream'[r].closer = stream[r].closer
      /\ stream'[r].queue = tail /\ stream'[r].source = stream[r].source /\ stream'[r].from = from
  BY <1>1, <1>2, <1>6 DEF StreamTypes
<1>8. /\ client' \in [Readers -> ClientTypes] /\ (\A p \in Readers : p # r => client'[p] = client[p])
      /\ client'[r].id = client[r].id /\ client'[r].lost = client[r].lost /\ client'[r].end = client[r].end
      /\ client'[r].got = IF head < from THEN got ELSE more
  <2>1. CASE head < from
    <3>1. client' = client  BY <1>1, <1>2, <1>3, <2>1
    <3>. QED  BY <1>1, <1>2, <2>1, <3>1 DEF Types
  <2>2. CASE ~ (head < from)
    <3>1. client' = [client EXCEPT ![r].got = Append(@, head)]  BY <1>1, <1>2, <1>3, <2>2
    <3>2. /\ client'[r] = [client[r] EXCEPT !.got = more]
          /\ \A p \in Readers : p # r => client'[p] = client[p]
      BY <1>1, <1>2, <1>3, <3>1 DEF Types
    <3>3. client'[r] \in ClientTypes
      <4>1. client[r] \in ClientTypes  BY <1>1
      <4>2. [client[r] EXCEPT !.got = more] \in ClientTypes  BY <4>1 DEF ClientTypes
      <4>. QED  BY <3>2, <4>2
    <3>4. client' = [p \in Readers |-> client'[p]]  BY <1>1, <3>1 DEF Types
    <3>5. client' \in [Readers -> ClientTypes]  BY <1>1, <3>2, <3>3, <3>4 DEF Types
    <3>. QED  BY <1>1, <2>2, <3>2, <3>5 DEF ClientTypes
  <2>. QED  BY <2>1, <2>2
<1>9. ConnectionFits(r)'
  <2>1. client[r].id # None => Given(client[r].id)  BY <1>1 DEF ConnectionFits
  <2>2. client'[r].id # None => Given(client[r].id)'  BY <1>1, <1>8, <2>1 DEF Given
  <2>3. Len(tail) <= Buffer  BY <1>1, <1>2, <1>4, StreamsStart DEF ConnectionFits
  <2>4. client[r].id # None  BY <1>1, NoneIsNothing DEF ConnectionFits
  <2>. QED  BY <1>1, <1>7, <1>8, <2>2, <2>3, <2>4 DEF ConnectionFits
<1>10. ASSUME NEW t \in Starts, client'[r].id # None, client'[r].id = run[t].id, Sole(t)
       PROVE  ReaderFits(r, t)'
  <2>1. GotFits(r, t) /\ ReplayFits(r, t)  BY <1>1, <1>8, <1>10 DEF ExtractorInv, ReadersFit, ReaderFits
  <2>2. PICK seq \in Nat : seq = run[t].seq  BY <1>1 DEF Types, RunTypes
  <2>3. PICK q \in Nat, l \in Nat, last \in Nat :
            q = Len(tail) /\ Len(queue) = q + 1 /\ l = Len(stream[r].source) /\ last = LastEventId(r)
    <3>1. stream[r].source \in Seq(Nat) /\ LastEventId(r) \in Nat  BY <1>1, LastIsNumber DEF StreamTypes
    <3>2. Len(stream[r].source) \in Nat  BY <3>1
    <3>. QED  BY <1>4, <3>1, <3>2
  <2>4. PICK k \in 0..seq :
            /\ k + (q + 1) + l <= seq
            /\ \A i \in 1..q + 1 : queue[i] = k + i
            /\ \A j \in 1..l : stream[r].source[j] = k + (q + 1) + j
            /\ from >= 1
            /\ last = IF k < from - 1 THEN from - 1 ELSE k
    BY <1>2, <2>1, <2>2, <2>3 DEF ReplayFits
  <2>5. head = k + 1 /\ k + 1 \in 1..seq
    <3>1. 1 \in 1..q + 1  OBVIOUS
    <3>. QED  BY <1>4, <2>4, <3>1
  <2>6. LastEventId(r)' = IF k + 1 < from - 1 THEN from - 1 ELSE k + 1
    <3>1. CASE head < from
      <4>1. LastEventId(r)' = last  BY <1>2, <1>8, <2>3, <3>1 DEF LastEventId
      <4>2. k < from - 1 /\ last = from - 1  BY <2>4, <2>5, <3>1
      <4>. QED  BY <2>4, <4>1, <4>2
    <3>2. CASE ~ (head < from)
      <4>1. client'[r].got = more /\ more # << >> /\ more[Len(more)] = head
        <5>1. Len(more) \in 1..Len(more) /\ ~ (Len(more) <= Len(got)) /\ Len(more) # 0  BY <1>4
        <5>2. more # << >>  BY <5>1, EmptySeq
        <5>. QED  BY <1>4, <1>8, <3>2, <5>1, <5>2
      <4>2. LastEventId(r)' = head  BY <4>1 DEF LastEventId, Last
      <4>3. ~ (k + 1 < from - 1)  BY <2>4, <2>5, <3>2
      <4>. QED  BY <2>5, <4>2, <4>3
    <3>. QED  BY <3>1, <3>2
  <2>7. GotFits(r, t)'
    <3>1. CASE head < from
      <4>1. Seen(r)' = Seen(r) /\ LastEventId(r)' = LastEventId(r) /\ client'[r].got = client[r].got
        BY <1>2, <1>8, <3>1 DEF Seen, LastEventId
      <4>. QED  BY <1>1, <1>8, <2>1, <4>1 DEF GotFits
    <3>2. CASE ~ (head < from)
      <4>1. Seen(r)' = Seen(r) \cup {head} /\ client'[r].got = more
        BY <1>2, <1>5, <1>8, <3>2 DEF Seen
      <4>2. LastEventId(r)' = head /\ last = k /\ head = k + 1  BY <2>4, <2>5, <2>6, <3>2
      <4>3. /\ \A i \in 1..Len(got) : got[i] \in 1..seq
            /\ \A i, j \in 1..Len(got) : i < j => got[i] < got[j]
            /\ 1..last \subseteq Seen(r)
            /\ client[r].end = "live" => 1..seq \subseteq Seen(r) /\ run[t].step \in {"done", "dead"}
        BY <1>2, <2>1, <2>2, <2>3 DEF GotFits
      <4>4. \A i \in 1..Len(got) : got[i] <= last
        BY <1>1, <1>2, <2>1, <2>3, LastSeen DEF Types
      <4>5. \A i \in 1..Len(more) : more[i] \in 1..seq
        <5>1. \A i \in 1..Len(more) : (i \in 1..Len(got) /\ more[i] = got[i]) \/ more[i] = head  BY <1>4
        <5>. QED  BY <2>5, <4>3, <5>1
      <4>6. ASSUME NEW i \in 1..Len(more), NEW j \in 1..Len(more), i < j  PROVE more[i] < more[j]
        <5>1. i \in 1..Len(got) /\ more[i] = got[i] /\ got[i] <= last
          <6>1. i \in 1..Len(got) /\ i <= Len(got)  BY <1>4, <4>6
          <6>. QED  BY <1>4, <4>4, <6>1
        <5>2. CASE j <= Len(got)
          <6>1. j \in 1..Len(got) /\ more[j] = got[j]  BY <1>4, <5>2
          <6>. QED  BY <4>3, <4>6, <5>1, <6>1
        <5>3. CASE ~ (j <= Len(got))
          <6>1. more[j] = head  BY <1>4, <5>3
          <6>2. got[i] \in Nat  BY <5>1
          <6>. QED  BY <4>2, <5>1, <6>1, <6>2
        <5>. QED  BY <5>2, <5>3
      <4>7. 1..head \subseteq Seen(r) \cup {head}
        <5>1. 1..head = 1..last \cup {head}  BY <4>2
        <5>. QED  BY <4>3, <5>1
      <4>. QED  BY <1>1, <1>8, <2>2, <4>1, <4>2, <4>3, <4>5, <4>6, <4>7 DEF GotFits
    <3>. QED  BY <3>1, <3>2
  <2>8. ReplayFits(r, t)'
    <3>1. PICK h \in 0..seq : h = k + 1  BY <2>5
    <3>2. h + q + l <= seq  BY <2>4, <3>1
    <3>3. ASSUME NEW i \in 1..q  PROVE tail[i] = h + i
      <4>1. i + 1 \in 1..q + 1 /\ tail[i] = queue[i + 1]  BY <1>4, <2>3
      <4>2. queue[i + 1] = k + (i + 1)  BY <2>4, <4>1
      <4>3. k + (i + 1) = h + i  BY <3>1
      <4>. QED  BY <4>1, <4>2, <4>3
    <3>4. ASSUME NEW j \in 1..l  PROVE stream[r].source[j] = h + q + j
      <4>1. k + (q + 1) + j = h + q + j  BY <3>1
      <4>. QED  BY <2>4, <4>1
    <3>5. /\ Len(stream'[r].queue) = q /\ Len(stream'[r].source) = l
          /\ stream'[r].queue = tail /\ stream'[r].source = stream[r].source /\ stream'[r].from = from
          /\ run'[t].seq = seq
      BY <1>1, <1>7, <2>2, <2>3
    <3>6. LastEventId(r)' = IF h < from - 1 THEN from - 1 ELSE h  BY <2>6, <3>1
    <3>7. \E g \in 0..seq :
              /\ g + q + l <= seq
              /\ \A i \in 1..q : tail[i] = g + i
              /\ \A j \in 1..l : stream[r].source[j] = g + q + j
              /\ from >= 1
              /\ LastEventId(r)' = IF g < from - 1 THEN from - 1 ELSE g
      BY <2>4, <3>2, <3>3, <3>4, <3>6
    <3>. QED  BY <3>5, <3>7 DEF ReplayFits
  <2>. QED  BY <1>7, <2>7, <2>8 DEF ReaderFits
<1>. QED  BY <1>1, <1>6, <1>8, <1>9, <1>10, ReaderMoves

-----------------------------------------------------------------------------
(***************************************************************************)
(* The process dies; the directories and the clients stay.                 *)
(***************************************************************************)
LEMMA CrashKeeps ==
    ASSUME ExtractorInv, Crash
    PROVE  ExtractorInv'
<1>1. /\ runs' = [id \in Ids |-> None] /\ bus' = [id \in Ids |-> None]
      /\ stream' = [r \in Readers |-> NoStream] /\ UNCHANGED <<disk, client>>
      /\ Types /\ RunsFit /\ DiskFits /\ ReadersFit
  BY DEF Crash, ExtractorInv
<1>2. ASSUME NEW t \in Starts, run[t].step = "idle"  PROVE run'[t] = run[t] /\ run[t] = NoStart
  BY <1>2, AtRun DEF Crash, RunFits
<1>3. ASSUME NEW t \in Starts, run[t].step # "idle"
      PROVE  /\ run'[t] \in RunTypes /\ run'[t].step = "dead" /\ run'[t].id = run[t].id
             /\ run'[t].seq = run[t].seq /\ run'[t].history = << >> /\ run'[t].file = "closed" /\ ~ run'[t].finished
  <2>1. PICK status : status = IF run[t].step \in Settled THEN run[t].status ELSE "none"  OBVIOUS
  <2>2. run'[t] = [NoStart EXCEPT !.step = "dead", !.id = run[t].id, !.seq = run[t].seq, !.status = status]
    BY <1>3, <2>1 DEF Crash
  <2>3. run[t] \in RunTypes  BY AtRun
  <2>4. run[t].seq \in Nat /\ run[t].id \in Ids \cup {None} /\ status \in Status
    BY <2>1, <2>3 DEF RunTypes, Status
  <2>5. "dead" \in RunSteps  BY DEF RunSteps
  <2>6. NoStart \in RunTypes
    <3>1. "idle" \in RunSteps /\ "none" \in Status  BY DEF RunSteps, Status
    <3>. QED  BY <3>1 DEF NoStart, RunTypes
  <2>7. /\ run'[t].step = "dead" /\ run'[t].id = run[t].id
        /\ run'[t].seq = run[t].seq /\ run'[t].history = << >> /\ run'[t].file = "closed" /\ ~ run'[t].finished
    BY <2>2 DEF NoStart
  <2>8. run'[t] \in RunTypes  BY <2>2, <2>4, <2>5, <2>6 DEF RunTypes
  <2>. QED  BY <2>7, <2>8
<1>4. run' \in [Starts -> RunTypes]
  <2>1. run' = [t \in Starts |-> run'[t]]  BY DEF Crash
  <2>2. \A t \in Starts : run'[t] \in RunTypes  BY <1>2, <1>3, AtRun
  <2>. QED  BY <2>1, <2>2
<1>5. ASSUME NEW q \in Requests
      PROVE  /\ request'[q] \in RequestTypes /\ request'[q].id = None /\ request'[q].on = None
             /\ request'[q].step \in {"idle", "done"} /\ (request'[q].step = "idle" => request'[q] = NoRequest)
  <2>1. RequestFits(q)  BY <1>1 DEF DiskFits
  <2>2. CASE request[q].step = "idle"
    <3>1. request'[q] = NoRequest  BY <2>1, <2>2 DEF Crash, RequestFits
    <3>. QED  BY <3>1, AnswersFit
  <2>3. CASE request[q].step # "idle"
    <3>1. request'[q] = Answered  BY <2>3 DEF Crash
    <3>. QED  BY <3>1, AnswersFit
  <2>. QED  BY <2>2, <2>3
<1>6. request' \in [Requests -> RequestTypes]
  <2>1. request' = [q \in Requests |-> request'[q]]  BY DEF Crash
  <2>. QED  BY <1>5, <2>1
<1>7. Types'  BY <1>1, <1>4, <1>6, StreamsStart DEF Types
<1>8. IdsStay /\ \A t \in Starts : run'[t].id = run[t].id
  <2>1. \A t \in Starts : run'[t].id = run[t].id  BY <1>2, <1>3
  <2>. QED  BY <2>1 DEF IdsStay
<1>9. RunsFit'
  <2>1. ASSUME NEW t \in Starts  PROVE RunFits(t)' /\ BusHasIt(t)'
    <3>1. RunFits(t) /\ (run[t].step # "idle" => run[t].id \in Ids)  BY AtRun
    <3>2. CASE run[t].step = "idle"
      <4>1. run'[t] = run[t] /\ run[t] = NoStart  BY <1>2, <3>2
      <4>2. RunFits(t)'  BY <3>1, <4>1 DEF RunFits, HistoryFits, EndFits
      <4>. QED  BY <3>2, <4>1, <4>2 DEF BusHasIt, Live
    <3>3. CASE run[t].step # "idle"
      <4>1. /\ run'[t].step = "dead" /\ run'[t].id \in Ids /\ run'[t].seq = run[t].seq
            /\ run'[t].history = << >> /\ Len(run'[t].history) = 0 /\ run'[t].file = "closed" /\ ~ run'[t].finished
        BY <1>3, <3>1, <3>3, EmptySeq
      <4>2. run[t].seq \in Nat /\ HistorySize \in Nat  BY AtRun, ExtractorAssumption DEF RunTypes, ExtractorAssumption
      <4>3. HistoryFits(t)'  BY <4>1, <4>2 DEF HistoryFits
      <4>4. EndFits(t)'  BY <4>1 DEF EndFits, Settled
      <4>5. "dead" \notin Live \cup Silent \cup Entered \cup Settled \cup {"idle", "done"}
        BY DEF Live, Silent, Entered, Settled
      <4>. QED  BY <3>1, <4>1, <4>3, <4>4, <4>5 DEF RunFits, BusHasIt
    <3>. QED  BY <3>2, <3>3
  <2>2. \A id \in Ids, t \in Starts : bus'[id] # t /\ runs'[id] # t  BY <1>1, NoneIsNothing
  <2>. QED  BY <2>1, <2>2 DEF RunsFit, MapsFit
<1>10. DiskFits'
  <2>1. ASSUME NEW q \in Requests  PROVE RequestFits(q)'
    BY <1>5, NoneIsNothing DEF RequestFits
  <2>2. DirectoriesFit'
    <3>1. DirectoriesFit  BY <1>1 DEF DiskFits
    <3>2. \A i \in Ids : Given(i)' <=> Given(i)  BY <1>8 DEF Given
    <3>3. \A t \in Starts : run'[t].file # "open"
      <4>1. \A t \in Starts : run[t].step = "idle" => run'[t].file = "closed"  BY <1>2 DEF NoStart
      <4>. QED  BY <1>3, <4>1
    <3>. QED  BY <1>1, <3>1, <3>2, <3>3 DEF DirectoriesFit
  <2>3. ASSUME NEW t \in Starts, run'[t].step # "idle", Sole(t)'  PROVE SoleFits(t)'
    <3>1. run[t].step # "idle"  BY <1>2, <2>3
    <3>2. Sole(t)  BY <1>8, <2>3, <3>1, SoleStays
    <3>3. SoleFits(t)  BY <1>1, <3>1, <3>2 DEF DiskFits
    <3>4. /\ run'[t].step = "dead" /\ run'[t].id = run[t].id /\ run'[t].seq = run[t].seq
          /\ run'[t].file = "closed"
      BY <1>3, <3>1
    <3>. QED  BY <1>1, <3>3, <3>4 DEF SoleFits, Live
  <2>. QED  BY <2>1, <2>2, <2>3 DEF DiskFits
<1>11. ASSUME NEW r \in Readers
       PROVE  /\ ConnectionFits(r)'
              /\ \A t \in Starts : client'[r].id # None /\ client'[r].id = run'[t].id /\ Sole(t)' => ReaderFits(r, t)'
  <2>1. ConnectionFits(r) /\ stream'[r] = NoStream /\ client'[r] = client[r]  BY <1>1 DEF ReadersFit
  <2>2. ConnectionFits(r)'
    <3>1. client[r].id # None => Given(client[r].id)  BY <2>1 DEF ConnectionFits
    <3>2. client'[r].id # None => Given(client[r].id)'  BY <1>8, <2>1, <3>1 DEF Given
    <3>3. stream'[r] = NoStream /\ stream'[r].step = "away" /\ Len(stream'[r].queue) <= Buffer
      BY <2>1, StreamsStart
    <3>. QED  BY <2>1, <3>2, <3>3 DEF ConnectionFits
  <2>3. ASSUME NEW t \in Starts, client'[r].id # None, client'[r].id = run'[t].id, Sole(t)'
        PROVE  ReaderFits(r, t)'
    <3>1. ReaderFits(r, t) /\ run[t].step # "idle"  BY <1>8, <2>1, <2>3, ReadersKnow
    <3>2. run'[t].seq = run[t].seq /\ run'[t].step = "dead"  BY <1>3, <3>1
    <3>3. stream'[r].step = "away"  BY <2>1, StreamsStart
    <3>. QED  BY <2>1, <3>1, <3>2, <3>3, ReaderKeeps
  <2>. QED  BY <2>2, <2>3
<1>12. ReadersFit'  BY <1>11 DEF ReadersFit
<1>. QED  BY <1>7, <1>9, <1>10, <1>12 DEF ExtractorInv

-----------------------------------------------------------------------------
(***************************************************************************)
(* The invariant.                                                          *)
(***************************************************************************)
LEMMA InitFits == Init => ExtractorInv
<1>. SUFFICES ASSUME Init  PROVE ExtractorInv
  OBVIOUS
<1>1. /\ NoStart \in RunTypes /\ NoStart.step = "idle" /\ NoStart.id = None /\ NoStart.seq = 0
      /\ NoStart.last = "none" /\ NoStart.history = << >> /\ NoStart.file = "closed" /\ ~ NoStart.finished
  <2>1. "idle" \in RunSteps /\ "none" \in Status  BY DEF RunSteps, Status
  <2>. QED  BY <2>1 DEF NoStart, RunTypes
<1>2. NoDirectory \in DiskTypes /\ ~ NoDirectory.there
  <2>1. "none" \in Status  BY DEF Status
  <2>. QED  BY <2>1 DEF NoDirectory, DiskTypes
<1>3. NewClient \in ClientTypes /\ NewClient.id = None /\ NewClient.got = << >> /\ NewClient.lost = {}
  BY DEF NewClient, ClientTypes
<1>4. Types  BY <1>1, <1>2, <1>3, AnswersFit, StreamsStart DEF Init, Types
<1>5. RunsFit
  <2>1. ASSUME NEW t \in Starts  PROVE RunFits(t) /\ BusHasIt(t)
    <3>1. run[t] = NoStart  BY DEF Init
    <3>2. HistoryFits(t)
      <4>1. Len(run[t].history) = 0 /\ HistorySize \in Nat
        BY <1>1, <3>1, EmptySeq, ExtractorAssumption DEF ExtractorAssumption
      <4>. QED  BY <1>1, <3>1, <4>1 DEF HistoryFits
    <3>3. EndFits(t)  BY <1>1, <3>1 DEF EndFits, Settled
    <3>4. 0 <= MaxProgress + 2  BY ExtractorAssumption DEF ExtractorAssumption
    <3>. QED  BY <1>1, <3>1, <3>2, <3>3, <3>4 DEF RunFits, BusHasIt, Live, Silent, Entered, Settled
  <2>2. \A id \in Ids, t \in Starts : bus[id] # t /\ runs[id] # t  BY NoneIsNothing DEF Init
  <2>. QED  BY <2>1, <2>2 DEF RunsFit, MapsFit
<1>6. DiskFits
  <2>1. \A q \in Requests : RequestFits(q)  BY AnswersFit, NoneIsNothing DEF Init, RequestFits
  <2>2. DirectoriesFit
    <3>1. \A id \in Ids : disk[id] = NoDirectory  BY DEF Init
    <3>2. \A t \in Starts : run[t].file # "open"  BY <1>1 DEF Init
    <3>. QED  BY <1>2, <3>1, <3>2 DEF DirectoriesFit
  <2>3. \A t \in Starts : run[t].step = "idle"  BY <1>1 DEF Init
  <2>. QED  BY <2>1, <2>2, <2>3 DEF DiskFits
<1>7. ReadersFit
  <2>1. ASSUME NEW r \in Readers  PROVE ConnectionFits(r) /\ client[r].id = None
    <3>1. stream[r] = NoStream /\ client[r] = NewClient  BY DEF Init
    <3>2. Len(stream[r].queue) <= Buffer  BY <3>1, StreamsStart
    <3>. QED  BY <1>3, <3>1, <3>2, StreamsStart DEF ConnectionFits
  <2>. QED  BY <2>1 DEF ReadersFit
<1>. QED  BY <1>4, <1>5, <1>6, <1>7 DEF ExtractorInv

LEMMA StutterKeeps ==
    ASSUME ExtractorInv, UNCHANGED vars
    PROVE  ExtractorInv'
<1>1. UNCHANGED <<runs, bus, run, disk, request, stream, client>>  BY DEF vars
<1>2. Types /\ RunsFit /\ DiskFits  BY DEF ExtractorInv
<1>3. Types'  BY <1>1, <1>2 DEF Types
<1>4. RunsGoOn  BY <1>1 DEF RunsGoOn, IdsStay
<1>5. RunsFit'
  <2>1. \A t \in Starts : RunFits(t)' /\ BusHasIt(t)'
    BY <1>1, <1>2 DEF RunsFit, MapsFit, RunFits, HistoryFits, EndFits, BusHasIt
  <2>. QED  BY <1>1, <1>2, <2>1 DEF RunsFit, MapsFit
<1>6. ReadersFit'  BY <1>1, <1>4, ReadersStay
<1>7. DiskFits'
  <2>1. \A q \in Requests : RequestFits(q)'  BY <1>1, <1>4, RequestsStay
  <2>2. DirectoriesFit'
    <3>1. \A i \in Ids : Given(i)' <=> Given(i)  BY <1>1 DEF Given
    <3>. QED  BY <1>1, <1>2, <3>1 DEF DiskFits, DirectoriesFit
  <2>3. ASSUME NEW t \in Starts, run'[t].step # "idle", Sole(t)'  PROVE SoleFits(t)'
    <3>1. Sole(t)  BY <1>1, <2>3 DEF Sole
    <3>2. SoleFits(t)  BY <1>1, <1>2, <2>3, <3>1 DEF DiskFits
    <3>. QED  BY <1>1, <3>2 DEF SoleFits
  <2>. QED  BY <2>1, <2>2, <2>3 DEF DiskFits
<1>. QED  BY <1>3, <1>5, <1>6, <1>7 DEF ExtractorInv

LEMMA NextKeeps ==
    ASSUME ExtractorInv, [Next]_vars
    PROVE  ExtractorInv'
<1>1. ASSUME NEW s \in Starts, Allocate(s) \/ Execute(s)  PROVE ExtractorInv'
  BY <1>1, AllocateKeeps, StartOnBusKeeps, EnterRunKeeps, SaveStartKeeps, PipelineKeeps, FinishKeeps,
     SaveEndKeeps, FinishOnBusKeeps DEF Execute
<1>2. ASSUME NEW q \in Requests, Serve(q) \/ \E id \in Ids, delete \in BOOLEAN : Ask(q, id, delete)
      PROVE  ExtractorInv'
  BY <1>2, AskKeeps, MarkCancellingKeeps, SaveCancellingKeeps, CancelContextKeeps, WaitForKeeps, RemoveRunKeeps
     DEF Serve
<1>3. ASSUME NEW r \in Readers,
             Close(r) \/ Listen(r) \/ Leave(r) \/ \E id \in Ids : Subscribe(r, id) \/ StartReplay(r, id)
      PROVE  ExtractorInv'
  BY <1>3, CloseAtEndKeeps, CloseLateKeeps, ReadKeeps, ReplayNextKeeps, ReplayReadKeeps, ReplayEndKeeps,
     LeaveKeeps, SubscribeKeeps, StartReplayKeeps DEF Close, Listen
<1>. QED  BY <1>1, <1>2, <1>3, CrashKeeps, StutterKeeps DEF Next

\* What the runs, the two maps, the directories and the readers say of one
\* another holds at every step, whatever races and whenever the process dies.
THEOREM ExtractorInvariance == Spec => []ExtractorInv
<1>. QED  BY InitFits, NextKeeps, PTL DEF Spec

-----------------------------------------------------------------------------
(***************************************************************************)
(* What it promises.                                                       *)
(***************************************************************************)
LEMMA LiveRunsAreApart == ExtractorInv => OneLiveRunPerId
<1>. SUFFICES ASSUME ExtractorInv, NEW s \in Starts, NEW t \in Starts, s # t,
                     run[s].step \in Executing, run[t].step \in Executing
              PROVE  run[s].id # run[t].id
  BY DEF OneLiveRunPerId
<1>1. Executing \subseteq Live  BY DEF Executing, Live
<1>2. BusHasIt(s) /\ BusHasIt(t)  BY AtRun
<1>. QED  BY <1>1, <1>2 DEF BusHasIt

LEMMA EndsAgree == ExtractorInv => OutcomesAgree
<1>. SUFFICES ASSUME ExtractorInv, NEW s \in Starts
              PROVE  /\ run[s].step \in Settled =>
                            /\ run[s].last = "run_cancelled" => run[s].status = "cancelled"
                            /\ run[s].last = "run_failed" => run[s].status # "completed"
                            /\ run[s].status = "completed" => run[s].last = "run_completed"
                     /\ run[s].step \in {"saved", "done"} /\ Sole(s) =>
                            /\ disk[run[s].id].state \in Ended => disk[run[s].id].state = run[s].status
                            /\ disk[run[s].id].state # "running"
                            /\ disk[run[s].id].log # << >> => Len(disk[run[s].id].log) = run[s].seq
  BY DEF OutcomesAgree
<1>1. RunFits(s) /\ DiskFits  BY AtRun
<1>2. EndFits(s)  BY <1>1 DEF RunFits
<1>3. ASSUME run[s].step \in {"saved", "done"}, Sole(s)
      PROVE  /\ disk[run[s].id].state \in {"none", "cancelling", run[s].status} /\ run[s].status \in Ended
             /\ disk[run[s].id].log # << >> => Len(disk[run[s].id].log) = run[s].seq
  <2>1. SoleFits(s)  BY <1>1, <1>3 DEF DiskFits
  <2>2. run[s].status \in Ended  BY <1>1, <1>3 DEF RunFits, Settled
  <2>. QED  BY <1>3, <2>1, <2>2 DEF SoleFits
<1>4. {"none", "cancelling", "running"} \cap Ended = {}  BY DEF Ended
<1>. QED  BY <1>2, <1>3, <1>4 DEF EndFits

LEMMA ReadersAgree == ExtractorInv => StreamsFitTogether
<1>. SUFFICES ASSUME ExtractorInv, NEW r \in Readers, NEW s \in Starts
              PROVE  /\ client[r].id # None /\ client[r].id = run[s].id /\ Sole(s) =>
                            /\ \A i, j \in DOMAIN client[r].got : i < j => client[r].got[i] < client[r].got[j]
                            /\ client[r].got # << >> => 1..Last(client[r].got) \subseteq Seen(r)
                            /\ client[r].end = "live" => 1..run[s].seq \subseteq Seen(r)
                     /\ stream[r].step = "live" /\ stream[r].on = s /\ run[s].finished =>
                            stream[r].closed \/ stream[r].closer # "none"
  BY DEF StreamsFitTogether, Seen
<1>1. RunFits(s) /\ Types /\ ReadersFit  BY AtRun
<1>2. ConnectionFits(r) /\ client[r].got \in Seq(Nat)  BY <1>1 DEF ReadersFit, Types, ClientTypes
<1>3. ASSUME client[r].id # None, client[r].id = run[s].id, Sole(s)
      PROVE  /\ \A i, j \in DOMAIN client[r].got : i < j => client[r].got[i] < client[r].got[j]
             /\ client[r].got # << >> => 1..Last(client[r].got) \subseteq Seen(r)
             /\ client[r].end = "live" => 1..run[s].seq \subseteq Seen(r)
  <2>1. GotFits(r, s)  BY <1>1, <1>3 DEF ReadersFit, ReaderFits
  <2>2. DOMAIN client[r].got = 1..Len(client[r].got)  BY <1>2
  <2>. QED  BY <2>1, <2>2 DEF GotFits, LastEventId
<1>4. ASSUME stream[r].step = "live", stream[r].on = s, run[s].finished
      PROVE  stream[r].closed \/ stream[r].closer # "none"
  BY <1>1, <1>2, <1>4 DEF ConnectionFits, RunFits
<1>. QED  BY <1>3, <1>4

\* Two starts that were given one id never execute under it at the same time:
\* allocateRunID may give it twice, StartRun lets one of the two through.
THEOREM LiveRunsStayApart == Spec => []OneLiveRunPerId
<1>. QED  BY ExtractorInvariance, LiveRunsAreApart, PTL

\* The status, the last event, run_state.json and events.jsonl of an ended run
\* tell one story, however Cancel, finish, the deletion and a crash interleave.
THEOREM OutcomesAlwaysAgree == Spec => []OutcomesAgree
<1>. QED  BY ExtractorInvariance, EndsAgree, PTL

\* A reader gets the events of a run in order, once and without an unexplained
\* gap over all its connections, live or replayed, and nobody is left listening
\* to a run that has ended: Subscribe, Emit, FinishRun and streamReplay agree.
THEOREM StreamsAlwaysFit == Spec => []StreamsFitTogether
<1>. QED  BY ExtractorInvariance, ReadersAgree, PTL

\* A deletion takes the directory of a run it found in memory only after the
\* run's pipeline has ended: handleRunDelete waits, or looked at a settled run.
THEOREM DeletionsAlwaysWait == Spec => DeletionsWait
<1>1. ASSUME ExtractorInv
      PROVE  \A q \in Requests : request[q].step = "remove" /\ request'[q].step = "done" =>
                 \A s \in Starts : request[q].on = s => run[s].step \in Settled
  BY <1>1, AtRun DEF ExtractorInv, DiskFits, RequestFits
<1>. QED  BY <1>1, ExtractorInvariance, PTL DEF DeletionsWait
=============================================================================
