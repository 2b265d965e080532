--------------------------- MODULE AgentHostProofs ---------------------------
(***************************************************************************)
(* Safety of AgentHost, with the home it shares (QueueMigration), for      *)
(* every set of backends, commands and settings and any number of          *)
(* operations, deaths and losses of power.                                 *)
(*                                                                         *)
(* Two arguments that meet in the leases.  An operation is a list of       *)
(* pieces, and an error changes the list: the invariant says which lists   *)
(* there are, and for each how the settings of the host, of its backend    *)
(* and of the disk stand to each other.  And whoever writes jobs shares    *)
(* the lease, so that what a migration has imported is what it publishes.  *)
(***************************************************************************)
EXTENDS AgentHost, SequenceTheorems, TLAPS

(***************************************************************************)
(* The lists of pieces, as their first piece h and the rest.               *)
(***************************************************************************)
\* The settings are not touched.
Plain(h, rest) ==
    \/ h \in {"start", "booting", "start_failed", "restart", "exit"} /\ rest = << >>
    \/ h \in {"stop", "stopping"} /\ rest \in {<< >>, <<"start">>, <<"run", "restart">>}
    \/ h \in {"quiet_stop", "quietly_stopping"} /\ rest \in {<<"start_failed">>, <<"exit">>}
    \/ h = "look" /\ rest = <<"stop", "run", "restart">>
    \/ h \in {"run", "running"} /\ rest = <<"restart">>

\* The new settings are still to be set.
Before(h, rest) ==
    \/ h \in {"stop", "stopping"} /\ rest = <<"set", "start", "save">>
    \/ h = "set" /\ rest = <<"start", "save">>

\* The new settings are set and not yet saved, or still to be taken back.
Unsaved(h, rest) ==
    \/ h \in {"start", "booting", "start_failed"} /\ rest = <<"save">>
    \/ h \in {"quiet_stop", "quietly_stopping"} /\ rest \in {<<"start_failed", "save">>, <<"revert", "start">>}
    \/ h = "save" /\ rest = << >>
    \/ h = "revert" /\ rest = <<"start">>

Planned(h, rest) == Plain(h, rest) \/ Before(h, rest) \/ Unsaved(h, rest)

\* A stop has come before these pieces.
AfterStop == {"set", "revert", "start_failed"}

(***************************************************************************)
(* The inductive invariant.                                                *)
(***************************************************************************)
Pipes == [state : Alive \cup {"none", "exited"}, settings : Settings, owned : BOOLEAN]

Names == {"start", "booting", "start_failed", "stop", "stopping", "quiet_stop", "quietly_stopping",
          "set", "save", "revert", "look", "run", "running", "restart", "exit"}

Operations == [kind : DOMAIN Pieces \cup {"none", "open"}, todo : Seq(Names), new : Settings,
               old : Settings, running : BOOLEAN, command : Commands \cup {None}]

HostTypes ==
    /\ controller \in BOOLEAN
    /\ host \in [cmd : Backends \cup {None}, settings : Settings]
    /\ disk \in Settings
    /\ op \in Operations
    /\ backend \in [Backends -> Pipes]

\* What each list of pieces knows of the settings.
PlansAreFollowed ==
    op.kind # "none" =>
        LET h == Head(op.todo) rest == Tail(op.todo)
        IN  /\ op.todo # << >> /\ Planned(h, rest)
            /\ Plain(h, rest) => host.settings = disk
            /\ Before(h, rest) => host.settings = disk /\ op.old = disk
            /\ Unsaved(h, rest) => host.settings = op.new /\ op.old = disk
            /\ h \in AfterStop => host.cmd = None

\* Between operations the host and the disk agree.
DiskIsKnown == controller /\ op.kind = "none" => host.settings = disk

\* The backend of the host runs with the settings of the host.
CmdIsKnown ==
    host.cmd # None => backend[host.cmd].state # "none" /\ backend[host.cmd].settings = host.settings

HostInv == HostTypes /\ PlansAreFollowed /\ DiskIsKnown /\ CmdIsKnown /\ NoBackendIsLost

HomeTypes ==
    /\ command \in [Commands -> [step : Exited \cup {"started", "leased", "import", "publish", "sync"},
                                 copy : Nat]]
    /\ queue \in [there : BOOLEAN, version : Nat, synced : BOOLEAN]
    /\ json \in Nat /\ acked \in Nat /\ exposed \in BOOLEAN

\* A backend with a lease shares it; a command at work has it alone.
LeasesAreHeld ==
    /\ \A b \in Backends : backend[b].state \in {"leased", "serving", "draining"} => b \in shared
    /\ \A c \in Commands : command[c].step \in {"leased", "import", "publish", "sync"} => exclusive = c
    /\ exclusive # None => shared = {}

\* What is to be published is what there is, and what may still be lost with
\* the power is there twice.
CopiesAreCurrent ==
    /\ \A c \in Commands : command[c].step = "publish" => command[c].copy = json
    /\ ~ queue.synced /\ ~ exposed => json = acked

HomeInv == HomeTypes /\ LeasesAreHeld /\ CopiesAreCurrent /\ JobsSurvive

AgentInv == HostInv /\ HomeInv

-----------------------------------------------------------------------------
(***************************************************************************)
(* Lists of pieces.                                                        *)
(***************************************************************************)
Stops == {"stop", "stopping", "quiet_stop", "quietly_stopping"}

\* The lists that the code writes, piece by piece.
LEMMA Lists ==
    /\ Head(<<"start">>) = "start" /\ Tail(<<"start">>) = << >>
    /\ Head(<<"save">>) = "save" /\ Tail(<<"save">>) = << >>
    /\ Head(<<"restart">>) = "restart" /\ Tail(<<"restart">>) = << >>
    /\ Head(<<"exit">>) = "exit" /\ Tail(<<"exit">>) = << >>
    /\ Head(<<"start_failed">>) = "start_failed" /\ Tail(<<"start_failed">>) = << >>
    /\ Head(<<"run", "restart">>) = "run" /\ Tail(<<"run", "restart">>) = <<"restart">>
    /\ Head(<<"start", "save">>) = "start" /\ Tail(<<"start", "save">>) = <<"save">>
    /\ Head(<<"start_failed", "save">>) = "start_failed" /\ Tail(<<"start_failed", "save">>) = <<"save">>
    /\ Head(<<"revert", "start">>) = "revert" /\ Tail(<<"revert", "start">>) = <<"start">>
    /\ Head(<<"set", "start", "save">>) = "set" /\ Tail(<<"set", "start", "save">>) = <<"start", "save">>
    /\ Head(<<"stop", "run", "restart">>) = "stop" /\ Tail(<<"stop", "run", "restart">>) = <<"run", "restart">>
  OBVIOUS

\* A piece that is done leaves a list of its kind, but for set, which makes
\* the settings the new ones, and revert, which takes them back.
LEMMA TailTurns ==
    ASSUME NEW h, NEW rest, rest # << >>
    PROVE  /\ Plain(h, rest) => Plain(Head(rest), Tail(rest))
           /\ Before(h, rest) /\ h # "set" => Before(Head(rest), Tail(rest))
           /\ Before(h, rest) /\ h = "set" => Unsaved(Head(rest), Tail(rest))
           /\ Unsaved(h, rest) /\ h # "revert" => Unsaved(Head(rest), Tail(rest))
           /\ Unsaved(h, rest) /\ h = "revert" => Plain(Head(rest), Tail(rest))
           /\ Planned(h, rest) /\ Head(rest) \in AfterStop => h \in Stops
<1>1. Plain(h, rest) =>
        rest \in {<<"start">>, <<"run", "restart">>, <<"start_failed">>, <<"exit">>,
                  <<"stop", "run", "restart">>, <<"restart">>}
  BY DEF Plain
<1>2. Plain(h, rest) => Plain(Head(rest), Tail(rest))
  <2>1. \A t \in {<<"start">>, <<"run", "restart">>, <<"start_failed">>, <<"exit">>,
                  <<"stop", "run", "restart">>, <<"restart">>} : Plain(Head(t), Tail(t))
    BY Lists DEF Plain
  <2>. QED  BY <1>1, <2>1
<1>3. /\ Before(h, rest) /\ h # "set" => Before(Head(rest), Tail(rest)) /\ h \in Stops
      /\ Before(h, rest) /\ h = "set" => Unsaved(Head(rest), Tail(rest)) /\ Head(rest) = "start"
  BY Lists DEF Before, Unsaved, Stops
<1>4. /\ Unsaved(h, rest) /\ h # "revert" => Unsaved(Head(rest), Tail(rest))
      /\ Unsaved(h, rest) /\ h = "revert" => Plain(Head(rest), Tail(rest)) /\ Head(rest) = "start"
      /\ Unsaved(h, rest) /\ h \notin Stops \cup {"revert"} => Head(rest) = "save"
  BY Lists DEF Unsaved, Plain, Stops
<1>5. Plain(h, rest) /\ h \notin Stops => Head(rest) \in {"stop", "restart"}
  BY Lists DEF Plain, Stops
<1>. QED  BY <1>2, <1>3, <1>4, <1>5 DEF Planned, AfterStop

\* A list of plain pieces never meets one of another kind.
LEMMA KindsDiffer ==
    ASSUME NEW h, NEW rest
    PROVE  /\ ~ (Plain(h, rest) /\ Before(h, rest))
           /\ ~ (Plain(h, rest) /\ Unsaved(h, rest))
           /\ ~ (Before(h, rest) /\ Unsaved(h, rest))
  BY DEF Plain, Before, Unsaved

LEMMA PushedPiece ==
    ASSUME NEW S, NEW piece \in S, NEW rest \in Seq(S)
    PROVE  LET list == <<piece>> \o rest
           IN  list \in Seq(S) /\ list # << >> /\ Head(list) = piece /\ Tail(list) = rest
<1>. DEFINE one == <<piece>>
            list == one \o rest
<1>1. one \in Seq(S) /\ Len(one) = 1 /\ one[1] = piece
  OBVIOUS
<1>. HIDE DEF one
<1>2. /\ list \in Seq(S) /\ Len(list) = Len(one) + Len(rest)
      /\ \A i \in 1..(Len(one) + Len(rest)) : list[i] = IF i <= Len(one) THEN one[i] ELSE rest[i - Len(one)]
  BY <1>1, ConcatProperties
<1>3. Len(rest) \in Nat  BY LenProperties
<1>4. list # << >>  BY <1>1, <1>2, <1>3, EmptySeq
<1>8. list[1] = piece
  <2>1. 1 \in 1..(Len(one) + Len(rest)) /\ 1 <= Len(one)  BY <1>1, <1>3
  <2>. QED  BY <1>1, <1>2, <2>1
<1>6. \A i \in 1..Len(rest) : list[i + 1] = rest[i]
  <2>1. \A i \in 1..Len(rest) : /\ i + 1 \in 1..(Len(one) + Len(rest)) /\ ~ (i + 1 <= Len(one))
                                /\ (i + 1) - Len(one) = i
    BY <1>1, <1>3
  <2>. QED  BY <1>2, <2>1
<1>. HIDE DEF list
<1>5. /\ Head(list) = list[1] /\ Tail(list) \in Seq(S) /\ Len(Tail(list)) = Len(list) - 1
      /\ \A i \in 1..Len(Tail(list)) : Tail(list)[i] = list[i + 1]
  BY <1>2, <1>4, HeadTailProperties
<1>7. Tail(list) = rest
  <2>1. Len(Tail(list)) = Len(rest)  BY <1>1, <1>2, <1>3, <1>5
  <2>2. \A i \in 1..Len(Tail(list)) : Tail(list)[i] = rest[i]  BY <1>5, <1>6, <2>1
  <2>. QED  BY <1>5, <2>1, <2>2, SeqEqual
<1>9. list \in Seq(S)  BY <1>2
<1>. QED  BY <1>4, <1>5, <1>7, <1>8, <1>9 DEF list, one

-----------------------------------------------------------------------------
(***************************************************************************)
(* An operation goes on to its next piece.                                 *)
(***************************************************************************)
LEMMA KindsOfOperations ==
    /\ DOMAIN Pieces = {"start", "stop", "restart", "configure", "command", "exit"}
    /\ "none" \notin DOMAIN Pieces
    /\ NoOp \in Operations
<1>1. DOMAIN Pieces = {"start", "stop", "restart", "configure", "command", "exit"}  BY DEF Pieces
<1>2. << >> \in Seq(Names)  BY EmptySeq
<1>. QED  BY <1>1, <1>2, HostAssumption DEF NoOp, Operations, HostAssumption

LEMMA GoTypes ==
    ASSUME HostTypes, NEW todo \in Seq(Names), Go(todo)
    PROVE  /\ op' \in Operations
           /\ todo = << >> => op' = NoOp
           /\ todo # << >> => /\ op'.kind = op.kind /\ op'.todo = todo /\ op'.new = op.new
                              /\ op'.old = op.old
  BY KindsOfOperations DEF Go, HostTypes, Operations

\* A piece that is done: the settings are as the rest of the list expects.
LEMMA PieceDone ==
    ASSUME HostTypes, PlansAreFollowed, op.kind # "none", Done, NEW h, h = Head(op.todo),
           \/ h \notin {"set", "revert", "save"} /\ host'.settings = host.settings /\ disk' = disk
           \/ h = "set" /\ host'.settings = op.new /\ disk' = disk
           \/ h = "revert" /\ host'.settings = op.old /\ disk' = disk
           \/ h = "save" /\ host'.settings = host.settings /\ disk' = op.new,
           h \in Stops => host'.cmd = None
    PROVE  op' \in Operations /\ PlansAreFollowed' /\ DiskIsKnown'
<1>. DEFINE rest == Tail(op.todo)
<1>1. /\ op.todo # << >> /\ Planned(h, rest)
      /\ Plain(h, rest) => host.settings = disk
      /\ Before(h, rest) => host.settings = disk /\ op.old = disk
      /\ Unsaved(h, rest) => host.settings = op.new /\ op.old = disk
  BY DEF PlansAreFollowed
<1>2. op.todo \in Seq(Names) /\ rest \in Seq(Names)
  BY <1>1, HeadTailProperties DEF HostTypes, Operations
<1>3. /\ op' \in Operations /\ (rest = << >> => op' = NoOp)
      /\ rest # << >> => /\ op'.kind = op.kind /\ op'.todo = rest /\ op'.new = op.new
                         /\ op'.old = op.old
  BY <1>2, GoTypes DEF Done, Rest
<1>4. CASE rest = << >>
  <2>1. op'.kind = "none"  BY <1>3, <1>4 DEF NoOp
  <2>2. rest = << >> => ~ Before(h, rest) /\ (Unsaved(h, rest) => h = "save")
                        /\ (Plain(h, rest) => h \notin {"set", "revert", "save"})
    BY DEF Before, Unsaved, Plain
  <2>3. host'.settings = disk'  BY <1>1, <1>4, <2>2 DEF Planned
  <2>. QED  BY <1>3, <2>1, <2>3 DEF PlansAreFollowed, DiskIsKnown
<1>5. CASE rest # << >>
  <2>. DEFINE hh == Head(rest)
              rr == Tail(rest)
  <2>1. op'.kind # "none" /\ op'.todo = rest /\ op'.new = op.new /\ op'.old = op.old
    BY <1>3, <1>5
  <2>2. /\ Plain(h, rest) => h \notin {"set", "revert", "save"}
        /\ Before(h, rest) => h \notin {"revert", "save"}
        /\ Unsaved(h, rest) => h # "set" /\ h # "save"
    BY <1>5 DEF Plain, Before, Unsaved
  <2>3. /\ Plain(h, rest) => Plain(hh, rr)
        /\ Before(h, rest) /\ h # "set" => Before(hh, rr)
        /\ Before(h, rest) /\ h = "set" => Unsaved(hh, rr)
        /\ Unsaved(h, rest) /\ h # "revert" => Unsaved(hh, rr)
        /\ Unsaved(h, rest) /\ h = "revert" => Plain(hh, rr)
        /\ hh \in AfterStop => h \in Stops
    BY <1>1, <1>5, TailTurns
  <2>4. /\ ~ (Plain(hh, rr) /\ Before(hh, rr)) /\ ~ (Plain(hh, rr) /\ Unsaved(hh, rr))
        /\ ~ (Before(hh, rr) /\ Unsaved(hh, rr))
    BY KindsDiffer
  <2>. HIDE DEF hh, rr
  <2>5. /\ Planned(hh, rr)
        /\ Plain(hh, rr) => host'.settings = disk'
        /\ Before(hh, rr) => host'.settings = disk' /\ op.old = disk'
        /\ Unsaved(hh, rr) => host'.settings = op.new /\ op.old = disk'
    BY <1>1, <2>2, <2>3, <2>4 DEF Planned
  <2>6. hh \in AfterStop => host'.cmd = None  BY <2>3
  <2>. QED
    BY <1>3, <1>5, <2>1, <2>5, <2>6 DEF PlansAreFollowed, DiskIsKnown, hh, rr
<1>. QED  BY <1>4, <1>5

\* A piece that is put in the place of another, before the same rest.
LEMMA PieceReplaced ==
    ASSUME HostTypes, PlansAreFollowed, op.kind # "none", NEW piece \in Names,
           NEW new \in Operations, op' = new,
           new.kind = op.kind, new.new = op.new, new.old = op.old,
           new.todo = <<piece>> \o Tail(op.todo),
           host'.settings = host.settings, disk' = disk,
           LET h == Head(op.todo)
               rest == Tail(op.todo)
           IN  /\ Plain(h, rest) => Plain(piece, rest)
               /\ Before(h, rest) => Before(piece, rest)
               /\ Unsaved(h, rest) => Unsaved(piece, rest),
           piece \in AfterStop => host'.cmd = None
    PROVE  PlansAreFollowed' /\ DiskIsKnown'
<1>. DEFINE h    == Head(op.todo)
            rest == Tail(op.todo)
<1>1. /\ op.todo # << >> /\ Planned(h, rest)
      /\ Plain(h, rest) => host.settings = disk
      /\ Before(h, rest) => host.settings = disk /\ op.old = disk
      /\ Unsaved(h, rest) => host.settings = op.new /\ op.old = disk
  BY DEF PlansAreFollowed
<1>2. rest \in Seq(Names)  BY <1>1, HeadTailProperties DEF HostTypes, Operations
<1>3. new.todo # << >> /\ Head(new.todo) = piece /\ Tail(new.todo) = rest
  BY <1>2, PushedPiece
<1>4. /\ ~ (Plain(piece, rest) /\ Before(piece, rest)) /\ ~ (Plain(piece, rest) /\ Unsaved(piece, rest))
      /\ ~ (Before(piece, rest) /\ Unsaved(piece, rest))
  BY KindsDiffer
<1>5. /\ Planned(piece, rest)
      /\ Plain(piece, rest) => host'.settings = disk'
      /\ Before(piece, rest) => host'.settings = disk' /\ op.old = disk'
      /\ Unsaved(piece, rest) => host'.settings = op.new /\ op.old = disk'
  BY <1>1, <1>4 DEF Planned
<1>. QED  BY <1>3, <1>5 DEF PlansAreFollowed, DiskIsKnown

-----------------------------------------------------------------------------
(***************************************************************************)
(* The host and its backend.                                               *)
(***************************************************************************)
HostShape == host \in [cmd : Backends \cup {None}, settings : Settings] /\ disk \in Settings
PipeTypes == backend \in [Backends -> Pipes]
BackendsAreKnown == PipeTypes /\ CmdIsKnown /\ NoBackendIsLost
Plans == op \in Operations /\ PlansAreFollowed /\ DiskIsKnown

LEMMA HostParts ==
    /\ HostInv <=> controller \in BOOLEAN /\ HostShape /\ Plans /\ BackendsAreKnown
    /\ HostInv' <=> controller' \in BOOLEAN /\ HostShape' /\ Plans' /\ BackendsAreKnown'
  BY DEF HostInv, HostTypes, HostShape, PipeTypes, BackendsAreKnown, Plans

LEMMA NoBackendTypes == NoBackend \in Pipes
  BY HostAssumption DEF NoBackend, Pipes, HostAssumption

\* The host lets go of its backend, which is no more.
LEMMA CmdForgotten ==
    ASSUME HostInv, host' = [host EXCEPT !.cmd = None], backend' = Forget(host.cmd)
    PROVE  /\ host' \in [cmd : Backends \cup {None}, settings : Settings]
           /\ host'.cmd = None /\ host'.settings = host.settings
           /\ BackendsAreKnown'
<1>1. HostShape /\ BackendsAreKnown /\ None \notin Backends
  BY HostParts, MigrationAssumption DEF MigrationAssumption
<1>2. /\ host' \in [cmd : Backends \cup {None}, settings : Settings]
      /\ host'.cmd = None /\ host'.settings = host.settings
  BY <1>1 DEF HostShape
<1>3. \A b \in Backends : IF b = host.cmd THEN backend'[b] = NoBackend ELSE backend'[b] = backend[b]
  BY <1>1 DEF Forget, BackendsAreKnown, PipeTypes
<1>4. PipeTypes'
  BY <1>1, NoBackendTypes DEF Forget, BackendsAreKnown, PipeTypes
<1>5. NoBackendIsLost'
  BY <1>1, <1>3 DEF BackendsAreKnown, NoBackendIsLost, NoBackend, Alive
<1>. QED  BY <1>2, <1>4, <1>5 DEF BackendsAreKnown, CmdIsKnown

\* The host and its backends are left alone.
LEMMA BackendsUntouched ==
    ASSUME HostInv, UNCHANGED <<controller, backend>>, host'.cmd = host.cmd,
           host.cmd # None => host'.settings = host.settings
    PROVE  BackendsAreKnown'
<1>1. BackendsAreKnown  BY HostParts
<1>. QED  BY <1>1 DEF BackendsAreKnown, PipeTypes, CmdIsKnown, NoBackendIsLost

\* The host stops its backend.
LEMMA StopKeeps ==
    ASSUME HostInv, Stop
    PROVE  HostInv'
<1>0. /\ controller \in BOOLEAN /\ HostShape /\ Plans /\ BackendsAreKnown /\ HostTypes
      /\ None \notin Backends /\ PlansAreFollowed
  BY HostParts, MigrationAssumption DEF MigrationAssumption, HostInv
<1>1. /\ op.kind # "none" /\ Head(op.todo) \in Stops /\ UNCHANGED <<controller, disk>>
      /\ op.todo \in Seq(Names) /\ op.todo # << >>
  BY <1>0 DEF Stop, Signal, StopEnds, StopKills, Doing, Stops, HostTypes, Operations, PlansAreFollowed
<1>. DEFINE h    == Head(op.todo)
            rest == Tail(op.todo)
<1>a. rest \in Seq(Names)  BY <1>1, HeadTailProperties
\* The backend is gone and the piece is done.
<1>2. ASSUME Done, host' = [host EXCEPT !.cmd = None], backend' = Forget(host.cmd)
      PROVE  HostInv'
  <2>1. /\ HostShape' /\ host'.cmd = None /\ host'.settings = host.settings
        /\ BackendsAreKnown'
    BY <1>0, <1>1, <1>2, CmdForgotten DEF HostShape
  <2>2. h \notin {"set", "revert", "save"}  BY <1>1 DEF Stops
  <2>3. op' \in Operations /\ PlansAreFollowed' /\ DiskIsKnown'
    BY <1>0, <1>1, <1>2, <2>1, <2>2, PieceDone
  <2>. QED  BY <1>0, <1>1, <2>1, <2>3, HostParts DEF Plans
\* The backend is told to stop.
<1>3. ASSUME NEW piece \in Names, NEW next \in Names, <<piece, next>> \in
                 {<<"stop", "stopping">>, <<"quiet_stop", "quietly_stopping">>},
             Doing(piece), Running, Go(<<next>> \o Rest), UNCHANGED host,
             NEW state \in {"draining", "exited"}, backend' = [backend EXCEPT ![host.cmd].state = state]
      PROVE  HostInv'
  <2>1. h = piece  BY <1>3 DEF Doing
  <2>2. /\ <<next>> \o rest \in Seq(Names) /\ <<next>> \o rest # << >>  BY <1>a, PushedPiece
  <2>3. op' \in Operations /\ op'.kind = op.kind /\ op'.new = op.new /\ op'.old = op.old
        /\ op'.todo = <<next>> \o rest
    BY <1>0, <1>3, <2>2, GoTypes DEF Rest
  <2>4. \/ piece = "stop" /\ next = "stopping"
        \/ piece = "quiet_stop" /\ next = "quietly_stopping"
    BY <1>3
  <2>5. /\ Plain(h, rest) => Plain(next, rest)
        /\ Before(h, rest) => Before(next, rest)
        /\ Unsaved(h, rest) => Unsaved(next, rest)
    BY <2>1, <2>4 DEF Plain, Before, Unsaved
  <2>6. PlansAreFollowed' /\ DiskIsKnown'
    <3>1. next \notin AfterStop  BY <2>4 DEF AfterStop
    <3>2. host'.settings = host.settings /\ disk' = disk  BY <1>1, <1>3
    <3>. QED  BY <1>0, <1>1, <2>3, <2>5, <3>1, <3>2, PieceReplaced
  <2>7. BackendsAreKnown'
    <3>1. host.cmd \in Backends  BY <1>0, <1>3 DEF Running, HostShape
    <3>2. /\ PipeTypes' /\ backend'[host.cmd].state = state
          /\ backend'[host.cmd].settings = backend[host.cmd].settings
          /\ \A b \in Backends : b # host.cmd => backend'[b] = backend[b]
      BY <1>0, <1>3, <3>1 DEF BackendsAreKnown, PipeTypes, Pipes, Alive
    <3>3. controller' /\ host' = host  BY <1>1, <1>3 DEF Doing
    <3>. QED
      BY <1>0, <1>3, <3>1, <3>2, <3>3 DEF BackendsAreKnown, CmdIsKnown, NoBackendIsLost, Alive
  <2>. QED  BY <1>0, <1>1, <1>3, <2>3, <2>6, <2>7, HostParts DEF Plans, HostShape
\* The backend is killed at the deadline: stop reports an error.
<1>4. ASSUME Doing("stopping"), host' = [host EXCEPT !.cmd = None], backend' = Forget(host.cmd), Go(<< >>)
      PROVE  HostInv'
  <2>1. /\ HostShape' /\ host'.settings = host.settings /\ BackendsAreKnown'
    BY <1>0, <1>1, <1>4, CmdForgotten DEF HostShape
  <2>2. op' = NoOp /\ NoOp \in Operations /\ NoOp.kind = "none"
    BY <1>4, KindsOfOperations DEF Go, NoOp
  <2>3. host.settings = disk
    <3>1. h = "stopping"  BY <1>4 DEF Doing
    <3>2. ~ Unsaved(h, rest)  BY <3>1 DEF Unsaved
    <3>. QED  BY <1>0, <1>1, <3>2 DEF PlansAreFollowed, Planned
  <2>4. Plans'  BY <1>1, <2>1, <2>2, <2>3 DEF Plans, PlansAreFollowed, DiskIsKnown
  <2>. QED  BY <1>0, <1>1, <2>1, <2>4, HostParts
<1>5. ASSUME NEW piece \in Names, NEW next \in Names, <<piece, next>> \in
                 {<<"stop", "stopping">>, <<"quiet_stop", "quietly_stopping">>}, Signal(piece, next)
      PROVE  HostInv'
  <2>1. CASE Running
    <3>1. PICK state \in {"draining", "exited"} : backend' = [backend EXCEPT ![host.cmd].state = state]
      BY <1>5, <2>1 DEF Signal
    <3>. QED  BY <1>3, <1>5, <2>1, <3>1 DEF Signal
  <2>2. CASE ~ Running  BY <1>2, <1>5, <2>2 DEF Signal
  <2>. QED  BY <2>1, <2>2
<1>6. ASSUME NEW piece \in {"stopping", "quietly_stopping"}, StopEnds(piece)  PROVE HostInv'
  BY <1>2, <1>6 DEF StopEnds
<1>7. ASSUME NEW piece \in {"stopping", "quietly_stopping"}, StopKills(piece)  PROVE HostInv'
  <2>1. CASE piece = "stopping"  BY <1>4, <1>7, <2>1 DEF StopKills
  <2>2. CASE piece # "stopping"  BY <1>2, <1>7, <2>2 DEF StopKills, Done
  <2>. QED  BY <2>1, <2>2
<1>. QED
  <2>1. /\ {"stop", "stopping", "quiet_stop", "quietly_stopping"} \subseteq Names  BY DEF Names
  <2>. QED  BY <1>5, <1>6, <1>7, <2>1 DEF Stop

\* The error of a start is put off until the backend is stopped.
LEMMA PutOff ==
    /\ <<"quiet_stop", "start_failed">> \o << >> = <<"quiet_stop", "start_failed">>
    /\ <<"quiet_stop", "start_failed">> \o <<"save">> = <<"quiet_stop", "start_failed", "save">>
<1>1. /\ <<"quiet_stop", "start_failed">> \in Seq(Names) /\ <<"save">> \in Seq(Names)
      /\ <<"quiet_stop", "start_failed", "save">> \in Seq(Names)
  BY DEF Names
<1>. DEFINE two == <<"quiet_stop", "start_failed">>
            three == <<"quiet_stop", "start_failed", "save">>
            both == two \o <<"save">>
<1>2. /\ Len(two) = 2 /\ two[1] = "quiet_stop" /\ two[2] = "start_failed"
      /\ Len(three) = 3 /\ three[1] = "quiet_stop" /\ three[2] = "start_failed" /\ three[3] = "save"
      /\ Len(<<"save">>) = 1 /\ <<"save">>[1] = "save"
  OBVIOUS
<1>3. two \o << >> = two  BY <1>1, ConcatEmptySeq
<1>4. both \in Seq(Names) /\ Len(both) = 3
      /\ \A i \in 1..3 : both[i] = IF i <= 2 THEN two[i] ELSE <<"save">>[i - 2]
  BY <1>1, <1>2, ConcatProperties
<1>. HIDE DEF two, three, both
<1>5. both[1] = three[1] /\ both[2] = three[2] /\ both[3] = three[3]
  BY <1>2, <1>4
<1>6. \A i \in 1..3 : both[i] = three[i]
  <2>1. \A i \in 1..3 : i = 1 \/ i = 2 \/ i = 3  OBVIOUS
  <2>. QED  BY <1>5, <2>1
<1>7. both = three
  <2>1. three \in Seq(Names)  BY <1>1 DEF three
  <2>. QED  BY <1>2, <1>4, <1>6, <2>1, SeqEqual
<1>. QED  BY <1>3, <1>7 DEF two, three, both

\* A list that the code writes anew.
LEMMA PlanWritten ==
    ASSUME HostInv, op.kind # "none", NEW list \in Seq(Names), list # << >>, Go(list),
           host'.settings = host.settings, disk' = disk,
           LET h == Head(list)
               rest == Tail(list)
           IN  /\ Planned(h, rest)
               /\ Plain(h, rest) => host.settings = disk
               /\ Before(h, rest) => host.settings = disk /\ op.old = disk
               /\ Unsaved(h, rest) => host.settings = op.new /\ op.old = disk
               /\ h \in AfterStop => host'.cmd = None
    PROVE  Plans'
<1>1. /\ op' \in Operations /\ op'.kind = op.kind /\ op'.todo = list /\ op'.new = op.new
      /\ op'.old = op.old
  BY GoTypes DEF HostInv
<1>. QED  BY <1>1 DEF Plans, PlansAreFollowed, DiskIsKnown

\* Nothing is left to do.
LEMMA PlanEnded ==
    ASSUME Go(<< >>), host'.settings = disk'
    PROVE  Plans'
<1>1. op' = NoOp /\ NoOp \in Operations /\ NoOp.kind = "none"
  BY KindsOfOperations DEF Go, NoOp
<1>. QED  BY <1>1 DEF Plans, PlansAreFollowed, DiskIsKnown

LEMMA StartKeeps ==
    ASSUME HostInv, Start
    PROVE  HostInv'
<1>0. /\ controller \in BOOLEAN /\ HostShape /\ Plans /\ BackendsAreKnown /\ HostTypes
      /\ None \notin Backends /\ PlansAreFollowed
  BY HostParts, MigrationAssumption DEF MigrationAssumption, HostInv
<1>. DEFINE h    == Head(op.todo)
            rest == Tail(op.todo)
<1>1. /\ op.kind # "none" /\ h \in {"start", "booting", "start_failed"} /\ UNCHANGED <<controller, disk>>
      /\ op.todo \in Seq(Names) /\ op.todo # << >> /\ controller
  BY <1>0 DEF Start, Spawn, SpawnFails, Ready, StartTimesOut, StartFailed, Doing, HostTypes, Operations,
              PlansAreFollowed
<1>2. /\ rest \in Seq(Names)
      /\ \/ Plain(h, rest) /\ rest = << >> /\ host.settings = disk
         \/ Unsaved(h, rest) /\ rest = <<"save">> /\ host.settings = op.new /\ op.old = disk
  <2>1. rest \in Seq(Names)  BY <1>1, HeadTailProperties
  <2>2. Planned(h, rest) /\ (Plain(h, rest) => host.settings = disk)
        /\ (Unsaved(h, rest) => host.settings = op.new /\ op.old = disk)
    BY <1>0, <1>1 DEF PlansAreFollowed
  <2>3. /\ Plain(h, rest) => rest = << >>
        /\ ~ Before(h, rest)
        /\ Unsaved(h, rest) => rest = <<"save">>
    BY <1>1 DEF Plain, Before, Unsaved
  <2>. QED  BY <2>1, <2>2, <2>3 DEF Planned
\* The piece goes over into another of a start.
<1>3. ASSUME NEW piece \in {"booting", "start_failed"}, Go(<<piece>> \o Rest),
             host'.settings = host.settings, piece = "start_failed" => host'.cmd = None
      PROVE  Plans'
  <2>1. <<piece>> \o rest \in Seq(Names) /\ <<piece>> \o rest # << >> /\ piece \in Names
    <3>1. piece \in Names  BY DEF Names
    <3>. QED  BY <1>2, <3>1, PushedPiece
  <2>2. op' \in Operations /\ op'.kind = op.kind /\ op'.new = op.new /\ op'.old = op.old
        /\ op'.todo = <<piece>> \o rest
    BY <1>0, <1>3, <2>1, GoTypes DEF Rest
  <2>3. /\ Plain(h, rest) => Plain(piece, rest)
        /\ Before(h, rest) => Before(piece, rest)
        /\ Unsaved(h, rest) => Unsaved(piece, rest)
    BY <1>1, <1>2 DEF Plain, Before, Unsaved
  <2>4. piece \in AfterStop => host'.cmd = None  BY <1>3 DEF AfterStop
  <2>5. PlansAreFollowed' /\ DiskIsKnown'
    BY <1>0, <1>1, <1>3, <2>1, <2>2, <2>3, <2>4, PieceReplaced
  <2>. QED  BY <2>2, <2>5 DEF Plans
\* The start is done.
<1>4. ASSUME Done, UNCHANGED <<host, backend>>, h # "start_failed"  PROVE HostInv'
  <2>1. h \notin {"set", "revert", "save"} /\ h \notin Stops  BY <1>1 DEF Stops
  <2>2. op' \in Operations /\ PlansAreFollowed' /\ DiskIsKnown'
    BY <1>0, <1>1, <1>4, <2>1, PieceDone
  <2>3. BackendsAreKnown'  BY <1>1, <1>4, BackendsUntouched
  <2>. QED  BY <1>0, <1>1, <1>4, <2>2, <2>3, HostParts DEF Plans, HostShape
\* The start has failed.
<1>5. ASSUME Go(<<"start_failed">> \o Rest), host' = [host EXCEPT !.cmd = None],
             backend' = Forget(host.cmd)
      PROVE  HostInv'
  <2>1. /\ HostShape' /\ host'.cmd = None /\ host'.settings = host.settings /\ BackendsAreKnown'
    BY <1>0, <1>1, <1>5, CmdForgotten DEF HostShape
  <2>2. Plans'  BY <1>3, <1>5, <2>1
  <2>. QED  BY <1>0, <1>1, <2>1, <2>2, HostParts
<1>6. CASE Spawn
  <2>1. CASE Running  BY <1>4, <1>6, <2>1 DEF Spawn, Doing
  <2>2. CASE ~ Running
    <3>1. PICK b \in Backends :
            /\ backend[b].state = "none"
            /\ backend' = [Forget(host.cmd) EXCEPT ![b] =
                   [state |-> "booting", settings |-> host.settings, owned |-> TRUE]]
            /\ host' = [host EXCEPT !.cmd = b]
      BY <1>6, <2>2 DEF Spawn
    <3>2. /\ HostShape' /\ host'.cmd = b /\ host'.settings = host.settings
      BY <1>0, <1>1, <3>1 DEF HostShape
    <3>3. Forget(host.cmd) \in [Backends -> Pipes]
      BY <1>0, NoBackendTypes DEF Forget, BackendsAreKnown, PipeTypes
    <3>4. /\ PipeTypes' /\ backend'[b].state = "booting" /\ backend'[b].settings = host.settings
      BY <1>0, <3>1, <3>3 DEF PipeTypes, Pipes, Alive, HostShape
    <3>5. \A d \in Backends : d # b =>
            backend'[d] = IF d = host.cmd THEN NoBackend ELSE backend[d]
      BY <1>0, <3>1, <3>3 DEF Forget, BackendsAreKnown, PipeTypes
    <3>6. BackendsAreKnown'
      <4>1. CmdIsKnown'  BY <3>1, <3>2, <3>4 DEF CmdIsKnown
      <4>2. \A d \in Backends : d # b => ~ (backend'[d].state \in Alive /\ backend'[d].owned)
        BY <1>0, <2>2, <3>5 DEF BackendsAreKnown, NoBackendIsLost, NoBackend, Alive
      <4>. QED  BY <1>1, <3>2, <3>4, <4>1, <4>2 DEF BackendsAreKnown, NoBackendIsLost
    <3>7. Plans'  BY <1>3, <1>6, <2>2, <3>2 DEF Spawn
    <3>. QED  BY <1>0, <1>1, <3>2, <3>6, <3>7, HostParts
  <2>. QED  BY <2>1, <2>2
<1>7. CASE SpawnFails  BY <1>5, <1>7 DEF SpawnFails
<1>8. CASE Ready  BY <1>4, <1>5, <1>8 DEF Ready, Doing
<1>9. CASE StartTimesOut
  <2>1. host' = host /\ backend' = backend /\ Go(<<"quiet_stop", "start_failed">> \o rest)
    BY <1>9 DEF StartTimesOut, AfterTimeout, Rest
  <2>. DEFINE list == <<"quiet_stop", "start_failed">> \o rest
  <2>2. \/ list = <<"quiet_stop", "start_failed">> /\ Plain(h, rest)
        \/ list = <<"quiet_stop", "start_failed", "save">> /\ Unsaved(h, rest)
    BY <1>2, PutOff
  <2>3. /\ list \in Seq(Names) /\ list # << >> /\ Head(list) = "quiet_stop"
        /\ \/ Tail(list) = <<"start_failed">> /\ Plain(h, rest)
           \/ Tail(list) = <<"start_failed", "save">> /\ Unsaved(h, rest)
    <3>1. LET two == <<"quiet_stop", "start_failed">>
          IN  two \in Seq(Names) /\ two # << >> /\ Head(two) = "quiet_stop" /\ Tail(two) = <<"start_failed">>
      BY DEF Names
    <3>2. LET three == <<"quiet_stop", "start_failed", "save">>
          IN  /\ three \in Seq(Names) /\ three # << >> /\ Head(three) = "quiet_stop"
              /\ Tail(three) = <<"start_failed", "save">>
      BY DEF Names
    <3>. HIDE DEF list
    <3>. QED  BY <2>2, <3>1, <3>2
  <2>. HIDE DEF list
  <2>4. \/ Plain(Head(list), Tail(list)) /\ Plain(h, rest)
        \/ Unsaved(Head(list), Tail(list)) /\ Unsaved(h, rest)
    BY <2>3 DEF Plain, Unsaved
  <2>5. Plans'
    <3>1. Go(list) /\ Head(list) \notin AfterStop  BY <2>1, <2>3 DEF list, AfterStop
    <3>2. /\ ~ (Plain(h, rest) /\ Unsaved(h, rest))
          /\ ~ (Plain(Head(list), Tail(list)) /\ Before(Head(list), Tail(list)))
          /\ ~ (Plain(Head(list), Tail(list)) /\ Unsaved(Head(list), Tail(list)))
          /\ ~ (Before(Head(list), Tail(list)) /\ Unsaved(Head(list), Tail(list)))
      BY KindsDiffer
    <3>. QED  BY <1>1, <1>2, <2>1, <2>3, <2>4, <3>1, <3>2, PlanWritten DEF Planned
  <2>6. BackendsAreKnown'  BY <1>1, <2>1, BackendsUntouched
  <2>. QED  BY <1>0, <1>1, <2>1, <2>5, <2>6, HostParts DEF HostShape
<1>10. CASE StartFailed
  <2>1. host' = host /\ backend' = backend /\ h = "start_failed"
    BY <1>10 DEF StartFailed, Doing
  <2>2. Plans'
    <3>1. host.cmd = None  BY <1>0, <1>1, <2>1 DEF PlansAreFollowed, AfterStop
    <3>2. CASE rest = <<"save">>
      <4>1. Go(<<"revert", "start">>)  BY <1>10, <3>2 DEF StartFailed, Rest
      <4>2. /\ <<"revert", "start">> \in Seq(Names) /\ <<"revert", "start">> # << >>
            /\ Unsaved(Head(<<"revert", "start">>), Tail(<<"revert", "start">>))
        BY Lists DEF Names, Unsaved
      <4>3. host.settings = op.new /\ op.old = disk
        <5>1. <<"save">> # << >>  OBVIOUS
        <5>. QED  BY <1>2, <3>2, <5>1
      <4>. QED
        BY <1>1, <2>1, <3>1, <4>1, <4>2, <4>3, KindsDiffer, PlanWritten DEF Planned
    <3>3. CASE rest # <<"save">>
      <4>1. host.settings = disk  BY <1>2, <3>3
      <4>2. CASE Go(<<"exit">>)
        <5>1. /\ <<"exit">> \in Seq(Names) /\ <<"exit">> # << >>
              /\ Plain(Head(<<"exit">>), Tail(<<"exit">>))
          BY Lists DEF Names, Plain
        <5>. QED  BY <1>1, <2>1, <3>1, <4>1, <4>2, <5>1, KindsDiffer, PlanWritten DEF Planned
      <4>3. CASE Go(<< >>)  BY <1>1, <2>1, <4>1, <4>3, PlanEnded
      <4>. QED  BY <1>10, <3>3, <4>2, <4>3 DEF StartFailed, Rest
    <3>. QED  BY <3>2, <3>3
  <2>3. BackendsAreKnown'  BY <1>1, <2>1, BackendsUntouched
  <2>. QED  BY <1>0, <1>1, <2>1, <2>2, <2>3, HostParts DEF HostShape
<1>. QED  BY <1>6, <1>7, <1>8, <1>9, <1>10 DEF Start

\* Settings are set, saved and taken back.
LEMMA ConfigureKeeps ==
    ASSUME HostInv, Configure
    PROVE  HostInv'
<1>0. /\ controller \in BOOLEAN /\ HostShape /\ Plans /\ BackendsAreKnown /\ HostTypes
      /\ None \notin Backends /\ PlansAreFollowed
  BY HostParts, MigrationAssumption DEF MigrationAssumption, HostInv
<1>. DEFINE h    == Head(op.todo)
            rest == Tail(op.todo)
<1>1. /\ op.kind # "none" /\ h \in {"set", "save", "revert"} /\ UNCHANGED <<controller, backend>>
      /\ Planned(h, rest) /\ op.new \in Settings /\ op.old \in Settings
      /\ host.settings \in Settings /\ host.cmd \in Backends \cup {None} /\ disk \in Settings
  BY <1>0 DEF Configure, Set, Save, SaveFails, Revert, Doing, HostTypes, Operations, PlansAreFollowed
<1>2. CASE Set \/ Revert
  <2>1. PICK settings \in Settings :
          /\ host' = [host EXCEPT !.settings = settings] /\ disk' = disk
          /\ \/ h = "set" /\ settings = op.new
             \/ h = "revert" /\ settings = op.old
    BY <1>1, <1>2 DEF Set, Revert, Doing
  <2>2. HostShape' /\ host'.settings = settings /\ host'.cmd = host.cmd
    BY <1>0, <1>1, <2>1 DEF HostShape
  <2>3. host.cmd = None
    BY <1>0, <1>1, <2>1 DEF PlansAreFollowed, AfterStop
  <2>4. Plans'
    <3>1. h \notin Stops /\ h # "save"  BY <2>1 DEF Stops
    <3>2. op' \in Operations /\ PlansAreFollowed' /\ DiskIsKnown'
      BY <1>0, <1>1, <1>2, <2>1, <2>2, <3>1, PieceDone DEF Set, Revert
    <3>. QED  BY <3>2 DEF Plans
  <2>5. BackendsAreKnown'  BY <1>1, <2>2, <2>3, BackendsUntouched
  <2>. QED  BY <1>0, <1>1, <2>2, <2>4, <2>5, HostParts
<1>3. CASE Save
  <2>1. disk' = op.new /\ host' = host /\ h = "save"  BY <1>3 DEF Save, Doing
  <2>2. Plans'
    <3>1. h \notin Stops  BY <2>1 DEF Stops
    <3>2. op' \in Operations /\ PlansAreFollowed' /\ DiskIsKnown'
      BY <1>0, <1>1, <1>3, <2>1, <3>1, PieceDone DEF Save
    <3>. QED  BY <3>2 DEF Plans
  <2>3. BackendsAreKnown'  BY <1>1, <2>1, BackendsUntouched
  <2>. QED  BY <1>0, <1>1, <2>1, <2>2, <2>3, HostParts DEF HostShape
<1>4. CASE SaveFails
  <2>1. host' = host /\ disk' = disk /\ Go(<<"quiet_stop", "revert", "start">>) /\ h = "save"
    BY <1>4 DEF SaveFails, AfterSaveFailed, Doing
  <2>. DEFINE list == <<"quiet_stop", "revert", "start">>
  <2>2. /\ list \in Seq(Names) /\ list # << >> /\ Head(list) = "quiet_stop"
        /\ Tail(list) = <<"revert", "start">>
    BY DEF Names
  <2>3. Unsaved(h, rest)  BY <1>1, <2>1 DEF Planned, Plain, Before
  <2>4. host.settings = op.new /\ op.old = disk  BY <1>0, <1>1, <2>3 DEF PlansAreFollowed
  <2>. HIDE DEF list
  <2>5. Unsaved(Head(list), Tail(list)) /\ Head(list) \notin AfterStop
    BY <2>2 DEF Unsaved, AfterStop
  <2>6. Go(list)  BY <2>1 DEF list
  <2>7. Plans'
    BY <1>1, <2>1, <2>2, <2>4, <2>5, <2>6, KindsDiffer, PlanWritten DEF Planned
  <2>8. BackendsAreKnown'  BY <1>1, <2>1, BackendsUntouched
  <2>. QED  BY <1>0, <1>1, <2>1, <2>7, <2>8, HostParts DEF HostShape
<1>. QED  BY <1>2, <1>3, <1>4 DEF Configure

\* Around a maintenance command the backend is stopped and started again.
LEMMA CommandKeeps ==
    ASSUME HostInv, Command
    PROVE  HostInv'
<1>0. /\ controller \in BOOLEAN /\ HostShape /\ Plans /\ BackendsAreKnown /\ HostTypes
      /\ None \notin Backends /\ PlansAreFollowed
  BY HostParts, MigrationAssumption DEF MigrationAssumption, HostInv
<1>. DEFINE h    == Head(op.todo)
            rest == Tail(op.todo)
<1>1. /\ op.kind # "none" /\ h \in {"look", "run", "running", "restart"}
      /\ UNCHANGED <<controller, host, disk, backend>>
      /\ op.todo \in Seq(Names) /\ op.todo # << >> /\ Planned(h, rest)
  BY <1>0 DEF Command, Look, Run, CommandEnds, Restart, Doing, HostTypes, Operations, PlansAreFollowed
<1>2. /\ Plain(h, rest) /\ ~ Before(h, rest) /\ ~ Unsaved(h, rest) /\ host.settings = disk
      /\ rest \in Seq(Names)
  <2>1. ~ Before(h, rest) /\ ~ Unsaved(h, rest)  BY <1>1 DEF Before, Unsaved
  <2>2. rest \in Seq(Names)  BY <1>1, HeadTailProperties
  <2>. QED  BY <1>0, <1>1, <2>1, <2>2 DEF Planned, PlansAreFollowed
<1>3. BackendsAreKnown'  BY <1>1, BackendsUntouched
<1>. SUFFICES Plans'
  BY <1>0, <1>1, <1>3, HostParts DEF HostShape
<1>4. h \notin {"set", "revert", "save"} /\ h \notin Stops  BY <1>1 DEF Stops
<1>5. ASSUME Done  PROVE Plans'
  <2>1. op' \in Operations /\ PlansAreFollowed' /\ DiskIsKnown'
    BY <1>0, <1>1, <1>4, <1>5, PieceDone
  <2>. QED  BY <2>1 DEF Plans
<1>6. CASE Look
  <2>1. /\ op' = [op EXCEPT !.todo = Rest, !.running = Running] /\ h = "look"
        /\ op \in Operations
    BY <1>0, <1>6 DEF Look, Doing, Plans
  <2>2. rest = <<"stop", "run", "restart">>  BY <1>2, <2>1 DEF Plain
  <2>3. /\ op' \in Operations /\ op'.kind = op.kind /\ op'.todo = rest
    <3>1. Running \in BOOLEAN  BY DEF Running
    <3>. QED  BY <1>2, <2>1, <3>1 DEF Rest, Operations
  <2>4. Head(rest) = "stop" /\ Plain(Head(rest), Tail(rest)) /\ rest # << >>
    <3>1. LET list == <<"stop", "run", "restart">> IN list # << >> /\ Head(list) = "stop"
      OBVIOUS
    <3>. QED  BY <1>2, <2>2, <3>1, TailTurns
  <2>5. PlansAreFollowed'
    BY <1>1, <1>2, <2>3, <2>4, KindsDiffer DEF PlansAreFollowed, Planned, AfterStop
  <2>6. DiskIsKnown'  BY <1>1, <1>2, <2>3 DEF DiskIsKnown
  <2>. QED  BY <2>3, <2>5, <2>6 DEF Plans
<1>7. CASE Run
  <2>1. CASE \E c \in Commands : op' = [op EXCEPT !.todo = <<"running">> \o Rest, !.command = c]
    <3>1. PICK c \in Commands : op' = [op EXCEPT !.todo = <<"running">> \o Rest, !.command = c]
      BY <2>1
    <3>2. "running" \in Names /\ h = "run"  BY <1>7 DEF Names, Run, Doing
    <3>3. <<"running">> \o rest \in Seq(Names)  BY <1>2, <3>2, PushedPiece
    <3>4. /\ op' \in Operations /\ op'.kind = op.kind /\ op'.new = op.new /\ op'.old = op.old
          /\ op'.todo = <<"running">> \o rest
      BY <1>0, <3>1, <3>3 DEF Rest, Operations, Plans
    <3>5. Plain(h, rest) => Plain("running", rest)  BY <3>2 DEF Plain
    <3>6. PlansAreFollowed' /\ DiskIsKnown'
      <4>1. "running" \notin AfterStop  BY DEF AfterStop
      <4>. QED  BY <1>0, <1>1, <1>2, <3>2, <3>4, <3>5, <4>1, PieceReplaced
    <3>. QED  BY <3>4, <3>6 DEF Plans
  <2>. QED  BY <1>5, <1>7, <2>1 DEF Run
<1>8. CASE CommandEnds  BY <1>5, <1>8 DEF CommandEnds
<1>9. CASE Restart
  <2>1. CASE Go(<<"start">>)
    <3>1. /\ <<"start">> \in Seq(Names) /\ <<"start">> # << >> /\ Head(<<"start">>) = "start"
          /\ Plain(Head(<<"start">>), Tail(<<"start">>))
      BY Lists DEF Names, Plain
    <3>2. Head(<<"start">>) \notin AfterStop  BY <3>1 DEF AfterStop
    <3>. QED  BY <1>1, <1>2, <2>1, <3>1, <3>2, KindsDiffer, PlanWritten DEF Planned
  <2>2. CASE Go(<< >>)  BY <1>1, <1>2, <2>2, PlanEnded
  <2>. QED  BY <1>9, <2>1, <2>2 DEF Restart
<1>. QED  BY <1>6, <1>7, <1>8, <1>9 DEF Command

\* The controller opens, begins an operation, exits or dies.
LEMMA ControllerKeeps ==
    ASSUME HostInv,
           \/ OpenController \/ ExitController \/ ControllerDies \/ PowerLoss
           \/ \E kind \in DOMAIN Pieces, new \in Settings : Begin(kind, new)
    PROVE  HostInv'
<1>0. /\ controller \in BOOLEAN /\ HostShape /\ Plans /\ BackendsAreKnown /\ HostTypes
      /\ None \notin Backends /\ PlansAreFollowed
  BY HostParts, MigrationAssumption DEF MigrationAssumption, HostInv
<1>1. CASE OpenController
  <2>1. /\ controller' = TRUE /\ disk' = disk /\ backend' = backend /\ ~ controller
        /\ host'.cmd = None /\ host'.settings = disk /\ HostShape'
    BY <1>0, <1>1 DEF OpenController, HostShape
  <2>2. op' = [NoOp EXCEPT !.kind = "open", !.todo = <<"start">>]  BY <1>1 DEF OpenController
  <2>3. Plans'
    <3>1. <<"start">> \in Seq(Names) /\ <<"start">> # << >>  BY DEF Names
    <3>2. op' \in Operations /\ op'.kind = "open" /\ op'.todo = <<"start">>
      BY <2>2, <3>1, KindsOfOperations DEF Operations, NoOp
    <3>3. Head(<<"start">>) = "start" /\ Plain(Head(<<"start">>), Tail(<<"start">>))
      BY Lists DEF Plain
    <3>. QED
      BY <2>1, <3>1, <3>2, <3>3, KindsDiffer
      DEF Plans, PlansAreFollowed, DiskIsKnown, Planned, AfterStop
  <2>4. BackendsAreKnown'
    BY <1>0, <2>1 DEF BackendsAreKnown, PipeTypes, CmdIsKnown, NoBackendIsLost
  <2>. QED  BY <2>1, <2>3, <2>4, HostParts
<1>2. ASSUME ControllerGone  PROVE HostInv'
  <2>1. controller' = FALSE /\ disk' = disk /\ host' = NoHost /\ op' = NoOp /\ backend' = Disowned
    BY <1>2 DEF ControllerGone
  <2>2. HostShape' /\ host'.cmd = None  BY <1>0, <2>1, HostAssumption DEF HostShape, NoHost, HostAssumption
  <2>3. Plans'
    BY <2>1, KindsOfOperations DEF Plans, PlansAreFollowed, DiskIsKnown, NoOp
  <2>4. /\ PipeTypes' /\ \A b \in Backends : backend'[b].owned = FALSE
    <3>1. \A b \in Backends : backend[b] \in Pipes  BY <1>0 DEF BackendsAreKnown, PipeTypes
    <3>2. \A b \in Backends : [backend[b] EXCEPT !.owned = FALSE] \in Pipes
      BY <3>1 DEF Pipes
    <3>3. PipeTypes'  BY <2>1, <3>1, <3>2, NoBackendTypes DEF Disowned, PipeTypes
    <3>4. \A b \in Backends : backend'[b].owned = FALSE
      BY <2>1, <3>1 DEF Disowned, Pipes, NoBackend
    <3>. QED  BY <3>3, <3>4
  <2>5. BackendsAreKnown'
    BY <2>2, <2>4 DEF BackendsAreKnown, CmdIsKnown, NoBackendIsLost
  <2>. QED  BY <2>1, <2>2, <2>3, <2>5, HostParts
<1>3. CASE ExitController \/ ControllerDies
  BY <1>2, <1>3 DEF ExitController, ControllerDies
<1>4. CASE PowerLoss
  <2>1. /\ controller' = FALSE /\ disk' = disk /\ host' = NoHost /\ op' = NoOp
        /\ backend' = [b \in Backends |-> NoBackend]
    BY <1>4 DEF PowerLoss
  <2>2. HostShape' /\ host'.cmd = None  BY <1>0, <2>1, HostAssumption DEF HostShape, NoHost, HostAssumption
  <2>3. Plans'
    BY <2>1, KindsOfOperations DEF Plans, PlansAreFollowed, DiskIsKnown, NoOp
  <2>4. BackendsAreKnown'
    BY <2>1, <2>2, NoBackendTypes
    DEF BackendsAreKnown, PipeTypes, CmdIsKnown, NoBackendIsLost, NoBackend
  <2>. QED  BY <2>1, <2>2, <2>3, <2>4, HostParts
<1>5. ASSUME NEW kind \in DOMAIN Pieces, NEW new \in Settings, Begin(kind, new)
      PROVE  HostInv'
  <2>1. /\ UNCHANGED <<controller, host, disk, backend>> /\ controller /\ op.kind = "none"
        /\ op' = [NoOp EXCEPT !.kind = kind, !.todo = Pieces[kind], !.new = new, !.old = host.settings]
    BY <1>5 DEF Begin
  <2>2. host.settings = disk  BY <1>0, <2>1 DEF Plans, DiskIsKnown
  <2>. DEFINE list == Pieces[kind]
  <2>3. /\ list \in Seq(Names) /\ list # << >> /\ Head(list) \notin AfterStop
        /\ Plain(Head(list), Tail(list)) \/ Before(Head(list), Tail(list))
    <3>1. kind \in {"start", "stop", "restart", "configure", "command", "exit"}
      BY KindsOfOperations
    <3>2. CASE kind = "start"
      <4>1. list = <<"start">>  BY <3>2 DEF Pieces
      <4>2. Head(list) = "start" /\ Tail(list) = << >> /\ list \in Seq(Names) /\ list # << >>
        BY <4>1 DEF Names
      <4>. QED  BY <4>2 DEF Plain, AfterStop
    <3>3. CASE kind = "stop"
      <4>1. list = <<"stop">>  BY <3>3 DEF Pieces
      <4>2. Head(list) = "stop" /\ Tail(list) = << >> /\ list \in Seq(Names) /\ list # << >>
        BY <4>1 DEF Names
      <4>. QED  BY <4>2 DEF Plain, AfterStop
    <3>4. CASE kind = "restart"
      <4>1. list = <<"stop", "start">>  BY <3>4 DEF Pieces
      <4>2. Head(list) = "stop" /\ Tail(list) = <<"start">> /\ list \in Seq(Names) /\ list # << >>
        BY <4>1 DEF Names
      <4>. QED  BY <4>2 DEF Plain, AfterStop
    <3>5. CASE kind = "configure"
      <4>1. list = <<"stop", "set", "start", "save">>  BY <3>5 DEF Pieces
      <4>2. /\ Head(list) = "stop" /\ Tail(list) = <<"set", "start", "save">>
            /\ list \in Seq(Names) /\ list # << >>
        BY <4>1 DEF Names
      <4>. QED  BY <4>2 DEF Before, AfterStop
    <3>6. CASE kind = "command"
      <4>1. list = <<"look", "stop", "run", "restart">>  BY <3>6 DEF Pieces
      <4>2. /\ Head(list) = "look" /\ Tail(list) = <<"stop", "run", "restart">>
            /\ list \in Seq(Names) /\ list # << >>
        BY <4>1 DEF Names
      <4>. QED  BY <4>2 DEF Plain, AfterStop
    <3>7. CASE kind = "exit"
      <4>1. list = <<"quiet_stop", "exit">>  BY <3>7 DEF Pieces
      <4>2. /\ Head(list) = "quiet_stop" /\ Tail(list) = <<"exit">>
            /\ list \in Seq(Names) /\ list # << >>
        BY <4>1 DEF Names
      <4>. QED  BY <4>2 DEF Plain, AfterStop
    <3>. HIDE DEF list
    <3>. QED  BY <3>1, <3>2, <3>3, <3>4, <3>5, <3>6, <3>7
  <2>. HIDE DEF list
  <2>4. Plans'
    <3>1. host.settings \in Settings  BY <1>0 DEF HostShape
    <3>2. /\ op' \in Operations /\ op'.kind = kind /\ op'.todo = list /\ op'.new = new
          /\ op'.old = host.settings
      BY <2>1, <2>3, <3>1, KindsOfOperations DEF Operations, NoOp, list
    <3>3. kind # "none"  BY KindsOfOperations
    <3>. QED
      BY <2>1, <2>2, <2>3, <3>2, <3>3, KindsDiffer DEF Plans, PlansAreFollowed, DiskIsKnown, Planned
  <2>5. BackendsAreKnown'  BY <2>1, BackendsUntouched
  <2>. QED  BY <1>0, <2>1, <2>4, <2>5, HostParts DEF HostShape
<1>. QED  BY <1>1, <1>3, <1>4, <1>5

\* The backends go their own way.
LEMMA BackendsKeep ==
    ASSUME HostInv,
           \/ \E b \in Backends : BackendStep(b) \/ Write(b) \/ BackendDies(b)
           \/ AnalyserEnds \/ \E c \in Commands : CommandProcess(c)
           \/ UNCHANGED vars
    PROVE  HostInv'
<1>0. /\ controller \in BOOLEAN /\ HostShape /\ Plans /\ BackendsAreKnown /\ HostTypes
      /\ None \notin Backends /\ PlansAreFollowed
  BY HostParts, MigrationAssumption DEF MigrationAssumption, HostInv
<1>1. UNCHANGED <<controller, host, disk, op>>
  BY DEF BackendStep, BackendLeases, BackendServes, BackendRefused, Orphaned, Drained, Write, BackendDies,
         AnalyserEnds, CommandProcess, UnchangedHost, vars
<1>2. Plans' /\ HostShape'
  BY <1>0, <1>1 DEF Plans, PlansAreFollowed, DiskIsKnown, HostShape
<1>3. ASSUME UNCHANGED backend  PROVE HostInv'
  BY <1>0, <1>1, <1>2, <1>3, BackendsUntouched, HostParts
\* One backend changes its state.
<1>4. ASSUME NEW b \in Backends, NEW state \in Alive \cup {"exited"}, backend[b].state \in Alive,
             backend' = [backend EXCEPT ![b].state = state]
      PROVE  HostInv'
  <2>1. /\ PipeTypes' /\ backend'[b].state = state /\ backend'[b].settings = backend[b].settings
        /\ backend'[b].owned = backend[b].owned
        /\ \A d \in Backends : d # b => backend'[d] = backend[d]
    BY <1>0, <1>4 DEF BackendsAreKnown, PipeTypes, Pipes
  <2>2. state # "none" /\ backend[b].state # "none"  BY <1>4 DEF Alive
  <2>3. CmdIsKnown'
    BY <1>0, <1>1, <2>1, <2>2 DEF BackendsAreKnown, CmdIsKnown, HostShape
  <2>4. NoBackendIsLost'
    BY <1>0, <1>1, <1>4, <2>1 DEF BackendsAreKnown, NoBackendIsLost
  <2>. QED  BY <1>0, <1>1, <1>2, <2>1, <2>3, <2>4, HostParts DEF BackendsAreKnown
\* One backend ends.
<1>5. ASSUME NEW b \in Backends, backend[b].state \in Alive, backend' = Ended(b)
      PROVE  HostInv'
  <2>1. CASE host.cmd = b
    <3>1. backend' = [backend EXCEPT ![b].state = "exited"]
      BY <1>0, <1>5, <2>1 DEF Ended, BackendsAreKnown, PipeTypes
    <3>. QED  BY <1>4, <1>5, <3>1
  <2>2. CASE host.cmd # b
    <3>1. backend' = [backend EXCEPT ![b] = NoBackend]  BY <1>5, <2>2 DEF Ended
    <3>2. PipeTypes'  BY <1>0, <3>1, NoBackendTypes DEF BackendsAreKnown, PipeTypes
    <3>3. CmdIsKnown'
      BY <1>0, <1>1, <2>2, <3>1 DEF BackendsAreKnown, PipeTypes, CmdIsKnown, HostShape
    <3>4. NoBackendIsLost'
      BY <1>0, <1>1, <3>1 DEF BackendsAreKnown, PipeTypes, NoBackendIsLost, NoBackend
    <3>. QED  BY <1>0, <1>1, <1>2, <3>2, <3>3, <3>4, HostParts DEF BackendsAreKnown
  <2>. QED  BY <2>1, <2>2
<1>6. ASSUME NEW b \in Backends, BackendStep(b) \/ BackendDies(b)  PROVE HostInv'
  <2>1. CASE BackendLeases(b) \/ BackendServes(b) \/ Orphaned(b)
    <3>1. PICK state \in {"leased", "serving", "draining"} : backend' = [backend EXCEPT ![b].state = state]
      BY <2>1 DEF BackendLeases, BackendServes, Orphaned
    <3>2. backend[b].state \in Alive
      BY <2>1 DEF BackendLeases, BackendServes, Orphaned, LosesOwner, Alive
    <3>. QED  BY <1>4, <3>1, <3>2 DEF Alive
  <2>2. CASE BackendRefused(b) \/ Drained(b) \/ BackendDies(b)
    <3>1. backend[b].state \in Alive /\ backend' = Ended(b)
      BY <2>2 DEF BackendRefused, Drained, BackendDies, Alive
    <3>. QED  BY <1>5, <3>1
  <2>. QED  BY <1>6, <2>1, <2>2 DEF BackendStep
<1>7. ASSUME \/ \E b \in Backends : Write(b)
             \/ AnalyserEnds \/ \E c \in Commands : CommandProcess(c)
             \/ UNCHANGED vars
      PROVE  HostInv'
  BY <1>3, <1>7 DEF Write, AnalyserEnds, CommandProcess, vars
<1>. QED  BY <1>6, <1>7

LEMMA NextKeepsHost ==
    ASSUME HostInv, [Next]_vars
    PROVE  HostInv'
  BY StopKeeps, StartKeeps, ConfigureKeeps, CommandKeeps, ControllerKeeps, BackendsKeep
  DEF Next, HostStep

-----------------------------------------------------------------------------
(***************************************************************************)
(* The home: its leases, its commands and its jobs.                        *)
(***************************************************************************)
Holding == {"leased", "serving", "draining"}
AtWork  == {"leased", "import", "publish", "sync"}

\* The backends move, and the leases with them.
LEMMA BackendsMove ==
    ASSUME HomeInv, UNCHANGED <<storage, command, exclusive>>,
           \A b \in Backends : backend'[b].state \in Holding => b \in shared',
           exclusive # None => shared' = {}
    PROVE  HomeInv'
<1>1. HomeTypes' /\ JobsSurvive' /\ CopiesAreCurrent'
  BY DEF HomeInv, HomeTypes, JobsSurvive, CopiesAreCurrent, Live, storage
<1>2. LeasesAreHeld'  BY DEF HomeInv, LeasesAreHeld, Holding
<1>. QED  BY <1>1, <1>2 DEF HomeInv

\* No lease changes hands.
LEMMA LeasesKept ==
    ASSUME HomeInv, UNCHANGED <<leases, storage, command>>,
           \A b \in Backends : backend'[b].state \in Holding => backend[b].state \in Holding
    PROVE  HomeInv'
<1>1. UNCHANGED <<shared, exclusive>>  BY DEF leases
<1>2. \A b \in Backends : backend'[b].state \in Holding => b \in shared'
  BY <1>1 DEF HomeInv, LeasesAreHeld, Holding
<1>3. exclusive # None => shared' = {}  BY <1>1 DEF HomeInv, LeasesAreHeld
<1>. QED  BY <1>1, <1>2, <1>3, BackendsMove

\* A backend ends; only one with a lease leaves an analyser behind.
LEMMA LeaseReleased ==
    ASSUME HomeInv, NEW b \in Backends, NEW left \in Left(b), Release(b, left),
           UNCHANGED <<storage, command>>, backend'[b].state \notin Holding,
           \A d \in Backends : d # b => backend'[d].state = backend[d].state
    PROVE  HomeInv'
<1>1. exclusive' = exclusive /\ shared' = (shared \ {b}) \cup left  BY DEF Release
<1>2. exclusive # None => shared' = {}
  BY <1>1 DEF HomeInv, LeasesAreHeld, Left
<1>3. \A d \in Backends : backend'[d].state \in Holding => d \in shared'
  BY <1>1 DEF HomeInv, LeasesAreHeld, Holding
<1>. QED  BY <1>1, <1>2, <1>3, BackendsMove

LEMMA NothingLeft == \A b \in Backends : backend[b].state \notin {"serving", "draining"} => {} \in Left(b)
  BY DEF Left

\* A command steps to where it holds nothing.
LEMMA CommandAtRest ==
    ASSUME HomeInv, NEW c \in Commands, NEW step \in {"started", "done", "failed"},
           CommandStep(c, step), UNCHANGED <<shared, storage, backend>>,
           exclusive' = exclusive \/ (exclusive = c /\ exclusive' = None),
           command[c].step \in AtWork => exclusive' = None,
           None \notin Commands
    PROVE  HomeInv'
<1>1. command' = [command EXCEPT ![c].step = step]  BY DEF CommandStep
<1>2. HomeTypes /\ LeasesAreHeld /\ CopiesAreCurrent /\ JobsSurvive  BY DEF HomeInv
<1>3. HomeTypes'  BY <1>1, <1>2 DEF HomeTypes, storage, Exited
<1>4. /\ command'[c].step = step
      /\ \A d \in Commands : d # c => command'[d] = command[d]
  BY <1>1, <1>2 DEF HomeTypes
<1>5. LeasesAreHeld'
  <2>1. \A d \in Commands : command'[d].step \in AtWork => d # c /\ command[d].step \in AtWork
    BY <1>4 DEF AtWork
  <2>2. \A d \in Commands : command'[d].step \in AtWork => exclusive' = d
    BY <1>2, <2>1 DEF LeasesAreHeld, AtWork
  <2>. QED  BY <1>2, <2>2 DEF LeasesAreHeld, AtWork
<1>6. CopiesAreCurrent'
  <2>1. \A d \in Commands : command'[d].step = "publish" => command'[d].copy = json'
    BY <1>2, <1>4 DEF CopiesAreCurrent, storage
  <2>. QED  BY <1>2, <2>1 DEF CopiesAreCurrent, storage
<1>7. JobsSurvive'  BY <1>2 DEF JobsSurvive, Live, storage
<1>. QED  BY <1>3, <1>5, <1>6, <1>7 DEF HomeInv

\* What the host does to a backend it knows.
LEMMA HostKeepsHome ==
    ASSUME AgentInv, Stop \/ Start \/ Configure \/ Command \/ ExitController
                     \/ OpenController \/ ControllerDies
                     \/ \E kind \in DOMAIN Pieces, new \in Settings : Begin(kind, new)
    PROVE  HomeInv'
<1>0. /\ HomeInv /\ backend \in [Backends -> Pipes] /\ host.cmd \in Backends \cup {None}
      /\ None \notin Backends
  BY MigrationAssumption DEF AgentInv, HostInv, HostTypes, MigrationAssumption
<1>1. /\ \A b \in Backends : Forget(host.cmd)[b] = IF b = host.cmd THEN NoBackend ELSE backend[b]
      /\ NoBackend.state \notin Holding
  BY <1>0 DEF Forget, NoBackend, Holding
<1>2. ASSUME UNCHANGED <<leases, storage, command>>,
             \A b \in Backends : backend'[b].state \in Holding => backend[b].state \in Holding
      PROVE  HomeInv'
  BY <1>0, <1>2, LeasesKept
<1>3. ASSUME UNCHANGED <<leases, storage, command>>, backend' = Forget(host.cmd) \/ backend' = backend
      PROVE  HomeInv'
  BY <1>1, <1>2, <1>3
<1>4. ASSUME NEW piece, NEW next, Signal(piece, next)
      PROVE  HomeInv'
  <2>1. UNCHANGED <<storage, command>>  BY <1>4 DEF Signal
  <2>2. CASE ~ Running  BY <1>3, <1>4, <2>1, <2>2 DEF Signal
  <2>3. CASE Running
    <3>1. host.cmd \in Backends  BY <1>0, <2>3 DEF Running
    <3>2. CASE /\ backend[host.cmd].state \in {"serving", "draining"}
               /\ backend' = [backend EXCEPT ![host.cmd].state = "draining"]
               /\ UNCHANGED leases
      <4>1. \A b \in Backends : backend'[b].state \in Holding => backend[b].state \in Holding
        BY <1>0, <3>1, <3>2 DEF Pipes, Holding
      <4>. QED  BY <1>2, <2>1, <3>2, <4>1
    <3>3. CASE /\ backend[host.cmd].state \in {"booting", "leased"}
               /\ backend' = [backend EXCEPT ![host.cmd].state = "exited"]
               /\ Release(host.cmd, {})
      <4>1. /\ backend'[host.cmd].state = "exited"
            /\ \A d \in Backends : d # host.cmd => backend'[d] = backend[d]
        BY <1>0, <3>1, <3>3 DEF Pipes
      <4>2. {} \in Left(host.cmd)  BY <3>1, <3>3, NothingLeft
      <4>. QED  BY <1>0, <2>1, <3>1, <3>3, <4>1, <4>2, LeaseReleased DEF Holding
    <3>. QED  BY <1>4, <2>3, <3>2, <3>3 DEF Signal
  <2>. QED  BY <2>2, <2>3
<1>5. ASSUME NEW piece, StopEnds(piece)  PROVE HomeInv'
  BY <1>3, <1>5 DEF StopEnds, UnchangedHome
<1>6. ASSUME NEW piece, StopKills(piece)  PROVE HomeInv'
  <2>1. host.cmd \in Backends  BY <1>0, <1>6 DEF StopKills, Overdue, Running
  <2>2. PICK left \in Left(host.cmd) : Release(host.cmd, left)  BY <1>6 DEF StopKills
  <2>3. UNCHANGED <<storage, command>> /\ backend' = Forget(host.cmd)  BY <1>6 DEF StopKills
  <2>. QED  BY <1>0, <1>1, <2>1, <2>2, <2>3, LeaseReleased
<1>7. CASE Stop  BY <1>4, <1>5, <1>6, <1>7 DEF Stop
<1>8. CASE Spawn
  <2>1. UNCHANGED <<leases, storage, command>>  BY <1>8 DEF Spawn, UnchangedHome
  <2>2. CASE backend' = backend  BY <1>3, <2>1, <2>2
  <2>3. CASE \E b \in Backends : backend' = [Forget(host.cmd) EXCEPT ![b] =
                 [state |-> "booting", settings |-> host.settings, owned |-> TRUE]]
    <3>1. PICK b \in Backends : backend' = [Forget(host.cmd) EXCEPT ![b] =
              [state |-> "booting", settings |-> host.settings, owned |-> TRUE]]
      BY <2>3
    <3>2. DOMAIN Forget(host.cmd) = Backends  BY <1>0 DEF Forget
    <3>3. /\ backend'[b].state = "booting"
          /\ \A d \in Backends : d # b => backend'[d] = Forget(host.cmd)[d]
      BY <3>1, <3>2
    <3>4. \A d \in Backends : backend'[d].state \in Holding => backend[d].state \in Holding
      BY <1>1, <3>3 DEF Holding
    <3>. QED  BY <1>2, <2>1, <3>4
  <2>. QED  BY <1>8, <2>2, <2>3 DEF Spawn
<1>9. CASE SpawnFails \/ Ready \/ StartTimesOut \/ StartFailed
  BY <1>3, <1>9 DEF SpawnFails, Ready, StartTimesOut, StartFailed, UnchangedHome
<1>10. CASE Configure
  BY <1>3, <1>10 DEF Configure, Set, Save, SaveFails, Revert, UnchangedHome
<1>11. CASE Look \/ CommandEnds \/ Restart
  BY <1>3, <1>11 DEF Look, CommandEnds, Restart, UnchangedHome
\* A command that has just been started has no lease.
<1>12. CASE Run
  <2>1. UNCHANGED <<leases, storage, backend>>  BY <1>12 DEF Run
  <2>2. CASE UNCHANGED command  BY <1>3, <2>1, <2>2
  <2>3. CASE \E c \in Commands : command[c].step = "idle" /\ CommandStep(c, "started")
    <3>1. PICK c \in Commands : command[c].step = "idle" /\ CommandStep(c, "started")  BY <2>3
    <3>2. UNCHANGED <<shared, exclusive>> /\ None \notin Commands
      BY <2>1, MigrationAssumption DEF leases, MigrationAssumption
    <3>. QED  BY <1>0, <2>1, <3>1, <3>2, CommandAtRest DEF AtWork
  <2>. QED  BY <1>12, <2>2, <2>3 DEF Run
<1>13. CASE OpenController \/ \E kind \in DOMAIN Pieces, new \in Settings : Begin(kind, new)
  BY <1>3, <1>13 DEF OpenController, Begin, UnchangedHome
<1>14. CASE ExitController \/ ControllerDies
  <2>1. UNCHANGED <<leases, storage, command>> /\ backend' = Disowned
    BY <1>14 DEF ExitController, ControllerDies, ControllerGone, UnchangedHome
  <2>2. \A b \in Backends : backend'[b].state \in Holding => backend[b].state \in Holding
    BY <1>0, <1>1, <2>1 DEF Disowned, Pipes
  <2>. QED  BY <1>2, <2>1, <2>2
<1>. QED
  BY <1>7, <1>8, <1>9, <1>10, <1>11, <1>12, <1>13, <1>14 DEF Start, Command

\* A command has its lease alone, and what it imports is what there is.
LEMMA CommandKeepsHome ==
    ASSUME AgentInv, NEW c \in Commands, CommandProcess(c)
    PROVE  HomeInv'
<1>0. /\ HomeInv /\ HomeTypes /\ LeasesAreHeld /\ CopiesAreCurrent /\ JobsSurvive
      /\ None \notin Commands /\ UNCHANGED backend
  BY MigrationAssumption DEF AgentInv, HomeInv, MigrationAssumption, CommandProcess
\* The command goes on with the lease that it holds.
<1>1. ASSUME NEW step \in AtWork, NEW copy \in Nat, command' = [command EXCEPT ![c] = [step |-> step, copy |-> copy]],
             shared' = shared, exclusive' = c, exclusive = c \/ (exclusive = None /\ shared = {})
      PROVE  /\ command'[c].step = step /\ command'[c].copy = copy /\ LeasesAreHeld'
             /\ \A d \in Commands : d # c => command'[d] = command[d] /\ command[d].step \notin AtWork
             /\ command' \in [Commands -> [step : Exited \cup {"started", "leased", "import", "publish", "sync"},
                                           copy : Nat]]
  <2>1. /\ command'[c].step = step /\ command'[c].copy = copy
        /\ \A d \in Commands : d # c => command'[d] = command[d]
    BY <1>0, <1>1 DEF HomeTypes
  <2>2. \A d \in Commands : d # c => command[d].step \notin AtWork
    BY <1>0, <1>1 DEF LeasesAreHeld, AtWork
  <2>3. shared = {}  BY <1>0, <1>1 DEF LeasesAreHeld
  <2>4. LeasesAreHeld'
    BY <1>0, <1>1, <2>1, <2>2, <2>3 DEF LeasesAreHeld, AtWork
  <2>5. command' \in [Commands -> [step : Exited \cup {"started", "leased", "import", "publish", "sync"},
                                   copy : Nat]]
    BY <1>0, <1>1 DEF HomeTypes, AtWork
  <2>. QED  BY <2>1, <2>2, <2>4, <2>5
<1>2. /\ command[c].copy \in Nat
      /\ \A step : [command EXCEPT ![c].step = step] = [command EXCEPT ![c] = [step |-> step, copy |-> command[c].copy]]
  <2>1. command[c] \in [step : Exited \cup {"started", "leased", "import", "publish", "sync"}, copy : Nat]
    BY <1>0 DEF HomeTypes
  <2>2. \A step : [command[c] EXCEPT !.step = step] = [step |-> step, copy |-> command[c].copy]
    BY <2>1
  <2>. QED  BY <2>1, <2>2
<1>3. command[c].step \in AtWork => exclusive = c  BY <1>0 DEF LeasesAreHeld, AtWork
<1>4. CASE TakeLease(c)
  <2>1. /\ exclusive = None /\ shared = {} /\ exclusive' = c /\ shared' = shared /\ UNCHANGED storage
        /\ command' = [command EXCEPT ![c] = [step |-> "leased", copy |-> command[c].copy]]
    BY <1>2, <1>4 DEF TakeLease, LeaseIsFree, CommandStep
  <2>. QED  BY <1>0, <1>1, <1>2, <2>1
            DEF AtWork, HomeInv, HomeTypes, CopiesAreCurrent, JobsSurvive, Live, storage
<1>5. CASE LookForQueue(c)
  <2>1. command[c].step = "leased" /\ UNCHANGED <<shared, storage>>  BY <1>5 DEF LookForQueue
  <2>2. CASE Exit(c, "done")
    BY <1>0, <1>3, <2>1, <2>2, CommandAtRest DEF Exit, AtWork
  <2>3. CASE CommandStep(c, "import") /\ UNCHANGED exclusive
    <3>1. /\ exclusive = c /\ exclusive' = c /\ shared' = shared
          /\ command' = [command EXCEPT ![c] = [step |-> "import", copy |-> command[c].copy]]
      BY <1>2, <1>3, <2>1, <2>3 DEF CommandStep, AtWork
    <3>. QED  BY <1>0, <1>1, <1>2, <2>1, <3>1
              DEF AtWork, HomeInv, HomeTypes, CopiesAreCurrent, JobsSurvive, Live, storage
  <2>. QED  BY <1>5, <2>2, <2>3 DEF LookForQueue
<1>6. CASE Import(c)
  <2>1. /\ exclusive = c /\ exclusive' = c /\ shared' = shared /\ UNCHANGED storage /\ json \in Nat
        /\ command' = [command EXCEPT ![c] = [step |-> "publish", copy |-> json]]
    BY <1>0, <1>3, <1>6 DEF Import, AtWork, leases, HomeTypes
  <2>. QED  BY <1>0, <1>1, <2>1
            DEF AtWork, HomeInv, HomeTypes, CopiesAreCurrent, JobsSurvive, Live, storage
<1>7. CASE PublishQueue(c)
  <2>1. /\ exclusive = c /\ exclusive' = c /\ shared' = shared /\ UNCHANGED <<json, acked, exposed>>
        /\ command' = [command EXCEPT ![c] = [step |-> "sync", copy |-> command[c].copy]]
        /\ command[c].step = "publish" /\ ~ queue.there
        /\ queue' = [there |-> TRUE, version |-> command[c].copy, synced |-> FALSE]
    BY <1>2, <1>3, <1>7 DEF PublishQueue, CommandStep, AtWork, leases
  <2>2. command[c].copy = json  BY <1>0, <2>1 DEF CopiesAreCurrent
  <2>3. json = acked \/ exposed  BY <1>0, <2>1 DEF JobsSurvive, Live
  <2>4. /\ LeasesAreHeld' /\ \A d \in Commands : command'[d].step = "publish" => FALSE
        /\ HomeTypes'
    BY <1>0, <1>1, <1>2, <2>1 DEF AtWork, HomeTypes
  <2>5. CopiesAreCurrent' /\ JobsSurvive'
    BY <1>0, <2>1, <2>2, <2>3, <2>4 DEF CopiesAreCurrent, JobsSurvive, Live, HomeTypes
  <2>. QED  BY <2>4, <2>5 DEF HomeInv
\* Once its name is synced, the queue no longer depends on the jobs' files.
<1>8. CASE SyncQueue(c)
  <2>1. /\ command[c].step = "sync" /\ CommandStep(c, "done") /\ UNCHANGED <<shared, json, acked, exposed>>
        /\ exclusive' = None /\ queue' = [queue EXCEPT !.synced = TRUE]
    BY <1>0, <1>3, <1>8 DEF SyncQueue, Exit, AtWork
  <2>2. /\ queue'.there = queue.there /\ queue'.version = queue.version /\ queue'.synced
        /\ queue' \in [there : BOOLEAN, version : Nat, synced : BOOLEAN]
    BY <1>0, <2>1 DEF HomeTypes
  <2>3. /\ command'[c].step = "done" /\ \A d \in Commands : d # c => command'[d] = command[d]
        /\ command' \in [Commands -> [step : Exited \cup {"started", "leased", "import", "publish", "sync"},
                                      copy : Nat]]
    BY <1>0, <2>1 DEF CommandStep, HomeTypes, Exited
  <2>4. \A d \in Commands : command'[d].step \notin AtWork
    BY <1>0, <1>3, <2>1, <2>3 DEF LeasesAreHeld, AtWork
  <2>5. HomeTypes' /\ LeasesAreHeld'
    BY <1>0, <2>1, <2>2, <2>3, <2>4 DEF HomeTypes, LeasesAreHeld, AtWork
  <2>6. CopiesAreCurrent' /\ JobsSurvive'
    BY <1>0, <2>1, <2>2, <2>4 DEF CopiesAreCurrent, JobsSurvive, Live, AtWork
  <2>. QED  BY <2>5, <2>6 DEF HomeInv
<1>9. CASE CommandFails(c)
  BY <1>0, <1>3, <1>9, CommandAtRest DEF CommandFails, Exit
<1>. QED  BY <1>4, <1>5, <1>6, <1>7, <1>8, <1>9 DEF CommandProcess, RunCommand

\* A backend that writes jobs shares the lease, so no command has imported
\* what is no longer there.
LEMMA WriteKeepsHome ==
    ASSUME AgentInv, NEW b \in Backends, Write(b)
    PROVE  HomeInv'
<1>1. /\ HomeTypes /\ LeasesAreHeld /\ CopiesAreCurrent /\ JobsSurvive
      /\ None \notin Commands
  BY MigrationAssumption DEF AgentInv, HomeInv, MigrationAssumption
<1>2. backend[b].state \in {"serving", "draining"} /\ WriteJob /\ UNCHANGED <<leases, command, backend>>
  BY DEF Write
<1>3. \A c \in Commands : command[c].step # "publish"
  <2>1. b \in shared  BY <1>1, <1>2 DEF LeasesAreHeld
  <2>2. exclusive = None  BY <1>1, <2>1 DEF LeasesAreHeld
  <2>. QED  BY <1>1, <2>2 DEF LeasesAreHeld
<1>4. LeasesAreHeld'  BY <1>1, <1>2 DEF LeasesAreHeld, leases
<1>5. HomeTypes' /\ CopiesAreCurrent' /\ JobsSurvive'
  <2>1. /\ acked' = Live + 1 /\ exposed' = (exposed \/ (queue.there /\ ~ queue.synced)) /\ Live \in Nat
    BY <1>1, <1>2 DEF WriteJob, Live, HomeTypes
  <2>2. CASE queue.there
    <3>1. /\ queue' = [queue EXCEPT !.version = @ + 1] /\ json' = json  BY <1>2, <2>2 DEF WriteJob
    <3>2. /\ queue'.there /\ queue'.version = queue.version + 1 /\ queue'.synced = queue.synced
          /\ queue' \in [there : BOOLEAN, version : Nat, synced : BOOLEAN]
      BY <1>1, <2>2, <3>1 DEF HomeTypes
    <3>. QED  BY <1>1, <1>2, <1>3, <2>1, <2>2, <3>1, <3>2
              DEF HomeTypes, CopiesAreCurrent, JobsSurvive, Live
  <2>3. CASE ~ queue.there
    <3>1. json' = json + 1 /\ queue' = queue  BY <1>2, <2>3 DEF WriteJob
    <3>. QED  BY <1>1, <1>2, <1>3, <2>1, <2>3, <3>1
              DEF HomeTypes, CopiesAreCurrent, JobsSurvive, Live
  <2>. QED  BY <2>2, <2>3
<1>. QED  BY <1>4, <1>5 DEF HomeInv

\* The backends take, keep and release their leases.
LEMMA BackendsKeepHome ==
    ASSUME AgentInv, AnalyserEnds \/ UNCHANGED vars \/ \E b \in Backends : BackendStep(b) \/ BackendDies(b)
    PROVE  HomeInv'
<1>0. HomeInv /\ backend \in [Backends -> Pipes] /\ LeasesAreHeld
  BY DEF AgentInv, HostInv, HostTypes, HomeInv
<1>1. CASE AnalyserEnds
  <2>1. /\ UNCHANGED <<storage, command, exclusive, backend>> /\ shared' = shared \ {Analyser}
        /\ Analyser \notin Backends
    BY <1>1, MigrationAssumption DEF AnalyserEnds, MigrationAssumption
  <2>2. /\ \A b \in Backends : backend'[b].state \in Holding => b \in shared'
        /\ exclusive # None => shared' = {}
    BY <1>0, <2>1 DEF LeasesAreHeld, Holding
  <2>. QED  BY <1>0, <2>1, <2>2, BackendsMove
<1>2. CASE UNCHANGED vars
  BY <1>0, <1>2, LeasesKept DEF vars
<1>3. ASSUME NEW b \in Backends, BackendStep(b) \/ BackendDies(b)  PROVE HomeInv'
  <2>1. ASSUME NEW state, backend' = [backend EXCEPT ![b].state = state]
        PROVE  /\ backend'[b].state = state
               /\ \A d \in Backends : d # b => backend'[d] = backend[d]
    BY <1>0, <2>1 DEF Pipes
  <2>2. ASSUME backend' = Ended(b)
        PROVE  /\ backend'[b].state \notin Holding
               /\ \A d \in Backends : d # b => backend'[d] = backend[d]
    BY <1>0, <2>2 DEF Ended, Pipes, NoBackend, Holding
  <2>3. CASE BackendLeases(b)
    <3>1. /\ backend' = [backend EXCEPT ![b].state = "leased"] /\ exclusive = None
          /\ shared' = shared \cup {b} /\ UNCHANGED <<exclusive, storage, command>>
      BY <2>3 DEF BackendLeases
    <3>2. \A d \in Backends : backend'[d].state \in Holding => d \in shared'
      BY <1>0, <2>1, <3>1 DEF LeasesAreHeld, Holding
    <3>. QED  BY <1>0, <3>1, <3>2, BackendsMove
  <2>4. CASE BackendServes(b)
    <3>1. /\ backend[b].state = "leased" /\ backend' = [backend EXCEPT ![b].state = "serving"]
          /\ UNCHANGED <<shared, exclusive, storage, command>>
      BY <2>4 DEF BackendServes
    <3>2. /\ \A d \in Backends : backend'[d].state \in Holding => d \in shared'
          /\ exclusive # None => shared' = {}
      BY <1>0, <2>1, <3>1 DEF LeasesAreHeld, Holding
    <3>. QED  BY <1>0, <3>1, <3>2, BackendsMove
  <2>5. CASE Orphaned(b)
    <3>1. /\ backend[b].state = "serving" /\ backend' = [backend EXCEPT ![b].state = "draining"]
          /\ UNCHANGED <<leases, storage, command>>
      BY <2>5 DEF Orphaned, LosesOwner, UnchangedHome
    <3>2. \A d \in Backends : backend'[d].state \in Holding => backend[d].state \in Holding
      BY <2>1, <3>1 DEF Holding
    <3>. QED  BY <1>0, <3>1, <3>2, LeasesKept
  <2>6. CASE BackendRefused(b)
    <3>1. /\ backend' = Ended(b) /\ UNCHANGED <<storage, command>> /\ Release(b, {})
          /\ backend[b].state \in {"booting", "leased"}
      BY <2>6 DEF BackendRefused
    <3>2. {} \in Left(b)  BY <3>1, NothingLeft
    <3>. QED  BY <1>0, <2>2, <3>1, <3>2, LeaseReleased
  <2>7. CASE Drained(b)
    <3>1. backend' = Ended(b) /\ UNCHANGED <<storage, command>> /\ Release(b, {})
          /\ backend[b].state = "draining"
      BY <2>7 DEF Drained
    <3>2. {} \in Left(b)  BY <3>1 DEF Left
    <3>. QED  BY <1>0, <2>2, <3>1, <3>2, LeaseReleased
  <2>8. CASE BackendDies(b)
    <3>1. backend' = Ended(b) /\ UNCHANGED <<storage, command>>  BY <2>8 DEF BackendDies
    <3>2. PICK left \in Left(b) : Release(b, left)  BY <2>8 DEF BackendDies
    <3>. QED  BY <1>0, <2>2, <3>1, <3>2, LeaseReleased
  <2>. QED  BY <1>3, <2>3, <2>4, <2>5, <2>6, <2>7, <2>8 DEF BackendStep
<1>. QED  BY <1>1, <1>2, <1>3

\* With the power go the leases and the commands, and perhaps the rename of
\* a queue that nothing has been written to since.
LEMMA PowerLossKeepsHome ==
    ASSUME AgentInv, PowerLoss
    PROVE  HomeInv'
<1>0. /\ HomeTypes /\ LeasesAreHeld /\ CopiesAreCurrent /\ JobsSurvive
  BY DEF AgentInv, HomeInv
<1>1. /\ shared' = {} /\ exclusive' = None /\ backend' = [b \in Backends |-> NoBackend]
      /\ UNCHANGED <<json, acked, exposed>>
      /\ command' = [c \in Commands |->
             IF command[c].step = "idle" THEN command[c] ELSE [command[c] EXCEPT !.step = "failed"]]
  BY DEF PowerLoss, PowerLossOfQueue
<1>2. /\ command' \in [Commands -> [step : Exited \cup {"started", "leased", "import", "publish", "sync"},
                                    copy : Nat]]
      /\ \A c \in Commands : command'[c].step \in {"idle", "failed"}
  BY <1>0, <1>1 DEF HomeTypes, Exited
<1>3. LeasesAreHeld'  BY <1>1, <1>2 DEF LeasesAreHeld, NoBackend
<1>4. \/ queue' = [queue EXCEPT !.synced = TRUE]
      \/ queue' = NoQueue /\ ~ queue.synced
  BY DEF PowerLoss, PowerLossOfQueue
<1>5. /\ queue' \in [there : BOOLEAN, version : Nat, synced : BOOLEAN] /\ queue'.synced
      /\ \/ queue'.there = queue.there /\ queue'.version = queue.version
         \/ ~ queue'.there /\ ~ queue.synced
  <2>1. CASE queue' = [queue EXCEPT !.synced = TRUE]  BY <1>0, <2>1 DEF HomeTypes
  <2>2. CASE queue' = NoQueue /\ ~ queue.synced  BY <2>2 DEF NoQueue
  <2>. QED  BY <1>4, <2>1, <2>2
<1>6. HomeTypes'  BY <1>0, <1>1, <1>2, <1>5 DEF HomeTypes
<1>7. CopiesAreCurrent'  BY <1>2, <1>5 DEF CopiesAreCurrent
<1>8. JobsSurvive'
  BY <1>0, <1>1, <1>5 DEF JobsSurvive, CopiesAreCurrent, Live
<1>. QED  BY <1>3, <1>6, <1>7, <1>8 DEF HomeInv

-----------------------------------------------------------------------------
LEMMA InitAgent == Init => AgentInv
<1>. SUFFICES ASSUME Init  PROVE AgentInv
  OBVIOUS
<1>1. HostInv
  <2>1. /\ controller = FALSE /\ host = NoHost /\ disk = Default /\ op = NoOp
        /\ backend = [b \in Backends |-> NoBackend] /\ Default \in Settings
    BY HostAssumption DEF Init, HostAssumption
  <2>2. HostTypes
    BY <2>1, KindsOfOperations, NoBackendTypes DEF HostTypes, NoHost
  <2>3. /\ op.kind = "none" /\ host.cmd = None /\ \A b \in Backends : backend[b].state = "none"
    BY <2>1 DEF NoOp, NoHost, NoBackend
  <2>. QED
    BY <2>1, <2>2, <2>3 DEF HostInv, PlansAreFollowed, DiskIsKnown, CmdIsKnown, NoBackendIsLost, Alive
<1>2. HomeInv
  <2>1. /\ shared = {} /\ exclusive = None /\ json = 0 /\ queue = NoQueue /\ acked = 0
        /\ exposed = FALSE /\ command = [c \in Commands |-> NoCommand]
        /\ backend = [b \in Backends |-> NoBackend]
    BY DEF Init, InitStorage
  <2>2. HomeTypes  BY <2>1 DEF HomeTypes, NoQueue, NoCommand, Exited
  <2>. QED
    BY <2>1, <2>2
    DEF HomeInv, LeasesAreHeld, CopiesAreCurrent, JobsSurvive, Live, NoQueue, NoCommand, NoBackend
<1>. QED  BY <1>1, <1>2 DEF AgentInv

LEMMA NextKeepsAgent == AgentInv /\ [Next]_vars => AgentInv'
<1>. SUFFICES ASSUME AgentInv, [Next]_vars  PROVE AgentInv'
  OBVIOUS
<1>1. HostInv'  BY NextKeepsHost DEF AgentInv
<1>2. HomeInv'
  BY HostKeepsHome, CommandKeepsHome, WriteKeepsHome, BackendsKeepHome, PowerLossKeepsHome
  DEF Next, HostStep
<1>. QED  BY <1>1, <1>2 DEF AgentInv

\* What holds at every moment of the agent, of its backends and of the home:
\* the inductive invariant.
THEOREM AgentInvariance == Spec => []AgentInv
  BY InitAgent, NextKeepsAgent, PTL DEF Spec

\* Every answered write of a job is in the queue that the next read opens:
\* the lease that backends share and a migration has alone.
THEOREM MigratedJobsSurvive == Spec => []JobsSurvive
<1>1. AgentInv => JobsSurvive  BY DEF AgentInv, HomeInv
<1>. QED  BY <1>1, AgentInvariance, PTL

\* Between operations a backend that serves does so with the settings of the
\* host and of the disk, whichever step of a configuration has failed.
THEOREM SettingsStayAgreed == Spec => []SettingsAgree
<1>1. AgentInv => SettingsAgree
  BY DEF AgentInv, HostInv, DiskIsKnown, CmdIsKnown, SettingsAgree, Running
<1>. QED  BY <1>1, AgentInvariance, PTL

\* A live backend whose owner is alive is the one that the host knows.
THEOREM EveryBackendHasItsHost == Spec => []NoBackendIsLost
<1>1. AgentInv => NoBackendIsLost  BY DEF AgentInv, HostInv
<1>. QED  BY <1>1, AgentInvariance, PTL

=============================================================================
