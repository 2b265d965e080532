--------------------------- MODULE KnowledgePacks ---------------------------
(***************************************************************************)
(* The installed knowledge packs of a home                                 *)
(* (internal/workspace/knowledge/lock.go): the commands that install,      *)
(* enable and disable packs, and the run that loads those that are         *)
(* enabled.  Nothing locks the home: each command reads diffmind-packs.lock*)
(* replaces it by rename, and others may do as much in between.            *)
(*                                                                         *)
(* Abstractions.  A content stands for a tree of files, and its digest is  *)
(* the content.  A directory being removed has lost its manifest: to a     *)
(* reader it is a directory that is not there.  A clone is private, a      *)
(* local source may be edited while it is installed.  Packs that lint      *)
(* refuses, the built-in ones and those of a project are left out; whether *)
(* a set of packs goes together (ValidateSet) is left open.                *)
(***************************************************************************)
EXTENDS FiniteSets

CONSTANTS
    Packs,      \* ids of packs
    Versions,   \* versions of a pack
    Contents,   \* what an installed directory may hold
    Commands    \* invocations of "diffmind pack install", "enable" and "disable"

ASSUME PacksAssumption == IsFiniteSet(Packs) /\ Versions # {} /\ Contents # {}

VARIABLES
    lock,       \* installed pack -> its entry in diffmind-packs.lock
    dirs,       \* <<pack, version>> -> content of its directory, where there is one
    command,
    load,       \* the run that loads the packs
    touched     \* history: directories changed since the load began

packs == <<lock, dirs, command, load, touched>>

Waiting == [step |-> "waiting"]
Over    == [step |-> "over"]
NoLoad  == [step |-> "none"]

InitPacks ==
    /\ lock = << >> /\ dirs = << >>
    /\ command = [c \in Commands |-> Waiting]
    /\ load = NoLoad /\ touched = {}

At(c, step) == command[c].step = step
Step(c, fields) == command' = [command EXCEPT ![c] = fields]
Without(f, x) == [y \in DOMAIN f \ {x} |-> f[y]]
With(f, x, v) == [y \in DOMAIN f \cup {x} |-> IF y = x THEN v ELSE f[y]]

\* touched is kept while a run loads
Touch(place) == touched' = IF load.step = "none" THEN {} ELSE touched \cup {place}
-----------------------------------------------------------------------------
(***************************************************************************)
(* Install                                                                 *)
(***************************************************************************)
\* The digest is taken of the source,
Digest(c, p, v) ==
    /\ At(c, "waiting")
    /\ \E content \in Contents :
           Step(c, [step |-> "copy", pack |-> p, version |-> v, digest |-> content])
    /\ UNCHANGED <<lock, dirs, load, touched>>

\* which is copied afterwards.
CopyTree(c) ==
    /\ At(c, "copy")
    /\ \E content \in Contents :
           Step(c, [step |-> "remove", pack |-> command[c].pack, version |-> command[c].version,
                    digest |-> command[c].digest, staged |-> content])
    /\ UNCHANGED <<lock, dirs, load, touched>>

RemoveOld(c) ==
    LET place == <<command[c].pack, command[c].version>>
    IN  /\ At(c, "remove")
        /\ dirs' = Without(dirs, place)
        /\ Touch(place)
        /\ Step(c, [command[c] EXCEPT !.step = "rename"])
        /\ UNCHANGED <<lock, load>>

\* A directory somebody else has put there meanwhile is not replaced.
RenameStaging(c) ==
    LET place == <<command[c].pack, command[c].version>>
    IN  /\ At(c, "rename") /\ place \notin DOMAIN dirs
        /\ dirs' = With(dirs, place, command[c].staged)
        /\ Touch(place)
        /\ Step(c, [command[c] EXCEPT !.step = "read"])
        /\ UNCHANGED <<lock, load>>

\* An entry keeps its switch when its pack is installed again.
Locked(seen, c) ==
    LET p == command[c].pack
    IN  With(seen, p, [version |-> command[c].version, digest |-> command[c].digest,
                       enabled |-> IF p \in DOMAIN seen THEN seen[p].enabled ELSE TRUE])

ReadLock(c) ==
    /\ At(c, "read")
    /\ Step(c, [step |-> "write", lock |-> Locked(lock, c)])
    /\ UNCHANGED <<lock, dirs, load, touched>>

WriteLock(c) ==
    /\ At(c, "write")
    /\ lock' = command[c].lock
    /\ Step(c, Over)
    /\ UNCHANGED <<dirs, load, touched>>

(***************************************************************************)
(* SetEnabled, of a pack that is installed                                 *)
(***************************************************************************)
Switch(c, p, enabled) ==
    /\ At(c, "waiting") /\ p \in DOMAIN lock
    /\ Step(c, [step |-> "write", lock |-> [lock EXCEPT ![p].enabled = enabled]])
    /\ UNCHANGED <<lock, dirs, load, touched>>

\* An error or a kill: nothing but a staging directory is left to clear.
Abandon(c) ==
    /\ command[c].step \notin {"waiting", "over"}
    /\ Step(c, Over)
    /\ UNCHANGED <<lock, dirs, load, touched>>

\* Installed content is edited by hand, or damaged.
Edit(place) ==
    /\ place \in DOMAIN dirs
    /\ \E content \in Contents \ {dirs[place]} : dirs' = [dirs EXCEPT ![place] = content]
    /\ Touch(place)
    /\ UNCHANGED <<lock, command, load>>
-----------------------------------------------------------------------------
(***************************************************************************)
(* LoadEnabled: each enabled pack of the lock is digested, and then its    *)
(* manifest is read.  One that is not as locked refuses the run, after the *)
(* others have been looked at.                                             *)
(***************************************************************************)
BeginLoad ==
    LET enabled == {p \in DOMAIN lock : lock[p].enabled}
    IN  /\ load.step = "none"
        /\ load' = [step |-> "check", entries |-> [p \in enabled |-> lock[p]], left |-> enabled,
                    reading |-> {}, used |-> << >>, recorded |-> << >>, errors |-> FALSE]
        /\ touched' = {}
        /\ UNCHANGED <<lock, dirs, command>>

Dir(p) == <<p, load.entries[p].version>>

\* Mutant of AsLocked: a directory that is there is trusted.
IsThere(p) == Dir(p) \in DOMAIN dirs

AsLocked(p) == Dir(p) \in DOMAIN dirs /\ dirs[Dir(p)] = load.entries[p].digest

CheckPack(p) ==
    /\ load.step = "check" /\ load.reading = {} /\ p \in load.left
    /\ load' = IF AsLocked(p) THEN [load EXCEPT !.reading = {p}]
               ELSE [load EXCEPT !.left = @ \ {p}, !.errors = TRUE]
    /\ UNCHANGED <<lock, dirs, command, touched>>

ReadPack(p) ==
    /\ load.step = "check" /\ p \in load.reading
    /\ load' = IF Dir(p) \in DOMAIN dirs
               THEN [load EXCEPT !.left = @ \ {p}, !.reading = {}, !.used = With(@, p, dirs[Dir(p)])]
               ELSE [load EXCEPT !.left = @ \ {p}, !.reading = {}, !.errors = TRUE]
    /\ UNCHANGED <<lock, dirs, command, touched>>

\* ValidateSet may find that packs do not go together.
Checked ==
    /\ load.step = "check" /\ load.left = {}
    /\ \/ ~load.errors /\ load' = [load EXCEPT !.step = "digest", !.left = DOMAIN load.used]
       \/ load' = [step |-> "refused"]
    /\ UNCHANGED <<lock, dirs, command, touched>>

\* ActiveSetDigest reads the directories once more, for the run's record.
RecordPack(p) ==
    /\ load.step = "digest" /\ p \in load.left
    /\ load' = IF Dir(p) \in DOMAIN dirs
               THEN [load EXCEPT !.left = @ \ {p}, !.recorded = With(@, p, dirs[Dir(p)])]
               ELSE [step |-> "refused"]
    /\ UNCHANGED <<lock, dirs, command, touched>>

Loaded == load.step = "digest" /\ load.left = {}

PackStep ==
    \/ \E c \in Commands :
           \/ \E p \in Packs : \/ \E v \in Versions : Digest(c, p, v)
                               \/ \E enabled \in BOOLEAN : Switch(c, p, enabled)
           \/ CopyTree(c) \/ RemoveOld(c) \/ RenameStaging(c) \/ ReadLock(c) \/ WriteLock(c) \/ Abandon(c)
    \/ \E place \in Packs \X Versions : Edit(place)
    \/ BeginLoad \/ Checked
    \/ \E p \in Packs : CheckPack(p) \/ ReadPack(p) \/ RecordPack(p)
-----------------------------------------------------------------------------
(***************************************************************************)
(* Whatever the commands did before, together, halfway or by hand, a run   *)
(* that gets its packs works with what the lock it read says, and records  *)
(* the digest of it, for every pack that nobody touched while it was being *)
(* loaded (docs/knowledge-packs.md:113: "edited or corrupted installed     *)
(* content stops the run").  A pack that is touched between its check and  *)
(* its use is used as it then is.                                          *)
(***************************************************************************)
PacksAreAsLocked ==
    Loaded =>
        /\ DOMAIN load.used = DOMAIN load.entries
        /\ \A p \in DOMAIN load.used : Dir(p) \notin touched =>
               /\ load.used[p] = load.entries[p].digest
               /\ load.recorded[p] = load.used[p]
=============================================================================
