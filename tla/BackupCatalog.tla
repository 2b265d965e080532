--------------------------- MODULE BackupCatalog ---------------------------
(***************************************************************************)
(* Offline backups with a retained catalog                                 *)
(* (internal/workspace/backup/managed.go: openCatalog, catalogSnapshots,   *)
(* Rotate; backup.go: Create).                                             *)
(*                                                                         *)
(* A rotation holds the lock of the catalog from its first look to its     *)
(* end and the exclusive lease of the home while it reads it.  It may fail *)
(* or be killed before every step, and the power may fail at any time: a   *)
(* change of a directory survives for certain only once the directory has  *)
(* been synced.  The code has no recovery step; what a dead rotation       *)
(* leaves behind is what the next one finds.                               *)
(*                                                                         *)
(* Abstractions.  A rotation stands for the snapshot it creates: both have *)
(* one random id, and ids that one instant has to tell apart are taken in  *)
(* the order of their rotations.  A file of the home is a version.  Archives and receipts *)
(* are synced as they are written, so only the directory that names them   *)
(* can lose them, and they are not damaged afterwards: verification always *)
(* succeeds.  Processes that do not take the lease may edit files; files   *)
(* that appear while a backup runs, and edits that bring back an earlier   *)
(* content, are not modelled.                                              *)
(***************************************************************************)
EXTENDS Integers, Sequences, FiniteSets, SequencesExt

CONSTANTS
    N,              \* bound: rotations, and with them ids
    Files,          \* files of the home, 1..k in the order of their paths
    Keep,           \* --keep-last
    MaxTime,        \* bound: values of the wall clock, which may go back
    MaxEdits,       \* bound: edits of the home
    MaxKills,       \* bound: rotations that are killed
    MaxPowerLosses  \* bound: losses of power

Rotations == 1..N

ASSUME CatalogAssumption ==
    /\ N \in Nat /\ Keep \in Nat \ {0}
    /\ Files \subseteq Nat /\ IsFiniteSet(Files) /\ Files # {}
    /\ {MaxTime, MaxEdits, MaxKills, MaxPowerLosses} \subseteq Nat

VARIABLES
    home,       \* file -> its version
    rotation,   \* id -> the rotation: step, previous, manifest, copied, moment, time
    lock,       \* the rotation that holds the catalog's lock, 0 if none
    marker,     \* diffmind-backups.json: none, staged, there
    place,      \* id -> the name of its directory: none, pending, snapshot, retired
    files,      \* id -> the files in that directory
    durable,    \* what a loss of power may leave of marker, place and files
    published,  \* history: ids in the order in which their publication was synced
    used        \* kills and losses of power so far

directory == <<marker, place, files, durable>>
vars == <<home, rotation, lock, directory, published, used>>

Both     == {"archive", "receipt"}
Unread   == [f \in Files |-> -1]
Idle     == [step |-> "idle", previous |-> << >>, manifest |-> Unread, copied |-> Unread,
             moment |-> Unread, time |-> 0]
Reading  == {"inventory", "copy"}
Staged   == {"lease", "inventory", "copy", "link", "receipt", "sync_stage", "publish"}

\* What is left of a rotation that is over: its archive and its receipt.
Over(r) ==
    CASE rotation[r].step = "idle" -> Idle
      [] "snapshot" \in durable.place[r] ->
             [rotation[r] EXCEPT !.step = "ended", !.previous = << >>, !.manifest = Unread]
      [] OTHER -> [Idle EXCEPT !.step = "ended"]

End(r) ==
    /\ lock' = 0
    /\ rotation' = [rotation EXCEPT ![r] = Over(r)]

Step(r, step) == rotation' = [rotation EXCEPT ![r].step = step]
At(r, step) == rotation[r].step = step /\ lock = r

UnchangedDirectory == UNCHANGED directory
UnchangedHome == UNCHANGED <<home, used>>

\* A change of a directory joins what may be found after a loss of power.
SetPlace(r, p) ==
    /\ place' = [place EXCEPT ![r] = p]
    /\ durable' = [durable EXCEPT !.place[r] = @ \cup {p}]
SetFiles(r, fs) ==
    /\ files' = [files EXCEPT ![r] = fs]
    /\ durable' = [durable EXCEPT !.files[r] = @ \cup {fs}]
SetMarker(m) ==
    /\ marker' = m
    /\ durable' = [durable EXCEPT !.marker = @ \cup {m}]

\* syncDirectory of the catalog: its own names, not those inside its folders.
SyncCatalog ==
    durable' = [durable EXCEPT !.marker = {marker}, !.place = [r \in Rotations |-> {place[r]}]]

\* Mutant of SyncRetired: the folder is emptied before its new name is safe.
SyncNothing == UNCHANGED durable

SyncRetired == SyncCatalog

(***************************************************************************)
(* Opening the catalog                                                     *)
(***************************************************************************)
Open(r) ==
    /\ rotation[r].step = "idle"
    /\ \A s \in 1..r - 1 : rotation[s].step # "idle"
    /\ \/ /\ lock = 0
          /\ lock' = r
          /\ Step(r, "open")
       \/ /\ lock # 0
          /\ Step(r, "ended")
          /\ UNCHANGED lock
    /\ UnchangedDirectory /\ UnchangedHome /\ UNCHANGED published

\* A marker is made in an empty directory only; nothing is adopted.
LookForMarker(r) ==
    /\ At(r, "open")
    /\ \/ marker = "there" /\ Step(r, "list")
       \/ marker = "none" /\ (\A s \in Rotations : place[s] = "none") /\ Step(r, "stage_marker")
    /\ UnchangedDirectory /\ UnchangedHome /\ UNCHANGED <<lock, published>>

StageMarker(r) ==
    /\ At(r, "stage_marker")
    /\ SetMarker("staged")
    /\ Step(r, "publish_marker")
    /\ UnchangedHome /\ UNCHANGED <<place, files, lock, published>>

PublishMarker(r) ==
    /\ At(r, "publish_marker")
    /\ SetMarker("there")
    /\ Step(r, "sync_marker")
    /\ UnchangedHome /\ UNCHANGED <<place, files, lock, published>>

SyncMarker(r) ==
    /\ At(r, "sync_marker")
    /\ SyncCatalog
    /\ Step(r, "list")
    /\ UnchangedHome /\ UNCHANGED <<marker, place, files, lock, published>>

(***************************************************************************)
(* Listing                                                                 *)
(***************************************************************************)
Listed == {r \in Rotations : place[r] = "snapshot"}

\* catalogSnapshots refuses the whole catalog for one incomplete snapshot.
Listable == \A r \in Listed : files[r] = Both

\* Newest first by the time in the receipt, then by id.
Newer(a, b) ==
    \/ rotation[a].time > rotation[b].time
    \/ rotation[a].time = rotation[b].time /\ a > b

NewestFirst(S) ==
    {order \in [1..Cardinality(S) -> S] :
        /\ Range(order) = S
        /\ \A i, j \in DOMAIN order : i < j => Newer(order[i], order[j])}

ListSnapshots(r) ==
    /\ At(r, "list")
    /\ Listable
    /\ \E order \in NewestFirst(Listed) :
           rotation' = [rotation EXCEPT ![r].step = "make_stage", ![r].previous = order]
    /\ UnchangedDirectory /\ UnchangedHome /\ UNCHANGED <<lock, published>>

(***************************************************************************)
(* Create                                                                  *)
(***************************************************************************)
MakeStage(r) ==
    /\ At(r, "make_stage")
    /\ SetPlace(r, "pending")
    /\ Step(r, "lease")
    /\ UnchangedHome /\ UNCHANGED <<marker, files, lock, published>>

\* Nobody else has the lease, or the rotation fails.  The wall clock of the
\* manifest may have been set back.  Versions are counted from here.
TakeLease(r) ==
    /\ At(r, "lease")
    /\ \E time \in 0..MaxTime :
           rotation' = [rotation EXCEPT ![r].step = "inventory", ![r].time = time]
    /\ home' = [f \in Files |-> 0]
    /\ UnchangedDirectory /\ UNCHANGED <<lock, published, used>>

\* The first file of a list that has not been read.
NextUnread(read, f) == read[f] = -1 /\ \A g \in Files : g < f => read[g] # -1

Inventory(r) ==
    /\ At(r, "inventory")
    /\ \E f \in Files :
           /\ NextUnread(rotation[r].manifest, f)
           /\ LET manifest == [rotation[r].manifest EXCEPT ![f] = home[f]]
                  complete == \A g \in Files : manifest[g] # -1
              IN  rotation' = [rotation EXCEPT ![r].manifest = manifest,
                      ![r].step = IF complete THEN "copy" ELSE "inventory",
                      ![r].moment = IF complete THEN home ELSE @]
    /\ UnchangedDirectory /\ UnchangedHome /\ UNCHANGED <<lock, published>>

\* Mutant of Unchanged: the digest is not compared.
UnchangedSize(r, f) == TRUE

Unchanged(r, f) == home[f] = rotation[r].manifest[f]

\* The copy of a file must have the digest of the inventory.
Copy(r) ==
    /\ At(r, "copy")
    /\ \E f \in Files :
           /\ NextUnread(rotation[r].copied, f)
           /\ Unchanged(r, f)
           /\ LET copied == [rotation[r].copied EXCEPT ![f] = home[f]]
              IN  rotation' = [rotation EXCEPT ![r].copied = copied,
                      ![r].step = IF \A g \in Files : copied[g] # -1 THEN "link" ELSE "copy"]
    /\ UnchangedDirectory /\ UnchangedHome /\ UNCHANGED <<lock, published>>

\* The complete archive gets its name; the lease goes with Create's return.
LinkArchive(r) ==
    /\ At(r, "link")
    /\ SetFiles(r, {"archive"})
    /\ Step(r, "receipt")
    /\ UnchangedHome /\ UNCHANGED <<marker, place, lock, published>>

(***************************************************************************)
(* Publication                                                             *)
(***************************************************************************)
WriteReceipt(r) ==
    /\ At(r, "receipt")
    /\ SetFiles(r, Both)
    /\ Step(r, "sync_stage")
    /\ UnchangedHome /\ UNCHANGED <<marker, place, lock, published>>

SyncStage(r) ==
    /\ At(r, "sync_stage")
    /\ durable' = [durable EXCEPT !.files[r] = {files[r]}]
    /\ Step(r, "publish")
    /\ UnchangedHome /\ UNCHANGED <<marker, place, files, lock, published>>

Publish(r) ==
    /\ At(r, "publish")
    /\ SetPlace(r, "snapshot")
    /\ Step(r, "sync_published")
    /\ UnchangedHome /\ UNCHANGED <<marker, files, lock, published>>

\* Mutant of Surplus: the new snapshot has to be among the newest, too.
SurplusByTime(r) ==
    LET all == CHOOSE order \in NewestFirst(Range(rotation[r].previous) \cup {r}) : TRUE
    IN  SubSeq(all, Keep + 1, Len(all))

\* What retention leaves over of the previous snapshots: the new one counts.
Surplus(r) == SubSeq(rotation[r].previous, Keep, Len(rotation[r].previous))

SyncPublished(r) ==
    /\ At(r, "sync_published")
    /\ SyncCatalog
    /\ published' = Append(published, r)
    /\ rotation' = [rotation EXCEPT ![r].step = "retire", ![r].previous = Surplus(r)]
    /\ UnchangedHome /\ UNCHANGED <<marker, place, files, lock>>

(***************************************************************************)
(* Retention, newest surplus first                                         *)
(***************************************************************************)
Old(r) == Head(rotation[r].previous)

Retire(r) ==
    /\ At(r, "retire")
    /\ rotation[r].previous # << >>
    /\ SetPlace(Old(r), "retired")
    /\ Step(r, "sync_retired")
    /\ UnchangedHome /\ UNCHANGED <<marker, files, lock, published>>

RetireSafely(r) ==
    /\ At(r, "sync_retired")
    /\ SyncRetired
    /\ Step(r, "remove_archive")
    /\ UnchangedHome /\ UNCHANGED <<marker, place, files, lock, published>>

RemoveArchive(r) ==
    /\ At(r, "remove_archive")
    /\ SetFiles(Old(r), files[Old(r)] \ {"archive"})
    /\ Step(r, "remove_receipt")
    /\ UnchangedHome /\ UNCHANGED <<marker, place, lock, published>>

RemoveReceipt(r) ==
    /\ At(r, "remove_receipt")
    /\ SetFiles(Old(r), files[Old(r)] \ {"receipt"})
    /\ Step(r, "remove_folder")
    /\ UnchangedHome /\ UNCHANGED <<marker, place, lock, published>>

RemoveFolder(r) ==
    /\ At(r, "remove_folder")
    /\ SetPlace(Old(r), "none")
    /\ rotation' = [rotation EXCEPT ![r].step = "retire", ![r].previous = Tail(@)]
    /\ UnchangedHome /\ UNCHANGED <<marker, files, lock, published>>

SyncEnd(r) ==
    /\ At(r, "retire")
    /\ rotation[r].previous = << >>
    /\ SyncCatalog
    /\ End(r)
    /\ UnchangedHome /\ UNCHANGED <<marker, place, files, published>>

(***************************************************************************)
(* Failures                                                                *)
(***************************************************************************)
\* A step that reports an error ends the rotation: the deferred calls take
\* away the staging marker or the staged files, and nothing that has a name.
Fail(r) ==
    /\ lock = r
    /\ rotation[r].step # "ended"
    /\ marker' = IF rotation[r].step = "publish_marker" THEN "none" ELSE marker
    /\ place'  = IF rotation[r].step \in Staged THEN [place EXCEPT ![r] = "none"] ELSE place
    /\ files'  = IF rotation[r].step \in Staged THEN [files EXCEPT ![r] = {}] ELSE files
    /\ durable' = [durable EXCEPT !.marker = @ \cup {marker'}, !.place[r] = @ \cup {place'[r]},
                                  !.files[r] = @ \cup {files'[r]}]
    /\ End(r)
    /\ UnchangedHome /\ UNCHANGED published

Kill(r) ==
    /\ lock = r
    /\ used.kills < MaxKills
    /\ used' = [used EXCEPT !.kills = @ + 1]
    /\ End(r)
    /\ UnchangedDirectory /\ UNCHANGED <<home, published>>

\* Nothing that runs survives; each directory is as one of its images.
PowerLoss ==
    /\ used.losses < MaxPowerLosses
    /\ used' = [used EXCEPT !.losses = @ + 1]
    /\ marker' \in durable.marker
    /\ place' \in {p \in [Rotations -> UNION {durable.place[r] : r \in Rotations}] :
                      \A r \in Rotations : p[r] \in durable.place[r]}
    /\ files' \in {fs \in [Rotations -> SUBSET Both] : \A r \in Rotations : fs[r] \in durable.files[r]}
    /\ durable' = [marker |-> {marker'}, place |-> [r \in Rotations |-> {place'[r]}],
                   files |-> [r \in Rotations |-> {files'[r]}]]
    /\ lock' = 0
    /\ rotation' = [r \in Rotations |-> Over(r)]
    /\ UNCHANGED <<home, published>>

(***************************************************************************)
(* The rest of the world                                                   *)
(***************************************************************************)
\* A process that does not take the lease edits a file.  Only what changes
\* while a backup reads can make a difference to it.
Edit(f) ==
    /\ \E r \in Rotations : rotation[r].step \in Reading
    /\ \A g \in Files : home[g] < MaxEdits
    /\ home' = [home EXCEPT ![f] = @ + 1]
    /\ UnchangedDirectory /\ UNCHANGED <<rotation, lock, published, used>>

\* The operator has inspected an uninitialized directory and empties it.
Inspect ==
    /\ lock = 0
    /\ marker # "there"
    /\ marker' = "none"
    /\ place' = [r \in Rotations |-> "none"]
    /\ files' = [r \in Rotations |-> {}]
    /\ durable' = [marker |-> {"none"}, place |-> [r \in Rotations |-> {"none"}],
                   files |-> [r \in Rotations |-> {{}}]]
    /\ UNCHANGED <<home, rotation, lock, published, used>>

-----------------------------------------------------------------------------
Init ==
    /\ home = [f \in Files |-> 0]
    /\ rotation = [r \in Rotations |-> Idle]
    /\ lock = 0
    /\ marker = "none"
    /\ place = [r \in Rotations |-> "none"]
    /\ files = [r \in Rotations |-> {}]
    /\ durable = [marker |-> {"none"}, place |-> [r \in Rotations |-> {"none"}],
                  files |-> [r \in Rotations |-> {{}}]]
    /\ published = << >>
    /\ used = [kills |-> 0, losses |-> 0]

Rotate(r) ==
    \/ Open(r) \/ LookForMarker(r) \/ StageMarker(r) \/ PublishMarker(r) \/ SyncMarker(r)
    \/ ListSnapshots(r) \/ MakeStage(r) \/ TakeLease(r) \/ Inventory(r) \/ Copy(r)
    \/ LinkArchive(r) \/ WriteReceipt(r) \/ SyncStage(r) \/ Publish(r) \/ SyncPublished(r)
    \/ Retire(r) \/ RetireSafely(r) \/ RemoveArchive(r) \/ RemoveReceipt(r)
    \/ RemoveFolder(r) \/ SyncEnd(r)

Next ==
    \/ \E r \in Rotations : Rotate(r) \/ Fail(r) \/ Kill(r)
    \/ PowerLoss \/ Inspect
    \/ \E f \in Files : Edit(f)

Spec == Init /\ [][Next]_vars

-----------------------------------------------------------------------------
(***************************************************************************)
(* Properties                                                              *)
(***************************************************************************)
\* A published archive is the home as it was at one instant, even beside a
\* process that writes without the lease.  backup.go: Create reads the home
\* twice and compares the digests.
SnapshotIsOneMoment ==
    \A r \in Listed : rotation[r].copied = rotation[r].moment

\* Whatever has failed, been killed or lost its power, the catalog can be
\* listed: each snapshot has both of its files, and the marker is there from
\* the first synced publication on.  managed.go: the order of renames, syncs
\* and removals in Rotate.
CatalogIsWhole ==
    /\ Listable
    /\ published # << >> => marker = "there"

\* Once a rotation has synced its publication, its snapshot stays until the
\* next one has; and never are fewer than keep-last snapshots left of as many
\* publications, whatever the clock says.  managed.go: 306-307 and 338.
RetentionKeeps ==
    published # << >> =>
        /\ place[Last(published)] = "snapshot"
        /\ Cardinality(Listed) >= IF Len(published) < Keep THEN Len(published) ELSE Keep
=============================================================================
