------------------------ MODULE BackupCatalogProofs ------------------------
(***************************************************************************)
(* Safety of BackupCatalog for every number of rotations, files, kept      *)
(* snapshots, edits, kills and losses of power.                            *)
(*                                                                         *)
(* A directory is worth what a loss of power leaves of it: the invariant   *)
(* speaks of the images in durable, of which the directory is one.  Only   *)
(* the rotation that holds the lock changes anything; Knows says what is   *)
(* certain at each of its steps, and everything else is said of all ids at *)
(* all times.                                                              *)
(***************************************************************************)
EXTENDS BackupCatalog, SequenceTheorems, FiniteSetTheorems, TLAPS

(***************************************************************************)
(* The steps of a rotation.                                                *)
(***************************************************************************)
Resting  == {"idle", "ended"}
Early    == {"open", "stage_marker", "publish_marker", "sync_marker", "list", "make_stage"}
Retiring == {"retire", "sync_retired", "remove_archive", "remove_receipt", "remove_folder"}
Steps    == Resting \cup Early \cup Staged \cup {"sync_published"} \cup Retiring

Versions == [Files -> Nat \cup {-1}]
Markers  == {"none", "staged", "there"}
Places   == {"none", "pending", "snapshot", "retired"}

RotationTypes == [step : Steps, previous : Seq(Rotations), manifest : Versions, copied : Versions,
                  moment : Versions, time : Nat]

DirectoryTypes ==
    /\ marker \in Markers
    /\ place \in [Rotations -> Places]
    /\ files \in [Rotations -> SUBSET Both]
    /\ durable \in [marker : SUBSET Markers, place : [Rotations -> SUBSET Places],
                    files : [Rotations -> SUBSET (SUBSET Both)]]

CatalogTypes ==
    /\ home \in [Files -> Nat]
    /\ rotation \in [Rotations -> RotationTypes]
    /\ DirectoryTypes
    /\ published \in Seq(Rotations)

\* The directory is one of its images.
ImagesHaveIt ==
    /\ marker \in durable.marker
    /\ \A r \in Rotations : place[r] \in durable.place[r] /\ files[r] \in durable.files[r]

\* Whoever has begun and has not ended holds the lock.
LockIsHeld == \A r \in Rotations : lock = r <=> rotation[r].step \notin Resting

\* Nothing is there of a rotation that has not made its folder.
FreshIsEmpty ==
    \A r \in Rotations : rotation[r].step \in {"idle"} \cup Early =>
        /\ durable.place[r] = {"none"} /\ durable.files[r] = {{}}
        /\ rotation[r].manifest = Unread /\ rotation[r].copied = Unread

\* What any image calls a snapshot is complete, and is of one moment.
SnapshotsAreSafe ==
    \A r \in Rotations : "snapshot" \in durable.place[r] =>
        /\ rotation[r].step \in {"sync_published", "ended"} \cup Retiring
        /\ durable.files[r] = {Both}
        /\ rotation[r].copied = rotation[r].moment

\* Snapshots that a loss of power leaves where they are.
Certain == {r \in Rotations : durable.place[r] = {"snapshot"}}

Promise == IF Len(published) < Keep THEN Len(published) ELSE Keep

MarkerIsKept == published # << >> => durable.marker = {"there"}

LastIsKept ==
    published # << >> => Last(published) \in Certain /\ Cardinality(Certain) >= Promise

Different(s) == \A i, j \in 1..Len(s) : i # j => s[i] # s[j]

\* What the rotation with the lock has read of the home.
ReadingKnows(r) ==
    LET manifest == rotation[r].manifest
        copied   == rotation[r].copied
        moment   == rotation[r].moment
        step     == rotation[r].step
    IN  /\ step = "lease" => manifest = Unread /\ copied = Unread
        /\ step = "inventory" => copied = Unread /\ \A f \in Files : manifest[f] <= home[f]
        /\ step = "copy" => \A f \in Files : /\ manifest[f] <= moment[f] /\ moment[f] <= home[f]
                                             /\ copied[f] # -1 => copied[f] = moment[f]
        /\ step \in {"link", "receipt", "sync_stage", "publish"} => copied = moment

\* What it knows of the catalog.
CatalogKnows(r) ==
    LET previous == rotation[r].previous
        step     == rotation[r].step
    IN  /\ step \in {"stage_marker", "publish_marker", "sync_marker"} => published = << >>
        /\ step \in {"sync_marker", "list", "make_stage", "sync_published"} \cup Staged \cup Retiring =>
               marker = "there"
        /\ step \in {"make_stage"} \cup Staged => Different(previous) /\ Range(previous) = Listed
        /\ step \in Staged => place[r] = "pending"
        /\ step = "sync_stage" => files[r] = Both
        /\ step = "publish" => durable.files[r] = {Both}
        /\ step = "sync_published" =>
               /\ Different(previous) /\ r \notin Range(previous)
               /\ Listed = Range(previous) \cup {r} /\ r \notin Certain
        /\ step \in Retiring =>
               /\ Different(previous) /\ r \notin Range(previous)
               /\ published # << >> /\ Last(published) = r /\ r \in Certain
               /\ Cardinality(Certain \ Range(previous)) >= Promise
               /\ \A q \in Range(previous) : rotation[q].step # "idle"
        /\ step \in Retiring \ {"retire"} => previous # << >>
        /\ step = "sync_retired" => place[Head(previous)] = "retired"
        /\ step \in {"remove_archive", "remove_receipt", "remove_folder"} =>
               "snapshot" \notin durable.place[Head(previous)]

HolderKnows == \A r \in Rotations : lock = r => ReadingKnows(r) /\ CatalogKnows(r)

CatalogInv ==
    /\ CatalogTypes /\ ImagesHaveIt /\ LockIsHeld /\ FreshIsEmpty /\ SnapshotsAreSafe
    /\ MarkerIsKept /\ LastIsKept /\ HolderKnows

-----------------------------------------------------------------------------
(***************************************************************************)
(* Lists without repetition, and how many they leave.                      *)
(***************************************************************************)
LEMMA RangeOfList ==
    ASSUME NEW S, NEW s \in Seq(S)
    PROVE  /\ Range(s) = {s[i] : i \in 1..Len(s)} /\ Range(s) \subseteq S
           /\ s # << >> => Head(s) = s[1] /\ Head(s) \in Range(s) /\ Len(s) >= 1
<1>1. DOMAIN s = 1..Len(s) /\ Len(s) \in Nat /\ \A i \in 1..Len(s) : s[i] \in S
  BY LenProperties, ElementOfSeq
<1>2. s # << >> => Len(s) >= 1 /\ Head(s) = s[1]
  BY <1>1, EmptySeq DEF Head
<1>. QED  BY <1>1, <1>2 DEF Range

LEMMA TailOfDifferent ==
    ASSUME NEW S, NEW s \in Seq(S), s # << >>, Different(s)
    PROVE  /\ Tail(s) \in Seq(S) /\ Different(Tail(s))
           /\ Range(Tail(s)) = Range(s) \ {Head(s)}
<1>1. /\ Tail(s) \in Seq(S) /\ Len(Tail(s)) = Len(s) - 1 /\ Len(s) \in Nat
      /\ \A i \in 1..Len(Tail(s)) : Tail(s)[i] = s[i + 1]
  BY HeadTailProperties, LenProperties
<1>2. /\ Range(s) = {s[i] : i \in 1..Len(s)} /\ Range(Tail(s)) = {Tail(s)[i] : i \in 1..Len(Tail(s))}
      /\ Head(s) = s[1] /\ Len(s) >= 1
  BY <1>1, RangeOfList
<1>3. Different(Tail(s))  BY <1>1 DEF Different
<1>4. Range(Tail(s)) \subseteq Range(s) \ {Head(s)}  BY <1>1, <1>2 DEF Different
<1>5. ASSUME NEW x \in Range(s), x # Head(s)  PROVE x \in Range(Tail(s))
  <2>1. PICK i \in 1..Len(s) : x = s[i]  BY <1>2
  <2>2. i # 1  BY <1>2, <1>5, <2>1
  <2>3. i - 1 \in 1..Len(Tail(s)) /\ Tail(s)[i - 1] = s[i]
    <3>1. i - 1 \in 1..Len(Tail(s)) /\ (i - 1) + 1 = i  BY <1>1, <2>1, <2>2
    <3>. QED  BY <1>1, <3>1
  <2>. QED  BY <1>2, <2>1, <2>3
<1>. QED  BY <1>1, <1>3, <1>4, <1>5

LEMMA SubsetsAreFinite ==
    ASSUME NEW T, T \subseteq Rotations
    PROVE  IsFiniteSet(T) /\ Cardinality(T) \in Nat
<1>1. IsFiniteSet(Rotations)  BY CatalogAssumption, FS_Interval DEF Rotations, CatalogAssumption
<1>. QED  BY <1>1, FS_Subset, FS_CardinalityType

LEMMA MoreAreMore ==
    ASSUME NEW T, NEW U, T \subseteq U, U \subseteq Rotations
    PROVE  Cardinality(T) <= Cardinality(U) /\ Cardinality(T) \in Nat /\ Cardinality(U) \in Nat
  BY SubsetsAreFinite, FS_Subset

LEMMA IntervalCount == \A n \in Nat : IsFiniteSet(1..n) /\ Cardinality(1..n) = n
<1>. SUFFICES ASSUME NEW n \in Nat  PROVE IsFiniteSet(1..n) /\ Cardinality(1..n) = n
  OBVIOUS
<1>1. IsFiniteSet(1..n) /\ Cardinality(1..n) = IF 1 > n THEN 0 ELSE n - 1 + 1  BY FS_Interval
<1>. QED  BY <1>1

\* Of n different ones, what comes before the k-th and one more stay.
LEMMA SurplusLeaves ==
    ASSUME NEW s \in Seq(Rotations), Different(s), NEW r \in Rotations, r \notin Range(s),
           NEW k \in Nat \ {0}
    PROVE  LET rest == SubSeq(s, k, Len(s))
           IN  /\ rest \in Seq(Rotations) /\ Different(rest) /\ Range(rest) \subseteq Range(s)
               /\ Cardinality(Range(s)) <= Len(s)
               /\ Cardinality((Range(s) \cup {r}) \ Range(rest)) >= IF Len(s) < k THEN Len(s) + 1 ELSE k
<1>. DEFINE n    == Len(s)
            rest == SubSeq(s, k, n)
            m    == IF n < k THEN n ELSE k - 1
            kept == Range(s) \ Range(rest)
<1>1. /\ n \in Nat /\ m \in Nat /\ \A i \in 1..n : s[i] \in Rotations
      /\ Range(s) = {s[i] : i \in 1..n} /\ Range(s) \subseteq Rotations
  BY LenProperties, ElementOfSeq, RangeOfList
<1>2. /\ rest \in Seq(Rotations) /\ Len(rest) = IF k <= n THEN n - k + 1 ELSE 0
      /\ \A i \in 1..n - k + 1 : rest[i] = s[k + i - 1]
  <2>1. \A i \in k..n : s[i] \in Rotations  BY <1>1
  <2>. QED  BY <1>1, <2>1, SubSeqProperties
<1>3. Range(rest) = {rest[i] : i \in 1..Len(rest)}  BY <1>2, RangeOfList
<1>4. \A i \in 1..Len(rest) : i \in 1..n - k + 1 /\ k + i - 1 \in k..n /\ k + i - 1 \in 1..n /\ rest[i] = s[k + i - 1]
  BY <1>1, <1>2
<1>5. Different(rest)
  <2>1. ASSUME NEW i \in 1..Len(rest), NEW j \in 1..Len(rest), i # j  PROVE rest[i] # rest[j]
    <3>1. k + i - 1 # k + j - 1  BY <2>1, <1>1, <1>2
    <3>. QED  BY <1>4, <3>1 DEF Different
  <2>. QED  BY <2>1 DEF Different
<1>6. Range(rest) \subseteq Range(s)  BY <1>1, <1>3, <1>4
<1>7. \A i \in 1..m : i \in 1..n /\ s[i] \in kept
  <2>1. ASSUME NEW i \in 1..m  PROVE i \in 1..n /\ s[i] \notin Range(rest)
    <3>1. i \in 1..n /\ i < k  BY <1>1
    <3>2. ASSUME NEW j \in 1..Len(rest)  PROVE rest[j] # s[i]
      <4>1. k + j - 1 # i  BY <1>1, <1>4, <3>1
      <4>. QED  BY <1>4, <3>1, <4>1 DEF Different
    <3>. QED  BY <1>3, <3>1, <3>2
  <2>. QED  BY <1>1, <2>1
<1>8. IsFiniteSet(kept) /\ Cardinality(kept) \in Nat /\ Cardinality(kept) >= m
  <2>. DEFINE f == [i \in 1..m |-> s[i]]
  <2>1. f \in Injection(1..m, kept)
    <3>1. f \in [1..m -> kept]  BY <1>7
    <3>2. \A i, j \in 1..m : f[i] = f[j] => i = j  BY <1>7 DEF Different
    <3>. QED  BY <3>1, <3>2 DEF Injection, IsInjective
  <2>2. IsFiniteSet(kept) /\ Cardinality(kept) \in Nat  BY <1>1, SubsetsAreFinite
  <2>3. Cardinality(1..m) <= Cardinality(kept)  BY <2>1, <2>2, FS_Injection
  <2>4. Cardinality(1..m) = m  BY <1>1, IntervalCount
  <2>. QED  BY <2>2, <2>3, <2>4
<1>9. Cardinality(Range(s)) <= n
  <2>. DEFINE g == [i \in 1..n |-> s[i]]
  <2>1. g \in Surjection(1..n, Range(s))  BY <1>1 DEF Surjection
  <2>2. IsFiniteSet(1..n) /\ Cardinality(1..n) = n  BY <1>1, IntervalCount
  <2>. QED  BY <2>1, <2>2, FS_Surjection
<1>10. /\ (Range(s) \cup {r}) \ Range(rest) = kept \cup {r} /\ r \notin kept
  BY <1>6
<1>11. Cardinality(kept \cup {r}) = Cardinality(kept) + 1  BY <1>8, <1>10, FS_AddElement
<1>12. Cardinality(kept \cup {r}) >= IF n < k THEN n + 1 ELSE k
  <2>. HIDE DEF kept
  <2>. QED  BY <1>1, <1>8, <1>11
<1>. QED  BY <1>2, <1>5, <1>6, <1>9, <1>10, <1>12

-----------------------------------------------------------------------------
(***************************************************************************)
(* What the writes do to the rotation and to the directory.                *)
(***************************************************************************)
LEMMA StepTaken ==
    ASSUME CatalogTypes, NEW r \in Rotations, NEW step \in Steps, Step(r, step)
    PROVE  /\ rotation' \in [Rotations -> RotationTypes]
           /\ rotation'[r].step = step /\ rotation'[r].previous = rotation[r].previous
           /\ rotation'[r].manifest = rotation[r].manifest /\ rotation'[r].copied = rotation[r].copied
           /\ rotation'[r].moment = rotation[r].moment
           /\ \A q \in Rotations : q # r => rotation'[q] = rotation[q]
  BY DEF CatalogTypes, RotationTypes, Step

LEMMA DirectoryKept ==
    ASSUME CatalogInv, UNCHANGED directory
    PROVE  /\ DirectoryTypes' /\ ImagesHaveIt' /\ Certain' = Certain /\ Listed' = Listed
           /\ UNCHANGED <<marker, place, files, durable>>
  BY DEF CatalogInv, CatalogTypes, DirectoryTypes, ImagesHaveIt, directory, Certain, Listed

LEMMA MarkerSet ==
    ASSUME CatalogInv, NEW m \in Markers, SetMarker(m), UNCHANGED <<place, files>>
    PROVE  /\ DirectoryTypes' /\ ImagesHaveIt' /\ Certain' = Certain /\ Listed' = Listed
           /\ marker' = m /\ UNCHANGED <<place, files>>
           /\ durable'.place = durable.place /\ durable'.files = durable.files
<1>1. /\ durable'.place = durable.place /\ durable'.files = durable.files
      /\ durable'.marker = durable.marker \cup {m} /\ DirectoryTypes /\ ImagesHaveIt /\ marker' = m
  BY DEF CatalogInv, CatalogTypes, DirectoryTypes, SetMarker
<1>2. DirectoryTypes'  BY <1>1 DEF DirectoryTypes, SetMarker
<1>3. ImagesHaveIt'  BY <1>1 DEF ImagesHaveIt
<1>4. Certain' = Certain /\ Listed' = Listed  BY <1>1 DEF Certain, Listed
<1>. QED  BY <1>1, <1>2, <1>3, <1>4

LEMMA PlaceSet ==
    ASSUME CatalogInv, NEW q \in Rotations, NEW p \in Places, SetPlace(q, p), UNCHANGED <<marker, files>>
    PROVE  /\ DirectoryTypes' /\ ImagesHaveIt' /\ place'[q] = p
           /\ durable'.place[q] = durable.place[q] \cup {p}
           /\ durable'.marker = durable.marker /\ durable'.files = durable.files
           /\ \A s \in Rotations : s # q => place'[s] = place[s] /\ durable'.place[s] = durable.place[s]
           /\ Certain \ {q} \subseteq Certain'
           /\ Certain' \subseteq Certain \cup {q}
<1>1. /\ durable'.marker = durable.marker /\ durable'.files = durable.files
      /\ durable'.place = [durable.place EXCEPT ![q] = @ \cup {p}]
      /\ place' = [place EXCEPT ![q] = p] /\ DirectoryTypes /\ ImagesHaveIt
      /\ durable' = [marker |-> durable.marker, files |-> durable.files, place |-> durable'.place]
  BY DEF CatalogInv, CatalogTypes, DirectoryTypes, SetPlace
<1>2. /\ place'[q] = p /\ durable'.place[q] = durable.place[q] \cup {p}
      /\ \A s \in Rotations : s # q => place'[s] = place[s] /\ durable'.place[s] = durable.place[s]
      /\ place' \in [Rotations -> Places] /\ durable'.place \in [Rotations -> SUBSET Places]
  BY <1>1 DEF DirectoryTypes
<1>3. DirectoryTypes'  BY <1>1, <1>2 DEF DirectoryTypes
<1>4. ImagesHaveIt'  BY <1>1, <1>2 DEF ImagesHaveIt
<1>5. Certain \ {q} \subseteq Certain' /\ Certain' \subseteq Certain \cup {q}  BY <1>2 DEF Certain
<1>. QED  BY <1>1, <1>2, <1>3, <1>4, <1>5

LEMMA FilesSet ==
    ASSUME CatalogInv, NEW q \in Rotations, NEW fs \in SUBSET Both, SetFiles(q, fs), UNCHANGED <<marker, place>>
    PROVE  /\ DirectoryTypes' /\ ImagesHaveIt' /\ files'[q] = fs
           /\ durable'.marker = durable.marker /\ durable'.place = durable.place
           /\ \A s \in Rotations : s # q => files'[s] = files[s] /\ durable'.files[s] = durable.files[s]
           /\ Certain' = Certain /\ Listed' = Listed
<1>1. /\ durable'.marker = durable.marker /\ durable'.place = durable.place
      /\ durable'.files = [durable.files EXCEPT ![q] = @ \cup {fs}]
      /\ files' = [files EXCEPT ![q] = fs] /\ DirectoryTypes /\ ImagesHaveIt
      /\ durable' = [marker |-> durable.marker, place |-> durable.place, files |-> durable'.files]
  BY DEF CatalogInv, CatalogTypes, DirectoryTypes, SetFiles
<1>2. /\ files'[q] = fs /\ durable'.files[q] = durable.files[q] \cup {fs}
      /\ \A s \in Rotations : s # q => files'[s] = files[s] /\ durable'.files[s] = durable.files[s]
      /\ files' \in [Rotations -> SUBSET Both] /\ durable'.files \in [Rotations -> SUBSET (SUBSET Both)]
  BY <1>1 DEF DirectoryTypes
<1>3. DirectoryTypes'  BY <1>1, <1>2 DEF DirectoryTypes
<1>4. ImagesHaveIt'  BY <1>1, <1>2 DEF ImagesHaveIt
<1>5. Certain' = Certain /\ Listed' = Listed  BY <1>1 DEF Certain, Listed
<1>. QED  BY <1>1, <1>2, <1>3, <1>4, <1>5

\* After a sync the names are certain.
LEMMA CatalogSynced ==
    ASSUME CatalogInv, SyncCatalog, UNCHANGED <<marker, place, files>>
    PROVE  /\ DirectoryTypes' /\ ImagesHaveIt'
           /\ durable'.marker = {marker} /\ durable'.files = durable.files
           /\ \A q \in Rotations : durable'.place[q] = {place[q]} /\ durable'.place[q] \subseteq durable.place[q]
           /\ Certain' = Listed /\ Certain \subseteq Listed /\ Listed' = Listed
<1>1. /\ durable'.marker = {marker} /\ durable'.files = durable.files
      /\ durable'.place = [q \in Rotations |-> {place[q]}] /\ DirectoryTypes /\ ImagesHaveIt
      /\ durable' = [marker |-> {marker}, place |-> durable'.place, files |-> durable.files]
  BY DEF CatalogInv, CatalogTypes, DirectoryTypes, SyncCatalog
<1>2. DirectoryTypes'  BY <1>1 DEF DirectoryTypes
<1>3. ImagesHaveIt'  BY <1>1 DEF ImagesHaveIt
<1>4. \A q \in Rotations : durable'.place[q] = {place[q]} /\ durable'.place[q] \subseteq durable.place[q]
  BY <1>1 DEF ImagesHaveIt
<1>5. Certain' = Listed /\ Certain \subseteq Listed /\ Listed' = Listed
  BY <1>1, <1>4 DEF Certain, Listed, ImagesHaveIt
<1>. QED  BY <1>1, <1>2, <1>3, <1>4, <1>5

-----------------------------------------------------------------------------
(***************************************************************************)
(* The rotation with the lock goes on, or is over.                         *)
(***************************************************************************)
\* Of the other rotations an image changes only for the better.
OthersAreSafe(r) ==
    \A q \in Rotations : q # r =>
        /\ rotation[q].step = "idle" => durable'.place[q] = durable.place[q] /\ durable'.files[q] = durable.files[q]
        /\ "snapshot" \in durable'.place[q] =>
               "snapshot" \in durable.place[q] /\ durable'.files[q] = durable.files[q]

\* A sync takes images away and adds none.
LEMMA SyncIsSafe ==
    ASSUME CatalogInv, SyncCatalog, UNCHANGED <<marker, place, files>>, NEW r \in Rotations
    PROVE  OthersAreSafe(r)
<1>1. /\ durable'.files = durable.files
      /\ \A q \in Rotations : durable'.place[q] = {place[q]} /\ durable'.place[q] \subseteq durable.place[q]
  BY CatalogSynced
<1>2. ASSUME NEW q \in Rotations, rotation[q].step = "idle"  PROVE durable'.place[q] = durable.place[q]
  <2>1. durable.place[q] = {"none"}  BY <1>2 DEF CatalogInv, FreshIsEmpty
  <2>. QED  BY <1>1, <2>1
<1>3. ASSUME NEW q \in Rotations, "snapshot" \in durable'.place[q]  PROVE "snapshot" \in durable.place[q]
  BY <1>1, <1>3
<1>. QED  BY <1>1, <1>2, <1>3 DEF OthersAreSafe

LEMMA HolderGoesOn ==
    ASSUME CatalogInv, NEW r \in Rotations, lock \in {0, r}, lock' = r,
           home' \in [Files -> Nat], rotation' \in [Rotations -> RotationTypes],
           published' \in Seq(Rotations), DirectoryTypes', ImagesHaveIt',
           \A q \in Rotations : q # r => rotation'[q] = rotation[q],
           rotation'[r].step \notin Resting, OthersAreSafe(r),
           rotation'[r].step \in Early =>
               /\ durable'.place[r] = {"none"} /\ durable'.files[r] = {{}}
               /\ rotation'[r].manifest = Unread /\ rotation'[r].copied = Unread,
           "snapshot" \in durable'.place[r] =>
               /\ rotation'[r].step \in {"sync_published"} \cup Retiring
               /\ durable'.files[r] = {Both} /\ rotation'[r].copied = rotation'[r].moment,
           MarkerIsKept', LastIsKept', ReadingKnows(r)', CatalogKnows(r)'
    PROVE  CatalogInv'
<1>1. CatalogTypes'  BY DEF CatalogTypes
<1>2. /\ LockIsHeld /\ FreshIsEmpty /\ SnapshotsAreSafe  BY DEF CatalogInv
<1>3. \A q \in Rotations : q # r => rotation[q].step \in Resting
  BY <1>2 DEF LockIsHeld, Rotations
<1>4. LockIsHeld'  BY <1>3 DEF LockIsHeld
<1>5. FreshIsEmpty'
  BY <1>2, <1>3 DEF FreshIsEmpty, OthersAreSafe, Resting, Early
<1>6. SnapshotsAreSafe'
  BY <1>2 DEF SnapshotsAreSafe, OthersAreSafe
<1>7. HolderKnows'  BY DEF HolderKnows
<1>. QED  BY <1>1, <1>4, <1>5, <1>6, <1>7 DEF CatalogInv

\* What is left of a rotation that is over.
LEMMA OverTypes ==
    ASSUME CatalogInv, NEW r \in Rotations
    PROVE  /\ Over(r) \in RotationTypes
           /\ rotation[r].step = "idle" => Over(r) = Idle
           /\ rotation[r].step # "idle" => Over(r).step = "ended"
           /\ "snapshot" \in durable.place[r] =>
                  Over(r).copied = rotation[r].copied /\ Over(r).moment = rotation[r].moment
           /\ Idle.step = "idle" /\ Idle.manifest = Unread /\ Idle.copied = Unread
<1>1. rotation[r] \in RotationTypes  BY DEF CatalogInv, CatalogTypes
<1>2. Unread \in Versions /\ << >> \in Seq(Rotations)  BY DEF Unread, Versions
<1>3. Idle \in RotationTypes /\ [Idle EXCEPT !.step = "ended"] \in RotationTypes
  BY <1>2 DEF Idle, RotationTypes, Steps, Resting
<1>4. [rotation[r] EXCEPT !.step = "ended", !.previous = << >>, !.manifest = Unread] \in RotationTypes
  BY <1>1, <1>2 DEF RotationTypes, Steps, Resting
<1>5. "snapshot" \in durable.place[r] => rotation[r].step # "idle"
  BY DEF CatalogInv, SnapshotsAreSafe, Retiring
<1>6. CASE rotation[r].step = "idle"
  BY <1>3, <1>5, <1>6 DEF Over, Idle
<1>7. CASE rotation[r].step # "idle" /\ "snapshot" \in durable.place[r]
  BY <1>1, <1>4, <1>7 DEF Over, RotationTypes, Idle
<1>8. CASE rotation[r].step # "idle" /\ "snapshot" \notin durable.place[r]
  <2>1. Over(r) = [Idle EXCEPT !.step = "ended"]  BY <1>8 DEF Over
  <2>. QED  BY <1>3, <1>8, <2>1 DEF Idle
<1>. QED  BY <1>6, <1>7, <1>8

LEMMA HolderEnds ==
    ASSUME CatalogInv, NEW r \in Rotations, lock = r, End(r), UNCHANGED home,
           published' = published, DirectoryTypes', ImagesHaveIt', OthersAreSafe(r),
           "snapshot" \in durable'.place[r] =>
               "snapshot" \in durable.place[r] /\ durable'.files[r] = durable.files[r],
           MarkerIsKept', LastIsKept'
    PROVE  CatalogInv'
<1>1. /\ lock' = 0 /\ rotation' = [rotation EXCEPT ![r] = Over(r)] /\ 0 \notin Rotations
  BY DEF End, Rotations
<1>2. /\ CatalogTypes /\ LockIsHeld /\ FreshIsEmpty /\ SnapshotsAreSafe  BY DEF CatalogInv
<1>3. /\ rotation[r].step \notin Resting
      /\ \A q \in Rotations : q # r => rotation[q].step \in Resting
  BY <1>2 DEF LockIsHeld
<1>4. /\ rotation' \in [Rotations -> RotationTypes] /\ rotation'[r].step = "ended"
      /\ "snapshot" \in durable.place[r] =>
             rotation'[r].copied = rotation[r].copied /\ rotation'[r].moment = rotation[r].moment
      /\ \A q \in Rotations : q # r => rotation'[q] = rotation[q]
  BY <1>1, <1>2, <1>3, OverTypes DEF CatalogTypes, Resting
<1>5. CatalogTypes'  BY <1>2, <1>4 DEF CatalogTypes
<1>6. LockIsHeld'  BY <1>1, <1>3, <1>4 DEF LockIsHeld, Resting
<1>7. FreshIsEmpty'  BY <1>2, <1>3, <1>4 DEF FreshIsEmpty, OthersAreSafe, Resting, Early
<1>8. SnapshotsAreSafe'  BY <1>2, <1>4 DEF SnapshotsAreSafe, OthersAreSafe
<1>9. HolderKnows'  BY <1>1 DEF HolderKnows
<1>. QED  BY <1>5, <1>6, <1>7, <1>8, <1>9 DEF CatalogInv

\* The last publication stays where the certain snapshots do.
LEMMA LastStays ==
    ASSUME CatalogInv, published' = published, published # << >> => Certain \subseteq Certain'
    PROVE  LastIsKept'
<1>1. LastIsKept /\ published \in Seq(Rotations)  BY DEF CatalogInv, CatalogTypes
<1>2. Promise' = Promise  BY DEF Promise
<1>3. published # << >> => Cardinality(Certain) <= Cardinality(Certain')
  BY MoreAreMore DEF Certain
<1>4. Cardinality(Certain) \in Nat /\ Cardinality(Certain') \in Nat /\ Promise \in Nat
  <2>1. Len(published) \in Nat /\ Keep \in Nat  BY <1>1, LenProperties, CatalogAssumption DEF CatalogAssumption
  <2>2. Certain \subseteq Rotations /\ Certain' \subseteq Rotations  BY DEF Certain
  <2>. QED  BY <2>1, <2>2, SubsetsAreFinite DEF Promise
<1>. QED  BY <1>1, <1>2, <1>3, <1>4 DEF LastIsKept

\* While a rotation retires, it is the last and enough are out of its reach.
LEMMA LastFollows ==
    ASSUME NEW r \in Rotations, r \in Certain', Last(published') = r, published' \in Seq(Rotations),
           NEW away, Cardinality(Certain' \ away) >= Promise'
    PROVE  LastIsKept'
<1>1. Certain' \subseteq Rotations  BY DEF Certain
<1>2. Cardinality(Certain' \ away) <= Cardinality(Certain')
      /\ Cardinality(Certain' \ away) \in Nat /\ Cardinality(Certain') \in Nat
  BY <1>1, MoreAreMore
<1>3. Promise' \in Nat
  <2>1. Len(published') \in Nat /\ Keep \in Nat  BY LenProperties, CatalogAssumption DEF CatalogAssumption
  <2>. QED  BY <2>1 DEF Promise
<1>. QED  BY <1>2, <1>3 DEF LastIsKept

-----------------------------------------------------------------------------
(***************************************************************************)
(* Opening and listing.                                                    *)
(***************************************************************************)
\* The names under which the steps are known.
LEMMA StepNames ==
    /\ {"open", "stage_marker", "publish_marker", "sync_marker", "list", "make_stage"} = Early
    /\ {"lease", "inventory", "copy", "link", "receipt", "sync_stage", "publish"} = Staged
    /\ {"idle", "ended"} = Resting
    /\ {"retire", "sync_retired", "remove_archive", "remove_receipt", "remove_folder"} = Retiring
    /\ Early \subseteq Steps /\ Staged \subseteq Steps /\ Retiring \subseteq Steps /\ Resting \subseteq Steps
    /\ "sync_published" \in Steps
  BY DEF Early, Staged, Resting, Retiring, Steps

\* A rotation gets the lock, or is refused.
LEMMA OpenKeeps ==
    ASSUME CatalogInv, NEW r \in Rotations, Open(r)
    PROVE  CatalogInv'
<1>1. /\ rotation[r].step = "idle" /\ UNCHANGED <<home, published>> /\ UNCHANGED directory
      /\ CatalogTypes /\ LockIsHeld /\ FreshIsEmpty /\ SnapshotsAreSafe /\ MarkerIsKept /\ LastIsKept
      /\ HolderKnows
  BY DEF Open, UnchangedDirectory, UnchangedHome, CatalogInv
<1>2. /\ DirectoryTypes' /\ ImagesHaveIt' /\ Certain' = Certain /\ Listed' = Listed
      /\ UNCHANGED <<marker, place, files, durable>>
  BY <1>1, DirectoryKept
<1>3. MarkerIsKept' /\ LastIsKept'  BY <1>1, <1>2 DEF MarkerIsKept, LastIsKept, Promise
<1>4. /\ durable.place[r] = {"none"} /\ durable.files[r] = {{}}
      /\ rotation[r].manifest = Unread /\ rotation[r].copied = Unread
  BY <1>1 DEF FreshIsEmpty
<1>5. CASE lock = 0 /\ lock' = r /\ Step(r, "open")
  <2>1. /\ rotation' \in [Rotations -> RotationTypes] /\ rotation'[r].step = "open"
        /\ rotation'[r].manifest = rotation[r].manifest /\ rotation'[r].copied = rotation[r].copied
        /\ \A q \in Rotations : q # r => rotation'[q] = rotation[q]
    BY <1>1, <1>5, StepTaken, StepNames
  <2>2. OthersAreSafe(r)  BY <1>2 DEF OthersAreSafe
  <2>3. ReadingKnows(r)' /\ CatalogKnows(r)'
    BY <2>1 DEF ReadingKnows, CatalogKnows, Staged, Retiring
  <2>. QED
    BY <1>1, <1>2, <1>3, <1>4, <1>5, <2>1, <2>2, <2>3, HolderGoesOn, StepNames DEF CatalogTypes
<1>6. CASE lock # 0 /\ lock' = lock /\ Step(r, "ended")
  <2>1. /\ rotation' \in [Rotations -> RotationTypes] /\ rotation'[r].step = "ended"
        /\ \A q \in Rotations : q # r => rotation'[q] = rotation[q]
    BY <1>1, <1>6, StepTaken, StepNames
  <2>2. CatalogTypes'  BY <1>1, <1>2, <2>1 DEF CatalogTypes
  <2>3. LockIsHeld'  BY <1>1, <1>6, <2>1 DEF LockIsHeld, Resting
  <2>4. FreshIsEmpty'  BY <1>1, <1>2, <2>1 DEF FreshIsEmpty, Early
  <2>5. SnapshotsAreSafe'  BY <1>1, <1>2, <1>4, <2>1 DEF SnapshotsAreSafe
  <2>6. HolderKnows'
    <3>. SUFFICES ASSUME NEW q \in Rotations, lock' = q  PROVE ReadingKnows(q)' /\ CatalogKnows(q)'
      BY DEF HolderKnows
    <3>1. q # r /\ rotation'[q] = rotation[q] /\ ReadingKnows(q) /\ CatalogKnows(q)
      BY <1>1, <1>6, <2>1 DEF LockIsHeld, Resting, HolderKnows
    <3>2. ReadingKnows(q)'  BY <1>1, <3>1 DEF ReadingKnows
    <3>3. \A s \in Rotations : rotation[s].step # "idle" => rotation'[s].step # "idle"
      BY <1>1, <2>1
    <3>4. rotation[q].previous \in Seq(Rotations)  BY <1>1 DEF CatalogTypes, RotationTypes
    <3>5. Range(rotation[q].previous) \subseteq Rotations  BY <3>4, RangeOfList
    <3>6. CatalogKnows(q)'  BY <1>1, <1>2, <3>1, <3>3, <3>5 DEF CatalogKnows, Promise
    <3>. QED  BY <3>2, <3>6
  <2>. QED  BY <1>2, <1>3, <2>2, <2>3, <2>4, <2>5, <2>6 DEF CatalogInv
<1>. QED  BY <1>1, <1>5, <1>6 DEF Open

\* What is known when a rotation is at a step.
LEMMA AtStep ==
    ASSUME CatalogInv, NEW r \in Rotations, NEW step, At(r, step)
    PROVE  /\ lock = r /\ rotation[r].step = step /\ step \in Steps /\ step \notin Resting
           /\ ReadingKnows(r) /\ CatalogKnows(r)
           /\ rotation[r] \in RotationTypes /\ CatalogTypes /\ DirectoryTypes /\ ImagesHaveIt
           /\ MarkerIsKept /\ LastIsKept
           /\ step \in Early =>
                  /\ durable.place[r] = {"none"} /\ durable.files[r] = {{}}
                  /\ rotation[r].manifest = Unread /\ rotation[r].copied = Unread
           /\ "snapshot" \in durable.place[r] =>
                  /\ step \in {"sync_published"} \cup Retiring
                  /\ durable.files[r] = {Both} /\ rotation[r].copied = rotation[r].moment
<1>1. /\ CatalogTypes /\ LockIsHeld /\ FreshIsEmpty /\ SnapshotsAreSafe /\ HolderKnows
      /\ MarkerIsKept /\ LastIsKept /\ ImagesHaveIt /\ lock = r /\ rotation[r].step = step
  BY DEF CatalogInv, At
<1>2. rotation[r] \in RotationTypes /\ DirectoryTypes  BY <1>1 DEF CatalogTypes
<1>3. step \notin Resting  BY <1>1 DEF LockIsHeld
<1>. QED
  BY <1>1, <1>2, <1>3 DEF RotationTypes, FreshIsEmpty, SnapshotsAreSafe, HolderKnows, Resting

\* Steps that write nothing to the directory.
LEMMA NothingWritten ==
    ASSUME CatalogInv, NEW r \in Rotations, NEW step, At(r, step), UNCHANGED directory,
           published' = published, lock' = lock, home' \in [Files -> Nat],
           rotation' \in [Rotations -> RotationTypes],
           \A q \in Rotations : q # r => rotation'[q] = rotation[q],
           rotation'[r].step \in Early \cup Staged,
           rotation'[r].step \in Early =>
               /\ step \in Early
               /\ rotation'[r].manifest = Unread /\ rotation'[r].copied = Unread,
           step \in Early \cup Staged,
           ReadingKnows(r)', CatalogKnows(r)'
    PROVE  CatalogInv'
<1>1. /\ DirectoryTypes' /\ ImagesHaveIt' /\ Certain' = Certain
      /\ UNCHANGED <<marker, place, files, durable>>
  BY DirectoryKept
<1>2. /\ lock = r /\ MarkerIsKept /\ LastIsKept /\ published \in Seq(Rotations)
      /\ step \in Early => durable.place[r] = {"none"} /\ durable.files[r] = {{}}
      /\ "snapshot" \notin durable.place[r]
  <2>1. step \notin {"sync_published"} \cup Retiring  BY DEF Early, Staged, Retiring
  <2>. QED  BY <2>1, AtStep DEF CatalogTypes
<1>3. MarkerIsKept' /\ LastIsKept'  BY <1>1, <1>2 DEF MarkerIsKept, LastIsKept, Promise
<1>4. OthersAreSafe(r)  BY <1>1 DEF OthersAreSafe
<1>5. rotation'[r].step \notin Resting  BY DEF Early, Staged, Resting
<1>. QED  BY <1>1, <1>2, <1>3, <1>4, <1>5, HolderGoesOn

\* The marker is looked for, and made in an empty directory only.
LEMMA OpeningKeeps ==
    ASSUME CatalogInv, NEW r \in Rotations,
           LookForMarker(r) \/ StageMarker(r) \/ PublishMarker(r) \/ SyncMarker(r)
    PROVE  CatalogInv'
<1>0. /\ UNCHANGED <<home, published>> /\ lock' = lock
      /\ published \in Seq(Rotations) /\ home \in [Files -> Nat] /\ CatalogTypes
  BY DEF CatalogInv, CatalogTypes, LookForMarker, StageMarker, PublishMarker, SyncMarker, UnchangedHome
<1>1. CASE LookForMarker(r)
  <2>0. At(r, "open") /\ UNCHANGED directory  BY <1>1 DEF LookForMarker, UnchangedDirectory
  <2>1. PICK step \in {"list", "stage_marker"} :
            /\ Step(r, step) /\ (step = "list" => marker = "there")
            /\ (step = "stage_marker" => marker = "none")
    BY <1>1 DEF LookForMarker
  <2>2. /\ rotation' \in [Rotations -> RotationTypes] /\ rotation'[r].step = step
        /\ rotation'[r].manifest = rotation[r].manifest /\ rotation'[r].copied = rotation[r].copied
        /\ \A q \in Rotations : q # r => rotation'[q] = rotation[q]
    BY <1>0, <2>1, StepTaken, StepNames
  <2>3. /\ "open" \in Early /\ step \in Early /\ step \notin Staged /\ step \notin Retiring
    BY DEF Early, Staged, Retiring
  <2>4. marker' = marker /\ (step = "stage_marker" => published = << >>)
    BY <2>0, <2>1, AtStep DEF directory, MarkerIsKept, ImagesHaveIt
  <2>5. ReadingKnows(r)' /\ CatalogKnows(r)'
    BY <1>0, <2>1, <2>2, <2>3, <2>4 DEF ReadingKnows, CatalogKnows
  <2>6. rotation'[r].manifest = Unread /\ rotation'[r].copied = Unread
    BY <2>0, <2>2, <2>3, AtStep
  <2>. QED  BY <1>0, <2>0, <2>2, <2>3, <2>5, <2>6, NothingWritten
<1>2. CASE StageMarker(r) \/ PublishMarker(r)
  <2>1. PICK step \in {"stage_marker", "publish_marker"}, next \in {"publish_marker", "sync_marker"},
             m \in {"staged", "there"} :
            /\ At(r, step) /\ Step(r, next) /\ SetMarker(m) /\ UNCHANGED <<place, files>>
            /\ (next = "sync_marker" => m = "there")
    BY <1>2 DEF StageMarker, PublishMarker
  <2>2. /\ rotation' \in [Rotations -> RotationTypes] /\ rotation'[r].step = next
        /\ rotation'[r].manifest = rotation[r].manifest /\ rotation'[r].copied = rotation[r].copied
        /\ \A q \in Rotations : q # r => rotation'[q] = rotation[q]
    BY <1>0, <2>1, StepTaken, StepNames
  <2>3. /\ DirectoryTypes' /\ ImagesHaveIt' /\ Certain' = Certain /\ marker' = m
        /\ durable'.place = durable.place /\ durable'.files = durable.files
    BY <2>1, MarkerSet DEF Markers
  <2>4. /\ step \in Early /\ next \in Early /\ next \notin Staged /\ next \notin Retiring /\ next \notin Resting
    BY DEF Early, Staged, Retiring, Resting
  <2>5. /\ lock = r /\ published = << >> /\ durable.place[r] = {"none"} /\ durable.files[r] = {{}}
        /\ rotation[r].manifest = Unread /\ rotation[r].copied = Unread
    BY <2>1, <2>4, AtStep DEF CatalogKnows
  <2>6. ReadingKnows(r)' /\ CatalogKnows(r)'
    BY <1>0, <2>1, <2>2, <2>3, <2>4, <2>5 DEF ReadingKnows, CatalogKnows
  <2>7. MarkerIsKept' /\ LastIsKept'  BY <1>0, <2>5 DEF MarkerIsKept, LastIsKept
  <2>8. OthersAreSafe(r)  BY <2>3 DEF OthersAreSafe
  <2>. QED  BY <1>0, <2>2, <2>3, <2>4, <2>5, <2>6, <2>7, <2>8, HolderGoesOn
<1>3. CASE SyncMarker(r)
  <2>1. At(r, "sync_marker") /\ Step(r, "list") /\ SyncCatalog /\ UNCHANGED <<marker, place, files>>
    BY <1>3 DEF SyncMarker
  <2>2. /\ rotation' \in [Rotations -> RotationTypes] /\ rotation'[r].step = "list"
        /\ rotation'[r].manifest = rotation[r].manifest /\ rotation'[r].copied = rotation[r].copied
        /\ \A q \in Rotations : q # r => rotation'[q] = rotation[q]
    BY <1>0, <2>1, StepTaken, StepNames
  <2>3. /\ DirectoryTypes' /\ ImagesHaveIt' /\ durable'.files = durable.files
        /\ \A q \in Rotations : durable'.place[q] = {place[q]} /\ durable'.place[q] \subseteq durable.place[q]
    BY <2>1, CatalogSynced
  <2>4. /\ "list" \in Early /\ "sync_marker" \in Early /\ "list" \notin Staged /\ "list" \notin Retiring
        /\ "list" \notin Resting
    BY DEF Early, Staged, Retiring, Resting
  <2>5. /\ lock = r /\ published = << >> /\ durable.place[r] = {"none"} /\ durable.files[r] = {{}}
        /\ rotation[r].manifest = Unread /\ rotation[r].copied = Unread /\ marker = "there" /\ FreshIsEmpty
    BY <2>1, <2>4, AtStep DEF CatalogKnows, CatalogInv
  <2>6. ReadingKnows(r)' /\ CatalogKnows(r)'
    BY <2>1, <2>2, <2>4, <2>5 DEF ReadingKnows, CatalogKnows
  <2>7. MarkerIsKept' /\ LastIsKept'  BY <1>0, <2>5 DEF MarkerIsKept, LastIsKept
  <2>8. OthersAreSafe(r)
    <3>1. \A q \in Rotations : rotation[q].step = "idle" => durable.place[q] = {"none"}
      BY <2>5 DEF FreshIsEmpty
    <3>. QED  BY <2>3, <3>1 DEF OthersAreSafe
  <2>9. durable'.place[r] = {"none"} /\ durable'.files[r] = {{}}  BY <2>3, <2>5
  <2>. QED  BY <1>0, <2>2, <2>3, <2>4, <2>5, <2>6, <2>7, <2>8, <2>9, HolderGoesOn
<1>. QED  BY <1>1, <1>2, <1>3

\* The list has every snapshot once.
LEMMA ListSnapshotsKeeps ==
    ASSUME CatalogInv, NEW r \in Rotations, ListSnapshots(r)
    PROVE  CatalogInv'
<1>0. /\ At(r, "list") /\ UNCHANGED directory /\ UNCHANGED <<home, published, lock>>
      /\ home \in [Files -> Nat] /\ CatalogTypes
  BY DEF ListSnapshots, UnchangedDirectory, UnchangedHome, CatalogInv, CatalogTypes
<1>1. PICK order \in NewestFirst(Listed) :
          rotation' = [rotation EXCEPT ![r].step = "make_stage", ![r].previous = order]
  BY DEF ListSnapshots
<1>2. order \in Seq(Rotations) /\ Range(order) = Listed /\ Different(order)
  <2>1. /\ order \in [1..Cardinality(Listed) -> Listed] /\ Range(order) = Listed
        /\ \A i, j \in DOMAIN order : i < j => Newer(order[i], order[j])
    BY <1>1 DEF NewestFirst
  <2>2. Listed \subseteq Rotations /\ Cardinality(Listed) \in Nat
    BY SubsetsAreFinite DEF Listed
  <2>3. order \in Seq(Rotations) /\ Len(order) = Cardinality(Listed)
    <3>. DEFINE n == Cardinality(Listed)
    <3>1. order \in [1..n -> Rotations] /\ n \in Nat  BY <2>1, <2>2
    <3>. HIDE DEF n
    <3>. QED  BY <3>1 DEF n
  <2>4. \A q \in Rotations : ~ Newer(q, q)
    <3>1. \A q \in Rotations : rotation[q].time \in Nat /\ q \in Nat
      BY <1>0 DEF CatalogTypes, RotationTypes, Rotations
    <3>. QED  BY <3>1 DEF Newer
  <2>5. ASSUME NEW i \in 1..Len(order), NEW j \in 1..Len(order), i # j  PROVE order[i] # order[j]
    <3>1. i \in DOMAIN order /\ j \in DOMAIN order /\ order[i] \in Rotations
      BY <2>1, <2>2, <2>3
    <3>2. i < j \/ j < i  BY <2>5
    <3>. QED  BY <2>1, <2>4, <3>1, <3>2
  <2>. QED  BY <2>1, <2>3, <2>5 DEF Different
<1>3. /\ rotation' \in [Rotations -> RotationTypes] /\ rotation'[r].step = "make_stage"
      /\ rotation'[r].previous = order
      /\ rotation'[r].manifest = rotation[r].manifest /\ rotation'[r].copied = rotation[r].copied
      /\ \A q \in Rotations : q # r => rotation'[q] = rotation[q]
  BY <1>0, <1>1, <1>2 DEF CatalogTypes, RotationTypes, Steps, Early
<1>4. /\ "list" \in Early /\ "make_stage" \in Early /\ "make_stage" \notin Staged /\ "make_stage" \notin Retiring
  BY DEF Early, Staged, Retiring
<1>5. /\ marker = "there" /\ rotation[r].manifest = Unread /\ rotation[r].copied = Unread
  BY <1>0, <1>4, AtStep DEF CatalogKnows
<1>6. marker' = marker /\ Listed' = Listed  BY <1>0, DirectoryKept
<1>7. ReadingKnows(r)' /\ CatalogKnows(r)'
  BY <1>2, <1>3, <1>4, <1>5, <1>6 DEF ReadingKnows, CatalogKnows
<1>. QED  BY <1>0, <1>3, <1>4, <1>5, <1>7, NothingWritten

-----------------------------------------------------------------------------
(***************************************************************************)
(* Create: the home is read twice.                                         *)
(***************************************************************************)
\* In its stage a rotation knows the snapshots that there are.
LEMMA StageKnows ==
    ASSUME NEW r \in Rotations, rotation'[r].step \in Staged \ {"sync_stage", "publish"},
           CatalogKnows(r), rotation[r].step \in Staged, rotation'[r].previous = rotation[r].previous,
           marker' = marker, place'[r] = place[r], Listed' = Listed
    PROVE  CatalogKnows(r)'
<1>1. rotation'[r].step \notin {"stage_marker", "publish_marker", "sync_marker", "sync_stage", "publish",
                                "sync_published"} \cup Retiring
  BY DEF Staged, Retiring
<1>. QED  BY <1>1 DEF CatalogKnows, Retiring

LEMMA MakeStageKeeps ==
    ASSUME CatalogInv, NEW r \in Rotations, MakeStage(r)
    PROVE  CatalogInv'
<1>0. /\ At(r, "make_stage") /\ Step(r, "lease") /\ SetPlace(r, "pending")
      /\ UNCHANGED <<home, published, lock, marker, files>>
      /\ home \in [Files -> Nat] /\ CatalogTypes /\ published \in Seq(Rotations)
  BY DEF MakeStage, UnchangedHome, CatalogInv, CatalogTypes
<1>1. /\ rotation' \in [Rotations -> RotationTypes] /\ rotation'[r].step = "lease"
      /\ rotation'[r].previous = rotation[r].previous
      /\ rotation'[r].manifest = rotation[r].manifest /\ rotation'[r].copied = rotation[r].copied
      /\ \A q \in Rotations : q # r => rotation'[q] = rotation[q]
  BY <1>0, StepTaken, StepNames
<1>2. /\ DirectoryTypes' /\ ImagesHaveIt' /\ place'[r] = "pending"
      /\ durable'.place[r] = durable.place[r] \cup {"pending"}
      /\ durable'.marker = durable.marker /\ durable'.files = durable.files
      /\ \A s \in Rotations : s # r => place'[s] = place[s] /\ durable'.place[s] = durable.place[s]
      /\ Certain \ {r} \subseteq Certain'
  BY <1>0, PlaceSet DEF Places
<1>3. /\ lock = r /\ rotation[r].step = "make_stage" /\ CatalogKnows(r) /\ MarkerIsKept
      /\ durable.place[r] = {"none"} /\ rotation[r].manifest = Unread /\ rotation[r].copied = Unread
      /\ ImagesHaveIt
  BY <1>0, AtStep DEF Early
<1>4. Listed' = Listed
  <2>1. place[r] = "none"  BY <1>3 DEF ImagesHaveIt
  <2>. QED  BY <1>2, <2>1 DEF Listed
<1>5. /\ "lease" \notin Early \cup Retiring \cup Resting /\ "lease" \in Staged
  BY DEF Early, Retiring, Resting, Staged
<1>6. /\ marker = "there" /\ Different(rotation[r].previous) /\ Range(rotation[r].previous) = Listed
  BY <1>3 DEF CatalogKnows
<1>7. CatalogKnows(r)' /\ ReadingKnows(r)'
  BY <1>0, <1>1, <1>2, <1>3, <1>4, <1>5, <1>6 DEF CatalogKnows, ReadingKnows
<1>8. Certain \subseteq Certain'
  <2>1. r \notin Certain  BY <1>3 DEF Certain
  <2>. QED  BY <1>2, <2>1
<1>9. MarkerIsKept' /\ LastIsKept'
  BY <1>0, <1>2, <1>3, <1>8, LastStays DEF MarkerIsKept
<1>10. OthersAreSafe(r)  BY <1>2 DEF OthersAreSafe
<1>11. "snapshot" \notin durable'.place[r]  BY <1>2, <1>3
<1>. QED
  BY <1>0, <1>1, <1>2, <1>3, <1>5, <1>7, <1>9, <1>10, <1>11, HolderGoesOn

\* The versions of the files only grow while the rotation reads them.
LEMMA ReadingKeeps ==
    ASSUME CatalogInv, NEW r \in Rotations, TakeLease(r) \/ Inventory(r) \/ Copy(r)
    PROVE  CatalogInv'
<1>0. /\ UNCHANGED directory /\ UNCHANGED <<published, lock>>
      /\ home \in [Files -> Nat] /\ CatalogTypes
  BY DEF TakeLease, Inventory, Copy, UnchangedDirectory, UnchangedHome, CatalogInv, CatalogTypes
<1>1. PICK step \in {"lease", "inventory", "copy"} : At(r, step)
  BY DEF TakeLease, Inventory, Copy
<1>2. /\ lock = r /\ rotation[r].step = step /\ ReadingKnows(r) /\ CatalogKnows(r) /\ rotation[r] \in RotationTypes
      /\ step \in Staged
  BY <1>1, AtStep DEF Staged
<1>3. /\ marker' = marker /\ place' = place /\ Listed' = Listed  BY <1>0, DirectoryKept
<1>4. ASSUME NEW next \in {"inventory", "copy", "link"}, rotation'[r].step = next,
             rotation' \in [Rotations -> RotationTypes], rotation'[r].previous = rotation[r].previous,
             \A q \in Rotations : q # r => rotation'[q] = rotation[q],
             home' \in [Files -> Nat], ReadingKnows(r)'
      PROVE  CatalogInv'
  <2>1. /\ next \in Staged \ {"sync_stage", "publish"} /\ next \notin Early
    BY DEF Staged, Early
  <2>2. CatalogKnows(r)'  BY <1>2, <1>3, <1>4, <2>1, StageKnows
  <2>. QED  BY <1>0, <1>1, <1>2, <1>4, <2>1, <2>2, NothingWritten
<1>5. CASE TakeLease(r)
  <2>1. PICK time \in 0..MaxTime :
            rotation' = [rotation EXCEPT ![r].step = "inventory", ![r].time = time]
    BY <1>5 DEF TakeLease
  <2>2. home' = [f \in Files |-> 0] /\ rotation[r].step = "lease"  BY <1>5 DEF TakeLease, At
  <2>3. /\ rotation'[r].step = "inventory" /\ rotation'[r].previous = rotation[r].previous
        /\ rotation'[r].manifest = rotation[r].manifest /\ rotation'[r].copied = rotation[r].copied
        /\ \A q \in Rotations : q # r => rotation'[q] = rotation[q]
        /\ rotation' \in [Rotations -> RotationTypes]
    <3>1. time \in Nat  BY CatalogAssumption DEF CatalogAssumption
    <3>2. "inventory" \in Steps  BY StepNames
    <3>. QED  BY <1>0, <2>1, <3>1, <3>2 DEF CatalogTypes, RotationTypes
  <2>4. ReadingKnows(r)'
    <3>1. rotation[r].manifest = Unread /\ rotation[r].copied = Unread
      BY <1>2, <2>2 DEF ReadingKnows
    <3>. QED  BY <2>2, <2>3, <3>1 DEF ReadingKnows, Unread
  <2>. QED  BY <1>4, <2>2, <2>3, <2>4
<1>6. CASE Inventory(r)
  <2>1. PICK f \in Files :
            LET manifest == [rotation[r].manifest EXCEPT ![f] = home[f]]
                complete == \A g \in Files : manifest[g] # -1
            IN  rotation' = [rotation EXCEPT ![r].manifest = manifest,
                    ![r].step = IF complete THEN "copy" ELSE "inventory",
                    ![r].moment = IF complete THEN home ELSE @]
    BY <1>6 DEF Inventory
  <2>2. rotation[r].step = "inventory" /\ home' = home  BY <1>6 DEF Inventory, At, UnchangedHome
  <2>. DEFINE manifest == [rotation[r].manifest EXCEPT ![f] = home[f]]
              complete == \A g \in Files : manifest[g] # -1
  <2>3. manifest \in Versions /\ home \in Versions /\ rotation[r].moment \in Versions
    BY <1>0, <1>2 DEF RotationTypes, Versions
  <2>4. /\ rotation[r].copied = Unread /\ \A g \in Files : manifest[g] <= home[g]
    <3>1. /\ rotation[r].copied = Unread /\ \A g \in Files : rotation[r].manifest[g] <= home[g]
      BY <1>2, <2>2 DEF ReadingKnows
    <3>2. \A g \in Files : home[g] \in Nat /\ (manifest[g] = IF g = f THEN home[f] ELSE rotation[r].manifest[g])
      BY <1>0, <1>2 DEF RotationTypes, Versions
    <3>. QED  BY <3>1, <3>2
  <2>. HIDE DEF manifest
  <2>5. /\ rotation'[r].previous = rotation[r].previous /\ rotation'[r].manifest = manifest
        /\ rotation'[r].copied = rotation[r].copied
        /\ rotation'[r].step = IF complete THEN "copy" ELSE "inventory"
        /\ complete => rotation'[r].moment = home
        /\ \A q \in Rotations : q # r => rotation'[q] = rotation[q]
        /\ rotation' \in [Rotations -> RotationTypes]
    <3>1. "inventory" \in Steps /\ "copy" \in Steps  BY StepNames
    <3>2. rotation' = [rotation EXCEPT ![r].manifest = manifest,
                           ![r].step = IF complete THEN "copy" ELSE "inventory",
                           ![r].moment = IF complete THEN home ELSE @]
      BY <2>1 DEF manifest
    <3>. QED  BY <1>0, <1>2, <2>3, <3>1, <3>2 DEF CatalogTypes, RotationTypes
  <2>6. ReadingKnows(r)'
    <3>1. \A g \in Files : home[g] \in Nat /\ Unread[g] = -1  BY <1>0 DEF Unread
    <3>. QED  BY <2>2, <2>4, <2>5, <3>1 DEF ReadingKnows
  <2>. QED  BY <1>0, <1>4, <2>2, <2>5, <2>6
<1>7. CASE Copy(r)
  <2>1. PICK f \in Files :
            /\ Unchanged(r, f)
            /\ LET copied == [rotation[r].copied EXCEPT ![f] = home[f]]
               IN  rotation' = [rotation EXCEPT ![r].copied = copied,
                       ![r].step = IF \A g \in Files : copied[g] # -1 THEN "link" ELSE "copy"]
    BY <1>7 DEF Copy
  <2>2. rotation[r].step = "copy" /\ home' = home  BY <1>7 DEF Copy, At, UnchangedHome
  <2>. DEFINE copied == [rotation[r].copied EXCEPT ![f] = home[f]]
              moment == rotation[r].moment
  <2>3. copied \in Versions /\ moment \in Versions /\ rotation[r].manifest \in Versions
    BY <1>0, <1>2 DEF RotationTypes, Versions
  <2>4. \A g \in Files : /\ rotation[r].manifest[g] <= moment[g] /\ moment[g] <= home[g]
                         /\ copied[g] # -1 => copied[g] = moment[g]
    <3>1. \A g \in Files : /\ rotation[r].manifest[g] <= moment[g] /\ moment[g] <= home[g]
                           /\ rotation[r].copied[g] # -1 => rotation[r].copied[g] = moment[g]
      BY <1>2, <2>2 DEF ReadingKnows
    <3>2. home[f] = rotation[r].manifest[f]  BY <2>1 DEF Unchanged
    <3>3. \A g \in Files : /\ home[g] \in Nat /\ moment[g] \in Int
                           /\ copied[g] = IF g = f THEN home[f] ELSE rotation[r].copied[g]
      BY <1>0, <1>2 DEF RotationTypes, Versions
    <3>4. home[f] = moment[f]  BY <3>1, <3>2, <3>3
    <3>. QED  BY <3>1, <3>3, <3>4
  <2>5. (\A g \in Files : copied[g] # -1) => copied = moment
    BY <2>3, <2>4 DEF Versions
  <2>. HIDE DEF copied
  <2>6. /\ rotation'[r].previous = rotation[r].previous /\ rotation'[r].manifest = rotation[r].manifest
        /\ rotation'[r].copied = copied /\ rotation'[r].moment = moment
        /\ rotation'[r].step = IF \A g \in Files : copied[g] # -1 THEN "link" ELSE "copy"
        /\ \A q \in Rotations : q # r => rotation'[q] = rotation[q]
        /\ rotation' \in [Rotations -> RotationTypes]
    <3>1. "link" \in Steps /\ "copy" \in Steps  BY StepNames
    <3>2. rotation' = [rotation EXCEPT ![r].copied = copied,
                           ![r].step = IF \A g \in Files : copied[g] # -1 THEN "link" ELSE "copy"]
      BY <2>1 DEF copied
    <3>. QED  BY <1>0, <1>2, <2>3, <3>1, <3>2 DEF CatalogTypes, RotationTypes
  <2>7. ReadingKnows(r)'
    BY <2>2, <2>4, <2>5, <2>6 DEF ReadingKnows
  <2>. QED  BY <1>0, <1>4, <2>2, <2>6, <2>7
<1>. QED  BY <1>5, <1>6, <1>7

\* The archive and the receipt get their names in the stage.
LEMMA StagingKeeps ==
    ASSUME CatalogInv, NEW r \in Rotations, LinkArchive(r) \/ WriteReceipt(r) \/ SyncStage(r)
    PROVE  CatalogInv'
<1>0. /\ UNCHANGED <<home, published, lock, marker, place>>
      /\ home \in [Files -> Nat] /\ CatalogTypes /\ published \in Seq(Rotations)
  BY DEF LinkArchive, WriteReceipt, SyncStage, UnchangedHome, CatalogInv, CatalogTypes
<1>1. PICK step \in {"link", "receipt", "sync_stage"}, next \in {"receipt", "sync_stage", "publish"} :
          /\ At(r, step) /\ Step(r, next)
          /\ step = "link" => LinkArchive(r) /\ next = "receipt"
          /\ step = "receipt" => WriteReceipt(r) /\ next = "sync_stage"
          /\ step = "sync_stage" => SyncStage(r) /\ next = "publish"
  BY DEF LinkArchive, WriteReceipt, SyncStage
<1>2. /\ rotation' \in [Rotations -> RotationTypes] /\ rotation'[r].step = next
      /\ rotation'[r].previous = rotation[r].previous
      /\ rotation'[r].copied = rotation[r].copied /\ rotation'[r].moment = rotation[r].moment
      /\ \A q \in Rotations : q # r => rotation'[q] = rotation[q]
  BY <1>0, <1>1, StepTaken, StepNames
<1>3. /\ lock = r /\ rotation[r].step = step /\ ReadingKnows(r) /\ CatalogKnows(r) /\ rotation[r] \in RotationTypes
      /\ "snapshot" \notin durable.place[r] /\ MarkerIsKept /\ DirectoryTypes /\ ImagesHaveIt
  BY <1>1, AtStep DEF Retiring
<1>4. /\ DirectoryTypes' /\ ImagesHaveIt'
      /\ durable'.marker = durable.marker /\ durable'.place = durable.place
      /\ \A s \in Rotations : s # r => durable'.files[s] = durable.files[s]
      /\ Certain' = Certain /\ Listed' = Listed
      /\ next = "sync_stage" => files'[r] = Both
      /\ next = "publish" => durable'.files[r] = {Both}
  <2>1. CASE step # "sync_stage"
    <3>1. PICK fs \in SUBSET Both : SetFiles(r, fs) /\ (next = "sync_stage" => fs = Both)
      <4>1. {"archive"} \in SUBSET Both  BY DEF Both
      <4>. QED  BY <1>1, <2>1, <4>1 DEF LinkArchive, WriteReceipt
    <3>2. next # "publish"  BY <1>1, <2>1
    <3>. QED  BY <1>0, <3>1, <3>2, FilesSet
  <2>2. CASE step = "sync_stage"
    <3>1. durable' = [durable EXCEPT !.files[r] = {files[r]}] /\ files' = files /\ files[r] = Both
      BY <1>1, <1>3, <2>2 DEF SyncStage, CatalogKnows
    <3>2. /\ durable'.marker = durable.marker /\ durable'.place = durable.place
          /\ durable'.files = [durable.files EXCEPT ![r] = {Both}]
          /\ durable' = [marker |-> durable.marker, place |-> durable.place, files |-> durable'.files]
      BY <1>3, <3>1 DEF DirectoryTypes
    <3>3. /\ durable'.files[r] = {Both} /\ durable'.files \in [Rotations -> SUBSET (SUBSET Both)]
          /\ \A s \in Rotations : s # r => durable'.files[s] = durable.files[s]
      BY <1>3, <3>2 DEF DirectoryTypes
    <3>4. DirectoryTypes'  BY <1>0, <1>3, <3>1, <3>2, <3>3 DEF DirectoryTypes
    <3>5. ImagesHaveIt'  BY <1>0, <1>3, <3>1, <3>2, <3>3 DEF ImagesHaveIt
    <3>6. Certain' = Certain /\ Listed' = Listed  BY <1>0, <3>2 DEF Certain, Listed
    <3>. QED  BY <1>1, <2>2, <3>2, <3>3, <3>4, <3>5, <3>6
  <2>. QED  BY <2>1, <2>2
<1>5. /\ next \in Staged /\ next \notin Early \cup Retiring \cup Resting /\ step \in Staged
  BY DEF Staged, Early, Retiring, Resting
<1>6. CatalogKnows(r)'
  <2>1. /\ marker = "there" /\ Different(rotation[r].previous) /\ Range(rotation[r].previous) = Listed
        /\ place[r] = "pending"
    BY <1>3, <1>5 DEF CatalogKnows
  <2>. QED  BY <1>0, <1>2, <1>4, <1>5, <2>1 DEF CatalogKnows
<1>7. ReadingKnows(r)'  BY <1>2, <1>3 DEF ReadingKnows
<1>8. MarkerIsKept' /\ LastIsKept'  BY <1>0, <1>3, <1>4, LastStays DEF MarkerIsKept
<1>9. OthersAreSafe(r)  BY <1>4 DEF OthersAreSafe
<1>. QED  BY <1>0, <1>2, <1>3, <1>4, <1>5, <1>6, <1>7, <1>8, <1>9, HolderGoesOn

-----------------------------------------------------------------------------
(***************************************************************************)
(* Publication.                                                            *)
(***************************************************************************)
\* The stage is complete and synced before it gets the name of a snapshot.
LEMMA PublishKeeps ==
    ASSUME CatalogInv, NEW r \in Rotations, Publish(r)
    PROVE  CatalogInv'
<1>0. /\ At(r, "publish") /\ Step(r, "sync_published") /\ SetPlace(r, "snapshot")
      /\ UNCHANGED <<home, published, lock, marker, files>>
      /\ home \in [Files -> Nat] /\ CatalogTypes /\ published \in Seq(Rotations)
  BY DEF Publish, UnchangedHome, CatalogInv, CatalogTypes
<1>1. /\ rotation' \in [Rotations -> RotationTypes] /\ rotation'[r].step = "sync_published"
      /\ rotation'[r].previous = rotation[r].previous
      /\ rotation'[r].copied = rotation[r].copied /\ rotation'[r].moment = rotation[r].moment
      /\ \A q \in Rotations : q # r => rotation'[q] = rotation[q]
  BY <1>0, StepTaken, StepNames
<1>2. /\ DirectoryTypes' /\ ImagesHaveIt' /\ place'[r] = "snapshot"
      /\ durable'.place[r] = durable.place[r] \cup {"snapshot"}
      /\ durable'.marker = durable.marker /\ durable'.files = durable.files
      /\ \A s \in Rotations : s # r => place'[s] = place[s] /\ durable'.place[s] = durable.place[s]
      /\ Certain \ {r} \subseteq Certain'
  BY <1>0, PlaceSet DEF Places
<1>3. /\ lock = r /\ rotation[r].step = "publish" /\ ReadingKnows(r) /\ CatalogKnows(r) /\ MarkerIsKept
      /\ "publish" \in Staged /\ ImagesHaveIt
  BY <1>0, AtStep DEF Staged
<1>4. /\ marker = "there" /\ Different(rotation[r].previous) /\ Range(rotation[r].previous) = Listed
      /\ place[r] = "pending" /\ durable.files[r] = {Both} /\ rotation[r].copied = rotation[r].moment
  BY <1>3 DEF CatalogKnows, ReadingKnows
<1>5. /\ r \notin Listed /\ Listed' = Listed \cup {r}  BY <1>2, <1>4 DEF Listed
<1>6. r \notin Certain /\ r \notin Certain'
  BY <1>2, <1>3, <1>4 DEF Certain, ImagesHaveIt
<1>7. "sync_published" \notin Early \cup Staged \cup Retiring \cup Resting
  BY DEF Early, Staged, Retiring, Resting
<1>8. CatalogKnows(r)' /\ ReadingKnows(r)'
  BY <1>0, <1>1, <1>4, <1>5, <1>6, <1>7 DEF CatalogKnows, ReadingKnows
<1>9. MarkerIsKept' /\ LastIsKept'
  BY <1>0, <1>2, <1>3, <1>6, LastStays DEF MarkerIsKept
<1>10. OthersAreSafe(r)  BY <1>2 DEF OthersAreSafe
<1>11. durable'.files[r] = {Both} /\ rotation'[r].copied = rotation'[r].moment
  BY <1>1, <1>2, <1>4
<1>. QED
  BY <1>0, <1>1, <1>2, <1>3, <1>7, <1>8, <1>9, <1>10, <1>11, HolderGoesOn

LEMMA LastOfAppend ==
    ASSUME NEW s \in Seq(Rotations), NEW r \in Rotations
    PROVE  /\ Append(s, r) \in Seq(Rotations) /\ Append(s, r) # << >>
           /\ Last(Append(s, r)) = r /\ Len(Append(s, r)) = Len(s) + 1
  BY AppendProperties DEF Last

\* With its name synced the snapshot counts, and the surplus is chosen so
\* that enough of the others stay.
LEMMA SyncPublishedKeeps ==
    ASSUME CatalogInv, NEW r \in Rotations, SyncPublished(r)
    PROVE  CatalogInv'
<1>0. /\ At(r, "sync_published") /\ SyncCatalog /\ published' = Append(published, r)
      /\ rotation' = [rotation EXCEPT ![r].step = "retire", ![r].previous = Surplus(r)]
      /\ UNCHANGED <<home, lock, marker, place, files>>
      /\ home \in [Files -> Nat] /\ CatalogTypes /\ published \in Seq(Rotations) /\ LastIsKept
  BY DEF SyncPublished, UnchangedHome, CatalogInv, CatalogTypes
<1>1. /\ lock = r /\ rotation[r].step = "sync_published" /\ CatalogKnows(r) /\ rotation[r] \in RotationTypes
      /\ "snapshot" \in durable.place[r] => durable.files[r] = {Both} /\ rotation[r].copied = rotation[r].moment
  BY <1>0, AtStep
<1>. DEFINE previous == rotation[r].previous
            rest     == SubSeq(previous, Keep, Len(previous))
<1>2. /\ marker = "there" /\ previous \in Seq(Rotations) /\ Different(previous) /\ r \notin Range(previous)
      /\ Listed = Range(previous) \cup {r} /\ r \notin Certain
  BY <1>1 DEF CatalogKnows, RotationTypes
<1>3. /\ rest \in Seq(Rotations) /\ Different(rest) /\ Range(rest) \subseteq Range(previous)
      /\ Cardinality(Range(previous)) <= Len(previous)
      /\ Cardinality(Listed \ Range(rest)) >= IF Len(previous) < Keep THEN Len(previous) + 1 ELSE Keep
  BY <1>2, SurplusLeaves, CatalogAssumption DEF CatalogAssumption
<1>4. Surplus(r) = rest  BY DEF Surplus
<1>. HIDE DEF rest
<1>5. /\ rotation' \in [Rotations -> RotationTypes] /\ rotation'[r].step = "retire"
      /\ rotation'[r].previous = rest
      /\ rotation'[r].copied = rotation[r].copied /\ rotation'[r].moment = rotation[r].moment
      /\ \A q \in Rotations : q # r => rotation'[q] = rotation[q]
  <2>1. "retire" \in Steps  BY StepNames DEF Retiring
  <2>. QED  BY <1>0, <1>3, <1>4, <2>1 DEF CatalogTypes, RotationTypes
<1>6. /\ DirectoryTypes' /\ ImagesHaveIt'
      /\ durable'.marker = {marker} /\ durable'.files = durable.files
      /\ \A q \in Rotations : durable'.place[q] = {place[q]} /\ durable'.place[q] \subseteq durable.place[q]
      /\ Certain' = Listed /\ Certain \subseteq Listed /\ Listed' = Listed
  BY <1>0, CatalogSynced
<1>7. /\ published' \in Seq(Rotations) /\ published' # << >> /\ Last(published') = r
      /\ Len(published') = Len(published) + 1
  BY <1>0, LastOfAppend
\* One more was certain than before, or as many as are kept.
<1>8. Cardinality(Certain' \ Range(rest)) >= Promise'
  <2>1. Certain \subseteq Range(previous)  BY <1>2, <1>6
  <2>2. Range(previous) \subseteq Rotations  BY <1>2, RangeOfList
  <2>3. /\ Cardinality(Certain) <= Cardinality(Range(previous))
        /\ Cardinality(Certain) \in Nat /\ Cardinality(Range(previous)) \in Nat
    BY <2>1, <2>2, MoreAreMore
  <2>4. Len(published) \in Nat /\ Len(previous) \in Nat /\ Keep \in Nat \ {0}
    BY <1>0, <1>2, LenProperties, CatalogAssumption DEF CatalogAssumption
  <2>5. Len(published) = 0 \/ Cardinality(Certain) >= Promise
    <3>1. published = << >> => Len(published) = 0  BY EmptySeq
    <3>. QED  BY <1>0, <3>1 DEF LastIsKept
  <2>6. Len(previous) >= IF Len(published) < Keep THEN Len(published) ELSE Keep
    BY <1>3, <2>3, <2>4, <2>5 DEF Promise
  <2>7. Cardinality(Listed \ Range(rest)) \in Nat
    <3>1. Listed \ Range(rest) \subseteq Rotations  BY DEF Listed
    <3>. QED  BY <3>1, SubsetsAreFinite
  <2>8. Promise' = IF Len(published) + 1 < Keep THEN Len(published) + 1 ELSE Keep
    BY <1>7 DEF Promise
  <2>. QED  BY <1>3, <1>6, <2>4, <2>6, <2>7, <2>8
<1>9. r \in Certain'  BY <1>2, <1>6
<1>10. LastIsKept' /\ MarkerIsKept'
  BY <1>2, <1>6, <1>7, <1>8, <1>9, LastFollows DEF MarkerIsKept
<1>11. "retire" \in Retiring /\ "retire" \notin Early \cup Staged \cup Resting
  BY DEF Early, Staged, Retiring, Resting
<1>12. \A q \in Range(rest) : rotation'[q].step # "idle"
  <2>. SUFFICES ASSUME NEW q \in Range(rest)  PROVE rotation'[q].step # "idle"
    OBVIOUS
  <2>1. q \in Listed /\ q \in Rotations /\ q # r  BY <1>2, <1>3, RangeOfList DEF Listed
  <2>2. "snapshot" \in durable.place[q]  BY <2>1 DEF Listed, CatalogInv, ImagesHaveIt
  <2>3. rotation[q].step # "idle"
    BY <2>1, <2>2 DEF CatalogInv, SnapshotsAreSafe, Retiring
  <2>. QED  BY <1>5, <2>1, <2>3
<1>13. r \notin Range(rest)  BY <1>2, <1>3
<1>14. CatalogKnows(r)' /\ ReadingKnows(r)'
  BY <1>0, <1>2, <1>3, <1>5, <1>7, <1>8, <1>9, <1>11, <1>12, <1>13 DEF CatalogKnows, ReadingKnows
<1>15. OthersAreSafe(r)  BY <1>0, SyncIsSafe
<1>16. durable'.files[r] = {Both} /\ rotation'[r].copied = rotation'[r].moment
  <2>1. r \in Listed  BY <1>2
  <2>2. "snapshot" \in durable.place[r]  BY <2>1 DEF Listed, CatalogInv, ImagesHaveIt
  <2>. QED  BY <1>1, <1>5, <1>6, <2>2
<1>. QED
  BY <1>0, <1>1, <1>5, <1>6, <1>7, <1>10, <1>11, <1>14, <1>15, <1>16, HolderGoesOn

-----------------------------------------------------------------------------
(***************************************************************************)
(* Retention.                                                              *)
(***************************************************************************)
\* What a rotation knows while it retires.
LEMMA RetiringKnows ==
    ASSUME CatalogInv, NEW r \in Rotations, NEW step \in Retiring, At(r, step)
    PROVE  LET previous == rotation[r].previous
           IN  /\ lock = r /\ rotation[r].step = step /\ previous \in Seq(Rotations)
               /\ Different(previous) /\ r \notin Range(previous) /\ marker = "there"
               /\ published # << >> /\ Last(published) = r /\ r \in Certain
               /\ durable.place[r] = {"snapshot"}
               /\ Cardinality(Certain \ Range(previous)) >= Promise
               /\ \A q \in Range(previous) : q \in Rotations /\ rotation[q].step # "idle"
               /\ durable.files[r] = {Both} /\ rotation[r].copied = rotation[r].moment
               /\ durable.marker = {"there"} /\ published \in Seq(Rotations)
               /\ previous # << >> => Old(r) \in Range(previous) /\ Old(r) \in Rotations /\ Old(r) # r
<1>1. /\ lock = r /\ rotation[r].step = step /\ CatalogKnows(r) /\ rotation[r] \in RotationTypes
      /\ MarkerIsKept /\ CatalogTypes
      /\ "snapshot" \in durable.place[r] => durable.files[r] = {Both} /\ rotation[r].copied = rotation[r].moment
  BY AtStep
<1>. DEFINE previous == rotation[r].previous
<1>2. /\ previous \in Seq(Rotations) /\ Different(previous) /\ r \notin Range(previous) /\ marker = "there"
      /\ published # << >> /\ Last(published) = r /\ r \in Certain
      /\ Cardinality(Certain \ Range(previous)) >= Promise
      /\ \A q \in Range(previous) : rotation[q].step # "idle"
  BY <1>1 DEF CatalogKnows, RotationTypes
<1>3. durable.place[r] = {"snapshot"}  BY <1>2 DEF Certain
<1>4. Range(previous) \subseteq Rotations
      /\ (previous # << >> => Head(previous) \in Range(previous))
  BY <1>2, RangeOfList
<1>5. durable.marker = {"there"} /\ published \in Seq(Rotations)
  BY <1>1, <1>2 DEF MarkerIsKept, CatalogTypes
<1>. QED  BY <1>1, <1>2, <1>3, <1>4, <1>5 DEF Old

\* The retiring rotation goes on: what is out of its reach stays certain.
LEMMA RetiringGoesOn ==
    ASSUME CatalogInv, NEW r \in Rotations, NEW step \in Retiring, At(r, step), NEW next \in Retiring,
           UNCHANGED <<home, published, lock, marker>>,
           rotation' \in [Rotations -> RotationTypes],
           \A q \in Rotations : q # r => rotation'[q] = rotation[q],
           rotation'[r].step = next, rotation'[r].copied = rotation[r].copied,
           rotation'[r].moment = rotation[r].moment,
           Different(rotation'[r].previous), Range(rotation'[r].previous) \subseteq Range(rotation[r].previous),
           DirectoryTypes', ImagesHaveIt', OthersAreSafe(r),
           durable'.marker = durable.marker,
           durable'.place[r] = {"snapshot"}, durable'.files[r] = durable.files[r],
           Certain \ Range(rotation[r].previous) \subseteq Certain' \ Range(rotation'[r].previous),
           next # "retire" => rotation'[r].previous # << >>,
           next = "sync_retired" => place'[Head(rotation'[r].previous)] = "retired",
           next \in {"remove_archive", "remove_receipt", "remove_folder"} =>
               "snapshot" \notin durable'.place[Head(rotation'[r].previous)]
    PROVE  CatalogInv'
<1>. DEFINE previous == rotation[r].previous
<1>1. /\ lock = r /\ r \notin Range(previous) /\ marker = "there"
      /\ published # << >> /\ Last(published) = r
      /\ Cardinality(Certain \ Range(previous)) >= Promise
      /\ \A q \in Range(previous) : q \in Rotations /\ rotation[q].step # "idle"
      /\ durable.files[r] = {Both} /\ rotation[r].copied = rotation[r].moment
      /\ durable.marker = {"there"} /\ published \in Seq(Rotations)
  BY RetiringKnows
<1>2. r \in Certain'  BY DEF Certain
<1>3. Cardinality(Certain' \ Range(rotation'[r].previous)) >= Promise'
  <2>1. Certain' \ Range(rotation'[r].previous) \subseteq Rotations  BY DEF Certain
  <2>2. /\ Cardinality(Certain \ Range(previous)) <= Cardinality(Certain' \ Range(rotation'[r].previous))
        /\ Cardinality(Certain \ Range(previous)) \in Nat
        /\ Cardinality(Certain' \ Range(rotation'[r].previous)) \in Nat
    BY <2>1, MoreAreMore
  <2>3. Promise' = Promise /\ Promise \in Nat
    <3>1. Len(published) \in Nat /\ Keep \in Nat  BY <1>1, LenProperties, CatalogAssumption DEF CatalogAssumption
    <3>. QED  BY <3>1 DEF Promise
  <2>. QED  BY <1>1, <2>2, <2>3
<1>4. LastIsKept' /\ MarkerIsKept'
  BY <1>1, <1>2, <1>3, LastFollows DEF MarkerIsKept
<1>5. next \notin Early \cup Staged \cup Resting /\ next # "sync_published"
  BY DEF Early, Staged, Retiring, Resting
<1>6. \A q \in Range(rotation'[r].previous) : rotation'[q].step # "idle"
  BY <1>1
<1>7. CatalogKnows(r)'
  BY <1>1, <1>2, <1>3, <1>5, <1>6 DEF CatalogKnows, Early, Staged
<1>8. ReadingKnows(r)'  BY <1>5 DEF ReadingKnows, Staged
<1>9. home \in [Files -> Nat]  BY DEF CatalogInv, CatalogTypes
<1>. QED  BY <1>1, <1>4, <1>5, <1>7, <1>8, <1>9, HolderGoesOn

\* An old snapshot gets its new name, which is synced before it is emptied.
LEMMA RetireKeeps ==
    ASSUME CatalogInv, NEW r \in Rotations, Retire(r) \/ RetireSafely(r)
    PROVE  CatalogInv'
<1>1. CASE Retire(r)
  <2>0. /\ At(r, "retire") /\ Step(r, "sync_retired") /\ SetPlace(Old(r), "retired")
        /\ rotation[r].previous # << >> /\ UNCHANGED <<home, published, lock, marker, files>> /\ CatalogTypes
    BY <1>1 DEF Retire, UnchangedHome, CatalogInv
  <2>1. /\ Different(rotation[r].previous) /\ durable.place[r] = {"snapshot"}
        /\ Old(r) \in Range(rotation[r].previous) /\ Old(r) \in Rotations /\ Old(r) # r
        /\ rotation[Old(r)].step # "idle"
    BY <2>0, RetiringKnows DEF Retiring
  <2>2. /\ rotation' \in [Rotations -> RotationTypes] /\ rotation'[r].step = "sync_retired"
        /\ rotation'[r].previous = rotation[r].previous
        /\ rotation'[r].copied = rotation[r].copied /\ rotation'[r].moment = rotation[r].moment
        /\ \A q \in Rotations : q # r => rotation'[q] = rotation[q]
    BY <2>0, StepTaken, StepNames DEF Retiring
  <2>3. /\ DirectoryTypes' /\ ImagesHaveIt' /\ place'[Old(r)] = "retired"
        /\ durable'.place[Old(r)] = durable.place[Old(r)] \cup {"retired"}
        /\ durable'.marker = durable.marker /\ durable'.files = durable.files
        /\ \A s \in Rotations : s # Old(r) => place'[s] = place[s] /\ durable'.place[s] = durable.place[s]
        /\ Certain \ {Old(r)} \subseteq Certain'
    BY <2>0, <2>1, PlaceSet DEF Places
  <2>4. OthersAreSafe(r)  BY <2>1, <2>3 DEF OthersAreSafe
  <2>5. Certain \ Range(rotation[r].previous) \subseteq Certain' \ Range(rotation[r].previous)
    BY <2>1, <2>3
  <2>6. Head(rotation'[r].previous) = Old(r)  BY <2>2 DEF Old
  <2>7. "retire" \in Retiring /\ "sync_retired" \in Retiring  BY DEF Retiring
  <2>. QED  BY <2>0, <2>1, <2>2, <2>3, <2>4, <2>5, <2>6, <2>7, RetiringGoesOn
<1>2. CASE RetireSafely(r)
  <2>0. /\ At(r, "sync_retired") /\ Step(r, "remove_archive") /\ SyncCatalog
        /\ UNCHANGED <<home, published, lock, marker, place, files>> /\ CatalogTypes
    BY <1>2 DEF RetireSafely, SyncRetired, UnchangedHome, CatalogInv
  <2>1. /\ Different(rotation[r].previous) /\ durable.place[r] = {"snapshot"}
        /\ r \in Certain
    BY <2>0, RetiringKnows DEF Retiring
  <2>2. /\ rotation' \in [Rotations -> RotationTypes] /\ rotation'[r].step = "remove_archive"
        /\ rotation'[r].previous = rotation[r].previous
        /\ rotation'[r].copied = rotation[r].copied /\ rotation'[r].moment = rotation[r].moment
        /\ \A q \in Rotations : q # r => rotation'[q] = rotation[q]
    BY <2>0, StepTaken, StepNames DEF Retiring
  <2>3. /\ DirectoryTypes' /\ ImagesHaveIt'
        /\ durable'.marker = {marker} /\ durable'.files = durable.files
        /\ \A q \in Rotations : durable'.place[q] = {place[q]} /\ durable'.place[q] \subseteq durable.place[q]
        /\ Certain' = Listed /\ Certain \subseteq Listed
    BY <2>0, CatalogSynced
  <2>4. /\ rotation[r].previous # << >> /\ place[Old(r)] = "retired" /\ Old(r) \in Rotations
    <3>1. CatalogKnows(r) /\ rotation[r].step = "sync_retired"  BY <2>0, AtStep
    <3>2. rotation[r].previous # << >> /\ place[Head(rotation[r].previous)] = "retired"
      BY <3>1 DEF CatalogKnows, Retiring
    <3>. QED  BY <2>0, <3>2, RetiringKnows DEF Retiring, Old
  <2>5. OthersAreSafe(r)  BY <2>0, SyncIsSafe
  <2>6. durable'.place[r] = {"snapshot"} /\ durable'.marker = durable.marker
    <3>1. durable'.place[r] = {"snapshot"}  BY <2>1, <2>3
    <3>2. durable.marker = {"there"} /\ marker = "there"  BY <2>0, RetiringKnows DEF Retiring
    <3>. QED  BY <2>3, <3>1, <3>2
  <2>7. "snapshot" \notin durable'.place[Head(rotation'[r].previous)]
    BY <2>2, <2>3, <2>4 DEF Old
  <2>8. "sync_retired" \in Retiring /\ "remove_archive" \in Retiring  BY DEF Retiring
  <2>. QED  BY <2>0, <2>1, <2>2, <2>3, <2>4, <2>5, <2>6, <2>7, <2>8, RetiringGoesOn
<1>. QED  BY <1>1, <1>2

\* What no image calls a snapshot any more is emptied and removed.
LEMMA RemoveKeeps ==
    ASSUME CatalogInv, NEW r \in Rotations, RemoveArchive(r) \/ RemoveReceipt(r) \/ RemoveFolder(r)
    PROVE  CatalogInv'
<1>1. PICK step \in {"remove_archive", "remove_receipt", "remove_folder"} : At(r, step)
  BY DEF RemoveArchive, RemoveReceipt, RemoveFolder
<1>2. /\ step \in Retiring /\ "remove_receipt" \in Retiring /\ "remove_folder" \in Retiring /\ "retire" \in Retiring
  BY DEF Retiring
<1>3. /\ rotation[r].previous # << >> /\ "snapshot" \notin durable.place[Old(r)]
  <2>1. CatalogKnows(r) /\ rotation[r].step = step  BY <1>1, AtStep
  <2>. QED  BY <2>1 DEF CatalogKnows, Retiring, Old
<1>4. /\ Different(rotation[r].previous) /\ durable.place[r] = {"snapshot"} /\ rotation[r].previous \in Seq(Rotations)
      /\ Old(r) \in Range(rotation[r].previous) /\ Old(r) \in Rotations /\ Old(r) # r
      /\ rotation[Old(r)].step # "idle"
  BY <1>1, <1>2, <1>3, RetiringKnows
<1>0. CatalogTypes  BY DEF CatalogInv
<1>5. CASE RemoveArchive(r) \/ RemoveReceipt(r)
  <2>0. PICK next \in {"remove_receipt", "remove_folder"}, gone \in Both :
            /\ Step(r, next) /\ SetFiles(Old(r), files[Old(r)] \ {gone})
            /\ UNCHANGED <<home, published, lock, marker, place>>
    BY <1>5 DEF RemoveArchive, RemoveReceipt, UnchangedHome, Both
  <2>1. files[Old(r)] \ {gone} \in SUBSET Both  BY <1>0, <1>4 DEF CatalogTypes, DirectoryTypes
  <2>2. /\ rotation' \in [Rotations -> RotationTypes] /\ rotation'[r].step = next
        /\ rotation'[r].previous = rotation[r].previous
        /\ rotation'[r].copied = rotation[r].copied /\ rotation'[r].moment = rotation[r].moment
        /\ \A q \in Rotations : q # r => rotation'[q] = rotation[q]
    BY <1>0, <2>0, StepTaken, StepNames DEF Retiring
  <2>3. /\ DirectoryTypes' /\ ImagesHaveIt'
        /\ durable'.marker = durable.marker /\ durable'.place = durable.place
        /\ \A s \in Rotations : s # Old(r) => durable'.files[s] = durable.files[s]
        /\ Certain' = Certain
    BY <1>4, <2>0, <2>1, FilesSet
  <2>4. OthersAreSafe(r)  BY <1>3, <1>4, <2>3 DEF OthersAreSafe
  <2>5. "snapshot" \notin durable'.place[Head(rotation'[r].previous)]
    BY <1>3, <2>2, <2>3 DEF Old
  <2>6. next \in Retiring /\ next # "sync_retired"  BY <1>2, <2>0
  <2>. QED  BY <1>1, <1>2, <1>3, <1>4, <2>0, <2>2, <2>3, <2>4, <2>5, <2>6, RetiringGoesOn
<1>6. CASE RemoveFolder(r)
  <2>0. /\ SetPlace(Old(r), "none") /\ UNCHANGED <<home, published, lock, marker, files>>
        /\ rotation' = [rotation EXCEPT ![r].step = "retire", ![r].previous = Tail(@)]
    BY <1>6 DEF RemoveFolder, UnchangedHome
  <2>. DEFINE tail == Tail(rotation[r].previous)
  <2>1. /\ tail \in Seq(Rotations) /\ Different(tail)
        /\ Range(tail) = Range(rotation[r].previous) \ {Old(r)}
    BY <1>3, <1>4, TailOfDifferent DEF Old
  <2>2. /\ rotation' \in [Rotations -> RotationTypes] /\ rotation'[r].step = "retire"
        /\ rotation'[r].previous = tail
        /\ rotation'[r].copied = rotation[r].copied /\ rotation'[r].moment = rotation[r].moment
        /\ \A q \in Rotations : q # r => rotation'[q] = rotation[q]
    <3>1. "retire" \in Steps  BY StepNames DEF Retiring
    <3>. QED  BY <1>0, <2>0, <2>1, <3>1 DEF CatalogTypes, RotationTypes
  <2>3. /\ DirectoryTypes' /\ ImagesHaveIt'
        /\ durable'.place[Old(r)] = durable.place[Old(r)] \cup {"none"}
        /\ durable'.marker = durable.marker /\ durable'.files = durable.files
        /\ \A s \in Rotations : s # Old(r) => durable'.place[s] = durable.place[s]
        /\ Certain \ {Old(r)} \subseteq Certain'
    BY <1>4, <2>0, PlaceSet DEF Places
  <2>4. OthersAreSafe(r)  BY <1>4, <2>3 DEF OthersAreSafe
  <2>5. Certain \ Range(rotation[r].previous) \subseteq Certain' \ Range(rotation'[r].previous)
    BY <1>4, <2>1, <2>2, <2>3
  <2>. QED  BY <1>1, <1>2, <1>4, <2>0, <2>1, <2>2, <2>3, <2>4, <2>5, RetiringGoesOn
<1>. QED  BY <1>5, <1>6

-----------------------------------------------------------------------------
(***************************************************************************)
(* The ends of a rotation.                                                 *)
(***************************************************************************)
\* It has removed its surplus, and the removals are synced.
LEMMA SyncEndKeeps ==
    ASSUME CatalogInv, NEW r \in Rotations, SyncEnd(r)
    PROVE  CatalogInv'
<1>0. /\ At(r, "retire") /\ SyncCatalog /\ End(r)
      /\ UNCHANGED <<home, published, marker, place, files>>
  BY DEF SyncEnd, UnchangedHome
<1>1. /\ lock = r /\ durable.marker = {"there"} /\ marker = "there"
  BY <1>0, RetiringKnows DEF Retiring
<1>2. /\ DirectoryTypes' /\ ImagesHaveIt'
      /\ durable'.marker = {marker} /\ durable'.files = durable.files
      /\ \A q \in Rotations : durable'.place[q] \subseteq durable.place[q]
      /\ Certain' = Listed /\ Certain \subseteq Listed
  BY <1>0, CatalogSynced
<1>3. OthersAreSafe(r)  BY <1>0, SyncIsSafe
<1>4. MarkerIsKept' /\ LastIsKept'  BY <1>0, <1>1, <1>2, LastStays DEF MarkerIsKept
<1>5. "snapshot" \in durable'.place[r] =>
          "snapshot" \in durable.place[r] /\ durable'.files[r] = durable.files[r]
  BY <1>2
<1>. QED  BY <1>0, <1>1, <1>2, <1>3, <1>4, <1>5, HolderEnds

\* A failure takes away only what has no name in the catalog yet.
LEMMA FailKeeps ==
    ASSUME CatalogInv, NEW r \in Rotations, Fail(r)
    PROVE  CatalogInv'
<1>. DEFINE step == rotation[r].step
<1>0. /\ lock = r /\ End(r) /\ UNCHANGED <<home, published>> /\ At(r, step)
      /\ marker' = IF step = "publish_marker" THEN "none" ELSE marker
      /\ place'  = IF step \in Staged THEN [place EXCEPT ![r] = "none"] ELSE place
      /\ files'  = IF step \in Staged THEN [files EXCEPT ![r] = {}] ELSE files
      /\ durable' = [durable EXCEPT !.marker = @ \cup {marker'}, !.place[r] = @ \cup {place'[r]},
                                    !.files[r] = @ \cup {files'[r]}]
  BY DEF Fail, UnchangedHome, At
<1>1. /\ DirectoryTypes /\ ImagesHaveIt /\ CatalogKnows(r) /\ MarkerIsKept
      /\ "snapshot" \in durable.place[r] => step \in {"sync_published"} \cup Retiring
  BY <1>0, AtStep
<1>2. "snapshot" \in durable.place[r] => step \notin Staged
  BY <1>1 DEF Staged, Retiring
<1>3. /\ place' \in [Rotations -> Places] /\ files' \in [Rotations -> SUBSET Both] /\ marker' \in Markers
      /\ place'[r] = IF step \in Staged THEN "none" ELSE place[r]
      /\ files'[r] = IF step \in Staged THEN {} ELSE files[r]
      /\ \A q \in Rotations : q # r => place'[q] = place[q] /\ files'[q] = files[q]
  BY <1>0, <1>1 DEF DirectoryTypes, Places, Markers
<1>4. /\ durable'.marker = durable.marker \cup {marker'}
      /\ durable'.place = [durable.place EXCEPT ![r] = @ \cup {place'[r]}]
      /\ durable'.files = [durable.files EXCEPT ![r] = @ \cup {files'[r]}]
      /\ durable' = [marker |-> durable'.marker, place |-> durable'.place, files |-> durable'.files]
  BY <1>0, <1>1 DEF DirectoryTypes
<1>5. /\ durable'.place[r] = durable.place[r] \cup {place'[r]}
      /\ durable'.files[r] = durable.files[r] \cup {files'[r]}
      /\ \A q \in Rotations : q # r => durable'.place[q] = durable.place[q] /\ durable'.files[q] = durable.files[q]
      /\ durable'.place \in [Rotations -> SUBSET Places] /\ durable'.files \in [Rotations -> SUBSET (SUBSET Both)]
  BY <1>1, <1>3, <1>4 DEF DirectoryTypes
<1>6. DirectoryTypes'
  <2>1. durable'.marker \in SUBSET Markers  BY <1>1, <1>3, <1>4 DEF DirectoryTypes
  <2>. QED  BY <1>3, <1>4, <1>5, <2>1 DEF DirectoryTypes
<1>7. ImagesHaveIt'  BY <1>1, <1>3, <1>4, <1>5 DEF ImagesHaveIt
<1>8. OthersAreSafe(r)  BY <1>5 DEF OthersAreSafe
<1>9. "snapshot" \in durable'.place[r] =>
          "snapshot" \in durable.place[r] /\ durable'.files[r] = durable.files[r]
  <2>1. "snapshot" \in durable'.place[r] => "snapshot" \in durable.place[r]
    BY <1>1, <1>3, <1>5 DEF ImagesHaveIt
  <2>2. step \notin Staged => durable'.files[r] = durable.files[r]
    BY <1>1, <1>3, <1>5 DEF ImagesHaveIt
  <2>. QED  BY <1>2, <2>1, <2>2
<1>10. Certain \subseteq Certain'
  <2>1. r \in Certain => durable'.place[r] = durable.place[r]
    BY <1>1, <1>2, <1>3, <1>5 DEF Certain, ImagesHaveIt
  <2>. QED  BY <1>5, <2>1 DEF Certain
<1>11. MarkerIsKept'
  <2>1. published # << >> => marker' = marker  BY <1>0, <1>1 DEF CatalogKnows
  <2>. QED  BY <1>0, <1>1, <1>4, <2>1 DEF MarkerIsKept, ImagesHaveIt
<1>12. LastIsKept'  BY <1>0, <1>10, LastStays
<1>. QED  BY <1>0, <1>6, <1>7, <1>8, <1>9, <1>11, <1>12, HolderEnds

LEMMA KillKeeps ==
    ASSUME CatalogInv, NEW r \in Rotations, Kill(r)
    PROVE  CatalogInv'
<1>0. /\ lock = r /\ End(r) /\ UNCHANGED <<home, published>> /\ UNCHANGED directory /\ MarkerIsKept
  BY DEF Kill, UnchangedDirectory, CatalogInv
<1>1. /\ DirectoryTypes' /\ ImagesHaveIt' /\ Certain' = Certain /\ UNCHANGED <<marker, place, files, durable>>
  BY <1>0, DirectoryKept
<1>2. MarkerIsKept' /\ LastIsKept'  BY <1>0, <1>1, LastStays DEF MarkerIsKept
<1>3. OthersAreSafe(r)  BY <1>1 DEF OthersAreSafe
<1>. QED  BY <1>0, <1>1, <1>2, <1>3, HolderEnds

\* Whichever image is left, it has every certain snapshot, whole.
LEMMA PowerLossKeeps ==
    ASSUME CatalogInv, PowerLoss
    PROVE  CatalogInv'
<1>0. /\ marker' \in durable.marker
      /\ place' \in [Rotations -> UNION {durable.place[r] : r \in Rotations}]
      /\ files' \in [Rotations -> SUBSET Both]
      /\ \A r \in Rotations : place'[r] \in durable.place[r] /\ files'[r] \in durable.files[r]
      /\ durable' = [marker |-> {marker'}, place |-> [r \in Rotations |-> {place'[r]}],
                     files |-> [r \in Rotations |-> {files'[r]}]]
      /\ lock' = 0 /\ rotation' = [r \in Rotations |-> Over(r)]
      /\ UNCHANGED <<home, published>>
      /\ CatalogTypes /\ FreshIsEmpty /\ SnapshotsAreSafe /\ MarkerIsKept
  BY DEF PowerLoss, CatalogInv
<1>1. /\ durable'.marker = {marker'}
      /\ \A r \in Rotations : durable'.place[r] = {place'[r]} /\ durable'.files[r] = {files'[r]}
  BY <1>0
<1>2. DirectoryTypes'
  <2>1. marker' \in Markers /\ \A r \in Rotations : place'[r] \in Places
    BY <1>0 DEF CatalogTypes, DirectoryTypes
  <2>2. place' \in [Rotations -> Places]  BY <1>0, <2>1
  <2>. QED  BY <1>0, <2>1, <2>2 DEF DirectoryTypes
<1>3. ImagesHaveIt'  BY <1>1 DEF ImagesHaveIt
<1>4. \A r \in Rotations : rotation'[r] = Over(r) /\ Over(r) \in RotationTypes
  BY <1>0, OverTypes
<1>5. CatalogTypes'  BY <1>0, <1>2, <1>4 DEF CatalogTypes
<1>6. \A r \in Rotations : rotation'[r].step \in Resting /\ (rotation'[r].step = "idle" => rotation[r].step = "idle")
  BY <1>4, OverTypes DEF Resting
<1>7. LockIsHeld'  BY <1>0, <1>6 DEF LockIsHeld, Rotations
<1>8. FreshIsEmpty'
  <2>. SUFFICES ASSUME NEW r \in Rotations, rotation'[r].step \in {"idle"} \cup Early
                PROVE  /\ durable'.place[r] = {"none"} /\ durable'.files[r] = {{}}
                       /\ rotation'[r].manifest = Unread /\ rotation'[r].copied = Unread
    BY DEF FreshIsEmpty
  <2>1. rotation[r].step = "idle"  BY <1>6 DEF Resting, Early
  <2>2. durable.place[r] = {"none"} /\ durable.files[r] = {{}}  BY <1>0, <2>1 DEF FreshIsEmpty
  <2>. QED  BY <1>0, <1>1, <1>4, <2>1, <2>2, OverTypes
<1>9. SnapshotsAreSafe'
  <2>. SUFFICES ASSUME NEW r \in Rotations, "snapshot" \in durable'.place[r]
                PROVE  /\ rotation'[r].step \in {"sync_published", "ended"} \cup Retiring
                       /\ durable'.files[r] = {Both}
                       /\ rotation'[r].copied = rotation'[r].moment
    BY DEF SnapshotsAreSafe
  <2>1. "snapshot" \in durable.place[r]  BY <1>0, <1>1
  <2>2. /\ rotation[r].step \in {"sync_published", "ended"} \cup Retiring
        /\ durable.files[r] = {Both} /\ rotation[r].copied = rotation[r].moment
    BY <1>0, <2>1 DEF SnapshotsAreSafe
  <2>3. durable'.files[r] = {Both}  BY <1>0, <1>1, <2>2
  <2>4. rotation[r].step # "idle"  BY <2>2 DEF Retiring
  <2>. QED  BY <1>4, <2>1, <2>2, <2>3, <2>4, OverTypes
<1>10. Certain \subseteq Certain'  BY <1>0, <1>1 DEF Certain
<1>11. MarkerIsKept'  BY <1>0, <1>1 DEF MarkerIsKept
<1>12. LastIsKept'  BY <1>0, <1>10, LastStays
<1>13. HolderKnows'  BY <1>0 DEF HolderKnows, Rotations
<1>. QED  BY <1>3, <1>5, <1>7, <1>8, <1>9, <1>11, <1>12, <1>13 DEF CatalogInv

-----------------------------------------------------------------------------
(***************************************************************************)
(* The rest of the world.                                                  *)
(***************************************************************************)
\* What has been read of the home is never newer than the home.
LEMMA HomeGrows ==
    ASSUME CatalogInv, UNCHANGED directory, UNCHANGED <<rotation, lock, published>>,
           home' \in [Files -> Nat], \A f \in Files : home[f] <= home'[f]
    PROVE  CatalogInv'
<1>1. /\ DirectoryTypes' /\ ImagesHaveIt' /\ Certain' = Certain /\ Listed' = Listed
      /\ UNCHANGED <<marker, place, files, durable>>
  BY DirectoryKept
<1>2. /\ CatalogTypes /\ LockIsHeld /\ FreshIsEmpty /\ SnapshotsAreSafe /\ MarkerIsKept /\ LastIsKept
      /\ HolderKnows
  BY DEF CatalogInv
<1>3. CatalogTypes'  BY <1>1, <1>2 DEF CatalogTypes
<1>4. LockIsHeld' /\ FreshIsEmpty' /\ SnapshotsAreSafe'
  BY <1>1, <1>2 DEF LockIsHeld, FreshIsEmpty, SnapshotsAreSafe
<1>5. MarkerIsKept' /\ LastIsKept'  BY <1>1, <1>2 DEF MarkerIsKept, LastIsKept, Promise
<1>6. ASSUME NEW r \in Rotations, lock' = r  PROVE ReadingKnows(r)' /\ CatalogKnows(r)'
  <2>1. ReadingKnows(r) /\ CatalogKnows(r)  BY <1>2, <1>6 DEF HolderKnows
  <2>2. rotation[r] \in RotationTypes /\ home \in [Files -> Nat]  BY <1>2 DEF CatalogTypes
  <2>3. \A f \in Files : /\ rotation[r].manifest[f] \in Int /\ rotation[r].moment[f] \in Int
                         /\ home[f] \in Int /\ home'[f] \in Int
    BY <2>2 DEF RotationTypes, Versions
  <2>4. ReadingKnows(r)'  BY <2>1, <2>3 DEF ReadingKnows
  <2>5. CatalogKnows(r)'  BY <1>1, <2>1 DEF CatalogKnows, Promise
  <2>. QED  BY <2>4, <2>5
<1>7. HolderKnows'  BY <1>6 DEF HolderKnows
<1>. QED  BY <1>1, <1>3, <1>4, <1>5, <1>7 DEF CatalogInv

LEMMA EditKeeps ==
    ASSUME CatalogInv, NEW f \in Files, Edit(f)
    PROVE  CatalogInv'
<1>1. /\ UNCHANGED directory /\ UNCHANGED <<rotation, lock, published>>
      /\ home' = [home EXCEPT ![f] = @ + 1] /\ home \in [Files -> Nat]
  BY DEF Edit, UnchangedDirectory, CatalogInv, CatalogTypes
<1>2. home' \in [Files -> Nat] /\ \A g \in Files : home[g] <= home'[g]  BY <1>1
<1>. QED  BY <1>1, <1>2, HomeGrows

\* A directory without a marker has no snapshot that anybody was promised.
LEMMA InspectKeeps ==
    ASSUME CatalogInv, Inspect
    PROVE  CatalogInv'
<1>0. /\ lock = 0 /\ marker # "there" /\ marker' = "none"
      /\ place' = [r \in Rotations |-> "none"] /\ files' = [r \in Rotations |-> {}]
      /\ durable' = [marker |-> {"none"}, place |-> [r \in Rotations |-> {"none"}],
                     files |-> [r \in Rotations |-> {{}}]]
      /\ UNCHANGED <<home, rotation, lock, published>>
      /\ CatalogTypes /\ ImagesHaveIt /\ LockIsHeld /\ FreshIsEmpty /\ MarkerIsKept
  BY DEF Inspect, CatalogInv
<1>1. published = << >>  BY <1>0 DEF MarkerIsKept, ImagesHaveIt
<1>2. DirectoryTypes'  BY <1>0 DEF DirectoryTypes, Markers, Places
<1>3. CatalogTypes'  BY <1>0, <1>2 DEF CatalogTypes
<1>4. ImagesHaveIt'  BY <1>0 DEF ImagesHaveIt
<1>5. LockIsHeld'  BY <1>0 DEF LockIsHeld
<1>6. FreshIsEmpty'  BY <1>0 DEF FreshIsEmpty
<1>7. SnapshotsAreSafe'  BY <1>0 DEF SnapshotsAreSafe
<1>8. MarkerIsKept' /\ LastIsKept'  BY <1>0, <1>1 DEF MarkerIsKept, LastIsKept
<1>9. HolderKnows'  BY <1>0 DEF HolderKnows, Rotations
<1>. QED  BY <1>3, <1>4, <1>5, <1>6, <1>7, <1>8, <1>9 DEF CatalogInv

-----------------------------------------------------------------------------
LEMMA CatalogStarts == Init => CatalogInv
<1>. SUFFICES ASSUME Init  PROVE CatalogInv
  OBVIOUS
<1>1. /\ home = [f \in Files |-> 0] /\ rotation = [r \in Rotations |-> Idle] /\ lock = 0
      /\ marker = "none" /\ place = [r \in Rotations |-> "none"] /\ files = [r \in Rotations |-> {}]
      /\ durable = [marker |-> {"none"}, place |-> [r \in Rotations |-> {"none"}],
                    files |-> [r \in Rotations |-> {{}}]]
      /\ published = << >>
  BY DEF Init
<1>2. Idle \in RotationTypes /\ Idle.step = "idle" /\ Idle.manifest = Unread /\ Idle.copied = Unread
  <2>1. Unread \in Versions /\ << >> \in Seq(Rotations)  BY DEF Unread, Versions
  <2>. QED  BY <2>1 DEF Idle, RotationTypes, Steps, Resting
<1>3. DirectoryTypes  BY <1>1 DEF DirectoryTypes, Markers, Places
<1>4. CatalogTypes  BY <1>1, <1>2, <1>3 DEF CatalogTypes
<1>5. ImagesHaveIt  BY <1>1 DEF ImagesHaveIt
<1>6. LockIsHeld  BY <1>1, <1>2 DEF LockIsHeld, Rotations, Resting
<1>7. FreshIsEmpty  BY <1>1, <1>2 DEF FreshIsEmpty
<1>8. SnapshotsAreSafe  BY <1>1 DEF SnapshotsAreSafe
<1>9. MarkerIsKept /\ LastIsKept  BY <1>1 DEF MarkerIsKept, LastIsKept
<1>10. HolderKnows  BY <1>1 DEF HolderKnows, Rotations
<1>. QED  BY <1>4, <1>5, <1>6, <1>7, <1>8, <1>9, <1>10 DEF CatalogInv

LEMMA NextKeepsCatalog == CatalogInv /\ [Next]_vars => CatalogInv'
<1>. SUFFICES ASSUME CatalogInv, [Next]_vars  PROVE CatalogInv'
  OBVIOUS
<1>1. ASSUME NEW r \in Rotations, Rotate(r)  PROVE CatalogInv'
  <2>1. CASE Open(r)  BY <2>1, OpenKeeps
  <2>2. CASE LookForMarker(r) \/ StageMarker(r) \/ PublishMarker(r) \/ SyncMarker(r)  BY <2>2, OpeningKeeps
  <2>3. CASE ListSnapshots(r)  BY <2>3, ListSnapshotsKeeps
  <2>4. CASE MakeStage(r)  BY <2>4, MakeStageKeeps
  <2>5. CASE TakeLease(r) \/ Inventory(r) \/ Copy(r)  BY <2>5, ReadingKeeps
  <2>6. CASE LinkArchive(r) \/ WriteReceipt(r) \/ SyncStage(r)  BY <2>6, StagingKeeps
  <2>7. CASE Publish(r)  BY <2>7, PublishKeeps
  <2>8. CASE SyncPublished(r)  BY <2>8, SyncPublishedKeeps
  <2>9. CASE Retire(r) \/ RetireSafely(r)  BY <2>9, RetireKeeps
  <2>10. CASE RemoveArchive(r) \/ RemoveReceipt(r) \/ RemoveFolder(r)  BY <2>10, RemoveKeeps
  <2>11. CASE SyncEnd(r)  BY <2>11, SyncEndKeeps
  <2>. QED  BY <1>1, <2>1, <2>2, <2>3, <2>4, <2>5, <2>6, <2>7, <2>8, <2>9, <2>10, <2>11 DEF Rotate
<1>2. ASSUME NEW r \in Rotations, Fail(r)  PROVE CatalogInv'  BY <1>2, FailKeeps
<1>3. ASSUME NEW r \in Rotations, Kill(r)  PROVE CatalogInv'  BY <1>3, KillKeeps
<1>4. CASE PowerLoss  BY <1>4, PowerLossKeeps
<1>5. CASE Inspect  BY <1>5, InspectKeeps
<1>6. ASSUME NEW f \in Files, Edit(f)  PROVE CatalogInv'  BY <1>6, EditKeeps
<1>7. CASE UNCHANGED vars
  <2>1. UNCHANGED directory /\ UNCHANGED <<home, rotation, lock, published>>  BY <1>7 DEF vars
  <2>2. home \in [Files -> Nat]  BY DEF CatalogInv, CatalogTypes
  <2>. QED  BY <2>1, <2>2, HomeGrows
<1>. QED  BY <1>1, <1>2, <1>3, <1>4, <1>5, <1>6, <1>7 DEF Next

\* What is certain of the catalog is true whatever has failed.
THEOREM CatalogInvariance == Spec => []CatalogInv
<1>1. CatalogInv /\ [Next]_vars => CatalogInv'  BY NextKeepsCatalog
<1>. QED  BY CatalogStarts, <1>1, PTL DEF Spec

\* A published archive is the home of one instant, for any number of files
\* and of writers that ignore the lease.
THEOREM ArchivesAreOfOneMoment == Spec => []SnapshotIsOneMoment
<1>1. CatalogInv => SnapshotIsOneMoment
  <2>. SUFFICES ASSUME CatalogInv, NEW r \in Rotations, place[r] = "snapshot"
                PROVE  rotation[r].copied = rotation[r].moment
    BY DEF SnapshotIsOneMoment, Listed
  <2>. QED  BY DEF CatalogInv, ImagesHaveIt, SnapshotsAreSafe
<1>. QED  BY CatalogInvariance, <1>1, PTL

\* The next rotation can list the catalog that a failure, a kill or a loss of
\* power has left, and finds its marker.
THEOREM CatalogStaysWhole == Spec => []CatalogIsWhole
<1>1. CatalogInv => CatalogIsWhole
  <2>. SUFFICES ASSUME CatalogInv  PROVE CatalogIsWhole
    OBVIOUS
  <2>1. ASSUME NEW r \in Rotations, place[r] = "snapshot"  PROVE files[r] = Both
    BY <2>1 DEF CatalogInv, ImagesHaveIt, SnapshotsAreSafe
  <2>2. published # << >> => marker = "there"  BY DEF CatalogInv, ImagesHaveIt, MarkerIsKept
  <2>. QED  BY <2>1, <2>2 DEF CatalogIsWhole, Listable, Listed
<1>. QED  BY CatalogInvariance, <1>1, PTL

\* The last published snapshot and enough others stay, for every --keep-last
\* and every clock.
THEOREM RetentionKeepsEnough == Spec => []RetentionKeeps
<1>1. CatalogInv => RetentionKeeps
  <2>. SUFFICES ASSUME CatalogInv, published # << >>
                PROVE  /\ place[Last(published)] = "snapshot"
                       /\ Cardinality(Listed) >= Promise
    BY DEF RetentionKeeps, Promise
  <2>1. Last(published) \in Certain /\ Cardinality(Certain) >= Promise  BY DEF CatalogInv, LastIsKept
  <2>2. \A r \in Certain : place[r] = "snapshot"  BY DEF CatalogInv, ImagesHaveIt, Certain
  <2>3. Certain \subseteq Listed /\ Listed \subseteq Rotations  BY <2>2 DEF Certain, Listed
  <2>4. Promise \in Nat
    <3>1. published \in Seq(Rotations)  BY DEF CatalogInv, CatalogTypes
    <3>2. Len(published) \in Nat /\ Keep \in Nat  BY <3>1, LenProperties, CatalogAssumption DEF CatalogAssumption
    <3>. QED  BY <3>2 DEF Promise
  <2>. QED  BY <2>1, <2>2, <2>3, <2>4, MoreAreMore
<1>. QED  BY CatalogInvariance, <1>1, PTL

=============================================================================
