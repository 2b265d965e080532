----------------------- MODULE ArchitectureRunProofs -----------------------
(***************************************************************************)
(* Safety of ArchitectureRun for every set of packs, commands, services,   *)
(* queues and resources and any number of rules, routes, identities and    *)
(* edges.  The run has four parts that hand over little: the packs it      *)
(* loads, the resolution of a dependency, the ranks of the graph, and the  *)
(* queries of the graph once it is saved.  Each has an invariant of its    *)
(* own.                                                                    *)
(***************************************************************************)
EXTENDS ArchitectureRun, FiniteSetTheorems, WellFoundedInduction, TLAPS

(***************************************************************************)
(* The packs.                                                              *)
(***************************************************************************)
LoadFields == {"step", "entries", "left", "reading", "used", "recorded", "errors"}

\* The directory of a pack still holds what its entry says, unless somebody
\* has touched it.
Untouched(p) == Dir(p) \notin touched
Stands(p)    == Untouched(p) => AsLocked(p)

\* What is used of a pack is what its entry says.
UsedAsLocked(p) == Untouched(p) => load.used[p] = load.entries[p].digest

ChecksFit ==
    load.step = "check" =>
        /\ load.left \subseteq DOMAIN load.entries /\ load.reading \subseteq load.left
        /\ DOMAIN load.recorded = {}
        /\ ~ load.errors => DOMAIN load.used \cup load.left = DOMAIN load.entries
        /\ \A p \in load.reading : Stands(p)
        /\ \A p \in DOMAIN load.used : Stands(p) /\ UsedAsLocked(p)

DigestsFit ==
    load.step = "digest" =>
        /\ DOMAIN load.used = DOMAIN load.entries /\ load.left \subseteq DOMAIN load.used
        /\ \A p \in DOMAIN load.used : Stands(p) /\ UsedAsLocked(p)
        /\ DOMAIN load.recorded = DOMAIN load.used \ load.left
        /\ \A p \in DOMAIN load.recorded : Untouched(p) => load.recorded[p] = load.used[p]

PacksInv ==
    /\ load.step \in {"none", "check", "digest", "refused"}
    /\ load.step \in {"check", "digest"} =>
           DOMAIN load = LoadFields /\ load = [x \in LoadFields |-> load[x]]
    /\ ChecksFit /\ DigestsFit

-----------------------------------------------------------------------------
LEMMA CommandsKeepPacks ==
    ASSUME PacksInv, UNCHANGED load,
           \/ UNCHANGED <<dirs, touched>>
           \/ \E place : /\ Touch(place)
                         /\ \A x : x # place => /\ x \in DOMAIN dirs => x \in DOMAIN dirs'
                                                /\ x \in DOMAIN dirs => dirs'[x] = dirs[x]
    PROVE  PacksInv'
<1>1. ASSUME NEW p, load.step # "none"
      PROVE  /\ Untouched(p)' => Untouched(p)
             /\ Stands(p) => Stands(p)'
             /\ UsedAsLocked(p) => UsedAsLocked(p)'
  BY <1>1 DEF Untouched, Stands, UsedAsLocked, AsLocked, Dir, Touch
<1>2. ChecksFit'  BY <1>1 DEF PacksInv, ChecksFit
<1>3. DigestsFit'  BY <1>1 DEF PacksInv, DigestsFit
<1>. QED  BY <1>2, <1>3 DEF PacksInv

LEMMA PlaceKeepsPacks ==
    ASSUME PacksInv, UNCHANGED load, NEW place, Touch(place),
           \A x : x # place => /\ x \in DOMAIN dirs => x \in DOMAIN dirs'
                               /\ x \in DOMAIN dirs => dirs'[x] = dirs[x]
    PROVE  PacksInv'
  BY CommandsKeepPacks

LEMMA CommandSteps ==
    ASSUME PacksInv, NEW c \in Commands,
           \/ \E p \in Packs : \/ \E v \in Versions : Digest(c, p, v)
                               \/ \E enabled \in BOOLEAN : Switch(c, p, enabled)
           \/ CopyTree(c) \/ RemoveOld(c) \/ RenameStaging(c) \/ ReadLock(c) \/ WriteLock(c) \/ Abandon(c)
    PROVE  PacksInv'
<1>1. CASE RemoveOld(c)
  BY <1>1, PlaceKeepsPacks DEF RemoveOld, Without
<1>2. CASE RenameStaging(c)
  BY <1>2, PlaceKeepsPacks DEF RenameStaging, With
<1>3. CASE ~ RemoveOld(c) /\ ~ RenameStaging(c)
  <2>1. UNCHANGED <<dirs, load, touched>>
    BY <1>3 DEF Digest, Switch, CopyTree, ReadLock, WriteLock, Abandon
  <2>. QED  BY <2>1, CommandsKeepPacks
<1>. QED  BY <1>1, <1>2, <1>3

LEMMA EditKeepsPacks ==
    ASSUME PacksInv, NEW place, Edit(place)
    PROVE  PacksInv'
  BY PlaceKeepsPacks DEF Edit

\* A run that loads works with the packs as they are, and changes only what
\* it knows of them.
LEMMA BeginLoadKeeps ==
    ASSUME PacksInv, BeginLoad
    PROVE  PacksInv'
<1>. DEFINE none == << >>
<1>1. DOMAIN none = {}  OBVIOUS
<1>. HIDE DEF none
<1>2. /\ load'.step = "check" /\ load'.reading = {} /\ load'.used = none /\ load'.recorded = none
      /\ load'.left = DOMAIN load'.entries
  BY DEF BeginLoad, none
<1>3. DOMAIN load' = LoadFields /\ load' = [x \in LoadFields |-> load'[x]]
  BY DEF BeginLoad, LoadFields
<1>. QED  BY <1>1, <1>2, <1>3 DEF PacksInv, ChecksFit, DigestsFit

LEMMA LoadIsThere ==
    ASSUME PacksInv, load.step \in {"check", "digest"}
    PROVE  /\ DOMAIN load = LoadFields /\ load = [x \in LoadFields |-> load[x]]
           /\ {"step", "entries", "left", "reading", "used", "recorded", "errors"} = LoadFields
  BY DEF PacksInv, LoadFields

LEMMA SameEntries ==
    ASSUME UNCHANGED <<dirs, touched>>, load'.entries = load.entries
    PROVE  \A q : /\ Untouched(q)' <=> Untouched(q)
                  /\ Stands(q)' <=> Stands(q)
                  /\ load'.used = load.used => (UsedAsLocked(q)' <=> UsedAsLocked(q))
  BY DEF Untouched, Stands, UsedAsLocked, AsLocked, Dir

LEMMA CheckKeeps ==
    ASSUME PacksInv, NEW p, CheckPack(p)
    PROVE  PacksInv'
<1>1. /\ load.step = "check" /\ load.reading = {} /\ p \in load.left
      /\ UNCHANGED <<dirs, touched>>
  BY DEF CheckPack
<1>2. ASSUME load' = [load EXCEPT !.reading = {p}], AsLocked(p)  PROVE PacksInv'
  <2>1. /\ DOMAIN load' = LoadFields /\ load' = [x \in LoadFields |-> load'[x]]
        /\ load'.step = "check" /\ load'.entries = load.entries /\ load'.left = load.left
        /\ load'.reading = {p} /\ load'.used = load.used /\ load'.recorded = load.recorded
        /\ load'.errors = load.errors
    BY <1>1, <1>2, LoadIsThere
  <2>2. \A q : /\ Untouched(q)' <=> Untouched(q)
               /\ Stands(q)' <=> Stands(q)
               /\ UsedAsLocked(q)' <=> UsedAsLocked(q)
    BY <1>1, <2>1, SameEntries
  <2>3. Stands(p)  BY <1>2 DEF Stands
  <2>4. ChecksFit'  BY <1>1, <2>1, <2>2, <2>3 DEF PacksInv, ChecksFit
  <2>. QED  BY <2>1, <2>4 DEF PacksInv, DigestsFit
<1>3. ASSUME load' = [load EXCEPT !.left = @ \ {p}, !.errors = TRUE]  PROVE PacksInv'
  <2>1. /\ DOMAIN load' = LoadFields /\ load' = [x \in LoadFields |-> load'[x]]
        /\ load'.step = "check" /\ load'.entries = load.entries /\ load'.left = load.left \ {p}
        /\ load'.reading = load.reading /\ load'.used = load.used /\ load'.recorded = load.recorded
        /\ load'.errors = TRUE
    BY <1>1, <1>3, LoadIsThere
  <2>2. \A q : /\ Untouched(q)' <=> Untouched(q)
               /\ Stands(q)' <=> Stands(q)
               /\ UsedAsLocked(q)' <=> UsedAsLocked(q)
    BY <1>1, <2>1, SameEntries
  <2>4. ChecksFit'  BY <1>1, <2>1, <2>2 DEF PacksInv, ChecksFit
  <2>. QED  BY <2>1, <2>4 DEF PacksInv, DigestsFit
<1>. QED  BY <1>2, <1>3 DEF CheckPack

LEMMA ReadKeeps ==
    ASSUME PacksInv, NEW p, ReadPack(p)
    PROVE  PacksInv'
<1>1. /\ load.step = "check" /\ p \in load.reading /\ p \in load.left /\ Stands(p)
      /\ UNCHANGED <<dirs, touched>>
  BY DEF ReadPack, PacksInv, ChecksFit
<1>2. ASSUME Dir(p) \in DOMAIN dirs,
             load' = [load EXCEPT !.left = @ \ {p}, !.reading = {}, !.used = With(@, p, dirs[Dir(p)])]
      PROVE  PacksInv'
  <2>1. /\ DOMAIN load' = LoadFields /\ load' = [x \in LoadFields |-> load'[x]]
        /\ load'.step = "check" /\ load'.entries = load.entries /\ load'.left = load.left \ {p}
        /\ load'.reading = {} /\ load'.used = With(load.used, p, dirs[Dir(p)])
        /\ load'.recorded = load.recorded /\ load'.errors = load.errors
    BY <1>1, <1>2, LoadIsThere
  <2>2. /\ DOMAIN load'.used = DOMAIN load.used \cup {p} /\ load'.used[p] = dirs[Dir(p)]
        /\ \A q \in DOMAIN load.used : q # p => load'.used[q] = load.used[q]
    BY <2>1 DEF With
  <2>3. \A q : /\ Untouched(q)' <=> Untouched(q)
               /\ Stands(q)' <=> Stands(q)
               /\ q \in DOMAIN load.used /\ q # p => (UsedAsLocked(q)' <=> UsedAsLocked(q))
    BY <1>1, <2>1, <2>2 DEF Untouched, Stands, UsedAsLocked, AsLocked, Dir
  <2>4. UsedAsLocked(p)'
    BY <1>1, <2>1, <2>2 DEF Untouched, Stands, UsedAsLocked, AsLocked, Dir
  <2>5. ChecksFit'
    BY <1>1, <2>1, <2>2, <2>3, <2>4 DEF PacksInv, ChecksFit
  <2>. QED  BY <2>1, <2>5 DEF PacksInv, DigestsFit
<1>3. ASSUME load' = [load EXCEPT !.left = @ \ {p}, !.reading = {}, !.errors = TRUE]
      PROVE  PacksInv'
  <2>1. /\ DOMAIN load' = LoadFields /\ load' = [x \in LoadFields |-> load'[x]]
        /\ load'.step = "check" /\ load'.entries = load.entries /\ load'.left = load.left \ {p}
        /\ load'.reading = {} /\ load'.used = load.used /\ load'.recorded = load.recorded
        /\ load'.errors = TRUE
    BY <1>1, <1>3, LoadIsThere
  <2>2. \A q : /\ Untouched(q)' <=> Untouched(q)
               /\ Stands(q)' <=> Stands(q)
               /\ UsedAsLocked(q)' <=> UsedAsLocked(q)
    BY <1>1, <2>1, SameEntries
  <2>4. ChecksFit'  BY <1>1, <2>1, <2>2 DEF PacksInv, ChecksFit
  <2>. QED  BY <2>1, <2>4 DEF PacksInv, DigestsFit
<1>. QED  BY <1>2, <1>3 DEF ReadPack

LEMMA CheckedKeeps ==
    ASSUME PacksInv, Checked
    PROVE  PacksInv'
<1>1. load.step = "check" /\ load.left = {} /\ UNCHANGED <<dirs, touched>>  BY DEF Checked
<1>2. ASSUME ~ load.errors, load' = [load EXCEPT !.step = "digest", !.left = DOMAIN load.used]
      PROVE  PacksInv'
  <2>1. /\ DOMAIN load' = LoadFields /\ load' = [x \in LoadFields |-> load'[x]]
        /\ load'.step = "digest" /\ load'.entries = load.entries /\ load'.left = DOMAIN load.used
        /\ load'.used = load.used /\ load'.recorded = load.recorded
    BY <1>1, <1>2, LoadIsThere
  <2>2. \A q : /\ Untouched(q)' <=> Untouched(q)
               /\ Stands(q)' <=> Stands(q)
               /\ UsedAsLocked(q)' <=> UsedAsLocked(q)
    BY <1>1, <2>1, SameEntries
  <2>4. DigestsFit'  BY <1>1, <1>2, <2>1, <2>2 DEF PacksInv, ChecksFit, DigestsFit
  <2>. QED  BY <2>1, <2>4 DEF PacksInv, ChecksFit
<1>3. ASSUME load' = [step |-> "refused"]  PROVE PacksInv'
  BY <1>3 DEF PacksInv, ChecksFit, DigestsFit
<1>. QED  BY <1>2, <1>3 DEF Checked

LEMMA RecordKeeps ==
    ASSUME PacksInv, NEW p, RecordPack(p)
    PROVE  PacksInv'
<1>1. /\ load.step = "digest" /\ p \in load.left /\ p \in DOMAIN load.used
      /\ UNCHANGED <<dirs, touched>>
  BY DEF RecordPack, PacksInv, DigestsFit
<1>2. ASSUME Dir(p) \in DOMAIN dirs,
             load' = [load EXCEPT !.left = @ \ {p}, !.recorded = With(@, p, dirs[Dir(p)])]
      PROVE  PacksInv'
  <2>1. /\ DOMAIN load' = LoadFields /\ load' = [x \in LoadFields |-> load'[x]]
        /\ load'.step = "digest" /\ load'.entries = load.entries /\ load'.left = load.left \ {p}
        /\ load'.recorded = With(load.recorded, p, dirs[Dir(p)]) /\ load'.used = load.used
    BY <1>1, <1>2, LoadIsThere
  <2>2. DOMAIN load'.recorded = DOMAIN load.recorded \cup {p} /\ load'.recorded[p] = dirs[Dir(p)]
    BY <2>1 DEF With
  <2>3. \A q : /\ Untouched(q)' <=> Untouched(q)
               /\ Stands(q)' <=> Stands(q)
               /\ UsedAsLocked(q)' <=> UsedAsLocked(q)
    BY <1>1, <2>1, SameEntries
  <2>4. Untouched(p)' => load'.recorded[p] = load'.used[p]
    BY <1>1, <2>1, <2>2, <2>3 DEF PacksInv, DigestsFit, Stands, UsedAsLocked, AsLocked
  <2>5. ASSUME NEW q \in DOMAIN load'.recorded, Untouched(q)', q # p
        PROVE  load'.recorded[q] = load'.used[q]
    <3>1. q \in DOMAIN load.recorded /\ load.recorded[q] = load.used[q]
      BY <1>1, <2>2, <2>3, <2>5 DEF PacksInv, DigestsFit
    <3>. QED  BY <2>1, <2>5, <3>1 DEF With
  <2>6. DigestsFit'  BY <1>1, <2>1, <2>2, <2>3, <2>4, <2>5 DEF PacksInv, DigestsFit
  <2>. QED  BY <2>1, <2>6 DEF PacksInv, ChecksFit
<1>3. ASSUME load' = [step |-> "refused"]  PROVE PacksInv'
  BY <1>3 DEF PacksInv, ChecksFit, DigestsFit
<1>. QED  BY <1>2, <1>3 DEF RecordPack

LEMMA PackStepKeeps ==
    ASSUME PacksInv, PackStep
    PROVE  PacksInv'
  BY CommandSteps, EditKeepsPacks, BeginLoadKeeps, CheckedKeeps, CheckKeeps, ReadKeeps, RecordKeeps
  DEF PackStep

LEMMA NoPacks ==
    (load = NoLoad => PacksInv) /\ (load' = NoLoad => PacksInv')
  BY DEF NoLoad, PacksInv, ChecksFit, DigestsFit

LEMMA PacksFollow == PacksInv => PacksAreAsLocked
  BY DEF PacksInv, DigestsFit, PacksAreAsLocked, Loaded, UsedAsLocked, Untouched

-----------------------------------------------------------------------------
(***************************************************************************)
(* The resolution.                                                         *)
(***************************************************************************)
Stages   == {"none", "rules", "routes", "topics", "identities", "resolved", "unresolved", "failed"}
Unscanned == {"none", "rules", "routes", "topics"}

EvidenceFits ==
    stage # "none" => dep \in Dependency /\ exposed \subseteq Exposure /\ topics \subseteq Services

MatchFits ==
    /\ stage # "resolved" => match = None
    /\ stage = "resolved" => match.service \in Services \ {dep.from}

\* What the scan has read decides: the best of it, and whether another
\* service's is as good.
Read == index \ unread
ScanFits ==
    /\ index \subseteq Identity /\ IsFiniteSet(index) /\ unread \subseteq index
    /\ stage \in Unscanned => index = {} /\ best = None /\ ambiguous = FALSE
    /\ stage = "identities" =>
           /\ best = None => \A j \in Read : ~ Eligible(j)
           /\ best # None => /\ best \in Read /\ Eligible(best)
                             /\ \A j \in Read : Eligible(j) => ~ Beats(j, best)
           /\ ambiguous \in BOOLEAN
           /\ ambiguous <=> best # None /\ \E j \in Read : Eligible(j) /\ Ties(j, best)

ResolutionInv ==
    stage \in Stages /\ EvidenceFits /\ MatchFits /\ ScanFits /\ IdentitiesDecideAlike

LEMMA NoResolution ==
    /\ InitResolution => ResolutionInv
    /\ DropResolution => ResolutionInv'
<1>1. ASSUME InitResolution  PROVE ResolutionInv
  BY <1>1, FS_EmptySet
  DEF InitResolution, ResolutionInv, Stages, Unscanned, EvidenceFits, MatchFits, ScanFits, Read,
      IdentitiesDecideAlike, Resolved
<1>2. ASSUME DropResolution  PROVE ResolutionInv'
  BY <1>2, FS_EmptySet
  DEF DropResolution, ResolutionInv, Stages, Unscanned, EvidenceFits, MatchFits, ScanFits, Read,
      IdentitiesDecideAlike, Resolved
<1>. QED  BY <1>1, <1>2

\* A set of at most n elements is finite.
LEMMA UpToIsFinite ==
    ASSUME NEW S, NEW n \in Nat, NEW T \in UpTo(S, n)
    PROVE  T \subseteq S /\ IsFiniteSet(T)
<1>1. CASE T = {}  BY <1>1, FS_EmptySet
<1>2. CASE T # {}
  <2>1. PICK f \in [1..n -> S] : T = {f[i] : i \in 1..n}  BY <1>2 DEF UpTo
  <2>2. f \in Surjection(1..n, T)  BY <2>1 DEF Surjection
  <2>. QED  BY <2>1, <2>2, FS_Interval, FS_Surjection
<1>. QED  BY <1>1, <1>2

LEMMA BeginKeeps ==
    ASSUME ResolutionInv, stage = "none", BeginResolution
    PROVE  ResolutionInv'
<1>1. exposed' \subseteq Exposure  BY UpToIsFinite, ResolutionAssumption DEF BeginResolution, ResolutionAssumption
<1>2. dep' \in Dependency /\ topics' \subseteq Services /\ stage' = "rules" /\ UNCHANGED <<scan, match>>
  BY DEF BeginResolution
<1>. QED
  BY <1>1, <1>2
  DEF scan, ResolutionInv, Stages, Unscanned, EvidenceFits, MatchFits, ScanFits, Read,
      IdentitiesDecideAlike, Resolved

\* Before the scan, whatever comes next: only an answer must name another
\* service.
LEMMA UnscannedKeeps ==
    ASSUME ResolutionInv, stage \in Unscanned \ {"none"}, UNCHANGED <<evidence, scan>>,
           \/ \E next \in Stages \ {"none", "identities", "resolved"} : Pass(next)
           \/ \E s \in Services \ {dep.from} : \E by : Resolve(s, by)
    PROVE  ResolutionInv'
<1>1. CASE \E next \in Stages \ {"none", "identities", "resolved"} : Pass(next)
  BY <1>1
  DEF Pass, evidence, scan, ResolutionInv, Stages, Unscanned, EvidenceFits, MatchFits, ScanFits, Read,
      IdentitiesDecideAlike, Resolved
<1>2. ASSUME NEW s \in Services \ {dep.from}, NEW by, Resolve(s, by)
      PROVE  ResolutionInv'
  <2>1. stage' = "resolved" /\ match'.service = s /\ UNCHANGED <<evidence, scan>>  BY <1>2 DEF Resolve
  <2>. QED
    BY <2>1
    DEF evidence, scan, ResolutionInv, Stages, Unscanned, EvidenceFits, MatchFits, ScanFits, Read,
        IdentitiesDecideAlike, Resolved
<1>. QED  BY <1>1, <1>2

LEMMA RulesKeep ==
    ASSUME ResolutionInv, ApplyRules
    PROVE  ResolutionInv'
<1>1. PICK rules \in UpTo(Rule, MaxRules) :
        LET named == {r.service : r \in Decisive(rules)} IN
        \/ named = {} /\ Pass("routes")
        \/ Cardinality(named) = 1 /\ Resolve(CHOOSE s \in named : TRUE, "rule")
        \/ Cardinality(named) > 1 /\ Pass("failed")
  BY DEF ApplyRules
<1>. DEFINE named == {r.service : r \in Decisive(rules)}
<1>2. rules \subseteq Rule  BY UpToIsFinite, ResolutionAssumption DEF ResolutionAssumption
<1>3. named \subseteq Services \ {dep.from}
  BY <1>2 DEF Decisive, Candidates, Rule
<1>4. stage \in Unscanned \ {"none"} /\ UNCHANGED <<evidence, scan>>
  BY DEF ApplyRules, Unscanned
<1>5. Cardinality(named) = 1 => (CHOOSE s \in named : TRUE) \in Services \ {dep.from}
  <2>1. Cardinality(named) = 1 => named # {}  BY FS_EmptySet
  <2>. QED  BY <1>3, <2>1
<1>6. {"routes", "failed"} \subseteq Stages \ {"none", "identities", "resolved"}  BY DEF Stages
<1>. QED  BY <1>1, <1>4, <1>5, <1>6, UnscannedKeeps

LEMMA RouteKeeps ==
    ASSUME ResolutionInv, MatchRoute \/ NoRoute \/ MatchTopic
    PROVE  ResolutionInv'
<1>1. stage \in Unscanned \ {"none"} /\ UNCHANGED <<evidence, scan>>
  BY DEF MatchRoute, NoRoute, MatchTopic, Unscanned
<1>2. exposed \subseteq Exposure /\ topics \subseteq Services
  BY <1>1 DEF ResolutionInv, EvidenceFits
<1>3. {"unresolved", "topics"} \subseteq Stages \ {"none", "identities", "resolved"}  BY DEF Stages
<1>4. CASE MatchRoute
  <2>1. PICK x \in RouteOwner : Resolve(x.service, "route")  BY <1>4 DEF MatchRoute
  <2>2. x.service \in Services \ {dep.from}
    BY <1>2 DEF RouteOwner, SameRoute, OfOthers, Exposure
  <2>. QED  BY <1>1, <2>1, <2>2, UnscannedKeeps
<1>5. CASE NoRoute  BY <1>1, <1>3, <1>5, UnscannedKeeps DEF NoRoute
<1>6. CASE MatchTopic
  <2>1. PICK s \in topics \ {dep.from} : Resolve(s, "topic")  BY <1>6 DEF MatchTopic
  <2>. QED  BY <1>1, <1>2, <2>1, UnscannedKeeps
<1>. QED  BY <1>4, <1>5, <1>6

LEMMA NoTopicKeeps ==
    ASSUME ResolutionInv, NoTopic
    PROVE  ResolutionInv'
<1>1. index' \subseteq Identity /\ IsFiniteSet(index') /\ unread' = index'
  BY UpToIsFinite, ResolutionAssumption DEF NoTopic, ResolutionAssumption
<1>2. /\ stage = "topics" /\ stage' = "identities"
      /\ UNCHANGED <<dep, exposed, topics, best, ambiguous, match>>
  BY DEF NoTopic, Pass, evidence
<1>3. best = None /\ ambiguous = FALSE  BY <1>2 DEF ResolutionInv, ScanFits, Unscanned
<1>4. ScanFits'  BY <1>1, <1>2, <1>3 DEF ResolutionInv, ScanFits, Unscanned, Read
<1>. QED
  BY <1>2, <1>4 DEF ResolutionInv, Stages, EvidenceFits, MatchFits, IdentitiesDecideAlike, Resolved

\* Identities are compared by tier and length.
LEMMA Comparisons ==
    ASSUME ResolutionInv
    PROVE  /\ \A i \in index : i.service \in Services /\ i.tier \in Nat /\ i.length \in Nat /\ i # None
           /\ \A i, j, k \in index : Beats(i, j) /\ ~ Beats(k, j) => ~ Beats(k, i) /\ ~ Ties(k, i)
           /\ \A i, j, k \in index : ~ Beats(i, j) /\ ~ Beats(j, i) /\ ~ Beats(k, j) => ~ Beats(k, i)
           /\ \A i, j \in index : Ties(i, j) => ~ Beats(i, j) /\ ~ Beats(j, i)
           /\ \A i, j \in index : ~ Beats(i, j) /\ ~ Beats(j, i) /\ i.service # j.service => Ties(i, j)
           /\ \A i \in index : ~ Beats(i, i)
<1>1. index \subseteq Identity  BY DEF ResolutionInv, ScanFits
<1>2. \A i \in index : i.service \in Services /\ i.tier \in Nat /\ i.length \in Nat
  BY <1>1 DEF Identity
<1>3. \A i \in index : i # None  BY <1>1, ResolutionAssumption DEF ResolutionAssumption
<1>. QED  BY <1>2, <1>3 DEF Beats, Ties

LEMMA ReadIdentityKeeps ==
    ASSUME ResolutionInv, ReadIdentity
    PROVE  ResolutionInv'
<1>1. /\ stage = "identities" /\ UNCHANGED <<dep, exposed, topics, index, stage, match>>
  BY DEF ReadIdentity, evidence
<1>2. PICK i \in unread :
        /\ unread' = unread \ {i}
        /\ \/ /\ Eligible(i) /\ (IF best = None THEN TRUE ELSE Beats(i, best))
              /\ best' = i /\ ambiguous' = FALSE
           \/ /\ ~(Eligible(i) /\ (IF best = None THEN TRUE ELSE Beats(i, best)))
              /\ ambiguous' = (ambiguous \/ (Eligible(i) /\ Ties(i, best)))
              /\ UNCHANGED best
  BY DEF ReadIdentity
<1>3. i \in index /\ unread \subseteq index /\ Read' = Read \cup {i} /\ Read \subseteq index
  BY <1>1, <1>2 DEF ResolutionInv, ScanFits, Read
<1>4. \A j : Eligible(j)' <=> Eligible(j)  BY <1>1 DEF Eligible
<1>5. \A j, k : /\ Beats(j, k)' <=> Beats(j, k)
                /\ Ties(j, k)' <=> Ties(j, k)
  BY DEF Beats, Ties
<1>6. ASSUME /\ Eligible(i) /\ (IF best = None THEN TRUE ELSE Beats(i, best))
           /\ best' = i /\ ambiguous' = FALSE
      PROVE ScanFits'
  <2>1. ASSUME NEW j \in Read, Eligible(j)  PROVE ~ Beats(j, i) /\ ~ Ties(j, i)
    BY <1>1, <1>3, <1>6, <2>1, Comparisons DEF ResolutionInv, ScanFits
  <2>2. ~ Beats(i, i) /\ ~ Ties(i, i) /\ i # None  BY <1>3, Comparisons DEF Ties
  <2>. QED
    BY <1>1, <1>2, <1>3, <1>4, <1>5, <1>6, <2>1, <2>2 DEF ResolutionInv, ScanFits, Unscanned
<1>7. ASSUME /\ ~(Eligible(i) /\ (IF best = None THEN TRUE ELSE Beats(i, best)))
           /\ ambiguous' = (ambiguous \/ (Eligible(i) /\ Ties(i, best)))
           /\ UNCHANGED best
      PROVE ScanFits'
  BY <1>1, <1>2, <1>3, <1>4, <1>5, <1>7 DEF ResolutionInv, ScanFits, Unscanned
<1>8. ScanFits'  BY <1>2, <1>6, <1>7
<1>. QED
  BY <1>1, <1>8 DEF ResolutionInv, Stages, EvidenceFits, MatchFits, IdentitiesDecideAlike, Resolved

\* When all is read, the best identities are those that tie with the best.
LEMMA StrongestAre ==
    ASSUME ResolutionInv, stage = "identities", unread = {}
    PROVE  LET named == {i.service : i \in Strongest} IN
           /\ best = None => named = {}
           /\ best # None => best.service \in named
           /\ best # None /\ ~ ambiguous => named = {best.service}
           /\ ambiguous => best # None /\ \E s \in named : s # best.service
           /\ IsFiniteSet(named)
<1>. DEFINE named == {i.service : i \in Strongest}
<1>1. Read = index /\ ScanFits  BY DEF Read, ResolutionInv, ScanFits
<1>2. best = None => Strongest = {}  BY <1>1 DEF ScanFits, Strongest
<1>3. best # None => best \in Strongest  BY <1>1 DEF ScanFits, Strongest
<1>4. ASSUME best # None, NEW i \in Strongest, i.service # best.service  PROVE Ties(i, best)
  <2>1. i \in index /\ best \in index /\ Eligible(i) /\ Eligible(best)
    BY <1>1, <1>4 DEF ScanFits, Strongest
  <2>2. ~ Beats(i, best) /\ ~ Beats(best, i)  BY <1>1, <1>4, <2>1 DEF ScanFits, Strongest
  <2>. QED  BY <1>4, <2>1, <2>2, Comparisons
<1>5. ASSUME NEW j \in Read, best # None, Eligible(j), Ties(j, best)
      PROVE  j \in Strongest /\ j.service # best.service
  <2>1. best \in index /\ j \in index /\ Eligible(best)  BY <1>1, <1>5 DEF ScanFits
  <2>2. ~ Beats(j, best) /\ ~ Beats(best, j)  BY <1>5, <2>1, Comparisons
  <2>3. \A k \in index : Eligible(k) => ~ Beats(k, best)  BY <1>1, <1>5 DEF ScanFits
  <2>4. \A k \in index : Eligible(k) => ~ Beats(k, j)  BY <2>1, <2>2, <2>3, Comparisons
  <2>. QED  BY <1>5, <2>1, <2>4 DEF Strongest, Ties
<1>6. best # None /\ ~ ambiguous => named = {best.service}
  BY <1>1, <1>3, <1>4 DEF ScanFits, Strongest
<1>7. ambiguous => best # None /\ \E s \in named : s # best.service
  BY <1>1, <1>5 DEF ScanFits
<1>8. IsFiniteSet(named)
  <2>1. IsFiniteSet(Strongest)  BY <1>1, FS_Subset DEF ScanFits, Strongest
  <2>. DEFINE f == [i \in Strongest |-> i.service]
  <2>2. f \in Surjection(Strongest, named)  BY DEF Surjection
  <2>. QED  BY <2>1, <2>2, FS_Surjection
<1>. QED  BY <1>2, <1>3, <1>6, <1>7, <1>8

LEMMA SettleKeeps ==
    ASSUME ResolutionInv, Settle
    PROVE  ResolutionInv'
<1>. DEFINE named == {i.service : i \in Strongest}
<1>1. /\ stage = "identities" /\ unread = {} /\ match = None
      /\ UNCHANGED <<dep, exposed, topics, index, unread, best, ambiguous>>
  BY DEF Settle, evidence, scan, ResolutionInv, MatchFits
<1>2. Strongest' = Strongest  BY <1>1 DEF Strongest, Eligible, Beats
<1>3. /\ best = None => named = {}
      /\ best # None => best.service \in named
      /\ best # None /\ ~ ambiguous => named = {best.service}
      /\ ambiguous => best # None /\ \E s \in named : s # best.service
      /\ IsFiniteSet(named)
  BY <1>1, StrongestAre
<1>4. best # None => best.service \in Services \ {dep.from}
  BY <1>1, Comparisons DEF ResolutionInv, ScanFits, Read, Eligible
<1>5. ambiguous => Cardinality(named) > 1
  <2>1. Cardinality(named) \in Nat  BY <1>3, FS_CardinalityType
  <2>2. ambiguous => Cardinality(named) # 0  BY <1>3, FS_EmptySet
  <2>3. ambiguous => Cardinality(named) # 1  BY <1>3, FS_Singleton
  <2>. QED  BY <2>1, <2>2, <2>3
<1>6. ~ ambiguous => ~ Cardinality(named) > 1
  <2>1. best = None => Cardinality(named) = 0  BY <1>3, FS_EmptySet
  <2>2. best # None /\ ~ ambiguous => Cardinality(named) = 1  BY <1>3, FS_Singleton
  <2>. QED  BY <2>1, <2>2
<1>7. \/ ambiguous /\ stage' = "failed" /\ match' = None
      \/ ~ ambiguous /\ best = None /\ stage' = "unresolved" /\ match' = None
      \/ ~ ambiguous /\ best # None /\ stage' = "resolved" /\ match'.service = best.service
  BY <1>1 DEF Settle, Pass, Resolve
<1>8. IdentitiesDecideAlike'
  BY <1>1, <1>2, <1>3, <1>4, <1>5, <1>6, <1>7 DEF IdentitiesDecideAlike
<1>9. ScanFits'  BY <1>1, <1>7 DEF ResolutionInv, ScanFits, Unscanned
<1>. QED  BY <1>1, <1>4, <1>7, <1>8, <1>9 DEF ResolutionInv, Stages, EvidenceFits, MatchFits

LEMMA ResolutionStepKeeps ==
    ASSUME ResolutionInv, ResolutionStep
    PROVE  ResolutionInv'
  BY RulesKeep, RouteKeeps, NoTopicKeeps, ReadIdentityKeeps, SettleKeeps DEF ResolutionStep

LEMMA ResolutionStays ==
    ASSUME ResolutionInv, UNCHANGED resolution
    PROVE  ResolutionInv'
<1>1. UNCHANGED <<dep, exposed, topics, index, unread, best, ambiguous, stage, match>>  BY DEF resolution
<1>2. UNCHANGED <<Strongest, Read>> /\ (\A i : Eligible(i)' <=> Eligible(i))
  BY <1>1 DEF Strongest, Eligible, Beats, Read
<1>3. \A i, j : /\ Beats(i, j)' <=> Beats(i, j)
                /\ Ties(i, j)' <=> Ties(i, j)
  BY DEF Beats, Ties
<1>. QED
  BY <1>1, <1>2, <1>3
  DEF ResolutionInv, EvidenceFits, MatchFits, ScanFits, IdentitiesDecideAlike, Resolved

-----------------------------------------------------------------------------
(***************************************************************************)
(* Nodes within some steps.  Nothing here is by induction: what holds of a *)
(* number and of the next one holds of all, since there is no least number *)
(* it does not hold of.                                                    *)
(***************************************************************************)
LEMMA HasLeast ==
    ASSUME NEW T \in SUBSET Nat, T # {}
    PROVE  \E m \in T : \A k \in T : m <= k
<1>. DEFINE L == OpToRel(<, Nat)
<1>1. IsWellFoundedOn(L, Nat)  BY NatLessThanWellFounded
<1>. HIDE DEF L
<1>2. PICK m \in T : \A k \in T : ~ (<<k, m>> \in L)  BY <1>1, WFMin
<1>3. ASSUME NEW k \in T, k < m  PROVE <<k, m>> \in L
  <2>. DEFINE s == <<k, m>>
  <2>1. s \in Nat \X Nat /\ s[1] < s[2]  BY <1>3
  <2>. HIDE DEF s
  <2>2. s \in {ss \in Nat \X Nat : ss[1] < ss[2]}  BY <2>1
  <2>3. s \in L  BY <2>2 DEF L, OpToRel
  <2>. QED  BY <2>3 DEF s
<1>4. ASSUME NEW k \in T  PROVE m <= k
  <2>1. ~ k < m  BY <1>2, <1>3
  <2>2. k \in Nat /\ m \in Nat  OBVIOUS
  <2>. QED  BY <2>1, <2>2
<1>. QED  BY <1>4

\* What holds at zero and passes from each number to the next.
LEMMA HoldsOfAll ==
    ASSUME NEW n \in Nat, NEW T \in SUBSET (0..n), 0 \in T, \A k \in T : k < n => k + 1 \in T
    PROVE  0..n \subseteq T
<1>. SUFFICES ASSUME (0..n) \ T # {}  PROVE FALSE  OBVIOUS
<1>1. PICK m \in (0..n) \ T : \A k \in (0..n) \ T : m <= k
  <2>1. (0..n) \ T \in SUBSET Nat  OBVIOUS
  <2>. QED  BY <2>1, HasLeast
<1>2. m # 0 /\ m - 1 \in 0..n /\ ~ m <= m - 1  BY <1>1
<1>3. m - 1 \in T  BY <1>1, <1>2
<1>. QED  BY <1>1, <1>2, <1>3

IsBall(ball, next, from, k) ==
    ball = [i \in 0..k |-> IF i = 0 THEN from ELSE ball[i - 1] \cup UNION {next[n] : n \in ball[i - 1]}]

LEMMA BallExists ==
    ASSUME NEW next, NEW from, NEW k \in Nat
    PROVE  \E ball : IsBall(ball, next, from, k)
<1>. DEFINE T == {i \in 0..k : \E ball : IsBall(ball, next, from, i)}
<1>1. 0 \in T
  <2>. DEFINE ball == [i \in 0..0 |-> from]
  <2>1. IsBall(ball, next, from, 0)  BY DEF IsBall
  <2>. QED  BY <2>1
<1>2. ASSUME NEW m \in T, m < k  PROVE m + 1 \in T
  <2>1. PICK ball : IsBall(ball, next, from, m)  OBVIOUS
  <2>. DEFINE more == [i \in 0..m + 1 |->
                          IF i = m + 1 THEN ball[m] \cup UNION {next[n] : n \in ball[m]} ELSE ball[i]]
  <2>2. \A i \in 0..m : more[i] = ball[i]  OBVIOUS
  <2>3. \A i \in 0..m : ball[i] =
            IF i = 0 THEN from ELSE ball[i - 1] \cup UNION {next[n] : n \in ball[i - 1]}
    BY <2>1 DEF IsBall
  <2>4. \A i \in 0..m + 1 : more[i] =
            IF i = 0 THEN from ELSE more[i - 1] \cup UNION {next[n] : n \in more[i - 1]}
    <3>. SUFFICES ASSUME NEW i \in 0..m + 1
                  PROVE  more[i] = IF i = 0 THEN from
                                   ELSE more[i - 1] \cup UNION {next[n] : n \in more[i - 1]}
      OBVIOUS
    <3>1. CASE i = m + 1
      <4>1. i - 1 = m /\ i # 0 /\ m \in 0..m  BY <3>1
      <4>2. more[m] = ball[m]  BY <2>2, <4>1
      <4>. QED  BY <3>1, <4>1, <4>2
    <3>2. CASE i # m + 1
      <4>1. i \in 0..m /\ (i # 0 => i - 1 \in 0..m)  BY <3>2
      <4>2. more[i] = ball[i] /\ (i # 0 => more[i - 1] = ball[i - 1])  BY <2>2, <4>1
      <4>. QED  BY <2>3, <4>1, <4>2
    <3>. QED  BY <3>1, <3>2
  <2>. HIDE DEF more
  <2>5. IsBall(more, next, from, m + 1)  BY <2>4 DEF IsBall, more
  <2>. QED  BY <1>2, <2>5
<1>3. T \in SUBSET (0..k)  OBVIOUS
<1>4. k \in T
  <2>. HIDE DEF T
  <2>. QED  BY <1>1, <1>2, <1>3, HoldsOfAll
<1>. QED  BY <1>4

LEMMA WithinIsBall ==
    ASSUME NEW next, NEW from, NEW k \in Nat
    PROVE  \E ball : IsBall(ball, next, from, k) /\ Within(next, from, k) = ball[k]
<1>1. \E ball : IsBall(ball, next, from, k)  BY BallExists
<1>. DEFINE ball == CHOOSE f : IsBall(f, next, from, k)
<1>2. IsBall(ball, next, from, k)  BY <1>1
<1>3. Within(next, from, k) = ball[k]  BY DEF IsBall, Within
<1>. QED  BY <1>2, <1>3

\* Each ball is the one before it and its neighbours.
Grows(ball, next, from, k) ==
    /\ ball[0] = from
    /\ \A i \in 0..k : i < k => ball[i + 1] = ball[i] \cup UNION {next[n] : n \in ball[i]}

LEMMA WithinGrows ==
    ASSUME NEW next, NEW from, NEW k \in Nat
    PROVE  \E ball : Grows(ball, next, from, k) /\ Within(next, from, k) = ball[k]
<1>1. PICK ball : IsBall(ball, next, from, k) /\ Within(next, from, k) = ball[k]  BY WithinIsBall
<1>2. \A i \in 0..k :
          ball[i] = IF i = 0 THEN from ELSE ball[i - 1] \cup UNION {next[n] : n \in ball[i - 1]}
  BY <1>1 DEF IsBall
<1>3. ball[0] = from
  <2>1. 0 \in 0..k  OBVIOUS
  <2>. QED  BY <1>2, <2>1
<1>4. ASSUME NEW i \in 0..k, i < k
      PROVE  ball[i + 1] = ball[i] \cup UNION {next[n] : n \in ball[i]}
  <2>1. i + 1 \in 0..k /\ i + 1 # 0 /\ (i + 1) - 1 = i  BY <1>4
  <2>. QED  BY <1>2, <2>1
<1>. QED  BY <1>1, <1>3, <1>4 DEF Grows

\* What is closed under next and has the first nodes has all of them.
LEMMA WithinClosed ==
    ASSUME NEW next, NEW from, NEW k \in Nat, NEW D, from \subseteq D, \A n \in D : next[n] \subseteq D
    PROVE  from \subseteq Within(next, from, k) /\ Within(next, from, k) \subseteq D
<1>1. PICK ball : Grows(ball, next, from, k) /\ Within(next, from, k) = ball[k]  BY WithinGrows
<1>2. /\ ball[0] = from
      /\ \A i \in 0..k : i < k => ball[i + 1] = ball[i] \cup UNION {next[n] : n \in ball[i]}
  BY <1>1 DEF Grows
<1>. DEFINE T == {i \in 0..k : from \subseteq ball[i] /\ ball[i] \subseteq D}
<1>3. 0 \in T  BY <1>2
<1>4. ASSUME NEW i \in T, i < k  PROVE i + 1 \in T
  BY <1>2, <1>4
<1>5. T \in SUBSET (0..k)  OBVIOUS
<1>6. k \in T
  <2>. HIDE DEF T
  <2>. QED  BY <1>3, <1>4, <1>5, HoldsOfAll
<1>. QED  BY <1>1, <1>6

\* More neighbours reach more.
LEMMA WithinMonotone ==
    ASSUME NEW next, NEW more, NEW from, NEW k \in Nat, NEW D, from \subseteq D,
           \A n \in D : next[n] \subseteq more[n] /\ more[n] \subseteq D
    PROVE  Within(next, from, k) \subseteq Within(more, from, k)
<1>1. PICK ball : Grows(ball, next, from, k) /\ Within(next, from, k) = ball[k]  BY WithinGrows
<1>2. PICK wide : Grows(wide, more, from, k) /\ Within(more, from, k) = wide[k]  BY WithinGrows
<1>3. /\ ball[0] = from
      /\ \A i \in 0..k : i < k => ball[i + 1] = ball[i] \cup UNION {next[n] : n \in ball[i]}
  BY <1>1 DEF Grows
<1>4. /\ wide[0] = from
      /\ \A i \in 0..k : i < k => wide[i + 1] = wide[i] \cup UNION {more[n] : n \in wide[i]}
  BY <1>2 DEF Grows
<1>. DEFINE T == {i \in 0..k : ball[i] \subseteq wide[i] /\ wide[i] \subseteq D}
<1>5. 0 \in T  BY <1>3, <1>4
<1>6. ASSUME NEW i \in T, i < k  PROVE i + 1 \in T
  BY <1>3, <1>4, <1>6
<1>7. T \in SUBSET (0..k)  OBVIOUS
<1>8. k \in T
  <2>. HIDE DEF T
  <2>. QED  BY <1>5, <1>6, <1>7, HoldsOfAll
<1>. QED  BY <1>1, <1>2, <1>8

\* As many steps as there are nodes are enough to reach all there is to reach.
LEMMA WithinAll ==
    ASSUME NEW N, IsFiniteSet(N), NEW next, NEW from, from # {}, from \subseteq N,
           \A n \in N : next[n] \subseteq N
    PROVE  LET all == Within(next, from, Cardinality(N)) IN
           /\ from \subseteq all /\ all \subseteq N
           /\ \A n \in all : next[n] \subseteq all
<1>. DEFINE k == Cardinality(N)
            all == Within(next, from, k)
<1>1. k \in Nat  BY FS_CardinalityType
<1>2. from \subseteq all /\ all \subseteq N  BY <1>1, WithinClosed
<1>3. PICK ball : Grows(ball, next, from, k) /\ all = ball[k]  BY <1>1, WithinGrows
<1>4. /\ ball[0] = from
      /\ \A i \in 0..k : i < k => ball[i + 1] = ball[i] \cup UNION {next[n] : n \in ball[i]}
  BY <1>3 DEF Grows
<1>. DEFINE Closed(S) == \A n \in S : next[n] \subseteq S
            T == {i \in 0..k : ball[i] \subseteq N /\ (Closed(ball[i]) \/ Cardinality(ball[i]) >= i + 1)}
<1>. HIDE DEF k
<1>5. 0 \in T
  <2>1. IsFiniteSet(from) /\ Cardinality(from) \in Nat /\ Cardinality(from) # 0
    BY FS_Subset, FS_EmptySet, FS_CardinalityType
  <2>. QED  BY <1>1, <1>4, <2>1
<1>6. ASSUME NEW i \in T, i < k  PROVE i + 1 \in T
  <2>1. ball[i + 1] = ball[i] \cup UNION {next[n] : n \in ball[i]} /\ ball[i + 1] \subseteq N
    BY <1>4, <1>6
  <2>2. CASE Closed(ball[i])
    <3>1. ball[i + 1] = ball[i]  BY <2>1, <2>2
    <3>2. i + 1 \in 0..k  BY <1>1, <1>6
    <3>. QED  BY <2>1, <2>2, <3>1, <3>2
  <2>3. CASE ~ Closed(ball[i])
    <3>1. PICK m \in ball[i + 1] : m \notin ball[i]  BY <2>1, <2>3
    <3>2. IsFiniteSet(ball[i]) /\ IsFiniteSet(ball[i + 1])  BY <1>6, <2>1, FS_Subset
    <3>3. /\ IsFiniteSet(ball[i] \cup {m})
          /\ Cardinality(ball[i] \cup {m}) = Cardinality(ball[i]) + 1
      BY <3>1, <3>2, FS_AddElement
    <3>4. ball[i] \cup {m} \subseteq ball[i + 1]  BY <2>1, <3>1
    <3>5. Cardinality(ball[i] \cup {m}) <= Cardinality(ball[i + 1])  BY <3>2, <3>4, FS_Subset
    <3>6. Cardinality(ball[i]) \in Nat /\ Cardinality(ball[i + 1]) \in Nat  BY <3>2, FS_CardinalityType
    <3>7. Cardinality(ball[i]) >= i + 1 /\ i \in Nat  BY <1>6, <2>3
    <3>8. Cardinality(ball[i + 1]) >= (i + 1) + 1  BY <3>3, <3>5, <3>6, <3>7
    <3>9. i + 1 \in 0..k  BY <1>1, <1>6
    <3>. QED  BY <2>1, <3>8, <3>9
  <2>. QED  BY <2>2, <2>3
<1>7. T \in SUBSET (0..k)  OBVIOUS
<1>8. k \in T
  <2>. HIDE DEF T
  <2>. QED  BY <1>1, <1>5, <1>6, <1>7, HoldsOfAll
<1>9. Closed(all)
  <2>1. Cardinality(all) <= k  BY <1>2, FS_Subset DEF k
  <2>2. Cardinality(all) \in Nat  BY <1>2, FS_Subset, FS_CardinalityType
  <2>. QED  BY <1>1, <1>3, <1>8, <2>1, <2>2
<1>. QED  BY <1>2, <1>9 DEF k

-----------------------------------------------------------------------------
(***************************************************************************)
(* The ranks.                                                              *)
(***************************************************************************)
Orders(order, constraints) ==
    order \in [nodes -> Nat] /\ \A c \in constraints : order[c[1]] < order[c[2]]

\* The nodes before one, of which its rank is the longest chain at most.
Before(order, n) == {m \in nodes : order[m] < order[n]}

\* Nothing has been pushed.
Level == left = {} /\ passes = 0 /\ moved = FALSE

LayoutTypes ==
    /\ drawing \in {"none", "constraints", "ranks", "ranked"}
    /\ drawing = "none" => kept = {} /\ dropped = {} /\ Level
    /\ drawing # "none" =>
           /\ IsFiniteSet(nodes)
           /\ wanted \cup kept \cup dropped \subseteq nodes \X nodes
           /\ rank \in [nodes -> Nat]

ConstraintsFit ==
    drawing # "none" =>
        /\ \E order : Orders(order, kept)
        /\ \A c \in dropped : Reaches(kept, c[2], c[1])
        /\ drawing = "constraints" => Level /\ rank = [n \in nodes |-> 0]

\* A constraint that is not satisfied starts at a node that was pushed since
\* the constraint was looked at, and so once in each pass.
RanksFit ==
    drawing = "ranks" =>
        /\ left \subseteq kept /\ passes \in Nat
        /\ \A n \in nodes : rank[n] > 0 => \E c \in kept : c[2] = n /\ rank[c[1]] >= rank[n] - 1
        /\ \A order : Orders(order, kept) => \A n \in nodes : rank[n] <= Cardinality(Before(order, n))
        /\ ~ moved => \A c \in kept \ left : rank[c[1]] < rank[c[2]]
        /\ \A c \in kept : rank[c[1]] >= rank[c[2]] =>
               rank[c[1]] >= passes /\ (c \notin left => rank[c[1]] >= passes + 1)

LayoutInv == LayoutTypes /\ ConstraintsFit /\ RanksFit /\ EdgesPointRight

LEMMA NoLayout ==
    /\ InitLayout => LayoutInv
    /\ DropLayout => LayoutInv'
<1>1. ASSUME InitLayout  PROVE LayoutInv
  BY <1>1 DEF InitLayout, LayoutInv, LayoutTypes, ConstraintsFit, RanksFit, EdgesPointRight, Level
<1>2. ASSUME DropLayout  PROVE LayoutInv'
  BY <1>2 DEF DropLayout, LayoutInv, LayoutTypes, ConstraintsFit, RanksFit, EdgesPointRight, Level
<1>. QED  BY <1>1, <1>2

LEMMA LayoutStays ==
    ASSUME LayoutInv, UNCHANGED layout
    PROVE  LayoutInv'
<1>1. UNCHANGED <<wanted, kept, dropped, nodes, rank, left, passes, moved, drawing>>  BY DEF layout
<1>2. \A order : /\ \A c : Orders(order, c)' <=> Orders(order, c)
                 /\ \A n : Before(order, n)' = Before(order, n)
  BY <1>1 DEF Orders, Before
<1>3. \A c, x, y : Reaches(c, x, y)' <=> Reaches(c, x, y)  BY <1>1 DEF Reaches
<1>. QED
  BY <1>1, <1>2, <1>3 DEF LayoutInv, LayoutTypes, ConstraintsFit, RanksFit, EdgesPointRight, Level

LEMMA BeginLayoutKeeps ==
    ASSUME LayoutInv, graph \subseteq Edge, BeginLayout(graph)
    PROVE  LayoutInv'
<1>1. PICK read \in SUBSET {e \in graph : e.to \in Resources} : wanted' = {Wanted(e, read) : e \in graph}
  BY DEF BeginLayout
<1>2. /\ drawing = "none" /\ drawing' = "constraints"
      /\ nodes' = Services \cup UNION {{e.from, e.to} : e \in graph}
      /\ rank' = [n \in nodes' |-> 0]
      /\ UNCHANGED <<kept, dropped, left, passes, moved>>
  BY DEF BeginLayout
<1>3. kept = {} /\ dropped = {} /\ Level  BY <1>2 DEF LayoutInv, LayoutTypes
<1>4. nodes' \subseteq Nodes  BY <1>2, GraphAssumption DEF GraphAssumption, Edge, Link, Nodes
<1>5. IsFiniteSet(nodes')  BY <1>4, GraphAssumption, FS_Subset DEF GraphAssumption
<1>6. wanted' \subseteq nodes' \X nodes'  BY <1>1, <1>2 DEF Wanted
<1>7. LayoutTypes'  BY <1>2, <1>3, <1>5, <1>6 DEF LayoutTypes, Level
<1>8. \E order : order \in [nodes' -> Nat] /\ \A c \in kept' : order[c[1]] < order[c[2]]
  <2>1. [n \in nodes' |-> 0] \in [nodes' -> Nat] /\ kept' = {}  BY <1>2, <1>3
  <2>. QED  BY <2>1
<1>9. ConstraintsFit'  BY <1>2, <1>3, <1>8 DEF ConstraintsFit, Level, Orders
<1>. QED  BY <1>2, <1>7, <1>9 DEF LayoutInv, RanksFit, EdgesPointRight

LEMMA ReachesMore ==
    ASSUME LayoutInv, drawing # "none", NEW more, kept \subseteq more, more \subseteq nodes \X nodes,
           NEW x \in nodes, NEW y, Reaches(kept, x, y)
    PROVE  Reaches(more, x, y)
<1>. DEFINE Next1 == [n \in nodes |-> {c[2] : c \in {d \in kept : d[1] = n}}]
            Next2 == [n \in nodes |-> {c[2] : c \in {d \in more : d[1] = n}}]
<1>1. \A n \in nodes : Next1[n] \subseteq Next2[n] /\ Next2[n] \subseteq nodes  OBVIOUS
<1>2. Cardinality(nodes) \in Nat  BY FS_CardinalityType DEF LayoutInv, LayoutTypes
<1>3. Within(Next1, {x}, Cardinality(nodes)) \subseteq Within(Next2, {x}, Cardinality(nodes))
  <2>. HIDE DEF Next1, Next2
  <2>1. {x} \subseteq nodes  OBVIOUS
  <2>. QED  BY <1>1, <1>2, <2>1, WithinMonotone
<1>. QED  BY <1>3 DEF Reaches

\* A constraint that closes no cycle: what can be reached from its right node
\* is moved behind its left node.
LEMMA OrderExtends ==
    ASSUME LayoutInv, drawing # "none", NEW c \in nodes \X nodes, ~ Reaches(kept, c[2], c[1])
    PROVE  \E order : Orders(order, kept \cup {c})
<1>. DEFINE Next1 == [n \in nodes |-> {d[2] : d \in {x \in kept : x[1] = n}}]
            D == Within(Next1, {c[2]}, Cardinality(nodes))
<1>1. PICK order : Orders(order, kept)  BY DEF LayoutInv, ConstraintsFit
<1>2. c[1] \in nodes /\ c[2] \in nodes /\ kept \subseteq nodes \X nodes
  BY DEF LayoutInv, LayoutTypes
<1>3. c[2] \in D /\ c[1] \notin D /\ \A n \in D : n \in nodes /\ Next1[n] \subseteq D
  <2>1. \A n \in nodes : Next1[n] \subseteq nodes  BY <1>2
  <2>2. {c[2]} \subseteq nodes /\ {c[2]} # {} /\ IsFiniteSet(nodes)  BY <1>2 DEF LayoutInv, LayoutTypes
  <2>3. {c[2]} \subseteq D /\ D \subseteq nodes /\ \A n \in D : Next1[n] \subseteq D
    <3>. HIDE DEF Next1
    <3>. QED  BY <2>1, <2>2, WithinAll
  <2>4. c[1] \notin D  BY DEF Reaches
  <2>. QED  BY <2>3, <2>4
<1>4. \A x \in kept : x[1] \in D => x[2] \in D
  <2>. SUFFICES ASSUME NEW x \in kept, x[1] \in D  PROVE x[2] \in D  OBVIOUS
  <2>1. x[2] \in Next1[x[1]]  BY <1>2
  <2>. HIDE DEF D, Next1
  <2>. QED  BY <1>3, <2>1
<1>. HIDE DEF D
<1>. DEFINE M == order[c[1]] + 1
            more == [n \in nodes |-> IF n \in D THEN order[n] + M ELSE order[n]]
<1>5. order \in [nodes -> Nat] /\ M \in Nat /\ \A x \in kept : order[x[1]] < order[x[2]]
  BY <1>1, <1>2 DEF Orders
<1>6. more \in [nodes -> Nat]  BY <1>5
<1>7. ASSUME NEW x \in kept  PROVE more[x[1]] < more[x[2]]
  <2>1. x[1] \in nodes /\ x[2] \in nodes  BY <1>2
  <2>. QED  BY <1>4, <1>5, <2>1
<1>8. more[c[1]] < more[c[2]]  BY <1>2, <1>3, <1>5
<1>9. Orders(more, kept \cup {c})
  <2>. HIDE DEF more
  <2>. QED  BY <1>6, <1>7, <1>8 DEF Orders
<1>. QED  BY <1>9

LEMMA ConstrainKeeps ==
    ASSUME LayoutInv, Constrain
    PROVE  LayoutInv'
<1>1. PICK c \in wanted :
        /\ wanted' = wanted \ {c}
        /\ IF Reaches(kept, c[2], c[1])
           THEN dropped' = dropped \cup {c} /\ UNCHANGED kept
           ELSE kept' = kept \cup {c} /\ UNCHANGED dropped
  BY DEF Constrain
<1>2. drawing = "constraints" /\ UNCHANGED <<nodes, rank, left, passes, moved, drawing>>
  BY DEF Constrain
<1>3. /\ c \in nodes \X nodes /\ wanted \cup kept \cup dropped \subseteq nodes \X nodes
      /\ IsFiniteSet(nodes) /\ rank \in [nodes -> Nat] /\ Level /\ rank = [n \in nodes |-> 0]
      /\ \E order : Orders(order, kept)
      /\ \A x \in dropped : Reaches(kept, x[2], x[1])
  BY <1>2 DEF LayoutInv, LayoutTypes, ConstraintsFit
<1>4. \A order, s : Orders(order, s)' <=> Orders(order, s)  BY <1>2 DEF Orders
<1>5. \A s, x, y : Reaches(s, x, y)' <=> Reaches(s, x, y)  BY <1>2 DEF Reaches
<1>6. LayoutTypes' /\ Level'
  BY <1>1, <1>2, <1>3 DEF LayoutTypes, Level
<1>7. ConstraintsFit'
  <2>1. CASE Reaches(kept, c[2], c[1])
    <3>1. dropped' = dropped \cup {c} /\ kept' = kept  BY <1>1, <2>1
    <3>. QED  BY <1>2, <1>3, <1>4, <1>5, <1>6, <2>1, <3>1 DEF ConstraintsFit
  <2>2. CASE ~ Reaches(kept, c[2], c[1])
    <3>1. kept' = kept \cup {c} /\ dropped' = dropped  BY <1>1, <2>2
    <3>2. \E order : Orders(order, kept')  BY <1>2, <1>3, <2>2, <3>1, OrderExtends
    <3>3. ASSUME NEW x \in dropped  PROVE Reaches(kept', x[2], x[1])
      <4>1. x \in nodes \X nodes /\ Reaches(kept, x[2], x[1])  BY <1>3
      <4>2. x[2] \in nodes /\ kept' \subseteq nodes \X nodes /\ kept \subseteq kept'  BY <1>3, <3>1, <4>1
      <4>. QED  BY <1>2, <4>1, <4>2, ReachesMore
    <3>. QED  BY <1>2, <1>3, <1>4, <1>5, <1>6, <3>1, <3>2, <3>3 DEF ConstraintsFit
  <2>. QED  BY <2>1, <2>2
<1>. QED  BY <1>2, <1>6, <1>7 DEF LayoutInv, RanksFit, EdgesPointRight

LEMMA BeginRanksKeeps ==
    ASSUME LayoutInv, BeginRanks
    PROVE  LayoutInv'
<1>1. /\ drawing = "constraints" /\ left' = kept /\ drawing' = "ranks"
      /\ UNCHANGED <<wanted, kept, dropped, nodes, rank, passes, moved>>
  BY DEF BeginRanks
<1>2. passes = 0 /\ rank = [n \in nodes |-> 0] /\ kept \subseteq nodes \X nodes /\ IsFiniteSet(nodes)
  BY <1>1 DEF LayoutInv, LayoutTypes, ConstraintsFit, Level
<1>3. \A order : /\ \A c : Orders(order, c)' <=> Orders(order, c)
                 /\ \A n : Before(order, n)' = Before(order, n)
  BY <1>1 DEF Orders, Before
<1>4. \A c, x, y : Reaches(c, x, y)' <=> Reaches(c, x, y)  BY <1>1 DEF Reaches
<1>5. ASSUME NEW order, NEW n \in nodes  PROVE Cardinality(Before(order, n)) \in Nat
  BY <1>2, FS_Subset, FS_CardinalityType DEF Before
<1>6. \A n \in nodes : rank[n] = 0  BY <1>2
<1>7. \A c \in kept : rank[c[1]] = 0  BY <1>2, <1>6
<1>8. RanksFit'  BY <1>1, <1>2, <1>3, <1>5, <1>6, <1>7 DEF RanksFit
<1>9. LayoutTypes' /\ ConstraintsFit'
  BY <1>1, <1>3, <1>4 DEF LayoutInv, LayoutTypes, ConstraintsFit
<1>. QED  BY <1>1, <1>8, <1>9 DEF LayoutInv, EdgesPointRight

LEMMA PushKeeps ==
    ASSUME LayoutInv, Push
    PROVE  LayoutInv'
<1>1. PICK c \in left :
        /\ left' = left \ {c}
        /\ IF rank[c[2]] < rank[c[1]] + 1
           THEN rank' = [rank EXCEPT ![c[2]] = rank[c[1]] + 1] /\ moved' = TRUE
           ELSE UNCHANGED <<rank, moved>>
  BY DEF Push
<1>2. drawing = "ranks" /\ UNCHANGED <<wanted, kept, dropped, nodes, passes, drawing>>  BY DEF Push
<1>3. /\ kept \subseteq nodes \X nodes /\ IsFiniteSet(nodes) /\ rank \in [nodes -> Nat]
      /\ left \subseteq kept /\ passes \in Nat /\ c \in kept
      /\ \E order : Orders(order, kept)
  BY <1>1, <1>2 DEF LayoutInv, LayoutTypes, ConstraintsFit, RanksFit
<1>4. \A order : /\ \A s : Orders(order, s)' <=> Orders(order, s)
                 /\ \A n : Before(order, n)' = Before(order, n)
  BY <1>2 DEF Orders, Before
<1>5. \A s, x, y : Reaches(s, x, y)' <=> Reaches(s, x, y)  BY <1>2 DEF Reaches
<1>6. c[1] \in nodes /\ c[2] \in nodes /\ c[1] # c[2] /\ \A x \in kept : x[1] \in nodes /\ x[2] \in nodes
  BY <1>3 DEF Orders
<1>7. rank' \in [nodes -> Nat]  BY <1>1, <1>3, <1>6
<1>8. LayoutTypes' /\ ConstraintsFit'
  BY <1>2, <1>4, <1>5, <1>7 DEF LayoutInv, LayoutTypes, ConstraintsFit
<1>9. CASE ~ rank[c[2]] < rank[c[1]] + 1
  <2>1. left' = left \ {c} /\ UNCHANGED <<rank, moved>> /\ rank[c[1]] < rank[c[2]]
    BY <1>1, <1>3, <1>6, <1>9
  <2>2. RanksFit'
    BY <1>2, <1>3, <1>4, <1>6, <2>1 DEF LayoutInv, RanksFit
  <2>. QED  BY <1>2, <1>8, <2>2 DEF LayoutInv, EdgesPointRight
<1>10. CASE rank[c[2]] < rank[c[1]] + 1
  <2>1. /\ left' = left \ {c} /\ moved' = TRUE
        /\ rank'[c[2]] = rank[c[1]] + 1 /\ \A n \in nodes : n # c[2] => rank'[n] = rank[n]
        /\ \A n \in nodes : rank[n] \in Nat /\ rank'[n] \in Nat /\ rank'[n] >= rank[n]
    BY <1>1, <1>3, <1>6, <1>7, <1>10
  <2>2. rank[c[1]] >= passes /\ rank'[c[1]] = rank[c[1]]
    BY <1>1, <1>2, <1>3, <1>6, <1>10, <2>1 DEF LayoutInv, RanksFit
  <2>3. ASSUME NEW n \in nodes, rank'[n] > 0
        PROVE  \E x \in kept : x[2] = n /\ rank'[x[1]] >= rank'[n] - 1
    <3>1. CASE n = c[2]  BY <1>3, <2>1, <2>2, <3>1
    <3>2. CASE n # c[2]
      <4>1. PICK x \in kept : x[2] = n /\ rank[x[1]] >= rank[n] - 1
        BY <1>2, <2>1, <2>3, <3>2 DEF LayoutInv, RanksFit
      <4>2. x[1] \in nodes  BY <1>6
      <4>. QED  BY <2>1, <3>2, <4>1, <4>2
    <3>. QED  BY <3>1, <3>2
  <2>4. ASSUME NEW order, Orders(order, kept), NEW n \in nodes
        PROVE  rank'[n] <= Cardinality(Before(order, n))
    <3>1. CASE n # c[2]
      BY <1>2, <2>1, <2>4, <3>1 DEF LayoutInv, RanksFit
    <3>2. CASE n = c[2]
      <4>1. rank[c[1]] <= Cardinality(Before(order, c[1]))
        BY <1>2, <1>6, <2>4 DEF LayoutInv, RanksFit
      <4>2. order[c[1]] < order[c[2]] /\ \A m \in nodes : order[m] \in Nat
        BY <1>3, <2>4 DEF Orders
      <4>3. c[1] \notin Before(order, c[1]) /\ Before(order, c[1]) \cup {c[1]} \subseteq Before(order, n)
        BY <1>6, <3>2, <4>2 DEF Before
      <4>4. IsFiniteSet(Before(order, c[1])) /\ IsFiniteSet(Before(order, n))
        BY <1>3, FS_Subset DEF Before
      <4>5. Cardinality(Before(order, c[1]) \cup {c[1]}) = Cardinality(Before(order, c[1])) + 1
        BY <4>3, <4>4, FS_AddElement
      <4>6. Cardinality(Before(order, c[1]) \cup {c[1]}) <= Cardinality(Before(order, n))
        BY <4>3, <4>4, FS_Subset
      <4>7. Cardinality(Before(order, c[1])) \in Nat /\ Cardinality(Before(order, n)) \in Nat
        BY <4>4, FS_CardinalityType
      <4>. QED  BY <1>6, <2>1, <3>2, <4>1, <4>5, <4>6, <4>7
    <3>. QED  BY <3>1, <3>2
  <2>5. ASSUME NEW x \in kept, rank'[x[1]] >= rank'[x[2]]
        PROVE  rank'[x[1]] >= passes /\ (x \notin left' => rank'[x[1]] >= passes + 1)
    <3>1. CASE x[1] = c[2]  BY <1>3, <1>6, <2>1, <2>2, <3>1
    <3>2. CASE x[1] # c[2]
      <4>1. rank'[x[1]] = rank[x[1]] /\ rank[x[1]] >= rank[x[2]]  BY <1>6, <2>1, <2>5, <3>2
      <4>2. rank[x[1]] >= passes /\ (x \notin left => rank[x[1]] >= passes + 1)
        BY <1>2, <4>1 DEF LayoutInv, RanksFit
      <4>3. x # c  BY <1>6, <2>1, <2>2, <2>5
      <4>. QED  BY <2>1, <4>1, <4>2, <4>3
    <3>. QED  BY <3>1, <3>2
  <2>6. RanksFit'
    BY <1>2, <1>3, <1>4, <2>1, <2>3, <2>4, <2>5 DEF RanksFit
  <2>. QED  BY <1>2, <1>8, <2>6 DEF LayoutInv, EdgesPointRight
<1>. QED  BY <1>9, <1>10

LEMMA EndPassKeeps ==
    ASSUME LayoutInv, EndPass
    PROVE  LayoutInv'
<1>1. drawing = "ranks" /\ left = {} /\ UNCHANGED <<wanted, kept, dropped, nodes, rank>>
  BY DEF EndPass
<1>2. /\ kept \subseteq nodes \X nodes /\ IsFiniteSet(nodes) /\ rank \in [nodes -> Nat] /\ passes \in Nat
      /\ \A x \in kept : x[1] \in nodes /\ x[2] \in nodes
      /\ \E order : Orders(order, kept)
  BY <1>1 DEF LayoutInv, LayoutTypes, ConstraintsFit, RanksFit
<1>3. \A order : /\ \A s : Orders(order, s)' <=> Orders(order, s)
                 /\ \A n : Before(order, n)' = Before(order, n)
  BY <1>1 DEF Orders, Before
<1>4. \A s, x, y : Reaches(s, x, y)' <=> Reaches(s, x, y)  BY <1>1 DEF Reaches
<1>5. CASE Enough
  <2>1. drawing' = "ranked" /\ UNCHANGED <<left, passes, moved>>  BY <1>5 DEF EndPass
  <2>2. ASSUME NEW c \in kept  PROVE rank[c[1]] < rank[c[2]]
    <3>1. CASE ~ moved  BY <1>1, <3>1 DEF LayoutInv, RanksFit
    <3>2. CASE passes + 1 = Cardinality(nodes)
      <4>1. SUFFICES ASSUME rank[c[1]] >= rank[c[2]]  PROVE FALSE  BY <1>2
      <4>2. rank[c[1]] >= passes + 1  BY <1>1, <4>1 DEF LayoutInv, RanksFit
      <4>3. PICK order : Orders(order, kept)  BY <1>2
      <4>4. rank[c[1]] <= Cardinality(Before(order, c[1]))
        BY <1>1, <1>2, <4>3 DEF LayoutInv, RanksFit
      <4>5. order \in [nodes -> Nat]  BY <4>3 DEF Orders
      <4>6. Before(order, c[1]) \subseteq nodes /\ Before(order, c[1]) # nodes
        BY <1>2, <4>5 DEF Before
      <4>7. /\ Cardinality(Before(order, c[1])) <= Cardinality(nodes)
            /\ Cardinality(Before(order, c[1])) # Cardinality(nodes)
            /\ Cardinality(Before(order, c[1])) \in Nat
        BY <1>2, <4>6, FS_Subset, FS_CardinalityType
      <4>8. rank[c[1]] \in Nat  BY <1>2
      <4>. QED  BY <1>2, <3>2, <4>2, <4>4, <4>7, <4>8
    <3>. QED  BY <1>5, <3>1, <3>2 DEF Enough
  <2>3. ASSUME NEW n \in nodes, rank[n] > 0
        PROVE  \E c \in kept : c[2] = n /\ rank[c[1]] = rank[n] - 1
    <3>1. PICK c \in kept : c[2] = n /\ rank[c[1]] >= rank[n] - 1
      BY <1>1, <2>3 DEF LayoutInv, RanksFit
    <3>2. rank[c[1]] < rank[n] /\ rank[c[1]] \in Nat /\ rank[n] \in Nat  BY <1>2, <2>2, <3>1
    <3>. QED  BY <3>1, <3>2
  <2>4. \A c \in dropped : Reaches(kept, c[2], c[1])  BY <1>1 DEF LayoutInv, ConstraintsFit
  <2>5. LayoutTypes' /\ ConstraintsFit'
    BY <1>1, <1>3, <1>4, <2>1 DEF LayoutInv, LayoutTypes, ConstraintsFit
  <2>6. EdgesPointRight'  BY <1>1, <1>4, <2>2, <2>3, <2>4 DEF EdgesPointRight
  <2>. QED  BY <2>1, <2>5, <2>6 DEF LayoutInv, RanksFit
<1>6. CASE ~ Enough
  <2>1. left' = kept /\ passes' = passes + 1 /\ moved' = FALSE /\ drawing' = drawing
    BY <1>6 DEF EndPass
  <2>2. LayoutTypes' /\ ConstraintsFit'
    BY <1>1, <1>3, <1>4, <2>1 DEF LayoutInv, LayoutTypes, ConstraintsFit
  <2>3. RanksFit'  BY <1>1, <1>2, <1>3, <2>1 DEF LayoutInv, RanksFit
  <2>. QED  BY <1>1, <2>1, <2>2, <2>3 DEF LayoutInv, EdgesPointRight
<1>. QED  BY <1>5, <1>6

LEMMA LayoutStepKeeps ==
    ASSUME LayoutInv, LayoutStep
    PROVE  LayoutInv'
  BY ConstrainKeeps, BeginRanksKeeps, PushKeeps, EndPassKeeps DEF LayoutStep

-----------------------------------------------------------------------------
(***************************************************************************)
(* What is reached in how many steps.  Balls grow with their radius; what  *)
(* is met first at a radius lies at that distance, its neighbours at most  *)
(* one further.                                                            *)
(***************************************************************************)
LEMMA WithinSteps ==
    ASSUME NEW next, NEW from, NEW k \in Nat
    PROVE  /\ Within(next, from, 0) = from
           /\ \A m : m \in Within(next, from, k + 1) <=>
                      m \in Within(next, from, k) \/ \E n \in Within(next, from, k) : m \in next[n]
<1>1. Within(next, from, 0) = from
  <2>1. PICK ball : Grows(ball, next, from, 0) /\ Within(next, from, 0) = ball[0]  BY WithinGrows
  <2>. QED  BY <2>1 DEF Grows
<1>2. PICK ball : Grows(ball, next, from, k) /\ Within(next, from, k) = ball[k]  BY WithinGrows
<1>3. PICK wide : Grows(wide, next, from, k + 1) /\ Within(next, from, k + 1) = wide[k + 1]  BY WithinGrows
<1>4. /\ ball[0] = from
      /\ \A i \in 0..k : i < k => ball[i + 1] = ball[i] \cup UNION {next[n] : n \in ball[i]}
  BY <1>2 DEF Grows
<1>5. /\ wide[0] = from
      /\ \A i \in 0..k : wide[i + 1] = wide[i] \cup UNION {next[n] : n \in wide[i]}
  BY <1>3 DEF Grows
<1>. DEFINE T == {i \in 0..k : ball[i] = wide[i]}
<1>6. 0 \in T  BY <1>4, <1>5
<1>7. ASSUME NEW i \in T, i < k  PROVE i + 1 \in T
  <2>1. ball[i] = wide[i] /\ i \in 0..k /\ i + 1 \in 0..k  BY <1>7
  <2>2. ball[i + 1] = wide[i + 1]  BY <1>4, <1>5, <1>7, <2>1
  <2>. QED  BY <2>1, <2>2
<1>8. T \in SUBSET (0..k)  OBVIOUS
<1>9. k \in T
  <2>. HIDE DEF T
  <2>. QED  BY <1>6, <1>7, <1>8, HoldsOfAll
<1>10. wide[k + 1] = wide[k] \cup UNION {next[n] : n \in wide[k]}  BY <1>5
<1>. QED  BY <1>1, <1>2, <1>3, <1>9, <1>10

\* More steps reach more.
LEMMA WithinGrowing ==
    ASSUME NEW next, NEW from, NEW j \in Nat, NEW k \in Nat, j <= k
    PROVE  Within(next, from, j) \subseteq Within(next, from, k)
<1>. DEFINE T == {i \in 0..k : i < j \/ Within(next, from, j) \subseteq Within(next, from, i)}
<1>1. 0 \in T  OBVIOUS
<1>2. ASSUME NEW i \in T, i < k  PROVE i + 1 \in T
  <2>0. i \in Nat  OBVIOUS
  <2>1. Within(next, from, i) \subseteq Within(next, from, i + 1)  BY <2>0, WithinSteps
  <2>2. i + 1 < j \/ i + 1 = j \/ ~ i < j  OBVIOUS
  <2>. QED  BY <1>2, <2>1, <2>2
<1>3. T \in SUBSET (0..k)  OBVIOUS
<1>4. k \in T
  <2>. HIDE DEF T
  <2>. QED  BY <1>1, <1>2, <1>3, HoldsOfAll
<1>. QED  BY <1>4

LEMMA DistanceIsOne ==
    ASSUME NEW next, NEW from, NEW n, NEW j \in Nat, NEW k \in Nat,
           AtDistance(next, from, n, j), AtDistance(next, from, n, k)
    PROVE  j = k
<1>1. ASSUME NEW a \in Nat, NEW b \in Nat, a < b,
             AtDistance(next, from, n, a), AtDistance(next, from, n, b)
      PROVE  FALSE
  <2>1. b - 1 \in Nat /\ a <= b - 1  BY <1>1
  <2>2. Within(next, from, a) \subseteq Within(next, from, b - 1)  BY <2>1, WithinGrowing
  <2>. QED  BY <1>1, <2>2 DEF AtDistance
<1>. QED  BY <1>1

LEMMA HasDistance ==
    ASSUME NEW next, NEW from, NEW k \in Nat, NEW n \in Within(next, from, k)
    PROVE  \E d \in 0..k : AtDistance(next, from, n, d)
<1>. DEFINE T == {d \in Nat : n \in Within(next, from, d)}
<1>1. T \in SUBSET Nat /\ k \in T  OBVIOUS
<1>2. PICK m \in T : \A d \in T : m <= d
  <2>. HIDE DEF T
  <2>. QED  BY <1>1, HasLeast
<1>3. m \in 0..k  BY <1>1, <1>2
<1>4. m > 0 => n \notin Within(next, from, m - 1)
  <2>. SUFFICES ASSUME m > 0, n \in Within(next, from, m - 1)  PROVE FALSE  OBVIOUS
  <2>1. m - 1 \in T /\ ~ m <= m - 1  OBVIOUS
  <2>. QED  BY <1>2, <2>1
<1>. QED  BY <1>3, <1>4 DEF AtDistance

\* A neighbour that is not as near is one step further.
LEMMA NextDistance ==
    ASSUME NEW next, NEW from, NEW d \in Nat, NEW n \in Within(next, from, d), NEW m \in next[n],
           m \notin Within(next, from, d)
    PROVE  AtDistance(next, from, m, d + 1)
<1>1. m \in Within(next, from, d + 1)  BY WithinSteps
<1>2. (d + 1) - 1 = d  OBVIOUS
<1>. QED  BY <1>1, <1>2 DEF AtDistance


-----------------------------------------------------------------------------
(***************************************************************************)
(* Searching in breadth.  The nodes met so far have a distance from the    *)
(* first one; those in the queue lie in its order, at the distance of the  *)
(* node that was taken last (the front) or one further; whoever does not   *)
(* wait has been followed to its neighbours, the open nodes excepted.      *)
(***************************************************************************)
Visits == [at : Nodes, entry : {None, "entry"}, depth : Nat]

InOrder(line, front) ==
    /\ line \in Seq(Visits) /\ front \in Nat
    /\ \A i \in 1..Len(line) : line[i].depth \in {front, front + 1}
    /\ \A i, j \in 1..Len(line) : i <= j => line[i].depth <= line[j].depth

Waits(line, n) == \E i \in 1..Len(line) : line[i].at = n

Breadth(next, from, met, line, front, open) ==
    /\ InOrder(line, front)
    /\ from \in met
    /\ \A i \in 1..Len(line) :
           line[i].at \in met /\ AtDistance(next, {from}, line[i].at, line[i].depth)
    /\ Within(next, {from}, front) \subseteq met
    /\ \A n \in met : /\ \E d \in Nat : AtDistance(next, {from}, n, d)
                      /\ n \in open \/ Waits(line, n) \/ next[n] \subseteq met

LEMMA OrderOfTail ==
    ASSUME NEW line, NEW front, InOrder(line, front), line # << >>
    PROVE  /\ Head(line) = line[1] /\ Head(line) \in Visits /\ Head(line).depth \in {front, front + 1}
           /\ Len(Tail(line)) = Len(line) - 1 /\ Len(line) \in Nat /\ Len(line) > 0
           /\ \A i \in 1..Len(Tail(line)) : i + 1 \in 1..Len(line) /\ Tail(line)[i] = line[i + 1]
           /\ InOrder(Tail(line), front) /\ InOrder(Tail(line), Head(line).depth)
<1>1. /\ line \in Seq(Visits) /\ front \in Nat
      /\ \A i \in 1..Len(line) : line[i].depth \in {front, front + 1}
      /\ \A i, j \in 1..Len(line) : i <= j => line[i].depth <= line[j].depth
  BY DEF InOrder
<1>2. /\ Len(line) \in Nat /\ Len(line) > 0 /\ Head(line) = line[1] /\ Tail(line) \in Seq(Visits)
      /\ Len(Tail(line)) = Len(line) - 1
      /\ \A i \in 1..Len(Tail(line)) : Tail(line)[i] = line[i + 1]
  BY <1>1
<1>3. 1 \in 1..Len(line) /\ line[1] \in Visits  BY <1>1, <1>2
<1>4. \A i \in 1..Len(Tail(line)) : i + 1 \in 1..Len(line)  BY <1>2
<1>5. \A i \in 1..Len(line) : line[i] \in Visits /\ line[i].depth \in Nat
  <2>1. \A i \in 1..Len(line) : line[i] \in Visits  BY <1>1
  <2>. QED  BY <2>1 DEF Visits
<1>6. Head(line).depth \in {front, front + 1} /\ Head(line).depth \in Nat  BY <1>1, <1>2, <1>3, <1>5
<1>7. \A i, j \in 1..Len(Tail(line)) : i <= j => Tail(line)[i].depth <= Tail(line)[j].depth
  <2>. SUFFICES ASSUME NEW i \in 1..Len(Tail(line)), NEW j \in 1..Len(Tail(line)), i <= j
                PROVE  Tail(line)[i].depth <= Tail(line)[j].depth
    OBVIOUS
  <2>1. i + 1 \in 1..Len(line) /\ j + 1 \in 1..Len(line) /\ i + 1 <= j + 1  BY <1>4
  <2>. QED  BY <1>1, <1>2, <2>1
<1>8. ASSUME NEW i \in 1..Len(Tail(line))
      PROVE  /\ Tail(line)[i].depth \in {front, front + 1}
             /\ Tail(line)[i].depth \in {Head(line).depth, Head(line).depth + 1}
  <2>1. i + 1 \in 1..Len(line) /\ Tail(line)[i] = line[i + 1] /\ 1 <= i + 1  BY <1>2, <1>4
  <2>2. line[1].depth <= line[i + 1].depth  BY <1>1, <1>3, <2>1
  <2>. QED  BY <1>1, <1>2, <1>3, <1>5, <1>6, <2>1, <2>2
<1>. QED  BY <1>1, <1>2, <1>3, <1>4, <1>6, <1>7, <1>8 DEF InOrder

LEMMA OrderOfMore ==
    ASSUME NEW line, NEW front, InOrder(line, front), NEW v \in Visits, v.depth = front + 1
    PROVE  /\ InOrder(Append(line, v), front)
           /\ Len(Append(line, v)) = Len(line) + 1 /\ Append(line, v)[Len(line) + 1] = v
           /\ Len(line) \in Nat
           /\ \A i \in 1..Len(line) : Append(line, v)[i] = line[i]
<1>1. /\ line \in Seq(Visits) /\ front \in Nat
      /\ \A i \in 1..Len(line) : line[i].depth \in {front, front + 1}
      /\ \A i, j \in 1..Len(line) : i <= j => line[i].depth <= line[j].depth
  BY DEF InOrder
<1>2. /\ Append(line, v) \in Seq(Visits) /\ Len(Append(line, v)) = Len(line) + 1 /\ Len(line) \in Nat
      /\ \A i \in 1..Len(line) : Append(line, v)[i] = line[i]
      /\ Append(line, v)[Len(line) + 1] = v
  BY <1>1
<1>3. ASSUME NEW i \in 1..Len(Append(line, v)), NEW j \in 1..Len(Append(line, v)), i <= j
      PROVE  /\ Append(line, v)[i].depth \in {front, front + 1}
             /\ Append(line, v)[i].depth <= Append(line, v)[j].depth
  <2>1. i \in 1..Len(line) \/ i = Len(line) + 1  BY <1>2
  <2>2. j \in 1..Len(line) \/ j = Len(line) + 1  BY <1>2
  <2>3. CASE j \in 1..Len(line)
    <3>1. i \in 1..Len(line)  BY <1>2, <1>3, <2>1, <2>3
    <3>. QED  BY <1>1, <1>2, <1>3, <2>3, <3>1
  <2>4. CASE j = Len(line) + 1
    <3>1. Append(line, v)[j].depth = front + 1  BY <1>2, <2>4
    <3>2. Append(line, v)[i].depth \in {front, front + 1}  BY <1>1, <1>2, <2>1
    <3>. QED  BY <1>1, <3>1, <3>2
  <2>. QED  BY <2>2, <2>3, <2>4
<1>. QED  BY <1>1, <1>2, <1>3 DEF InOrder

\* The head of the queue is taken: no node as near as the front is left out.
LEMMA BreadthTakes ==
    ASSUME NEW next, NEW from, NEW met, NEW line, NEW front, NEW open,
           Breadth(next, from, met, line, front, open), line # << >>,
           \A n \in open : \A d \in Nat : AtDistance(next, {from}, n, d) => d >= Head(line).depth
    PROVE  /\ Breadth(next, from, met, Tail(line), Head(line).depth, open \cup {Head(line).at})
           /\ Head(line) \in Visits /\ Head(line).at \in met
           /\ AtDistance(next, {from}, Head(line).at, Head(line).depth)
<1>1. /\ InOrder(line, front) /\ from \in met /\ Within(next, {from}, front) \subseteq met
      /\ \A i \in 1..Len(line) :
             line[i].at \in met /\ AtDistance(next, {from}, line[i].at, line[i].depth)
      /\ \A n \in met : /\ \E d \in Nat : AtDistance(next, {from}, n, d)
                        /\ n \in open \/ Waits(line, n) \/ next[n] \subseteq met
  BY DEF Breadth
<1>2. /\ Head(line) = line[1] /\ Head(line) \in Visits /\ Head(line).depth \in {front, front + 1}
      /\ Len(Tail(line)) = Len(line) - 1 /\ Len(line) \in Nat /\ Len(line) > 0
      /\ \A i \in 1..Len(Tail(line)) : i + 1 \in 1..Len(line) /\ Tail(line)[i] = line[i + 1]
      /\ InOrder(Tail(line), Head(line).depth)
  BY <1>1, OrderOfTail
<1>3. Head(line).at \in met /\ AtDistance(next, {from}, Head(line).at, Head(line).depth)
  <2>1. 1 \in 1..Len(line)  BY <1>2
  <2>. QED  BY <1>1, <1>2, <2>1
<1>4. ASSUME NEW n, Waits(line, n), ~ Waits(Tail(line), n)  PROVE n = Head(line).at
  <2>1. PICK i \in 1..Len(line) : line[i].at = n  BY <1>4 DEF Waits
  <2>2. CASE i # 1
    <3>1. i - 1 \in 1..Len(Tail(line)) /\ (i - 1) + 1 = i  BY <1>2, <2>2
    <3>2. Tail(line)[i - 1] = line[i]  BY <1>2, <3>1
    <3>. QED  BY <1>4, <2>1, <3>1, <3>2 DEF Waits
  <2>. QED  BY <1>2, <2>1, <2>2
<1>5. CASE Head(line).depth = front
  BY <1>1, <1>2, <1>3, <1>4, <1>5 DEF Breadth
<1>6. CASE Head(line).depth = front + 1
  <2>0. front \in Nat  BY <1>1 DEF InOrder
  <2>1. ASSUME NEW n \in Within(next, {from}, front)  PROVE next[n] \subseteq met
    <3>1. PICK d \in 0..front : AtDistance(next, {from}, n, d)  BY <2>0, HasDistance
    <3>2. d \in Nat /\ ~ d >= front + 1  BY <2>0
    <3>3. n \notin open  BY <1>6, <3>1, <3>2
    <3>4. ~ Waits(line, n)
      <4>. SUFFICES ASSUME NEW i \in 1..Len(line), line[i].at = n  PROVE FALSE  BY DEF Waits
      <4>1. AtDistance(next, {from}, n, line[i].depth)  BY <1>1
      <4>2. 1 \in 1..Len(line) /\ 1 <= i  BY <1>2
      <4>3. line[1].depth <= line[i].depth /\ line[i].depth \in {front, front + 1}
        BY <1>1, <4>2 DEF InOrder
      <4>4. line[i].depth = front + 1  BY <1>2, <1>6, <2>0, <4>3
      <4>. QED  BY <2>0, <3>1, <3>2, <4>1, <4>4, DistanceIsOne
    <3>. QED  BY <1>1, <3>3, <3>4
  <2>2. Within(next, {from}, front + 1) \subseteq met
    <3>. SUFFICES ASSUME NEW m \in Within(next, {from}, front + 1)  PROVE m \in met  OBVIOUS
    <3>1. m \in Within(next, {from}, front) \/ \E n \in Within(next, {from}, front) : m \in next[n]
      BY <2>0, WithinSteps
    <3>. QED  BY <1>1, <2>1, <3>1
  <2>. QED  BY <1>1, <1>2, <1>3, <1>4, <1>6, <2>2 DEF Breadth
<1>. QED  BY <1>2, <1>3, <1>5, <1>6

\* The head is put away without being followed.
LEMMA BreadthDrops ==
    ASSUME NEW next, NEW from, NEW met, NEW line, NEW front, NEW open,
           Breadth(next, from, met, line, front, open), line # << >>
    PROVE  /\ Breadth(next, from, met, Tail(line), front, open \cup {Head(line).at})
           /\ Head(line).at \in met /\ AtDistance(next, {from}, Head(line).at, Head(line).depth)
<1>1. /\ InOrder(line, front) /\ from \in met /\ Within(next, {from}, front) \subseteq met
      /\ \A i \in 1..Len(line) :
             line[i].at \in met /\ AtDistance(next, {from}, line[i].at, line[i].depth)
      /\ \A n \in met : /\ \E d \in Nat : AtDistance(next, {from}, n, d)
                        /\ n \in open \/ Waits(line, n) \/ next[n] \subseteq met
  BY DEF Breadth
<1>2. /\ Head(line) = line[1] /\ Len(Tail(line)) = Len(line) - 1 /\ Len(line) \in Nat /\ Len(line) > 0
      /\ \A i \in 1..Len(Tail(line)) : i + 1 \in 1..Len(line) /\ Tail(line)[i] = line[i + 1]
      /\ InOrder(Tail(line), front)
  BY <1>1, OrderOfTail
<1>3. Head(line).at \in met /\ AtDistance(next, {from}, Head(line).at, Head(line).depth)
  <2>1. 1 \in 1..Len(line)  BY <1>2
  <2>. QED  BY <1>1, <1>2, <2>1
<1>4. ASSUME NEW n, Waits(line, n), ~ Waits(Tail(line), n)  PROVE n = Head(line).at
  <2>1. PICK i \in 1..Len(line) : line[i].at = n  BY <1>4 DEF Waits
  <2>2. CASE i # 1
    <3>1. i - 1 \in 1..Len(Tail(line)) /\ (i - 1) + 1 = i  BY <1>2, <2>2
    <3>2. Tail(line)[i - 1] = line[i]  BY <1>2, <3>1
    <3>. QED  BY <1>4, <2>1, <3>1, <3>2 DEF Waits
  <2>. QED  BY <1>2, <2>1, <2>2
<1>. QED  BY <1>1, <1>2, <1>3, <1>4 DEF Breadth

\* A neighbour of the front that was not met is one step further.
LEMMA BreadthMeets ==
    ASSUME NEW next, NEW from, NEW met, NEW line, NEW front, NEW open,
           Breadth(next, from, met, line, front, open),
           NEW n \in open, AtDistance(next, {from}, n, front), NEW m \in next[n], m \in Nodes, m \notin met
    PROVE  /\ Breadth(next, from, met \cup {m}, Append(line, Visit(m, None, front + 1)), front, open)
           /\ AtDistance(next, {from}, m, front + 1)
<1>1. /\ InOrder(line, front) /\ from \in met /\ Within(next, {from}, front) \subseteq met
      /\ \A i \in 1..Len(line) :
             line[i].at \in met /\ AtDistance(next, {from}, line[i].at, line[i].depth)
      /\ \A x \in met : /\ \E d \in Nat : AtDistance(next, {from}, x, d)
                        /\ x \in open \/ Waits(line, x) \/ next[x] \subseteq met
      /\ front \in Nat
  BY DEF Breadth, InOrder
<1>2. AtDistance(next, {from}, m, front + 1)  BY <1>1, NextDistance DEF AtDistance
<1>. DEFINE v == Visit(m, None, front + 1)
<1>3. v \in Visits /\ v.depth = front + 1 /\ v.at = m  BY <1>1 DEF Visit, Visits
<1>. HIDE DEF v
<1>4. /\ InOrder(Append(line, v), front)
      /\ Len(Append(line, v)) = Len(line) + 1 /\ Append(line, v)[Len(line) + 1] = v /\ Len(line) \in Nat
      /\ \A i \in 1..Len(line) : Append(line, v)[i] = line[i]
  BY <1>1, <1>3, OrderOfMore
<1>5. ASSUME NEW i \in 1..Len(Append(line, v))
      PROVE  /\ Append(line, v)[i].at \in met \cup {m}
             /\ AtDistance(next, {from}, Append(line, v)[i].at, Append(line, v)[i].depth)
  <2>1. i \in 1..Len(line) \/ i = Len(line) + 1  BY <1>4
  <2>. QED  BY <1>1, <1>2, <1>3, <1>4, <2>1
<1>6. Waits(Append(line, v), m)
  <2>1. Len(line) + 1 \in 1..Len(Append(line, v))  BY <1>4
  <2>. QED  BY <1>3, <1>4, <2>1 DEF Waits
<1>7. ASSUME NEW x, Waits(line, x)  PROVE Waits(Append(line, v), x)
  <2>1. PICK i \in 1..Len(line) : line[i].at = x  BY <1>7 DEF Waits
  <2>2. i \in 1..Len(Append(line, v))  BY <1>4
  <2>. QED  BY <1>4, <2>1, <2>2 DEF Waits
<1>8. ASSUME NEW x \in met \cup {m}
      PROVE  /\ \E d \in Nat : AtDistance(next, {from}, x, d)
             /\ x \in open \/ Waits(Append(line, v), x) \/ next[x] \subseteq met \cup {m}
  <2>1. CASE x = m
    <3>1. front + 1 \in Nat  BY <1>1
    <3>. QED  BY <1>2, <1>6, <2>1, <3>1
  <2>2. CASE x \in met
    <3>1. x \in open \/ Waits(line, x) \/ next[x] \subseteq met  BY <1>1, <2>2
    <3>2. next[x] \subseteq met => next[x] \subseteq met \cup {m}  OBVIOUS
    <3>. QED  BY <1>1, <1>7, <2>2, <3>1, <3>2
  <2>. QED  BY <2>1, <2>2
<1>9. Breadth(next, from, met \cup {m}, Append(line, v), front, open)
  BY <1>1, <1>4, <1>5, <1>8 DEF Breadth
<1>. QED  BY <1>2, <1>9 DEF v

\* Nodes may be called open, and closed when their neighbours are met.
LEMMA BreadthOpens ==
    ASSUME NEW next, NEW from, NEW met, NEW line, NEW front, NEW open, NEW wide,
           Breadth(next, from, met, line, front, open),
           \A n \in open \cap met : n \in wide \/ next[n] \subseteq met
    PROVE  Breadth(next, from, met, line, front, wide)
  BY DEF Breadth

\* A search whose queue is empty has met all that is as near as its limit.
LEMMA BreadthEnds ==
    ASSUME NEW next, NEW from, NEW met, NEW front, NEW open, NEW k \in Nat,
           Breadth(next, from, met, << >>, front, open),
           \A n \in open : \A d \in Nat : AtDistance(next, {from}, n, d) => d >= k
    PROVE  Within(next, {from}, k) \subseteq met
<1>1. /\ from \in met
      /\ \A n \in met : n \in open \/ next[n] \subseteq met
  BY DEF Breadth, Waits
<1>. DEFINE T == {i \in 0..k : Within(next, {from}, i) \subseteq met}
<1>2. 0 \in T  BY <1>1, WithinSteps
<1>3. ASSUME NEW i \in T, i < k  PROVE i + 1 \in T
  <2>0. i \in Nat /\ i + 1 \in 0..k  BY <1>3
  <2>1. ASSUME NEW n \in Within(next, {from}, i)  PROVE next[n] \subseteq met
    <3>1. PICK d \in 0..i : AtDistance(next, {from}, n, d)  BY <2>0, HasDistance
    <3>2. d \in Nat /\ ~ d >= k  BY <1>3, <2>0
    <3>. QED  BY <1>1, <3>1, <3>2
  <2>2. ASSUME NEW m \in Within(next, {from}, i + 1)  PROVE m \in met
    <3>1. m \in Within(next, {from}, i) \/ \E n \in Within(next, {from}, i) : m \in next[n]
      BY <2>0, WithinSteps
    <3>2. Within(next, {from}, i) \subseteq met  BY <1>3
    <3>. QED  BY <2>1, <3>1, <3>2
  <2>4. Within(next, {from}, i + 1) \subseteq met  BY <2>2
  <2>. QED  BY <2>0, <2>4
<1>4. T \in SUBSET (0..k)  OBVIOUS
<1>5. k \in T
  <2>. HIDE DEF T
  <2>1. \A i \in T : i < k => i + 1 \in T  BY <1>3
  <2>2. 0..k \subseteq T  BY ONLY k \in Nat, <1>2, <1>4, <2>1, HoldsOfAll
  <2>. QED  BY <2>2
<1>. QED  BY <1>5

\* The beginning of a search.
LEMMA BreadthBegins ==
    ASSUME NEW next, NEW from \in Nodes, NEW entry \in {None, "entry"}
    PROVE  Breadth(next, from, {from}, <<Visit(from, entry, 0)>>, 0, {})
<1>. DEFINE v == Visit(from, entry, 0)
<1>1. v \in Visits /\ v.depth = 0 /\ v.at = from  BY DEF Visit, Visits
<1>. HIDE DEF v
<1>2. /\ <<v>> \in Seq(Visits) /\ Len(<<v>>) = 1 /\ <<v>>[1] = v /\ \A i \in 1..1 : i = 1  BY <1>1
<1>3. InOrder(<<v>>, 0)  BY <1>1, <1>2 DEF InOrder
<1>4. Within(next, {from}, 0) = {from}  BY WithinSteps
<1>5. AtDistance(next, {from}, from, 0)  BY <1>4 DEF AtDistance
<1>6. Waits(<<v>>, from)  BY <1>1, <1>2 DEF Waits
<1>7. Breadth(next, from, {from}, <<v>>, 0, {})
  BY <1>1, <1>2, <1>3, <1>4, <1>5, <1>6 DEF Breadth
<1>. QED  BY <1>7 DEF v

(***************************************************************************)
(* A search with a limit: at is what it visits, ahead are the neighbours   *)
(* of that node it has still to look at.  Spared nodes may be left without *)
(* having been followed when they lie at the limit.                        *)
(***************************************************************************)
Front(at) == IF at = None THEN 0 ELSE at.depth
Doing(at) == IF at = None THEN {} ELSE {at.at}
Late(next, from, met, spared, limit) ==
    {n \in met \cap spared : \E d \in Nat : d >= limit /\ AtDistance(next, {from}, n, d)}

Search(next, from, met, line, at, ahead, spared, limit) ==
    /\ Breadth(next, from, met, line, Front(at), Late(next, from, met, spared, limit) \cup Doing(at))
    /\ met \subseteq Nodes /\ \A i \in 1..Len(line) : line[i].depth <= limit
    /\ at = None => ahead = {}
    /\ at # None => /\ at \in Visits /\ at.at \in met /\ at.depth <= limit
                    /\ AtDistance(next, {from}, at.at, at.depth)
                    /\ ahead \subseteq next[at.at]
                    /\ next[at.at] \subseteq met \cup ahead \/ (at.at \in spared /\ at.depth >= limit)

LEMMA SearchBegins ==
    ASSUME NEW next, NEW from \in Nodes, NEW spared, NEW limit \in Nat
    PROVE  Search(next, from, {from}, <<Visit(from, None, 0)>>, None, {}, spared, limit)
<1>1. Breadth(next, from, {from}, <<Visit(from, None, 0)>>, 0, {})  BY BreadthBegins
<1>2. Breadth(next, from, {from}, <<Visit(from, None, 0)>>, 0,
              Late(next, from, {from}, spared, limit) \cup Doing(None))
  BY <1>1, BreadthOpens
<1>3. \A i \in 1..Len(<<Visit(from, None, 0)>>) : <<Visit(from, None, 0)>>[i].depth <= limit
  BY DEF Visit
<1>. QED  BY <1>2, <1>3 DEF Search, Front

\* Who is done with a node has met its neighbours, or the node is late.
LEMMA SearchCloses ==
    ASSUME NEW next, NEW from, NEW met, NEW line, NEW at, NEW spared, NEW limit \in Nat,
           Search(next, from, met, line, at, {}, spared, limit)
    PROVE  Breadth(next, from, met, line, Front(at), Late(next, from, met, spared, limit))
<1>. DEFINE late == Late(next, from, met, spared, limit)
<1>1. ASSUME NEW n \in (late \cup Doing(at)) \cap met  PROVE n \in late \/ next[n] \subseteq met
  <2>1. CASE n \in Doing(at)
    <3>1. at # None /\ n = at.at  BY <2>1 DEF Doing
    <3>2. next[n] \subseteq met \/ (at.at \in spared /\ at.depth >= limit)  BY <3>1 DEF Search
    <3>3. at.depth \in Nat /\ AtDistance(next, {from}, n, at.depth)  BY <3>1 DEF Search, Visits
    <3>. QED  BY <1>1, <3>1, <3>2, <3>3 DEF Late
  <2>. QED  BY <1>1, <2>1
<1>2. Breadth(next, from, met, line, Front(at), late \cup Doing(at))  BY DEF Search
<1>. HIDE DEF late
<1>3. Breadth(next, from, met, line, Front(at), late)  BY <1>1, <1>2, BreadthOpens
<1>. QED  BY <1>3 DEF late

LEMMA LateIsLate ==
    ASSUME NEW next, NEW from, NEW met, NEW spared, NEW limit \in Nat,
           NEW n \in Late(next, from, met, spared, limit), NEW d \in Nat, AtDistance(next, {from}, n, d)
    PROVE  d >= limit
<1>1. PICK e \in Nat : e >= limit /\ AtDistance(next, {from}, n, e)  BY DEF Late
<1>2. d = e  BY <1>1, DistanceIsOne
<1>. QED  BY <1>1, <1>2

LEMMA SearchTakes ==
    ASSUME NEW next, NEW from, NEW met, NEW line, NEW at, NEW spared, NEW limit \in Nat,
           Search(next, from, met, line, at, {}, spared, limit), line # << >>, Head(line) # None
    PROVE  /\ Search(next, from, met, Tail(line), Head(line), next[Head(line).at], spared, limit)
           /\ Head(line) \in Visits /\ Head(line).at \in met
           /\ AtDistance(next, {from}, Head(line).at, Head(line).depth)
<1>. DEFINE late == Late(next, from, met, spared, limit)
<1>1. Breadth(next, from, met, line, Front(at), late)  BY SearchCloses
<1>2. /\ InOrder(line, Front(at)) /\ \A i \in 1..Len(line) : line[i].depth <= limit
      /\ met \subseteq Nodes
  BY <1>1 DEF Search, Breadth
<1>3. /\ Head(line) = line[1] /\ Head(line) \in Visits /\ Len(line) \in Nat /\ Len(line) > 0
      /\ \A i \in 1..Len(Tail(line)) : i + 1 \in 1..Len(line) /\ Tail(line)[i] = line[i + 1]
  BY <1>2, OrderOfTail
<1>4. Head(line).depth <= limit /\ Head(line).depth \in Nat
  <2>1. 1 \in 1..Len(line)  BY <1>3
  <2>. QED  BY <1>2, <1>3, <2>1 DEF Visits
<1>5. \A i \in 1..Len(Tail(line)) : Tail(line)[i].depth <= limit  BY <1>2, <1>3
<1>6. \A n \in late : \A d \in Nat : AtDistance(next, {from}, n, d) => d >= Head(line).depth
  <2>. SUFFICES ASSUME NEW n \in late, NEW d \in Nat, AtDistance(next, {from}, n, d)
                PROVE  d >= Head(line).depth
    OBVIOUS
  <2>1. d >= limit  BY LateIsLate
  <2>. QED  BY <1>4, <2>1
<1>. HIDE DEF late
<1>7. /\ Breadth(next, from, met, Tail(line), Head(line).depth, late \cup {Head(line).at})
      /\ Head(line).at \in met /\ AtDistance(next, {from}, Head(line).at, Head(line).depth)
  BY <1>1, <1>6, BreadthTakes
<1>. QED  BY <1>2, <1>3, <1>4, <1>5, <1>7 DEF Search, Front, Doing, late

LEMMA SearchDrops ==
    ASSUME NEW next, NEW from, NEW met, NEW line, NEW at, NEW spared, NEW limit \in Nat,
           Search(next, from, met, line, at, {}, spared, limit), line # << >>, Head(line).depth >= limit
    PROVE  Search(next, from, met, Tail(line), at, {}, Nodes, limit)
<1>. DEFINE late == Late(next, from, met, spared, limit)
            more == Late(next, from, met, Nodes, limit) \cup Doing(at)
<1>1. Breadth(next, from, met, line, Front(at), late)  BY SearchCloses
<1>2. /\ InOrder(line, Front(at)) /\ \A i \in 1..Len(line) : line[i].depth <= limit
      /\ met \subseteq Nodes
  BY <1>1 DEF Search, Breadth
<1>3. /\ Head(line) \in Visits
      /\ \A i \in 1..Len(Tail(line)) : i + 1 \in 1..Len(line) /\ Tail(line)[i] = line[i + 1]
  BY <1>2, OrderOfTail
<1>4. /\ Breadth(next, from, met, Tail(line), Front(at), late \cup {Head(line).at})
      /\ Head(line).at \in met /\ AtDistance(next, {from}, Head(line).at, Head(line).depth)
  <2>. HIDE DEF late
  <2>. QED  BY <1>1, BreadthDrops
<1>5. late \cup {Head(line).at} \subseteq more  BY <1>2, <1>3, <1>4 DEF Late, Visits
<1>6. Breadth(next, from, met, Tail(line), Front(at), more)
  <2>. HIDE DEF late, more
  <2>. QED  BY <1>4, <1>5, BreadthOpens
<1>7. \A i \in 1..Len(Tail(line)) : Tail(line)[i].depth <= limit  BY <1>2, <1>3
<1>. QED  BY <1>2, <1>6, <1>7 DEF Search

\* Neighbours that were met already are passed over; and who reports a cut
\* may pass over those beyond the limit.
LEMMA SearchPasses ==
    ASSUME NEW next, NEW from, NEW met, NEW line, NEW at, NEW ahead, NEW spared, NEW limit \in Nat,
           Search(next, from, met, line, at, ahead, spared, limit),
           NEW rest \in SUBSET ahead, NEW now, spared \subseteq now,
           \A m \in ahead : m \in rest \/ m \in met \/ (at.at \in now /\ at.depth >= limit)
    PROVE  Search(next, from, met, line, at, rest, now, limit)
<1>. DEFINE open == Late(next, from, met, spared, limit) \cup Doing(at)
            more == Late(next, from, met, now, limit) \cup Doing(at)
<1>1. open \subseteq more  BY DEF Late
<1>2. Breadth(next, from, met, line, Front(at), open)  BY DEF Search
<1>3. Breadth(next, from, met, line, Front(at), more)
  <2>. HIDE DEF open, more
  <2>. QED  BY <1>1, <1>2, BreadthOpens
<1>4. ASSUME at # None
      PROVE  next[at.at] \subseteq met \cup rest \/ (at.at \in now /\ at.depth >= limit)
  <2>1. next[at.at] \subseteq met \cup ahead \/ (at.at \in now /\ at.depth >= limit)  BY <1>4 DEF Search
  <2>. QED  BY <2>1
<1>. QED  BY <1>3, <1>4 DEF Search

LEMMA SearchMeets ==
    ASSUME NEW next, NEW from, NEW met, NEW line, NEW at, NEW ahead, NEW spared, NEW limit \in Nat,
           Search(next, from, met, line, at, ahead, spared, limit),
           NEW m \in ahead, m \in Nodes, m \notin met, at.depth < limit
    PROVE  /\ Search(next, from, met \cup {m}, Append(line, Visit(m, None, at.depth + 1)), at, ahead, spared, limit)
           /\ AtDistance(next, {from}, m, at.depth + 1)
<1>. DEFINE open == Late(next, from, met, spared, limit) \cup Doing(at)
            more == Late(next, from, met \cup {m}, spared, limit) \cup Doing(at)
            v    == Visit(m, None, at.depth + 1)
<1>1. /\ at # None /\ at \in Visits /\ at.at \in met /\ at.depth \in Nat
      /\ AtDistance(next, {from}, at.at, at.depth)
      /\ ahead \subseteq next[at.at] /\ next[at.at] \subseteq met \cup ahead
      /\ at.depth + 1 <= limit
  BY DEF Search, Visits
<1>2. Breadth(next, from, met, line, at.depth, open) /\ at.at \in open /\ open \subseteq more
  BY <1>1 DEF Search, Front, Doing, Late
<1>3. /\ Breadth(next, from, met \cup {m}, Append(line, v), at.depth, open)
      /\ AtDistance(next, {from}, m, at.depth + 1)
  <2>. HIDE DEF open, more
  <2>1. m \in next[at.at]  BY <1>1
  <2>. QED  BY <1>1, <1>2, <2>1, BreadthMeets
<1>4. Breadth(next, from, met \cup {m}, Append(line, v), at.depth, more)
  <2>. HIDE DEF open, more, v
  <2>. QED  BY <1>2, <1>3, BreadthOpens
<1>5. \A i \in 1..Len(Append(line, v)) : Append(line, v)[i].depth <= limit
  <2>1. v \in Visits /\ v.depth = at.depth + 1  BY <1>1 DEF Visits, Visit
  <2>. HIDE DEF v
  <2>2. InOrder(line, at.depth)  BY <1>2 DEF Breadth
  <2>3. /\ Len(Append(line, v)) = Len(line) + 1 /\ Append(line, v)[Len(line) + 1] = v /\ Len(line) \in Nat
        /\ \A i \in 1..Len(line) : Append(line, v)[i] = line[i]
    BY <2>1, <2>2, OrderOfMore
  <2>4. ASSUME NEW i \in 1..Len(Append(line, v))  PROVE Append(line, v)[i].depth <= limit
    <3>1. i \in 1..Len(line) \/ i = Len(line) + 1  BY <2>3
    <3>. QED  BY <1>1, <2>1, <2>3, <3>1 DEF Search
  <2>. QED  BY <2>4
<1>6. met \cup {m} \subseteq Nodes  BY DEF Search
<1>. QED  BY <1>1, <1>3, <1>4, <1>5, <1>6 DEF Search, Front

Closed(next, from, met) == from \in met /\ \A n \in met : next[n] \subseteq met

LEMMA SearchEnds ==
    ASSUME NEW next, NEW from, NEW met, NEW at, NEW spared, NEW limit \in Nat,
           Search(next, from, met, << >>, at, {}, spared, limit)
    PROVE  /\ Within(next, {from}, limit) \subseteq met
           /\ spared = {} => Closed(next, from, met)
<1>. DEFINE late == Late(next, from, met, spared, limit)
<1>1. Breadth(next, from, met, << >>, Front(at), late)  BY SearchCloses
<1>2. \A n \in late : \A d \in Nat : AtDistance(next, {from}, n, d) => d >= limit  BY LateIsLate
<1>3. Within(next, {from}, limit) \subseteq met
  <2>. HIDE DEF late
  <2>. QED  BY <1>1, <1>2, BreadthEnds
<1>4. ASSUME spared = {}  PROVE Closed(next, from, met)
  <2>1. late = {}  BY <1>4 DEF Late
  <2>2. from \in met /\ \A n \in met : n \in {} \/ Waits(<< >>, n) \/ next[n] \subseteq met
    BY <1>1, <2>1 DEF Breadth
  <2>3. \A n : ~ Waits(<< >>, n)  BY DEF Waits
  <2>. QED  BY <2>2, <2>3 DEF Closed
<1>. QED  BY <1>3, <1>4

LeadsBack(to, up, edges, from, d) ==
    LET back[i \in 0..d] == IF i = 0 THEN to ELSE up[back[i - 1]].from
    IN  /\ \A i \in 0..(d - 1) : up[back[i]] \in edges /\ up[back[i]].to = back[i]
        /\ back[d] = from

\* The parents lead back in as many steps as the goal is away.
LEMMA ParentsLeadBack ==
    ASSUME NEW next, NEW from, NEW to, NEW up, NEW edges, NEW met, NEW d \in Nat \ {0},
           to \in met, AtDistance(next, {from}, to, d),
           \A n \in met \ {from} :
               /\ up[n] \in edges /\ up[n].to = n /\ up[n].from \in met
               /\ \A j \in Nat : AtDistance(next, {from}, n, j) =>
                                     j > 0 /\ AtDistance(next, {from}, up[n].from, j - 1)
    PROVE  LeadsBack(to, up, edges, from, d)
<1>. DEFINE IsBack(f, k) == f = [i \in 0..k |-> IF i = 0 THEN to ELSE up[f[i - 1]].from]
<1>1. \E f : IsBack(f, d)
  <2>. DEFINE T == {k \in 0..d : \E f : IsBack(f, k)}
  <2>1. 0 \in T
    <3>. DEFINE f == [i \in 0..0 |-> to]
    <3>1. f = [i \in 0..0 |-> IF i = 0 THEN to ELSE up[f[i - 1]].from]  OBVIOUS
    <3>2. IsBack(f, 0)  BY <3>1
    <3>. HIDE DEF f
    <3>. QED  BY <3>2
  <2>2. ASSUME NEW k \in T, k < d  PROVE k + 1 \in T
    <3>1. PICK f : IsBack(f, k)  OBVIOUS
    <3>. DEFINE g == [i \in 0..k + 1 |-> IF i = k + 1 THEN up[f[k]].from ELSE f[i]]
    <3>2. \A i \in 0..k : g[i] = f[i] /\ f[i] = IF i = 0 THEN to ELSE up[f[i - 1]].from  BY <3>1
    <3>3. \A i \in 0..k + 1 : g[i] = IF i = 0 THEN to ELSE up[g[i - 1]].from
      <4>. SUFFICES ASSUME NEW i \in 0..k + 1
                    PROVE  g[i] = IF i = 0 THEN to ELSE up[g[i - 1]].from
        OBVIOUS
      <4>1. CASE i = k + 1
        <5>1. i - 1 = k /\ i # 0 /\ k \in 0..k  BY <4>1
        <5>. QED  BY <3>2, <4>1, <5>1
      <4>2. CASE i # k + 1
        <5>1. i \in 0..k /\ (i # 0 => i - 1 \in 0..k)  BY <4>2
        <5>. QED  BY <3>2, <5>1
      <4>. QED  BY <4>1, <4>2
    <3>. HIDE DEF g
    <3>4. IsBack(g, k + 1)  BY <3>3 DEF g
    <3>. QED  BY <2>2, <3>4
  <2>3. T \in SUBSET (0..d)  OBVIOUS
  <2>. HIDE DEF T
  <2>4. \A k \in T : k < d => k + 1 \in T  BY <2>2
  <2>5. 0..d \subseteq T  BY ONLY d \in Nat \ {0}, <2>1, <2>3, <2>4, HoldsOfAll
  <2>. QED  BY <2>5 DEF T
<1>. DEFINE back == CHOOSE f : IsBack(f, d)
<1>2. IsBack(back, d)  BY <1>1
<1>. HIDE DEF back
<1>3. \A i \in 0..d : back[i] = IF i = 0 THEN to ELSE up[back[i - 1]].from  BY <1>2
<1>4. ASSUME NEW n \in met, NEW j \in Nat, j > 0, AtDistance(next, {from}, n, j)
      PROVE  n # from
  <2>. SUFFICES ASSUME n = from  PROVE FALSE  OBVIOUS
  <2>1. AtDistance(next, {from}, n, 0)  BY WithinSteps DEF AtDistance
  <2>. QED  BY <1>4, <2>1, DistanceIsOne
<1>. DEFINE T == {i \in 0..d : back[i] \in met /\ AtDistance(next, {from}, back[i], d - i)}
<1>5. 0 \in T
  <2>1. back[0] = to  BY <1>3
  <2>. QED  BY <2>1
<1>6. ASSUME NEW i \in T, i < d  PROVE i + 1 \in T
  <2>1. d - i \in Nat /\ d - i > 0 /\ i + 1 \in 0..d /\ (i + 1) - 1 = i /\ d - (i + 1) = (d - i) - 1 /\ i + 1 # 0
    BY <1>6
  <2>2. back[i] \in met \ {from}  BY <1>4, <2>1
  <2>3. back[i + 1] = up[back[i]].from  BY <1>3, <2>1
  <2>4. back[i + 1] \in met /\ AtDistance(next, {from}, back[i + 1], (d - i) - 1)  BY <2>1, <2>2, <2>3
  <2>. QED  BY <2>1, <2>4
<1>7. \A i \in 0..d : back[i] \in met /\ AtDistance(next, {from}, back[i], d - i)
  <2>1. T \in SUBSET (0..d)  OBVIOUS
  <2>2. 0..d \subseteq T
    <3>. HIDE DEF T
    <3>1. \A i \in T : i < d => i + 1 \in T  BY <1>6
    <3>. QED  BY ONLY d \in Nat \ {0}, <1>5, <2>1, <3>1, HoldsOfAll
  <2>. QED  BY <2>2
<1>8. ASSUME NEW i \in 0..(d - 1)  PROVE up[back[i]] \in edges /\ up[back[i]].to = back[i]
  <2>1. i \in 0..d /\ d - i \in Nat /\ d - i > 0  OBVIOUS
  <2>2. back[i] \in met \ {from}  BY <1>4, <1>7, <2>1
  <2>. QED  BY <2>2
<1>9. back[d] = from
  <2>1. AtDistance(next, {from}, back[d], 0)
    <3>1. d \in 0..d /\ d - d = 0  OBVIOUS
    <3>. QED  BY <1>7, <3>1
  <2>. QED  BY <2>1, WithinSteps DEF AtDistance
<1>. QED  BY <1>8, <1>9 DEF back, LeadsBack


-----------------------------------------------------------------------------
(***************************************************************************)
(* The paths.                                                              *)
(***************************************************************************)
\* Each node met but the first has the edge it spared met by, from a node one
\* step nearer.
ParentsFit ==
    \A n \in seen \ {query.from} :
        /\ n \in DOMAIN parents /\ parents[n] \in graph /\ parents[n].to = n /\ parents[n].from \in seen
        /\ \A d \in Nat : AtDistance(Successors, {query.from}, n, d) =>
                              d > 0 /\ AtDistance(Successors, {query.from}, parents[n].from, d - 1)

Ends == {p.edge.to : p \in pending}
Spared == IF cut THEN Nodes ELSE {}
PathInv ==
    /\ query.from \in Nodes /\ query.depth \in Nat /\ query.budget \in Nat
    /\ Search(Successors, query.from, seen, queue, current, Ends, Spared, query.depth)
    /\ query.to \notin seen
    /\ \A p \in pending : p.edge \in graph /\ p.edge.from = current.at
    /\ ParentsFit

LEMMA GraphEdges ==
    ASSUME graph \subseteq Edge, NEW e \in graph
    PROVE  e.from \in Nodes /\ e.to \in Nodes /\ e.from # e.to
  BY GraphAssumption DEF GraphAssumption, Edge, Link, Nodes

LEMMA PathVisitKeeps ==
    ASSUME PathInv, graph \subseteq Edge, PathVisit
    PROVE  PathInv' /\ UNCHANGED <<query, status>>
<1>1. /\ pending = {} /\ queue # << >> /\ current' = Head(queue) /\ queue' = Tail(queue)
      /\ pending' = Unhopped(Out(Head(queue).at))
      /\ UNCHANGED <<graph, query, seen, parents, cut, status>>
  BY DEF PathVisit, AtHead
<1>2. Ends = {}  BY <1>1 DEF Ends
<1>3. Search(Successors, query.from, seen, queue, current, {}, Spared, query.depth) /\ query.depth \in Nat
  BY <1>2 DEF PathInv
<1>4. Head(queue) # None
  <2>1. InOrder(queue, Front(current))  BY <1>3 DEF Search, Breadth
  <2>2. Head(queue) \in Visits  BY <1>1, <2>1, OrderOfTail
  <2>. QED  BY <2>2, QueryAssumption DEF QueryAssumption, Visits
<1>5. /\ Search(Successors, query.from, seen, Tail(queue), Head(queue), Successors[Head(queue).at],
                Spared, query.depth)
      /\ Head(queue).at \in Nodes
  <2>1. /\ Search(Successors, query.from, seen, Tail(queue), Head(queue), Successors[Head(queue).at],
                  Spared, query.depth)
        /\ Head(queue).at \in seen
    BY <1>1, <1>3, <1>4, SearchTakes
  <2>. QED  BY <2>1 DEF Search
<1>6. \A p \in pending' : p.edge \in graph /\ p.edge.from = Head(queue).at
  BY <1>1 DEF Unhopped, Out
<1>7. Successors[Head(queue).at] = {e.to : e \in Out(Head(queue).at)}  BY <1>5 DEF Successors
<1>8. Ends' = Successors[Head(queue).at]
  <2>1. Ends' = {p.edge.to : p \in Unhopped(Out(Head(queue).at))}  BY <1>1 DEF Ends
  <2>2. ASSUME NEW e \in Out(Head(queue).at)
        PROVE  \E p \in Unhopped(Out(Head(queue).at)) : p.edge = e
    <3>1. [edge |-> e, hops |-> 0] \in Unhopped(Out(Head(queue).at))  BY DEF Unhopped
    <3>. QED  BY <3>1
  <2>3. \A p \in Unhopped(Out(Head(queue).at)) : p.edge \in Out(Head(queue).at)  BY DEF Unhopped
  <2>. QED  BY <1>7, <2>1, <2>2, <2>3
<1>9. UNCHANGED <<Successors, Spared>>  BY <1>1 DEF Successors, Out, Spared
<1>10. ParentsFit'  BY <1>1, <1>9 DEF PathInv, ParentsFit
<1>11. Search(Successors', query'.from, seen', queue', current', Ends', Spared', query'.depth)
  BY <1>1, <1>5, <1>8, <1>9
<1>. QED  BY <1>1, <1>6, <1>10, <1>11 DEF PathInv

LEMMA FollowPathKeeps ==
    ASSUME PathInv, graph \subseteq Edge, status = "running", query.kind = "path", FollowPath
    PROVE  \/ PathInv' /\ status' = "running" /\ query' = query
           \/ status' \in {"found", "limited"} /\ PathIsTrue' /\ query' = query
<1>1. PICK p \in pending : LET e == p.edge IN
        \/ /\ e.to \in seen
           /\ pending' = pending \ {p}
           /\ UNCHANGED <<queue, seen, parents, cut, status>>
        \/ /\ e.to \notin seen /\ current.depth >= query.depth
           /\ pending' = pending \ {p} /\ cut' = TRUE
           /\ UNCHANGED <<queue, seen, parents, status>>
        \/ /\ e.to \notin seen /\ current.depth < query.depth
           /\ Cardinality(seen) >= query.budget
           /\ Stop("limited")
           /\ UNCHANGED <<seen, parents, cut>>
        \/ /\ e.to \notin seen /\ current.depth < query.depth
           /\ Cardinality(seen) < query.budget
           /\ seen' = seen \cup {e.to}
           /\ parents' = [n \in DOMAIN parents \cup {e.to} |-> IF n = e.to THEN e ELSE parents[n]]
           /\ IF e.to = query.to
              THEN Stop("found")
              ELSE /\ queue' = Append(queue, Visit(e.to, None, current.depth + 1))
                   /\ pending' = pending \ {p} /\ UNCHANGED status
           /\ UNCHANGED cut
  BY DEF FollowPath
<1>. DEFINE e    == p.edge
            rest == {x.edge.to : x \in pending \ {p}}
<1>2. /\ UNCHANGED <<graph, query, current>> /\ UNCHANGED Successors
  BY DEF FollowPath, Successors, Out
<1>3. /\ Search(Successors, query.from, seen, queue, current, Ends, Spared, query.depth)
      /\ query.from \in Nodes /\ query.depth \in Nat /\ query.budget \in Nat /\ query.to \notin seen
      /\ \A x \in pending : x.edge \in graph /\ x.edge.from = current.at
      /\ ParentsFit
  BY DEF PathInv
<1>4. /\ e \in graph /\ e.from = current.at /\ e.to \in Nodes /\ e.to \in Ends
      /\ rest \subseteq Ends /\ \A m \in Ends : m \in rest \/ m = e.to
  BY <1>3, GraphEdges DEF Ends
<1>5. seen \subseteq Nodes /\ IsFiniteSet(seen) /\ Cardinality(seen) \in Nat
  <2>1. seen \subseteq Nodes  BY <1>3 DEF Search
  <2>. QED  BY <2>1, GraphAssumption, FS_Subset, FS_CardinalityType DEF GraphAssumption
<1>6. current \in Visits /\ current.depth \in Nat /\ current.at \in seen
  BY <1>3, <1>4 DEF Search, Visits
<1>7. ASSUME e.to \in seen, pending' = pending \ {p}, UNCHANGED <<queue, seen, parents, cut, status>>
      PROVE  PathInv'
  <2>1. Search(Successors, query.from, seen, queue, current, rest, Spared, query.depth)
    <3>. HIDE DEF rest
    <3>. QED  BY <1>3, <1>4, <1>7, SearchPasses
  <2>2. Ends' = rest  BY <1>7 DEF Ends
  <2>3. Search(Successors', query'.from, seen', queue', current', Ends', Spared', query'.depth)
    BY <1>2, <1>7, <2>1, <2>2 DEF Spared
  <2>4. ParentsFit'  BY <1>2, <1>3, <1>7 DEF ParentsFit
  <2>. QED  BY <1>2, <1>3, <1>7, <2>3, <2>4 DEF PathInv
<1>8. ASSUME current.depth >= query.depth, pending' = pending \ {p}, cut' = TRUE,
             UNCHANGED <<queue, seen, parents, status>>
      PROVE  PathInv'
  <2>1. Search(Successors, query.from, seen, queue, current, rest, Nodes, query.depth)
    <3>1. current.at \in Nodes /\ Spared \subseteq Nodes  BY <1>5, <1>6 DEF Spared
    <3>. HIDE DEF rest
    <3>. QED  BY <1>3, <1>4, <1>8, <3>1, SearchPasses
  <2>2. Ends' = rest  BY <1>8 DEF Ends
  <2>3. Search(Successors', query'.from, seen', queue', current', Ends', Spared', query'.depth)
    BY <1>2, <1>8, <2>1, <2>2 DEF Spared
  <2>4. ParentsFit'  BY <1>2, <1>3, <1>8 DEF ParentsFit
  <2>. QED  BY <1>2, <1>3, <1>8, <2>3, <2>4 DEF PathInv
<1>9. ASSUME Cardinality(seen) >= query.budget, Stop("limited"), UNCHANGED seen
      PROVE  status' = "limited" /\ PathIsTrue'
  BY <1>2, <1>3, <1>5, <1>9 DEF Stop, PathIsTrue
<1>10. ASSUME e.to \notin seen, current.depth < query.depth, seen' = seen \cup {e.to},
              parents' = [n \in DOMAIN parents \cup {e.to} |-> IF n = e.to THEN e ELSE parents[n]],
              UNCHANGED cut
       PROVE  /\ AtDistance(Successors, {query.from}, e.to, current.depth + 1)
              /\ Search(Successors, query.from, seen \cup {e.to},
                        Append(queue, Visit(e.to, None, current.depth + 1)), current, Ends, Spared, query.depth)
              /\ ParentsFit'
  <2>1. /\ AtDistance(Successors, {query.from}, e.to, current.depth + 1)
        /\ Search(Successors, query.from, seen \cup {e.to},
                  Append(queue, Visit(e.to, None, current.depth + 1)), current, Ends, Spared, query.depth)
    <3>. HIDE DEF e
    <3>. QED  BY <1>3, <1>4, <1>10, SearchMeets
  <2>2. AtDistance(Successors, {query.from}, current.at, current.depth)
    BY <1>3, <1>4 DEF Search
  <2>3. ASSUME NEW n \in seen' \ {query.from}
        PROVE  /\ n \in DOMAIN parents' /\ parents'[n] \in graph /\ parents'[n].to = n
               /\ parents'[n].from \in seen'
               /\ \A d \in Nat : AtDistance(Successors, {query.from}, n, d) =>
                      d > 0 /\ AtDistance(Successors, {query.from}, parents'[n].from, d - 1)
    <3>1. CASE n = e.to
      <4>1. n \in DOMAIN parents' /\ parents'[n] = e  BY <1>10, <3>1
      <4>2. ASSUME NEW d \in Nat, AtDistance(Successors, {query.from}, n, d)
            PROVE  d > 0 /\ AtDistance(Successors, {query.from}, e.from, d - 1)
        <5>1. d = current.depth + 1  BY <1>6, <2>1, <3>1, <4>2, DistanceIsOne
        <5>2. d - 1 = current.depth  BY <1>6, <5>1
        <5>. QED  BY <1>4, <1>6, <2>2, <5>1, <5>2
      <4>. QED  BY <1>4, <1>6, <1>10, <3>1, <4>1, <4>2
    <3>2. CASE n # e.to
      <4>1. n \in seen \ {query.from}  BY <1>10, <2>3, <3>2
      <4>2. n \in DOMAIN parents' /\ parents'[n] = parents[n]  BY <1>3, <1>10, <3>2, <4>1 DEF ParentsFit
      <4>. QED  BY <1>3, <1>10, <4>1, <4>2 DEF ParentsFit
    <3>. QED  BY <3>1, <3>2
  <2>. QED  BY <1>2, <2>1, <2>3 DEF ParentsFit
<1>11. ASSUME e.to \notin seen, current.depth < query.depth, seen' = seen \cup {e.to},
              parents' = [n \in DOMAIN parents \cup {e.to} |-> IF n = e.to THEN e ELSE parents[n]],
              UNCHANGED cut, e.to # query.to,
              queue' = Append(queue, Visit(e.to, None, current.depth + 1)), pending' = pending \ {p}
       PROVE  PathInv'
  <2>1. /\ Search(Successors, query.from, seen', queue', current, Ends, Spared, query.depth)
        /\ ParentsFit'
    BY <1>10, <1>11
  <2>2. Search(Successors, query.from, seen', queue', current, rest, Spared, query.depth)
    <3>1. \A m \in Ends : m \in rest \/ m \in seen'  BY <1>4, <1>11
    <3>. HIDE DEF rest
    <3>. QED  BY <1>3, <1>4, <2>1, <3>1, SearchPasses
  <2>3. Ends' = rest  BY <1>11 DEF Ends
  <2>4. Search(Successors', query'.from, seen', queue', current', Ends', Spared', query'.depth)
    BY <1>2, <1>11, <2>2, <2>3 DEF Spared
  <2>. QED  BY <1>2, <1>3, <1>4, <1>11, <2>1, <2>4 DEF PathInv
<1>12. ASSUME e.to \notin seen, current.depth < query.depth, seen' = seen \cup {e.to},
              parents' = [n \in DOMAIN parents \cup {e.to} |-> IF n = e.to THEN e ELSE parents[n]],
              UNCHANGED cut, e.to = query.to, Stop("found")
       PROVE  status' = "found" /\ PathIsTrue'
  <2>. DEFINE d == current.depth + 1
  <2>1. /\ AtDistance(Successors, {query.from}, query.to, d) /\ ParentsFit'
    BY <1>10, <1>12
  <2>2. d \in 1..query.depth /\ d \in Nat \ {0}  BY <1>3, <1>6, <1>12
  <2>3. AtDistance(Successors', {query'.from}, query'.to, d)  BY <1>2, <2>1
  <2>4. query'.to \in seen'  BY <1>2, <1>12
  <2>. HIDE DEF d
  <2>5. LeadsBack(query'.to, parents', graph', query'.from, d)
    <3>1. \A n \in seen' \ {query'.from} :
              /\ parents'[n] \in graph' /\ parents'[n].to = n /\ parents'[n].from \in seen'
              /\ \A j \in Nat : AtDistance(Successors', {query'.from}, n, j) =>
                      j > 0 /\ AtDistance(Successors', {query'.from}, parents'[n].from, j - 1)
      BY <2>1 DEF ParentsFit
    <3>. QED  BY <2>2, <2>3, <2>4, <3>1, ParentsLeadBack
  <2>6. FoundPath'  BY <1>2, <2>2, <2>3, <2>5 DEF FoundPath, LeadsBack
  <2>7. status' = "found"  BY <1>12 DEF Stop
  <2>. QED  BY <2>6, <2>7 DEF PathIsTrue
<1>. QED
  BY <1>1, <1>2, <1>7, <1>8, <1>9, <1>11, <1>12

LEMMA PathEndsKeeps ==
    ASSUME PathInv, graph \subseteq Edge, PathEnds
    PROVE  status' \in {"limited", "not_found"} /\ PathIsTrue' /\ query' = query
<1>1. /\ pending = {} /\ queue = << >> /\ status' = IF cut THEN "limited" ELSE "not_found"
      /\ UNCHANGED <<graph, query, seen, cut>>
  BY DEF PathEnds, AtEnd, walk
<1>2. Ends = {}  BY <1>1 DEF Ends
<1>3. /\ Within(Successors, {query.from}, query.depth) \subseteq seen
      /\ ~ cut => query.from \in seen /\ \A n \in seen : Successors[n] \subseteq seen
      /\ query.to \notin seen
  <2>1. Search(Successors, query.from, seen, << >>, current, {}, Spared, query.depth)
    BY <1>1, <1>2 DEF PathInv
  <2>2. query.depth \in Nat /\ query.to \notin seen  BY DEF PathInv
  <2>3. /\ Within(Successors, {query.from}, query.depth) \subseteq seen
        /\ Spared = {} => Closed(Successors, query.from, seen)
    BY ONLY <2>1, <2>2, SearchEnds
  <2>4. CASE cut  BY <2>2, <2>3, <2>4
  <2>5. CASE ~ cut
    <3>1. Spared = {}  BY <2>5 DEF Spared
    <3>. QED  BY <2>2, <2>3, <3>1 DEF Closed
  <2>. QED  BY <2>4, <2>5
<1>4. ~ cut => query.to \notin Within(Successors, {query.from}, Cardinality(Nodes))
  <2>1. Cardinality(Nodes) \in Nat  BY GraphAssumption, FS_CardinalityType DEF GraphAssumption
  <2>. QED  BY <1>3, <2>1, WithinClosed
<1>5. UNCHANGED Successors  BY <1>1 DEF Successors, Out
<1>. QED  BY <1>1, <1>3, <1>4, <1>5 DEF PathIsTrue


-----------------------------------------------------------------------------
(***************************************************************************)
(* The impact view.                                                        *)
(***************************************************************************)
Others == {Other(p.edge) : p \in pending}

ImpactInv ==
    /\ query.from \in Nodes /\ query.depth \in Nat /\ query.budget \in Nat
    /\ \/ cut /\ queue = << >> /\ pending = {}
       \/ Search(Impacts, query.from, seen, queue, current, Others, Spared, query.depth)
    /\ \A p \in pending : /\ p.edge \in Affected(current.at) /\ current.depth < query.depth
                          /\ current.at \in seen
    /\ DOMAIN reached = seen \cap Services
    /\ \A n \in DOMAIN reached : reached[n] \in Nat /\ AtDistance(Impacts, {query.from}, n, reached[n])
    /\ ~ cut => shown = seen
    /\ \A e \in links : \E n \in seen : e \in Affected(n)
    /\ ~ cut => \A n \in seen : \A e \in Affected(n) :
                    Waits(queue, n) \/ e \in links \/ e \in {p.edge : p \in pending}

LEMMA SearchDistances ==
    ASSUME NEW next, NEW from, NEW met, NEW line, NEW at, NEW ahead, NEW spared, NEW limit \in Nat,
           Search(next, from, met, line, at, ahead, spared, limit)
    PROVE  /\ \A n \in met : \E d \in Nat : AtDistance(next, {from}, n, d)
           /\ met \subseteq Nodes /\ from \in met
           /\ \A i \in 1..Len(line) : /\ line[i] \in Visits /\ line[i].at \in met
                                      /\ AtDistance(next, {from}, line[i].at, line[i].depth)
<1>1. InOrder(line, Front(at))  BY DEF Search, Breadth
<1>2. \A i \in 1..Len(line) : line[i] \in Visits  BY <1>1 DEF InOrder
<1>. QED  BY <1>2 DEF Search, Breadth

LEMMA ImpactsAreOthers ==
    ASSUME graph \subseteq Edge, NEW n \in Nodes
    PROVE  /\ \A e \in Affected(n) : Other(e) \in Impacts[n]
           /\ \A m \in Impacts[n] : \E e \in Affected(n) : m = Other(e)
           /\ Impacts[n] \subseteq Nodes
<1>1. \A e \in graph : e.from \in Nodes /\ e.to \in Nodes
  BY GraphEdges
<1>2. Impacts[n] = {e.to : e \in {x \in Out(n) : x.type \in Forward}}
                   \cup {e.from : e \in {x \in graph : x.to = n /\ x.type \in Reverse}}
  BY DEF Impacts
<1>3. Forward \cap Reverse = {}  BY DEF Forward, Reverse
<1>4. ASSUME NEW e \in Affected(n)  PROVE Other(e) \in Impacts[n]
  BY <1>2, <1>3, <1>4 DEF Affected, Other, Out
<1>5. ASSUME NEW m \in Impacts[n]  PROVE \E e \in Affected(n) : m = Other(e)
  <2>1. CASE \E e \in graph : e.from = n /\ e.type \in Forward /\ m = e.to
    BY <2>1 DEF Affected, Other
  <2>2. CASE \E e \in graph : e.to = n /\ e.type \in Reverse /\ m = e.from
    BY <2>2, <1>3 DEF Affected, Other
  <2>. QED  BY <1>2, <1>5, <2>1, <2>2 DEF Out
<1>6. Impacts[n] \subseteq Nodes  BY <1>1, <1>2 DEF Out
<1>. QED  BY <1>4, <1>5, <1>6

\* What Show does to the depths, when the distance of the node is d.
LEMMA ShowKeeps ==
    ASSUME ImpactInv, UNCHANGED <<graph, query>>, NEW n, NEW d \in Nat, Show(n, d),
           n \in Within(Impacts, {query.from}, d), n \notin seen => AtDistance(Impacts, {query.from}, n, d)
    PROVE  /\ DOMAIN reached' = (seen \cup {n}) \cap Services
           /\ \A m \in DOMAIN reached' :
                  reached'[m] \in Nat /\ AtDistance(Impacts, {query.from}, m, reached'[m])
           /\ shown' = Added(shown, n)
<1>1. /\ shown' = Added(shown, n)
      /\ reached' = [m \in DOMAIN reached \cup ({n} \cap Services) |->
             IF m = n /\ (n \in DOMAIN reached => d < reached[n]) THEN d ELSE reached[m]]
  BY DEF Show
<1>2. /\ DOMAIN reached = seen \cap Services
      /\ \A m \in DOMAIN reached : reached[m] \in Nat /\ AtDistance(Impacts, {query.from}, m, reached[m])
  BY DEF ImpactInv
<1>3. ASSUME NEW m \in DOMAIN reached'
      PROVE  reached'[m] \in Nat /\ AtDistance(Impacts, {query.from}, m, reached'[m])
  <2>1. CASE m = n /\ n \notin seen
    <3>1. m \in DOMAIN reached \cup ({n} \cap Services) /\ n \notin DOMAIN reached  BY <1>1, <1>2, <1>3, <2>1
    <3>2. reached'[m] = d  BY <1>1, <2>1, <3>1
    <3>. QED  BY <2>1, <3>2
  <2>2. CASE m = n /\ n \in seen
    <3>1. n \in DOMAIN reached  BY <1>1, <1>2, <1>3, <2>2
    <3>2. ~ d < reached[n]
      <4>. SUFFICES ASSUME d < reached[n]  PROVE FALSE  OBVIOUS
      <4>1. reached[n] - 1 \in Nat /\ d <= reached[n] - 1 /\ reached[n] > 0  BY <1>2, <3>1
      <4>2. Within(Impacts, {query.from}, d) \subseteq Within(Impacts, {query.from}, reached[n] - 1)
        BY <4>1, WithinGrowing
      <4>. QED  BY <1>2, <3>1, <4>1, <4>2 DEF AtDistance
    <3>3. reached'[m] = reached[m]  BY <1>1, <2>2, <3>1, <3>2
    <3>. QED  BY <1>2, <2>2, <3>1, <3>3
  <2>3. CASE m # n
    <3>1. m \in DOMAIN reached /\ reached'[m] = reached[m]  BY <1>1, <1>3, <2>3
    <3>. QED  BY <1>2, <3>1
  <2>. QED  BY <2>1, <2>2, <2>3
<1>4. DOMAIN reached' = (seen \cup {n}) \cap Services  BY <1>1, <1>2
<1>. QED  BY <1>1, <1>3, <1>4


\* The steps that leave the graph, the query and what was met alone.
LEMMA ImpactCutKeeps ==
    ASSUME ImpactInv, ImpactCut \/ ImpactFull
    PROVE  ImpactInv' /\ UNCHANGED <<query, status>>
<1>1. /\ UNCHANGED <<graph, query, status, current, pending, seen, reached, shown, links>>
      /\ cut' = TRUE /\ pending = {} /\ queue # << >>
  BY DEF ImpactCut, ImpactFull, AtHead
<1>2. UNCHANGED <<Impacts, Others>> /\ \A n : Affected(n)' = Affected(n)
  BY <1>1 DEF Impacts, Out, Others, Affected
<1>3. \/ cut' /\ queue' = << >> /\ pending' = {}
      \/ Search(Impacts, query.from, seen, queue', current, Others, Nodes, query.depth)
  <2>1. CASE ImpactFull  BY <1>1, <2>1 DEF ImpactFull
  <2>2. CASE ImpactCut
    <3>1. queue' = Tail(queue) /\ Head(queue).depth >= query.depth  BY <2>2 DEF ImpactCut
    <3>2. Others = {}  BY <1>1 DEF Others
    <3>3. Search(Impacts, query.from, seen, queue, current, {}, Spared, query.depth) /\ query.depth \in Nat
      BY <1>1, <3>2 DEF ImpactInv
    <3>4. Search(Impacts, query.from, seen, Tail(queue), current, {}, Nodes, query.depth)
      BY <1>1, <3>1, <3>3, SearchDrops
    <3>. QED  BY <3>1, <3>2, <3>4
  <2>. QED  BY <2>1, <2>2
<1>4. Spared' = Nodes  BY <1>1 DEF Spared
<1>5. \/ cut' /\ queue' = << >> /\ pending' = {}
      \/ Search(Impacts', query'.from, seen', queue', current', Others', Spared', query'.depth)
  BY <1>1, <1>2, <1>3, <1>4
<1>. QED  BY <1>1, <1>2, <1>5 DEF ImpactInv

LEMMA ImpactVisitKeeps ==
    ASSUME ImpactInv, graph \subseteq Edge, ImpactVisit
    PROVE  ImpactInv' /\ UNCHANGED <<query, status>>
<1>. DEFINE v == Head(queue)
<1>1. /\ pending = {} /\ queue # << >> /\ v.depth < query.depth /\ ~ Full(shown)
      /\ current' = v /\ queue' = Tail(queue) /\ Show(v.at, v.depth)
      /\ pending' = Unhopped(Affected(v.at))
      /\ UNCHANGED <<graph, query, status, seen, links, cut>>
  BY DEF ImpactVisit, AtHead
<1>2. UNCHANGED <<Impacts, Spared>> /\ \A n : Affected(n)' = Affected(n)
  BY <1>1 DEF Impacts, Out, Spared, Affected
<1>3. /\ Search(Impacts, query.from, seen, queue, current, {}, Spared, query.depth)
      /\ query.depth \in Nat
  <2>1. Others = {}  BY <1>1 DEF Others
  <2>. QED  BY <1>1, <2>1 DEF ImpactInv
<1>4. InOrder(queue, Front(current))  BY <1>3 DEF Search, Breadth
<1>5. v # None /\ v \in Visits /\ v.depth \in Nat
  <2>1. v \in Visits  BY <1>1, <1>4, OrderOfTail
  <2>. QED  BY <2>1, QueryAssumption DEF QueryAssumption, Visits
<1>6. /\ Search(Impacts, query.from, seen, Tail(queue), v, Impacts[v.at], Spared, query.depth)
      /\ v.at \in seen /\ AtDistance(Impacts, {query.from}, v.at, v.depth)
  <2>. HIDE DEF v
  <2>. QED  BY <1>1, <1>3, <1>5, SearchTakes DEF v
<1>7. v.at \in Nodes /\ seen \subseteq Nodes  BY <1>6 DEF Search
<1>8. Others' = Impacts[v.at]
  <2>1. ASSUME NEW p \in pending'  PROVE Other(p.edge) \in Impacts[v.at]
    BY <1>1, <1>7, <2>1, ImpactsAreOthers DEF Unhopped
  <2>2. ASSUME NEW m \in Impacts[v.at]  PROVE \E p \in pending' : m = Other(p.edge)
    <3>1. PICK e \in Affected(v.at) : m = Other(e)  BY <1>7, <2>2, ImpactsAreOthers
    <3>2. [edge |-> e, hops |-> 0] \in pending'  BY <1>1 DEF Unhopped
    <3>. QED  BY <3>1, <3>2
  <2>4. Others' = {Other(p.edge) : p \in pending'}  BY DEF Others, Other
  <2>. QED  BY <2>1, <2>2, <2>4
<1>9. Search(Impacts', query'.from, seen', queue', current', Others', Spared', query'.depth)
  BY <1>1, <1>2, <1>6, <1>8
<1>10. /\ DOMAIN reached' = seen' \cap Services
       /\ \A n \in DOMAIN reached' :
              reached'[n] \in Nat /\ AtDistance(Impacts', {query'.from}, n, reached'[n])
       /\ shown' = Added(shown, v.at)
  <2>1. v.at \in Within(Impacts, {query.from}, v.depth) /\ seen \cup {v.at} = seen
    BY <1>6 DEF AtDistance
  <2>. HIDE DEF v
  <2>2. /\ DOMAIN reached' = (seen \cup {v.at}) \cap Services
        /\ \A m \in DOMAIN reached' :
               reached'[m] \in Nat /\ AtDistance(Impacts, {query.from}, m, reached'[m])
        /\ shown' = Added(shown, v.at)
    BY <1>1, <1>5, <1>6, <2>1, ShowKeeps
  <2>. QED  BY <1>1, <1>2, <2>1, <2>2
<1>11. ~ cut' => shown' = seen'
  <2>1. shown' = shown \cup {v.at}  BY <1>1, <1>10 DEF Added
  <2>. QED  BY <1>1, <1>6, <2>1 DEF ImpactInv
<1>12. \A p \in pending' : p.edge \in Affected(v.at)  BY <1>1 DEF Unhopped
<1>13. ASSUME ~ cut', NEW n \in seen', NEW e \in Affected(n)
       PROVE  Waits(queue', n) \/ e \in links' \/ e \in {p.edge : p \in pending'}
  <2>1. Waits(queue, n) \/ e \in links  BY <1>1, <1>13 DEF ImpactInv
  <2>2. CASE n = v.at
    <3>1. [edge |-> e, hops |-> 0] \in pending'  BY <1>1, <2>2 DEF Unhopped
    <3>2. [edge |-> e, hops |-> 0].edge = e  OBVIOUS
    <3>. QED  BY <3>1, <3>2
  <2>3. CASE n # v.at /\ Waits(queue, n)
    <3>1. PICK i \in 1..Len(queue) : queue[i].at = n  BY <2>3 DEF Waits
    <3>2. /\ v = queue[1] /\ Len(Tail(queue)) = Len(queue) - 1 /\ Len(queue) \in Nat
          /\ \A j \in 1..Len(Tail(queue)) : Tail(queue)[j] = queue[j + 1]
      BY <1>1, <1>4, OrderOfTail
    <3>3. i # 1  BY <2>3, <3>1, <3>2
    <3>4. i - 1 \in 1..Len(Tail(queue)) /\ (i - 1) + 1 = i  BY <3>2, <3>3
    <3>5. Tail(queue)[i - 1].at = n  BY <3>1, <3>2, <3>4
    <3>. QED  BY <1>1, <3>4, <3>5 DEF Waits
  <2>. QED  BY <1>1, <2>1, <2>2, <2>3
<1>. QED
  BY <1>1, <1>2, <1>6, <1>9, <1>10, <1>11, <1>12, <1>13 DEF ImpactInv


LEMMA FollowImpactKeeps ==
    ASSUME ImpactInv, graph \subseteq Edge, FollowImpact
    PROVE  ImpactInv' /\ UNCHANGED <<query, status>>
<1>1. PICK p \in pending :
        LET e == p.edge  n == Other(e) IN
        /\ pending' = pending \ {p}
        /\ Show(n, current.depth + 1)
        /\ cut' = (cut \/ Full(shown) \/ (n \in Services /\ Full(Added(shown, n))))
        /\ links' = links \cup {e}
        /\ seen' = seen \cup {n}
        /\ queue' = IF n \in seen THEN queue ELSE Append(queue, Visit(n, None, current.depth + 1))
  BY DEF FollowImpact
<1>. DEFINE e    == p.edge
            n    == Other(e)
            rest == {Other(x.edge) : x \in pending \ {p}}
<1>2. UNCHANGED <<graph, query, status, current>>  BY DEF FollowImpact
<1>3. UNCHANGED Impacts /\ \A m : Affected(m)' = Affected(m)
  BY <1>2 DEF Impacts, Out, Affected
<1>4. /\ Search(Impacts, query.from, seen, queue, current, Others, Spared, query.depth)
      /\ query.from \in Nodes /\ query.depth \in Nat /\ query.budget \in Nat
      /\ e \in Affected(current.at) /\ current.depth < query.depth /\ current.at \in seen
  BY DEF ImpactInv
<1>5. /\ current # None /\ current \in Visits /\ current.depth \in Nat /\ seen \subseteq Nodes
      /\ AtDistance(Impacts, {query.from}, current.at, current.depth)
  <2>1. current # None  BY DEF Search, ImpactInv, Others
  <2>. QED  BY <1>4, <2>1 DEF Search, Visits
<1>6. /\ n \in Impacts[current.at] /\ n \in Nodes /\ n \in Others
      /\ rest \subseteq Others /\ \A m \in Others : m \in rest \/ m = n
  <2>1. current.at \in Nodes  BY <1>4, <1>5
  <2>2. n \in Impacts[current.at] /\ n \in Nodes  BY <1>4, <2>1, ImpactsAreOthers
  <2>. QED  BY <2>2 DEF Others
<1>7. n \in Within(Impacts, {query.from}, current.depth + 1)
  <2>1. current.at \in Within(Impacts, {query.from}, current.depth)  BY <1>5 DEF AtDistance
  <2>. HIDE DEF n
  <2>. QED  BY <1>5, <1>6, <2>1, WithinSteps
<1>8. /\ Search(Impacts, query.from, seen', queue', current, Others, Spared, query.depth)
      /\ n \notin seen => AtDistance(Impacts, {query.from}, n, current.depth + 1)
  <2>1. CASE n \in seen
    <3>1. seen' = seen /\ queue' = queue  BY <1>1, <2>1
    <3>. QED  BY <1>4, <2>1, <3>1
  <2>2. CASE n \notin seen
    <3>1. seen' = seen \cup {n} /\ queue' = Append(queue, Visit(n, None, current.depth + 1))
      BY <1>1, <2>2
    <3>. HIDE DEF n
    <3>. QED  BY <1>4, <1>6, <2>2, <3>1, SearchMeets
  <2>. QED  BY <2>1, <2>2
<1>9. Search(Impacts', query'.from, seen', queue', current', Others', Spared', query'.depth)
  <2>1. Others' = rest  BY <1>1 DEF Others, Other
  <2>2. Spared \subseteq Spared'  BY <1>1 DEF Spared
  <2>3. \A m \in Others : m \in rest \/ m \in seen'  BY <1>1, <1>6
  <2>. HIDE DEF rest, n
  <2>4. Search(Impacts, query.from, seen', queue', current, rest, Spared', query.depth)
    BY <1>4, <1>6, <1>8, <2>2, <2>3, SearchPasses
  <2>. QED  BY <1>2, <1>3, <2>1, <2>4
<1>10. /\ DOMAIN reached' = seen' \cap Services
       /\ \A m \in DOMAIN reached' :
              reached'[m] \in Nat /\ AtDistance(Impacts', {query'.from}, m, reached'[m])
       /\ shown' = Added(shown, n)
  <2>1. Show(n, current.depth + 1) /\ seen' = seen \cup {n}  BY <1>1
  <2>2. current.depth + 1 \in Nat  BY <1>5
  <2>. HIDE DEF n
  <2>3. /\ DOMAIN reached' = (seen \cup {n}) \cap Services
        /\ \A m \in DOMAIN reached' :
               reached'[m] \in Nat /\ AtDistance(Impacts, {query.from}, m, reached'[m])
        /\ shown' = Added(shown, n)
    BY <1>2, <1>7, <1>8, <2>1, <2>2, ShowKeeps
  <2>. QED  BY <1>2, <1>3, <2>1, <2>3
<1>11. ASSUME ~ cut'  PROVE shown' = seen' /\ ~ cut
  <2>1. ~ cut /\ ~ Full(shown)  BY <1>1, <1>11
  <2>2. shown' = shown \cup {n}  BY <1>10, <2>1 DEF Added
  <2>. QED  BY <1>1, <2>1, <2>2 DEF ImpactInv
<1>12. \A x \in links' : \E m \in seen' : x \in Affected(m)  BY <1>1, <1>4 DEF ImpactInv
<1>13. ASSUME ~ cut', NEW m \in seen', NEW x \in Affected(m)
       PROVE  Waits(queue', m) \/ x \in links' \/ x \in {y.edge : y \in pending'}
  <2>1. CASE m \in seen
    <3>1. Waits(queue, m) \/ x \in links \/ x \in {y.edge : y \in pending}
      BY <1>11, <1>13, <2>1 DEF ImpactInv
    <3>2. CASE x \in links  BY <1>1, <3>2
    <3>3. CASE x \in {y.edge : y \in pending}  BY <1>1, <3>3
    <3>4. CASE Waits(queue, m)
      <4>1. PICK i \in 1..Len(queue) : queue[i].at = m  BY <3>4 DEF Waits
      <4>2. queue \in Seq(Visits)  BY <1>4 DEF Search, Breadth, InOrder
      <4>3. CASE queue' = queue  BY <4>1, <4>3 DEF Waits
      <4>4. CASE queue' = Append(queue, Visit(n, None, current.depth + 1))
        <5>1. i \in 1..Len(queue') /\ queue'[i] = queue[i]  BY <4>1, <4>2, <4>4
        <5>. QED  BY <4>1, <5>1 DEF Waits
      <4>. QED  BY <1>1, <4>3, <4>4
    <3>. QED  BY <3>1, <3>2, <3>3, <3>4
  <2>2. CASE m \notin seen
    <3>1. m = n /\ queue' = Append(queue, Visit(n, None, current.depth + 1))  BY <1>1, <1>13, <2>2
    <3>2. queue \in Seq(Visits)  BY <1>4 DEF Search, Breadth, InOrder
    <3>3. /\ Len(queue') = Len(queue) + 1 /\ Len(queue) \in Nat
          /\ queue'[Len(queue) + 1] = Visit(n, None, current.depth + 1)
      BY <3>1, <3>2
    <3>4. Len(queue) + 1 \in 1..Len(queue') /\ queue'[Len(queue) + 1].at = m  BY <3>1, <3>3 DEF Visit
    <3>. QED  BY <3>4 DEF Waits
  <2>. QED  BY <2>1, <2>2
<1>14. \A x \in pending' : /\ x.edge \in Affected(current.at) /\ current.depth < query.depth
                           /\ current.at \in seen'
  BY <1>1 DEF ImpactInv
<1>. QED
  BY <1>2, <1>3, <1>4, <1>9, <1>10, <1>11, <1>12, <1>13, <1>14 DEF ImpactInv

LEMMA ImpactEndsKeeps ==
    ASSUME ImpactInv, graph \subseteq Edge, ImpactEnds
    PROVE  status' \in {"truncated", "complete"} /\ ImpactIsTrue' /\ query' = query
<1>1. /\ pending = {} /\ queue = << >> /\ status' = IF cut THEN "truncated" ELSE "complete"
      /\ UNCHANGED <<graph, query, seen, reached, shown, links, cut>>
  BY DEF ImpactEnds, AtEnd, walk
<1>2. /\ query.from \in Nodes /\ query.depth \in Nat
      /\ DOMAIN reached = seen \cap Services
      /\ \A n \in DOMAIN reached : AtDistance(Impacts, {query.from}, n, reached[n])
  BY DEF ImpactInv
<1>3. UNCHANGED Impacts /\ \A n : Affected(n)' = Affected(n)  BY <1>1 DEF Impacts, Out, Affected
<1>4. ASSUME ~ cut
      PROVE  /\ shown = Within(Impacts, {query.from}, Cardinality(Nodes))
             /\ DOMAIN reached = shown \cap Services
             /\ links = UNION {Affected(n) : n \in shown}
  <2>1. Spared = {} /\ Others = {}  BY <1>1, <1>4 DEF Spared, Others
  <2>2. Search(Impacts, query.from, seen, << >>, current, {}, {}, query.depth)
    BY <1>1, <1>4, <2>1 DEF ImpactInv
  <2>3. Closed(Impacts, query.from, seen)  BY <1>2, <2>2, SearchEnds
  <2>4. /\ \A n \in seen : \E d \in Nat : AtDistance(Impacts, {query.from}, n, d)
        /\ seen \subseteq Nodes
    BY <1>2, <2>2, SearchDistances
  <2>5. IsFiniteSet(Nodes) /\ Cardinality(Nodes) \in Nat
    BY GraphAssumption, FS_CardinalityType DEF GraphAssumption
  <2>6. Within(Impacts, {query.from}, Cardinality(Nodes)) \subseteq seen
    BY <2>3, <2>5, WithinClosed DEF Closed
  <2>7. ASSUME NEW n \in seen  PROVE n \in Within(Impacts, {query.from}, Cardinality(Nodes))
    <3>1. \A m \in Nodes : Impacts[m] \subseteq Nodes  BY ImpactsAreOthers
    <3>2. LET all == Within(Impacts, {query.from}, Cardinality(Nodes)) IN
          {query.from} \subseteq all /\ \A m \in all : Impacts[m] \subseteq all
      BY <1>2, <2>5, <3>1, WithinAll
    <3>3. PICK d \in Nat : AtDistance(Impacts, {query.from}, n, d)  BY <2>4
    <3>4. Within(Impacts, {query.from}, d) \subseteq Within(Impacts, {query.from}, Cardinality(Nodes))
      BY <3>2, WithinClosed
    <3>. QED  BY <3>3, <3>4 DEF AtDistance
  <2>8. shown = seen  BY <1>4 DEF ImpactInv
  <2>9. links = UNION {Affected(n) : n \in seen}
    <3>1. \A x \in links : \E n \in seen : x \in Affected(n)  BY DEF ImpactInv
    <3>2. ASSUME NEW n \in seen, NEW x \in Affected(n)  PROVE x \in links
      <4>1. Waits(queue, n) \/ x \in links \/ x \in {p.edge : p \in pending}
        BY <1>4, <3>2 DEF ImpactInv
      <4>2. ~ Waits(queue, n)  BY <1>1 DEF Waits
      <4>. QED  BY <1>1, <4>1, <4>2
    <3>. QED  BY <3>1, <3>2
  <2>. QED  BY <1>2, <2>6, <2>7, <2>8, <2>9
<1>5. status' = "complete" => ~ cut  BY <1>1
<1>6. ImpactIsTrue'
  BY <1>1, <1>2, <1>3, <1>4, <1>5 DEF ImpactIsTrue
<1>. QED  BY <1>1, <1>6


-----------------------------------------------------------------------------
(***************************************************************************)
(* Walking in rounds, as a flow is viewed: what is visited is marked when  *)
(* it is taken from the queue, which may hold it more than once.  Whatever *)
(* is no further than the node taken last was taken or waits; and whoever  *)
(* was taken before the limit has all it leads to taken or waiting.        *)
(***************************************************************************)
Pair(v) == <<v.at, v.entry>>
InLine(line, w) == \E i \in 1..Len(line) : Pair(line[i]) = w
Followed(next, met, line, v, ahead) == \A w \in next[v] : w \in met \/ InLine(line, w) \/ w \in ahead

Round(next, start, met, line, at, ahead, limit) ==
    /\ InOrder(line, Front(at))
    /\ \A i \in 1..Len(line) :
           line[i].depth <= limit /\ Pair(line[i]) \in Within(next, {start}, line[i].depth)
    /\ \A w \in Within(next, {start}, Front(at)) :
           w \in met \/ \E i \in 1..Len(line) : Pair(line[i]) = w /\ line[i].depth = Front(at)
    /\ Front(at) > 0 => Within(next, {start}, Front(at) - 1) \subseteq met
    /\ \A v \in met : \E d \in 0..limit : AtDistance(next, {start}, v, d)
    /\ \A v \in met : \A d \in Nat :
           AtDistance(next, {start}, v, d) /\ d < limit /\ (at # None => v # Pair(at))
               => Followed(next, met, line, v, {})
    /\ at = None => ahead = {}
    /\ at # None =>
           /\ at \in Visits /\ at.depth <= limit
           /\ Pair(at) \in met /\ AtDistance(next, {start}, Pair(at), at.depth)
           /\ ahead \subseteq next[Pair(at)]
           /\ at.depth < limit => Followed(next, met, line, Pair(at), ahead)

LEMMA RoundBegins ==
    ASSUME NEW next, NEW v \in Visits, v.depth = 0, NEW limit \in Nat
    PROVE  Round(next, Pair(v), {}, <<v>>, None, {}, limit)
<1>1. Within(next, {Pair(v)}, 0) = {Pair(v)}  BY WithinSteps
<1>2. Len(<<v>>) = 1 /\ <<v>>[1] = v /\ <<v>> \in Seq(Visits)  OBVIOUS
<1>3. InOrder(<<v>>, 0)  BY <1>2 DEF InOrder
<1>. QED  BY <1>1, <1>2, <1>3 DEF Round, Front

\* Who is done with a node has followed it.
LEMMA RoundCloses ==
    ASSUME NEW next, NEW start, NEW met, NEW line, NEW at, NEW limit \in Nat,
           Round(next, start, met, line, at, {}, limit),
           NEW v \in met, NEW d \in Nat, AtDistance(next, {start}, v, d), d < limit
    PROVE  Followed(next, met, line, v, {})
<1>1. CASE at # None /\ v = Pair(at)
  <2>1. at.depth \in Nat /\ AtDistance(next, {start}, v, at.depth)  BY <1>1 DEF Round, Visits
  <2>2. d = at.depth  BY <2>1, DistanceIsOne
  <2>. QED  BY <1>1, <2>2 DEF Round
<1>2. CASE at # None => v # Pair(at)  BY <1>2 DEF Round
<1>. QED  BY <1>1, <1>2

LEMMA RoundSkips ==
    ASSUME NEW next, NEW start, NEW met, NEW line, NEW at, NEW limit \in Nat,
           Round(next, start, met, line, at, {}, limit), line # << >>, Pair(Head(line)) \in met
    PROVE  Round(next, start, met, Tail(line), at, {}, limit)
<1>1. InOrder(line, Front(at))  BY DEF Round
<1>2. /\ Head(line) = line[1] /\ Len(Tail(line)) = Len(line) - 1 /\ Len(line) \in Nat /\ Len(line) > 0
      /\ \A i \in 1..Len(Tail(line)) : i + 1 \in 1..Len(line) /\ Tail(line)[i] = line[i + 1]
      /\ InOrder(Tail(line), Front(at))
  BY <1>1, OrderOfTail
<1>3. ASSUME NEW i \in 1..Len(line)
      PROVE  i = 1 \/ (i - 1 \in 1..Len(Tail(line)) /\ Tail(line)[i - 1] = line[i])
  <2>1. i # 1 => i - 1 \in 1..Len(Tail(line)) /\ (i - 1) + 1 = i  BY <1>2
  <2>. QED  BY <1>2, <2>1
<1>4. ASSUME NEW w, InLine(line, w)  PROVE w \in met \/ InLine(Tail(line), w)
  <2>1. PICK i \in 1..Len(line) : Pair(line[i]) = w  BY <1>4 DEF InLine
  <2>. QED  BY <1>2, <1>3, <2>1 DEF InLine
<1>5. \A v, ahead : Followed(next, met, line, v, ahead) => Followed(next, met, Tail(line), v, ahead)
  BY <1>4 DEF Followed
<1>6. ASSUME NEW w \in Within(next, {start}, Front(at))
      PROVE  w \in met \/ \E i \in 1..Len(Tail(line)) : Pair(Tail(line)[i]) = w /\ Tail(line)[i].depth = Front(at)
  <2>1. CASE w \in met  BY <2>1
  <2>2. CASE \E i \in 1..Len(line) : Pair(line[i]) = w /\ line[i].depth = Front(at)
    <3>1. PICK i \in 1..Len(line) : Pair(line[i]) = w /\ line[i].depth = Front(at)  BY <2>2
    <3>. QED  BY <1>2, <1>3, <3>1
  <2>. QED  BY <2>1, <2>2 DEF Round
<1>7. \A i \in 1..Len(Tail(line)) :
          /\ Tail(line)[i].depth <= limit
          /\ Pair(Tail(line)[i]) \in Within(next, {start}, Tail(line)[i].depth)
  BY <1>2 DEF Round
<1>. QED  BY <1>2, <1>5, <1>6, <1>7 DEF Round


LEMMA RoundTakes ==
    ASSUME NEW next, NEW start, NEW met, NEW line, NEW at, NEW limit \in Nat,
           Round(next, start, met, line, at, {}, limit), line # << >>, Pair(Head(line)) \notin met,
           Head(line) # None
    PROVE  /\ Round(next, start, met \cup {Pair(Head(line))}, Tail(line), Head(line),
                    next[Pair(Head(line))], limit)
           /\ Head(line) \in Visits
<1>. DEFINE h == Head(line)
            f == Front(at)
            m == met \cup {Pair(h)}
<1>1. InOrder(line, f)  BY DEF Round
<1>2. /\ h = line[1] /\ Len(Tail(line)) = Len(line) - 1 /\ Len(line) \in Nat /\ Len(line) > 0
      /\ \A i \in 1..Len(Tail(line)) : i + 1 \in 1..Len(line) /\ Tail(line)[i] = line[i + 1]
      /\ h \in Visits /\ h.depth \in {f, f + 1} /\ InOrder(Tail(line), h.depth)
  BY <1>1, OrderOfTail
<1>3. f \in Nat /\ h.depth \in Nat /\ \A i \in 1..Len(line) : line[i].depth \in {f, f + 1}
  BY <1>1, <1>2 DEF InOrder, Visits
<1>4. \A i, j \in 1..Len(line) : i <= j => line[i].depth <= line[j].depth  BY <1>1 DEF InOrder
<1>5. ASSUME NEW i \in 1..Len(line)
      PROVE  i = 1 \/ (i - 1 \in 1..Len(Tail(line)) /\ Tail(line)[i - 1] = line[i])
  <2>1. i # 1 => i - 1 \in 1..Len(Tail(line)) /\ (i - 1) + 1 = i  BY <1>2
  <2>. QED  BY <1>2, <2>1
<1>6. \A w : InLine(line, w) => w \in m \/ InLine(Tail(line), w)  BY <1>2, <1>5 DEF InLine
<1>7. h.depth <= limit /\ Pair(h) \in Within(next, {start}, h.depth)
  <2>1. 1 \in 1..Len(line)  BY <1>2
  <2>. QED  BY <1>2, <2>1 DEF Round
<1>8. h.depth = f + 1 => Within(next, {start}, f) \subseteq met
  <2>. SUFFICES ASSUME h.depth = f + 1, NEW w \in Within(next, {start}, f)  PROVE w \in met  OBVIOUS
  <2>1. \A i \in 1..Len(line) : line[i].depth >= f + 1
    <3>1. ASSUME NEW i \in 1..Len(line)  PROVE line[i].depth >= f + 1
      <4>1. 1 \in 1..Len(line) /\ 1 <= i  BY <1>2
      <4>2. line[1].depth <= line[i].depth  BY <1>4, <4>1
      <4>. QED  BY <1>2, <1>3, <4>1, <4>2
    <3>. QED  BY <3>1
  <2>2. w \in met \/ \E i \in 1..Len(line) : Pair(line[i]) = w /\ line[i].depth = f  BY DEF Round
  <2>. QED  BY <1>3, <2>1, <2>2
<1>9. h.depth > 0 => Within(next, {start}, h.depth - 1) \subseteq met
  <2>1. CASE h.depth = f  BY <2>1 DEF Round
  <2>2. CASE h.depth = f + 1
    <3>1. h.depth - 1 = f  BY <1>3, <2>2
    <3>. QED  BY <1>8, <2>2, <3>1
  <2>. QED  BY <1>2, <2>1, <2>2
<1>10. AtDistance(next, {start}, Pair(h), h.depth)  BY <1>7, <1>9 DEF AtDistance
<1>11. ASSUME NEW v \in met, NEW d \in Nat, AtDistance(next, {start}, v, d), d < limit
       PROVE  Followed(next, m, Tail(line), v, {})
  <2>1. Followed(next, met, line, v, {})  BY <1>11, RoundCloses
  <2>. QED  BY <1>6, <2>1 DEF Followed
<1>12. ASSUME NEW w \in Within(next, {start}, h.depth)
       PROVE  w \in m \/ \E i \in 1..Len(Tail(line)) : Pair(Tail(line)[i]) = w /\ Tail(line)[i].depth = h.depth
  <2>1. ASSUME NEW i \in 1..Len(line), Pair(line[i]) = w, line[i].depth = h.depth
        PROVE  w \in m \/ \E j \in 1..Len(Tail(line)) : Pair(Tail(line)[j]) = w /\ Tail(line)[j].depth = h.depth
    BY <1>2, <1>5, <2>1
  <2>2. CASE h.depth = f
    <3>1. w \in met \/ \E i \in 1..Len(line) : Pair(line[i]) = w /\ line[i].depth = f
      BY <1>12, <2>2 DEF Round
    <3>. QED  BY <2>1, <2>2, <3>1
  <2>3. CASE h.depth = f + 1
    <3>1. w \in Within(next, {start}, f) \/ \E v \in Within(next, {start}, f) : w \in next[v]
      BY <1>3, <1>12, <2>3, WithinSteps
    <3>2. CASE w \in Within(next, {start}, f)  BY <1>8, <2>3, <3>2
    <3>3. CASE \E v \in Within(next, {start}, f) : w \in next[v]
      <4>1. PICK v \in Within(next, {start}, f) : w \in next[v]  BY <3>3
      <4>2. v \in met  BY <1>8, <2>3
      <4>3. PICK d \in 0..f : AtDistance(next, {start}, v, d)  BY <1>3, HasDistance
      <4>4. d \in Nat /\ d < limit  BY <1>3, <1>7, <2>3
      <4>5. w \in met \/ InLine(line, w)
        <5>1. Followed(next, met, line, v, {})  BY <4>2, <4>3, <4>4, RoundCloses
        <5>. QED  BY <4>1, <5>1 DEF Followed
      <4>6. CASE InLine(line, w)
        <5>1. PICK i \in 1..Len(line) : Pair(line[i]) = w  BY <4>6 DEF InLine
        <5>2. 1 \in 1..Len(line) /\ 1 <= i  BY <1>2
        <5>3. line[1].depth <= line[i].depth  BY <1>4, <5>2
        <5>4. line[i].depth = h.depth  BY <1>2, <1>3, <2>3, <5>3
        <5>. QED  BY <2>1, <5>1, <5>4
      <4>. QED  BY <4>5, <4>6
    <3>. QED  BY <3>1, <3>2, <3>3
  <2>. QED  BY <1>2, <2>2, <2>3
<1>13. \A i \in 1..Len(Tail(line)) :
          /\ Tail(line)[i].depth <= limit
          /\ Pair(Tail(line)[i]) \in Within(next, {start}, Tail(line)[i].depth)
  BY <1>2 DEF Round
<1>14. \A v \in m : \E d \in 0..limit : AtDistance(next, {start}, v, d)
  <2>1. h.depth \in 0..limit  BY <1>3, <1>7
  <2>. QED  BY <1>10, <2>1 DEF Round
<1>15. Followed(next, m, Tail(line), Pair(h), next[Pair(h)])  BY DEF Followed
<1>16. h # None /\ Front(h) = h.depth  BY DEF Front
<1>. HIDE DEF h, f
<1>17. \A v \in m : \A d \in Nat : AtDistance(next, {start}, v, d) /\ d < limit /\ v # Pair(h)
               => Followed(next, m, Tail(line), v, {})
  BY <1>11
<1>18. h.depth > 0 => Within(next, {start}, h.depth - 1) \subseteq m  BY <1>9
<1>. HIDE DEF m
<1>19. Round(next, start, m, Tail(line), h, next[Pair(h)], limit)
  <2>1. Pair(h) \in m  BY DEF m
  <2>2. InOrder(Tail(line), Front(h))  BY <1>2, <1>16
  <2>3. \A w \in Within(next, {start}, Front(h)) :
            w \in m \/ \E i \in 1..Len(Tail(line)) : Pair(Tail(line)[i]) = w /\ Tail(line)[i].depth = Front(h)
    BY <1>12, <1>16
  <2>4. Front(h) > 0 => Within(next, {start}, Front(h) - 1) \subseteq m  BY <1>16, <1>18
  <2>. QED
    BY <1>2, <1>7, <1>10, <1>13, <1>14, <1>15, <1>16, <1>17, <2>1, <2>2, <2>3, <2>4 DEF Round
<1>. QED  BY <1>2, <1>19 DEF m, h


LEMMA RoundFollows ==
    ASSUME NEW next, NEW start, NEW met, NEW line, NEW at, NEW ahead, NEW limit \in Nat,
           Round(next, start, met, line, at, ahead, limit), at # None,
           NEW rest \in SUBSET next[Pair(at)],
           at.depth < limit => \A w \in ahead : w \in rest \/ w \in met \/ InLine(line, w)
    PROVE  Round(next, start, met, line, at, rest, limit)
<1>1. at.depth < limit => Followed(next, met, line, Pair(at), rest)
  <2>. SUFFICES ASSUME at.depth < limit, NEW w \in next[Pair(at)]
                PROVE  w \in met \/ InLine(line, w) \/ w \in rest
    BY DEF Followed
  <2>1. w \in met \/ InLine(line, w) \/ w \in ahead  BY DEF Round, Followed
  <2>. QED  BY <2>1
<1>2. /\ InOrder(line, Front(at))
      /\ \A w \in Within(next, {start}, Front(at)) :
             w \in met \/ \E i \in 1..Len(line) : Pair(line[i]) = w /\ line[i].depth = Front(at)
      /\ \A i \in 1..Len(line) :
             line[i].depth <= limit /\ Pair(line[i]) \in Within(next, {start}, line[i].depth)
  BY DEF Round
<1>. QED  BY <1>1, <1>2 DEF Round

LEMMA RoundAdds ==
    ASSUME NEW next, NEW start, NEW met, NEW line, NEW at, NEW ahead, NEW limit \in Nat,
           Round(next, start, met, line, at, ahead, limit), at # None, at.depth < limit,
           NEW v \in Visits, v.depth = at.depth + 1, Pair(v) \in next[Pair(at)]
    PROVE  /\ Round(next, start, met, Append(line, v), at, ahead, limit)
           /\ InLine(Append(line, v), Pair(v))
           /\ \A w : InLine(line, w) => InLine(Append(line, v), w)
<1>. DEFINE more == Append(line, v)
<1>0. InOrder(line, Front(at)) /\ Front(at) = at.depth /\ at.depth \in Nat
  BY DEF Round, Front, Visits
<1>1. /\ InOrder(more, Front(at)) /\ Len(more) = Len(line) + 1 /\ more[Len(line) + 1] = v
      /\ Len(line) \in Nat /\ \A i \in 1..Len(line) : more[i] = line[i]
  BY <1>0, OrderOfMore
<1>. HIDE DEF more
<1>2. \A i \in 1..Len(line) : i \in 1..Len(more)  BY <1>1
<1>3. \A w : InLine(line, w) => InLine(more, w)  BY <1>1, <1>2 DEF InLine
<1>4. InLine(more, Pair(v))
  <2>1. Len(line) + 1 \in 1..Len(more)  BY <1>1
  <2>. QED  BY <1>1, <2>1 DEF InLine
<1>5. \A u, a : Followed(next, met, line, u, a) => Followed(next, met, more, u, a)
  BY <1>3 DEF Followed
<1>6. ASSUME NEW i \in 1..Len(more)
      PROVE  more[i].depth <= limit /\ Pair(more[i]) \in Within(next, {start}, more[i].depth)
  <2>1. CASE i \in 1..Len(line)  BY <1>1, <2>1 DEF Round
  <2>2. CASE i = Len(line) + 1
    <3>1. Pair(at) \in Within(next, {start}, at.depth)  BY DEF Round, AtDistance
    <3>2. Pair(v) \in Within(next, {start}, at.depth + 1)  BY <1>0, <3>1, WithinSteps
    <3>. QED  BY <1>0, <1>1, <2>2, <3>2
  <2>. QED  BY <1>1, <2>1, <2>2
<1>7. ASSUME NEW w \in Within(next, {start}, Front(at))
      PROVE  w \in met \/ \E i \in 1..Len(more) : Pair(more[i]) = w /\ more[i].depth = Front(at)
  <2>1. w \in met \/ \E i \in 1..Len(line) : Pair(line[i]) = w /\ line[i].depth = Front(at)
    BY DEF Round
  <2>. QED  BY <1>1, <1>2, <2>1
<1>8. \A u \in met : \A d \in Nat :
           AtDistance(next, {start}, u, d) /\ d < limit /\ (at # None => u # Pair(at))
               => Followed(next, met, more, u, {})
  BY <1>5 DEF Round
<1>9. at.depth < limit => Followed(next, met, more, Pair(at), ahead)  BY <1>5 DEF Round
<1>10. Round(next, start, met, more, at, ahead, limit)
  BY <1>1, <1>6, <1>7, <1>8, <1>9 DEF Round
<1>. QED  BY <1>3, <1>4, <1>10 DEF more

LEMMA RoundEnds ==
    ASSUME NEW next, NEW start, NEW met, NEW at, NEW limit \in Nat,
           Round(next, start, met, << >>, at, {}, limit)
    PROVE  met = Within(next, {start}, limit)
<1>1. ASSUME NEW v \in met  PROVE v \in Within(next, {start}, limit)
  <2>1. PICK d \in 0..limit : AtDistance(next, {start}, v, d)  BY DEF Round
  <2>2. Within(next, {start}, d) \subseteq Within(next, {start}, limit)  BY WithinGrowing
  <2>. QED  BY <2>1, <2>2 DEF AtDistance
<1>2. Within(next, {start}, 0) \subseteq met
  <2>1. Front(at) \in Nat  BY DEF Round, InOrder
  <2>2. Within(next, {start}, Front(at)) \subseteq met
    <3>1. \A w \in Within(next, {start}, Front(at)) :
              w \in met \/ \E i \in 1..Len(<< >>) : Pair(<< >>[i]) = w /\ << >>[i].depth = Front(at)
      BY DEF Round
    <3>. QED  BY <3>1
  <2>3. Within(next, {start}, 0) \subseteq Within(next, {start}, Front(at))  BY <2>1, WithinGrowing
  <2>. QED  BY <2>2, <2>3
<1>3. ASSUME NEW k \in 0..limit, k < limit, Within(next, {start}, k) \subseteq met,
             NEW w \in Within(next, {start}, k + 1)
      PROVE  w \in met
  <2>1. w \in Within(next, {start}, k) \/ \E v \in Within(next, {start}, k) : w \in next[v]
    <3>1. k \in Nat  OBVIOUS
    <3>. QED  BY <1>3, <3>1, WithinSteps
  <2>2. ASSUME NEW v \in Within(next, {start}, k), w \in next[v]  PROVE w \in met
    <3>1. v \in met  BY <1>3
    <3>2. PICK d \in 0..k : AtDistance(next, {start}, v, d)  BY HasDistance
    <3>3. Followed(next, met, << >>, v, {})
      <4>1. d \in Nat /\ d < limit  BY <1>3
      <4>. QED  BY <3>1, <3>2, <4>1, RoundCloses
    <3>4. ~ InLine(<< >>, w)  BY DEF InLine
    <3>. QED  BY <2>2, <3>3, <3>4 DEF Followed
  <2>. QED  BY <1>3, <2>1, <2>2
<1>. DEFINE T == {k \in 0..limit : Within(next, {start}, k) \subseteq met}
<1>4. T \in SUBSET (0..limit)  OBVIOUS
<1>5. limit \in T
  <2>0. 0 \in T
    <3>1. 0 \in 0..limit  OBVIOUS
    <3>. QED  BY <1>2, <3>1
  <2>1. ASSUME NEW k \in T, k < limit  PROVE k + 1 \in T
    <3>1. k \in 0..limit /\ Within(next, {start}, k) \subseteq met  OBVIOUS
    <3>2. Within(next, {start}, k + 1) \subseteq met  BY <1>3, <2>1, <3>1
    <3>3. k + 1 \in 0..limit  BY <2>1, <3>1
    <3>. QED  BY <3>2, <3>3
  <2>. HIDE DEF T
  <2>2. 0..limit \subseteq T  BY ONLY limit \in Nat, <1>4, <2>0, <2>1, HoldsOfAll
  <2>. QED  BY <2>2
<1>. QED  BY <1>1, <1>5


\* The first step taken apart instead of the last.
LEMMA WithinPeels ==
    ASSUME NEW next, NEW q, NEW k \in Nat
    PROVE  \A n : n \in Within(next, {q}, k + 1) <=>
                      n = q \/ \E r \in next[q] : n \in Within(next, {r}, k)
<1>. DEFINE Peeled(i) == \A n : n \in Within(next, {q}, i + 1) <=>
                                    n = q \/ \E r \in next[q] : n \in Within(next, {r}, i)
            T == {i \in 0..k : Peeled(i)}
<1>0. \A r : Within(next, {r}, 0) = {r}  BY WithinSteps
<1>1. Peeled(0)
  <2>. SUFFICES ASSUME NEW n
                PROVE  n \in Within(next, {q}, 0 + 1) <=> n = q \/ \E r \in next[q] : n \in Within(next, {r}, 0)
    OBVIOUS
  <2>1. n \in Within(next, {q}, 0 + 1) <=>
            n \in Within(next, {q}, 0) \/ \E m \in Within(next, {q}, 0) : n \in next[m]
    BY WithinSteps
  <2>2. n \in Within(next, {q}, 0 + 1) <=> n = q \/ n \in next[q]  BY <1>0, <2>1
  <2>. QED  BY <1>0, <2>2
<1>2. ASSUME NEW i \in Nat, Peeled(i)  PROVE Peeled(i + 1)
  <2>. SUFFICES ASSUME NEW n
                PROVE  n \in Within(next, {q}, (i + 1) + 1) <=>
                           n = q \/ \E r \in next[q] : n \in Within(next, {r}, i + 1)
    OBVIOUS
  <2>1. n \in Within(next, {q}, (i + 1) + 1) <=>
            n \in Within(next, {q}, i + 1) \/ \E m \in Within(next, {q}, i + 1) : n \in next[m]
    <3>. DEFINE j == i + 1
    <3>1. j \in Nat  OBVIOUS
    <3>. HIDE DEF j
    <3>2. n \in Within(next, {q}, j + 1) <=>
              n \in Within(next, {q}, j) \/ \E m \in Within(next, {q}, j) : n \in next[m]
      BY <3>1, WithinSteps
    <3>. QED  BY <3>2 DEF j
  <2>2. \A m : m \in Within(next, {q}, i + 1) <=> m = q \/ \E r \in next[q] : m \in Within(next, {r}, i)
    BY <1>2
  <2>3. \A r : n \in Within(next, {r}, i + 1) <=>
                   n \in Within(next, {r}, i) \/ \E m \in Within(next, {r}, i) : n \in next[m]
    BY WithinSteps
  <2>4. \A r : r \in Within(next, {r}, i + 1)
    <3>1. i + 1 \in Nat /\ 0 <= i + 1  OBVIOUS
    <3>2. \A r : Within(next, {r}, 0) \subseteq Within(next, {r}, i + 1)  BY <3>1, WithinGrowing
    <3>. QED  BY <1>0, <3>2
  <2>. QED  BY <2>1, <2>2, <2>3, <2>4
<1>. HIDE DEF Peeled
<1>3. k \in T
  <2>0. 0 \in T
    <3>1. 0 \in 0..k  OBVIOUS
    <3>. QED  BY <1>1, <3>1
  <2>1. ASSUME NEW i \in T, i < k  PROVE i + 1 \in T
    <3>1. i \in Nat /\ i + 1 \in 0..k /\ Peeled(i)  BY <2>1
    <3>2. Peeled(i + 1)  BY <1>2, <3>1
    <3>. QED  BY <3>1, <3>2
  <2>2. T \in SUBSET (0..k)  OBVIOUS
  <2>. HIDE DEF T
  <2>3. 0..k \subseteq T  BY ONLY k \in Nat, <2>0, <2>1, <2>2, HoldsOfAll
  <2>. QED  BY <2>3
<1>. QED  BY <1>3 DEF Peeled

(***************************************************************************)
(* What following a pending edge yields: the entrypoint it enters, or, if  *)
(* it leads to a queue, those that the consumers behind that queue enter,  *)
(* within the hops that are left.                                          *)
(***************************************************************************)
Subscribers == [r \in Queues |-> {e.to : e \in {x \in Out(r) : x.type = "queue_subscription"}}]
Hops(p)     == IF p.edge.from \in Queues THEN p.hops + 1 ELSE 0
Enters(e)   == {w \in {<<e.to, "entry">>} : e.to \in Services /\ e \in entered}
Consumers(p) ==
    {y \in graph : /\ p.edge.to \in Queues /\ y.type = "queue_consume"
                   /\ y.from \in Within(Subscribers, {p.edge.to}, SubHops - Hops(p))}
Yields(p, w) == w \in Enters(p.edge) \/ \E y \in Consumers(p) : w \in Enters(y)
Yield(P)    == {w \in Services \X {"entry"} : \E p \in P : Yields(p, w)}

PendingFits(p) ==
    /\ p.edge \in graph /\ p.hops \in 0..SubHops
    /\ p.edge.from \in Queues /\ p.edge.to \in Queues => p.hops < SubHops

LEMMA EdgeKinds ==
    ASSUME graph \subseteq Edge, NEW e \in graph
    PROVE  /\ e.from \in Nodes /\ e.to \in Nodes
           /\ e.type = "queue_consume" => e.from \in Queues /\ e.to \in Services /\ e.to \notin Queues
           /\ e.type = "queue_subscription" => e.from \in Queues /\ e.to \in Queues /\ e.to \notin Services
           /\ e.from \in Services => e.from \notin Queues
  BY GraphAssumption DEF GraphAssumption, Edge, Link, Nodes

LEMMA YieldOfQueue ==
    ASSUME graph \subseteq Edge, NEW p, PendingFits(p), p.edge.to \in Queues
    PROVE  /\ \A b \in Behind(p.edge.to, Hops(p)) : PendingFits(b) /\ b.edge.from = p.edge.to
           /\ \A w : Yields(p, w) <=> \E b \in Behind(p.edge.to, Hops(p)) : Yields(b, w)
<1>. DEFINE q == p.edge.to
            h == Hops(p)
<1>1. h \in 0..SubHops /\ SubHops - h \in Nat /\ q \in Queues
  BY QueryAssumption DEF QueryAssumption, PendingFits, Hops
<1>2. \A b \in Behind(q, h) : /\ b.edge \in Out(q) /\ b.hops = h
                              /\ \/ b.edge.type = "queue_consume"
                                 \/ b.edge.type = "queue_subscription" /\ h < SubHops
  BY DEF Behind
<1>3. ASSUME NEW x \in Out(q), x.type = "queue_consume" \/ (x.type = "queue_subscription" /\ h < SubHops)
      PROVE  /\ [edge |-> x, hops |-> h] \in Behind(q, h)
             /\ [edge |-> x, hops |-> h].edge = x /\ [edge |-> x, hops |-> h].hops = h
  BY <1>3 DEF Behind
<1>4. q \notin Services /\ p.edge \in graph
  BY <1>1, GraphAssumption DEF GraphAssumption, PendingFits
<1>. HIDE DEF q, h
<1>5. ASSUME NEW b \in Behind(q, h)  PROVE PendingFits(b) /\ b.edge.from = q
  BY <1>1, <1>2, EdgeKinds DEF PendingFits, Out
<1>6. ASSUME NEW w, Yields(p, w)  PROVE \E b \in Behind(q, h) : Yields(b, w)
  <2>1. PICK y \in Consumers(p) : w \in Enters(y)  BY <1>4, <1>6 DEF Yields, Enters, q
  <2>2. y \in graph /\ y.type = "queue_consume" /\ y.from \in Within(Subscribers, {q}, SubHops - h)
    BY DEF Consumers, q, h
  <2>3. CASE y.from = q
    <3>1. y \in Out(q)  BY <2>2, <2>3 DEF Out
    <3>. QED  BY <1>3, <2>1, <2>2, <3>1 DEF Yields
  <2>4. CASE y.from # q
    <3>1. SubHops - h # 0
      <4>. SUFFICES ASSUME SubHops - h = 0  PROVE FALSE  OBVIOUS
      <4>1. Within(Subscribers, {q}, 0) = {q}  BY WithinSteps
      <4>. QED  BY <2>2, <2>4, <4>1
    <3>2. (SubHops - h) - 1 \in Nat /\ ((SubHops - h) - 1) + 1 = SubHops - h
          /\ SubHops - (h + 1) = (SubHops - h) - 1 /\ h < SubHops
      BY <1>1, <3>1, QueryAssumption DEF QueryAssumption
    <3>3. PICK r \in Subscribers[q] : y.from \in Within(Subscribers, {r}, (SubHops - h) - 1)
      BY <2>2, <2>4, <3>2, WithinPeels
    <3>4. PICK x \in Out(q) : x.type = "queue_subscription" /\ r = x.to  BY <1>1, <3>3 DEF Subscribers
    <3>. DEFINE b == [edge |-> x, hops |-> h]
    <3>5. b \in Behind(q, h) /\ b.edge = x /\ b.hops = h  BY <1>3, <3>2, <3>4
    <3>6. x \in graph /\ x.from = q /\ x.to \in Queues  BY <3>4, EdgeKinds DEF Out
    <3>. HIDE DEF b
    <3>7. Hops(b) = h + 1  BY <1>1, <3>5, <3>6 DEF Hops
    <3>8. y \in Consumers(b)  BY <2>2, <3>2, <3>3, <3>4, <3>5, <3>6, <3>7 DEF Consumers
    <3>. QED  BY <2>1, <3>5, <3>8 DEF Yields
  <2>. QED  BY <2>3, <2>4
<1>7. ASSUME NEW b \in Behind(q, h), NEW w, Yields(b, w)  PROVE Yields(p, w)
  <2>. DEFINE x == b.edge
  <2>1. x \in graph /\ x.from = q /\ b.hops = h  BY <1>2 DEF Out
  <2>2. CASE x.type = "queue_consume"
    <3>1. w \in Enters(x)
      <4>1. x.to \notin Queues  BY <2>1, <2>2, EdgeKinds
      <4>. QED  BY <1>7, <4>1 DEF Yields, Consumers
    <3>2. q \in Within(Subscribers, {q}, SubHops - h)
      <4>1. Within(Subscribers, {q}, 0) = {q}  BY WithinSteps
      <4>2. Within(Subscribers, {q}, 0) \subseteq Within(Subscribers, {q}, SubHops - h)
        BY <1>1, WithinGrowing
      <4>. QED  BY <4>1, <4>2
    <3>3. x \in Consumers(p)  BY <1>1, <2>1, <2>2, <3>2 DEF Consumers, q, h
    <3>. QED  BY <3>1, <3>3 DEF Yields
  <2>3. CASE x.type = "queue_subscription" /\ h < SubHops
    <3>1. x.to \in Queues /\ x.to \notin Services  BY <2>1, <2>3, EdgeKinds
    <3>2. w \notin Enters(x)  BY <3>1 DEF Enters
    <3>3. PICK y \in Consumers(b) : w \in Enters(y)  BY <1>7, <3>2 DEF Yields
    <3>4. Hops(b) = h + 1  BY <1>1, <2>1 DEF Hops
    <3>5. (SubHops - h) - 1 \in Nat /\ ((SubHops - h) - 1) + 1 = SubHops - h
          /\ SubHops - (h + 1) = (SubHops - h) - 1
      BY <1>1, <2>3, QueryAssumption DEF QueryAssumption
    <3>6. y \in graph /\ y.type = "queue_consume" /\ y.from \in Within(Subscribers, {x.to}, (SubHops - h) - 1)
      BY <3>4, <3>5 DEF Consumers
    <3>7. x.to \in Subscribers[q]  BY <1>1, <2>1, <2>3 DEF Subscribers, Out
    <3>8. y.from \in Within(Subscribers, {q}, SubHops - h)  BY <3>5, <3>6, <3>7, WithinPeels
    <3>9. y \in Consumers(p)  BY <1>1, <3>6, <3>8 DEF Consumers, q, h
    <3>. QED  BY <3>3, <3>9 DEF Yields
  <2>. QED  BY <1>2, <2>2, <2>3
<1>. QED  BY <1>5, <1>6, <1>7 DEF q, h


\* What is entered from a visit is what following its edges yields.
LEMMA YieldOfVisit ==
    ASSUME graph \subseteq Edge, NEW v \in Visits, v.at \in Services
    PROVE  /\ \A p \in Unhopped(Related(v)) : PendingFits(p) /\ p.edge.from = v.at
           /\ Yield(Unhopped(Related(v))) = FlowEntries[Pair(v)]
           /\ Pair(v) \in Services \X {None, "entry"}
<1>. DEFINE out == Related(v)
<1>1. out \subseteq graph /\ \A e \in out : e.from = v.at
  BY DEF Related, Out
<1>2. v.at \notin Queues /\ v.entry \in {None, "entry"} /\ SubHops \in Nat
  BY GraphAssumption, QueryAssumption DEF GraphAssumption, QueryAssumption, Visits
<1>3. Pair(v) \in Services \X {None, "entry"} /\ Pair(v)[1] = v.at /\ Pair(v)[2] = v.entry
  BY <1>2 DEF Pair
<1>4. out = {e \in graph : e.from = v.at /\ (Pair(v) \in DOMAIN performed => e \in performed[Pair(v)])}
  BY DEF Related, HasFlow, Out, Pair
<1>. DEFINE all == out \cup UNION {BehindQueue(e.to) : e \in {x \in out : x.to \in Queues}}
<1>5. FlowEntries[Pair(v)] = {<<e.to, "entry">> : e \in {x \in all \cap entered : x.to \in Services}}
  BY <1>3, <1>4 DEF FlowEntries, EntriesOf
<1>6. \A p \in Unhopped(out) : p.edge \in out /\ p.hops = 0  BY DEF Unhopped
<1>7. \A e \in out : \E p \in Unhopped(out) : p.edge = e /\ p.hops = 0
  <2>. SUFFICES ASSUME NEW e \in out  PROVE \E p \in Unhopped(out) : p.edge = e /\ p.hops = 0
    OBVIOUS
  <2>1. [edge |-> e, hops |-> 0] \in Unhopped(out)  BY DEF Unhopped
  <2>. QED  BY <2>1
<1>8. \A q : BehindQueue(q) =
          {e \in graph : e.type = "queue_consume" /\ e.from \in Within(Subscribers, {q}, SubHops)}
  BY DEF BehindQueue, Subscribers
<1>. HIDE DEF out
<1>9. ASSUME NEW p \in Unhopped(out)
      PROVE  /\ PendingFits(p) /\ p.edge.from = v.at /\ Hops(p) = 0
             /\ \A y : y \in Consumers(p) <=> p.edge.to \in Queues /\ y \in BehindQueue(p.edge.to)
  <2>1. p.edge \in graph /\ p.edge.from = v.at /\ p.hops = 0 /\ p.edge \in out  BY <1>1, <1>6
  <2>2. Hops(p) = 0 /\ PendingFits(p)  BY <1>2, <2>1 DEF Hops, PendingFits
  <2>3. SubHops - Hops(p) = SubHops  BY <1>2, <2>2
  <2>4. \A y : y \in Consumers(p) <=> p.edge.to \in Queues /\ y \in BehindQueue(p.edge.to)
    BY <1>8, <2>3 DEF Consumers
  <2>. QED  BY <2>1, <2>2, <2>4
<1>10. \A x : x \in all <=> \E p \in Unhopped(out) : x = p.edge \/ x \in Consumers(p)
  <2>1. ASSUME NEW x \in all  PROVE \E p \in Unhopped(out) : x = p.edge \/ x \in Consumers(p)
    <3>1. CASE x \in out  BY <1>7, <3>1
    <3>2. CASE \E e \in out : e.to \in Queues /\ x \in BehindQueue(e.to)
      <4>1. PICK e \in out : e.to \in Queues /\ x \in BehindQueue(e.to)  BY <3>2
      <4>2. PICK p \in Unhopped(out) : p.edge = e  BY <1>7
      <4>. QED  BY <1>9, <4>1, <4>2
    <3>. QED  BY <2>1, <3>1, <3>2
  <2>2. ASSUME NEW p \in Unhopped(out), NEW x, x = p.edge \/ x \in Consumers(p)  PROVE x \in all
    BY <1>6, <1>9, <2>2
  <2>. QED  BY <2>1, <2>2
<1>. HIDE DEF all
<1>11. ASSUME NEW w  PROVE w \in FlowEntries[Pair(v)] <=> w \in Yield(Unhopped(out))
  <2>1. w \in FlowEntries[Pair(v)] <=> \E x \in all : w \in Enters(x)  BY <1>5 DEF Enters
  <2>2. \A x : w \in Enters(x) => w \in Services \X {"entry"}  BY DEF Enters
  <2>3. w \in Yield(Unhopped(out)) <=> \E p \in Unhopped(out) : Yields(p, w)
    BY <2>2 DEF Yield, Yields
  <2>4. (\E x \in all : w \in Enters(x)) <=>
            \E p \in Unhopped(out) : w \in Enters(p.edge) \/ \E y \in Consumers(p) : w \in Enters(y)
    BY <1>10
  <2>. QED  BY <2>1, <2>3, <2>4 DEF Yields
<1>12. FlowEntries[Pair(v)] = Yield(Unhopped(out))  BY <1>5, <1>11 DEF Yield
<1>. QED  BY <1>3, <1>9, <1>12 DEF out


Start == <<query.from, query.entry>>

FlowInv ==
    /\ query.depth \in Nat
    /\ Round(FlowEntries, Start, seen, queue, current, Yield(pending), query.depth)
    /\ \A i \in 1..Len(queue) : queue[i].at \in Services
    /\ \A p \in pending : current # None /\ PendingFits(p)
    /\ ~ cut => /\ \A e \in links : e.from \in shown /\ e.to \in shown
                /\ \A p \in pending : p.edge.from \in shown

\* Only the walk changes while a flow is viewed.
LEMMA FlowStays ==
    ASSUME UNCHANGED <<graph, entered, performed, query>>
    PROVE  UNCHANGED <<FlowEntries, Start>> /\ Yield(pending)' = Yield(pending')
<1>1. UNCHANGED Subscribers /\ \A n : Out(n)' = Out(n)  BY DEF Subscribers, Out
<1>2. UNCHANGED FlowEntries
  BY <1>1 DEF FlowEntries, EntriesOf, BehindQueue, Out
<1>3. Yield(pending)' = Yield(pending')  BY <1>1 DEF Yield, Yields, Enters, Consumers, Hops
<1>. QED  BY <1>2, <1>3 DEF Start

LEMMA FlowVisitKeeps ==
    ASSUME FlowInv, graph \subseteq Edge, FlowVisit
    PROVE  FlowInv' /\ UNCHANGED <<query, status>>
<1>. DEFINE v == Head(queue)
<1>1. /\ pending = {} /\ queue # << >> /\ queue' = Tail(queue)
      /\ UNCHANGED <<graph, entered, performed, query, links, status>>
      /\ \/ Pair(v) \in seen /\ UNCHANGED <<current, pending, seen, shown, cut>>
         \/ /\ Pair(v) \notin seen /\ seen' = seen \cup {Pair(v)}
            /\ current' = v /\ pending' = Unhopped(Related(v))
            /\ shown' = Added(shown, v.at) /\ cut' = (cut \/ Full(shown))
  BY DEF FlowVisit, AtHead, Show, Pair
<1>2. UNCHANGED <<FlowEntries, Start>> /\ Yield(pending)' = Yield(pending')  BY <1>1, FlowStays
<1>3. Round(FlowEntries, Start, seen, queue, current, {}, query.depth) /\ query.depth \in Nat
  <2>1. Yield(pending) = {}  BY <1>1 DEF Yield
  <2>. QED  BY <2>1 DEF FlowInv
<1>4. InOrder(queue, Front(current))  BY <1>3 DEF Round
<1>5. /\ v = queue[1] /\ v \in Visits /\ Len(queue) \in Nat /\ Len(queue) > 0
      /\ \A i \in 1..Len(Tail(queue)) : i + 1 \in 1..Len(queue) /\ Tail(queue)[i] = queue[i + 1]
  BY <1>1, <1>4, OrderOfTail
<1>6. v.at \in Services /\ \A i \in 1..Len(Tail(queue)) : Tail(queue)[i].at \in Services
  <2>1. 1 \in 1..Len(queue)  BY <1>5
  <2>. QED  BY <1>5, <2>1 DEF FlowInv
<1>7. v # None  BY <1>5, QueryAssumption DEF QueryAssumption, Visits
<1>8. CASE Pair(v) \in seen
  <2>1. UNCHANGED <<current, pending, seen, shown, cut>>  BY <1>1, <1>8
  <2>2. Round(FlowEntries, Start, seen, Tail(queue), current, {}, query.depth)
    BY <1>1, <1>3, <1>8, RoundSkips
  <2>3. Yield(pending)' = {}  BY <1>1, <2>1 DEF Yield
  <2>4. Round(FlowEntries', Start', seen', queue', current', Yield(pending)', query'.depth)
    BY <1>1, <1>2, <2>1, <2>2, <2>3
  <2>. QED  BY <1>1, <1>3, <1>6, <2>1, <2>4 DEF FlowInv
<1>9. CASE Pair(v) \notin seen
  <2>1. /\ seen' = seen \cup {Pair(v)} /\ current' = v /\ pending' = Unhopped(Related(v))
        /\ shown' = Added(shown, v.at) /\ cut' = (cut \/ Full(shown))
    BY <1>1, <1>9
  <2>2. Round(FlowEntries, Start, seen \cup {Pair(v)}, Tail(queue), v, FlowEntries[Pair(v)], query.depth)
    <3>. HIDE DEF v
    <3>. QED  BY <1>1, <1>3, <1>7, <1>9, RoundTakes DEF v
  <2>3. /\ \A p \in pending' : PendingFits(p) /\ p.edge.from = v.at
        /\ Yield(pending') = FlowEntries[Pair(v)]
    BY <1>5, <1>6, <2>1, YieldOfVisit
  <2>4. Yield(pending)' = FlowEntries[Pair(v)]  BY <1>2, <2>3
  <2>5. Round(FlowEntries', Start', seen', queue', current', Yield(pending)', query'.depth)
    BY <1>1, <1>2, <2>1, <2>2, <2>4
  <2>6. \A p \in pending' : current' # None /\ PendingFits(p)'
    BY <1>7, <2>1, <2>3, <1>1 DEF PendingFits
  <2>7. ~ cut' => /\ \A e \in links' : e.from \in shown' /\ e.to \in shown'
                  /\ \A p \in pending' : p.edge.from \in shown'
    BY <1>1, <2>1, <2>3 DEF FlowInv, Added
  <2>. QED  BY <1>1, <1>3, <1>6, <2>5, <2>6, <2>7 DEF FlowInv
<1>. QED  BY <1>1, <1>8, <1>9


LEMMA FollowFlowKeeps ==
    ASSUME FlowInv, graph \subseteq Edge, FollowFlow
    PROVE  FlowInv' /\ UNCHANGED <<query, status>>
<1>1. PICK p \in pending :
        LET e == p.edge IN
        /\ Show(e.to, current.depth + 1)
        /\ cut' = (cut \/ Full(shown))
        /\ links' = links \cup {e}
        /\ queue' = IF EntersNow(e) THEN Append(queue, Visit(e.to, "entry", current.depth + 1)) ELSE queue
        /\ pending' = (pending \ {p}) \cup
              (IF e.to \notin Queues THEN {}
               ELSE Behind(e.to, IF e.from \in Queues THEN p.hops + 1 ELSE 0))
  BY DEF FollowFlow
<1>. DEFINE e    == p.edge
            v    == Visit(e.to, "entry", current.depth + 1)
            more == IF e.to \in Queues THEN Behind(e.to, Hops(p)) ELSE {}
<1>2. /\ UNCHANGED <<graph, entered, performed, query, current, seen, status>>
      /\ shown' = Added(shown, e.to) /\ pending' = (pending \ {p}) \cup more
      /\ queue' = IF EntersNow(e) THEN Append(queue, v) ELSE queue
  BY <1>1 DEF FollowFlow, Show, Hops
<1>3. UNCHANGED <<FlowEntries, Start>> /\ Yield(pending)' = Yield(pending')
  BY <1>2, FlowStays
<1>4. /\ Round(FlowEntries, Start, seen, queue, current, Yield(pending), query.depth)
      /\ query.depth \in Nat /\ current # None /\ PendingFits(p) /\ e \in graph
      /\ \A i \in 1..Len(queue) : queue[i].at \in Services
  BY DEF FlowInv, PendingFits
<1>5. /\ current \in Visits /\ current.depth \in Nat /\ Yield(pending) \subseteq FlowEntries[Pair(current)]
  BY <1>4 DEF Round, Visits
<1>6. \A b \in more : PendingFits(b) /\ b.edge.from = e.to
  BY <1>4, YieldOfQueue
<1>7. \A w : Yields(p, w) <=> w \in Enters(e) \/ \E b \in more : Yields(b, w)
  <2>1. CASE e.to \in Queues
    <3>1. \A w : w \notin Enters(e)
      BY <2>1, GraphAssumption DEF GraphAssumption, Enters
    <3>. QED  BY <1>4, <2>1, <3>1, YieldOfQueue
  <2>2. CASE e.to \notin Queues  BY <2>2 DEF Yields, Consumers
  <2>. QED  BY <2>1, <2>2
<1>8. Yield(pending') \subseteq Yield(pending)
  <2>. SUFFICES ASSUME NEW w \in Yield(pending')  PROVE w \in Yield(pending)  OBVIOUS
  <2>1. PICK b \in pending' : Yields(b, w)  BY DEF Yield
  <2>2. w \in Services \X {"entry"}  BY DEF Yield
  <2>3. \E a \in pending : Yields(a, w)  BY <1>2, <1>7, <2>1
  <2>. QED  BY <2>2, <2>3 DEF Yield
<1>9. ASSUME NEW w \in Yield(pending)  PROVE w \in Yield(pending') \/ w \in Enters(e)
  <2>1. PICK a \in pending : Yields(a, w)  BY <1>9 DEF Yield
  <2>2. w \in Services \X {"entry"}  BY <1>9 DEF Yield
  <2>3. w \in Enters(e) \/ \E b \in pending' : Yields(b, w)  BY <1>2, <1>7, <2>1
  <2>. QED  BY <2>2, <2>3 DEF Yield
<1>10. ASSUME NEW w \in Enters(e)
       PROVE  w = <<e.to, "entry">> /\ e.to \in Services /\ e \in entered /\ w \in Yield(pending)
  <2>1. w = <<e.to, "entry">> /\ e.to \in Services /\ e \in entered  BY <1>10 DEF Enters
  <2>2. Yields(p, w) /\ w \in Services \X {"entry"}  BY <1>7, <1>10, <2>1
  <2>. QED  BY <2>1, <2>2 DEF Yield
<1>11. EntersNow(e) => v \in Visits /\ v.depth = current.depth + 1 /\ Pair(v) = <<e.to, "entry">>
                       /\ v.at \in Services /\ Pair(v) \in FlowEntries[Pair(current)]
  <2>. SUFFICES ASSUME EntersNow(e)
                PROVE  v \in Visits /\ v.depth = current.depth + 1 /\ Pair(v) = <<e.to, "entry">>
                       /\ v.at \in Services /\ Pair(v) \in FlowEntries[Pair(current)]
    OBVIOUS
  <2>1. e.to \in Services /\ e \in entered  BY DEF EntersNow
  <2>2. v \in Visits /\ v.depth = current.depth + 1 /\ v.at = e.to /\ v.entry = "entry"
    BY <1>5, <2>1 DEF Visits, Visit, Nodes
  <2>3. Pair(v) = <<e.to, "entry">>  BY <2>2 DEF Pair
  <2>4. Pair(v) \in Enters(e)  BY <2>1, <2>3 DEF Enters
  <2>. QED  BY <1>5, <1>10, <2>1, <2>2, <2>3, <2>4
<1>. HIDE DEF e, v, more
<1>12. /\ Round(FlowEntries, Start, seen, queue', current, Yield(pending), query.depth)
       /\ \A w : InLine(queue, w) => InLine(queue', w)
       /\ EntersNow(e) => InLine(queue', Pair(v))
  <2>1. CASE EntersNow(e)
    <3>1. current.depth < query.depth  BY <2>1 DEF EntersNow
    <3>2. queue' = Append(queue, v)  BY <1>2, <2>1
    <3>. QED  BY <1>4, <1>11, <2>1, <3>1, <3>2, RoundAdds
  <2>2. CASE ~ EntersNow(e)  BY <1>2, <1>4, <2>2
  <2>. QED  BY <2>1, <2>2
<1>13. ASSUME current.depth < query.depth, NEW w \in Yield(pending)
       PROVE  w \in Yield(pending') \/ w \in seen \/ InLine(queue', w)
  <2>. SUFFICES ASSUME w \in Enters(e), w \notin seen  PROVE InLine(queue', w)  BY <1>9
  <2>1. EntersNow(e)  BY <1>10, <1>13 DEF EntersNow
  <2>. QED  BY <1>10, <1>11, <1>12, <2>1
<1>14. Round(FlowEntries, Start, seen, queue', current, Yield(pending'), query.depth)
  <2>1. Yield(pending') \in SUBSET FlowEntries[Pair(current)]  BY <1>5, <1>8
  <2>. QED  BY <1>4, <1>12, <1>13, <2>1, RoundFollows
<1>15. Round(FlowEntries', Start', seen', queue', current', Yield(pending)', query'.depth)
  BY <1>2, <1>3, <1>14
<1>16. \A i \in 1..Len(queue') : queue'[i].at \in Services
  <2>1. CASE EntersNow(e)
    <3>1. queue' = Append(queue, v)  BY <1>2, <2>1
    <3>2. InOrder(queue, Front(current))  BY <1>4 DEF Round
    <3>3. queue \in Seq(Visits) /\ v \in Visits /\ v.at \in Services  BY <1>11, <2>1, <3>2 DEF InOrder
    <3>. QED  BY <1>4, <3>1, <3>3
  <2>2. CASE ~ EntersNow(e)  BY <1>2, <1>4, <2>2
  <2>. QED  BY <2>1, <2>2
<1>17. \A b \in pending' : current' # None /\ PendingFits(b)'
  <2>1. \A b \in pending' : PendingFits(b)  BY <1>2, <1>6 DEF FlowInv
  <2>. QED  BY <1>2, <1>4, <2>1 DEF PendingFits
<1>18. ~ cut' => /\ \A x \in links' : x.from \in shown' /\ x.to \in shown'
                 /\ \A b \in pending' : b.edge.from \in shown'
  <2>. SUFFICES ASSUME ~ cut'
                PROVE  /\ \A x \in links' : x.from \in shown' /\ x.to \in shown'
                       /\ \A b \in pending' : b.edge.from \in shown'
    OBVIOUS
  <2>1. ~ cut /\ ~ Full(shown) /\ shown' = shown \cup {e.to} /\ links' = links \cup {e}
    BY <1>1, <1>2 DEF Added, e
  <2>2. e.from \in shown  BY <2>1 DEF FlowInv, e
  <2>. QED  BY <1>2, <1>6, <2>1, <2>2 DEF FlowInv
<1>. QED  BY <1>2, <1>4, <1>15, <1>16, <1>17, <1>18 DEF FlowInv

LEMMA FlowEndsKeeps ==
    ASSUME FlowInv, FlowEnds
    PROVE  FlowIsWhole' /\ query' = query /\ status' \in {"truncated", "partial", "complete"}
<1>1. /\ pending = {} /\ queue = << >>
      /\ UNCHANGED <<graph, entered, performed, query, seen, shown, links, cut>>
      /\ status' \in {"truncated", "partial", "complete"}
  BY DEF FlowEnds, AtEnd, walk
<1>2. UNCHANGED <<FlowEntries, Start>>  BY <1>1, FlowStays
<1>3. Yield(pending) = {}  BY <1>1 DEF Yield
<1>4. seen = Within(FlowEntries, {Start}, query.depth)
  <2>1. Round(FlowEntries, Start, seen, << >>, current, {}, query.depth) /\ query.depth \in Nat
    BY <1>1, <1>3 DEF FlowInv
  <2>. QED  BY <2>1, RoundEnds
<1>. QED  BY <1>1, <1>2, <1>4 DEF FlowInv, FlowIsWhole, Start

-----------------------------------------------------------------------------
(***************************************************************************)
(* The queries of a run.  A run is asked once its graph is saved, and the  *)
(* graph stays what it is from then on.                                    *)
(***************************************************************************)
SearchesInv ==
    /\ status = "running" => /\ query.kind = "path" => PathInv
                             /\ query.kind = "impact" => ImpactInv
                             /\ query.kind = "flow" => FlowInv
    /\ SearchesAreTrue /\ FlowIsWhole

QueriesInv ==
    /\ status = "none" \/ phase = "saved"
    /\ SearchesInv

LEMMA AskKeeps ==
    ASSUME NEW q \in Query, Ask(q)
    PROVE  SearchesInv'
<1>1. /\ query' = q /\ status' = IF q.from = q.to THEN "found" ELSE "running"
      /\ queue' = <<Visit(q.from, q.entry, 0)>> /\ current' = None /\ pending' = {} /\ links' = {}
      /\ seen' = (IF q.kind = "flow" THEN {} ELSE {q.from})
      /\ shown' = (IF q.kind = "impact" THEN {q.from} ELSE {})
      /\ reached' = IF q.kind = "impact" THEN [n \in {q.from} \cap Services |-> 0] ELSE <<>>
  BY DEF Ask
<1>2. /\ q.from \in Nodes /\ q.depth \in Nat /\ q.budget \in Nat
      /\ q.kind = "path" => q.entry = None /\ q.to \in Nodes
      /\ q.kind = "impact" => q.entry = None /\ q.to = None
      /\ q.kind = "flow" => q.from \in Services /\ q.entry \in {None, "entry"} /\ q.to = None
  BY QueryAssumption DEF Query, QueryAssumption, Nodes
<1>3. ASSUME q.kind \in {"path", "impact"}, NEW next
      PROVE  Search(next, q.from, seen', queue', current', {}, Spared', q.depth)
  <2>1. seen' = {q.from} /\ queue' = <<Visit(q.from, None, 0)>>  BY <1>1, <1>2, <1>3
  <2>. QED  BY <1>1, <1>2, <2>1, SearchBegins
<1>4. ASSUME q.kind = "path", q.from # q.to  PROVE PathInv'
  <2>1. Ends' = {} /\ seen' = {q.from}  BY <1>1, <1>4 DEF Ends
  <2>2. ParentsFit'  BY <1>1, <2>1 DEF ParentsFit
  <2>3. Search(Successors', query'.from, seen', queue', current', Ends', Spared', query'.depth)
    BY <1>1, <1>3, <1>4, <2>1
  <2>. QED  BY <1>1, <1>2, <1>4, <2>1, <2>2, <2>3 DEF PathInv
<1>5. ASSUME q.kind = "impact"  PROVE ImpactInv'
  <2>1. /\ Others' = {} /\ seen' = {q.from} /\ shown' = {q.from}
        /\ reached' = [n \in {q.from} \cap Services |-> 0]
    BY <1>1, <1>5 DEF Others
  <2>2. Search(Impacts', query'.from, seen', queue', current', Others', Spared', query'.depth)
    BY <1>1, <1>3, <1>5, <2>1
  <2>3. DOMAIN reached' = seen' \cap Services  BY <2>1
  <2>4. ASSUME NEW n \in DOMAIN reached'
        PROVE  reached'[n] \in Nat /\ AtDistance(Impacts', {query'.from}, n, reached'[n])
    <3>1. n = query'.from /\ reached'[n] = 0  BY <1>1, <2>1
    <3>2. Within(Impacts', {query'.from}, 0) = {query'.from}
      <4>1. \A next : Within(next, {query'.from}, 0) = {query'.from}  BY WithinSteps
      <4>. QED  BY <4>1
    <3>. QED  BY <3>1, <3>2 DEF AtDistance
  <2>5. \A n \in seen' : Waits(queue', n)
    <3>1. queue' = <<Visit(q.from, None, 0)>>  BY <1>1, <1>2, <1>5
    <3>2. 1 \in 1..Len(queue') /\ queue'[1].at = q.from  BY <3>1 DEF Visit
    <3>. QED  BY <2>1, <3>2 DEF Waits
  <2>. QED  BY <1>1, <1>2, <2>1, <2>2, <2>3, <2>4, <2>5 DEF ImpactInv
<1>6. ASSUME q.kind = "flow"  PROVE FlowInv'
  <2>. DEFINE v == Visit(q.from, q.entry, 0)
  <2>1. v \in Visits /\ v.depth = 0 /\ v.at \in Services /\ Pair(v) = <<q.from, q.entry>>
    BY <1>2, <1>6 DEF Visits, Visit, Pair
  <2>2. queue' = <<v>> /\ seen' = {} /\ pending' = {} /\ Yield(pending)' = {} /\ Start' = <<q.from, q.entry>>
    BY <1>1, <1>6 DEF Yield, Start
  <2>. HIDE DEF v
  <2>3. \A next : Round(next, Pair(v), {}, <<v>>, None, {}, q.depth)  BY <1>2, <2>1, RoundBegins
  <2>4. Round(FlowEntries', Start', seen', queue', current', Yield(pending)', query'.depth)
    BY <1>1, <2>1, <2>2, <2>3
  <2>5. \A i \in 1..Len(queue') : queue'[i].at \in Services  BY <2>1, <2>2
  <2>. QED  BY <1>1, <1>2, <2>2, <2>4, <2>5 DEF FlowInv
<1>7. q.kind \in {"impact", "flow"} => q.from # q.to  BY <1>2, GraphAssumption DEF GraphAssumption
<1>8. SearchesAreTrue' /\ FlowIsWhole'
  BY <1>1, <1>7 DEF SearchesAreTrue, FlowIsWhole, Answered, PathIsTrue
<1>. QED  BY <1>1, <1>4, <1>5, <1>6, <1>8 DEF SearchesInv

LEMMA QueryStepKeeps ==
    ASSUME SearchesInv, graph \subseteq Edge, QueryStep
    PROVE  SearchesInv'
<1>1. status = "running"
  BY DEF QueryStep, PathVisit, FollowPath, PathEnds, ImpactCut, ImpactFull, ImpactVisit, FollowImpact,
         ImpactEnds, FlowVisit, FollowFlow, FlowEnds, AtHead, AtEnd, Walking
<1>2. CASE PathVisit
  <2>1. query.kind = "path"  BY <1>2 DEF PathVisit, AtHead, Walking
  <2>2. PathInv' /\ UNCHANGED <<query, status>>  BY <1>1, <1>2, <2>1, PathVisitKeeps DEF SearchesInv
  <2>. QED  BY <1>1, <2>1, <2>2 DEF SearchesInv, SearchesAreTrue, FlowIsWhole, Answered
<1>3. CASE FollowPath
  <2>1. query.kind = "path"  BY <1>3 DEF FollowPath, Walking
  <2>2. \/ PathInv' /\ status' = "running" /\ query' = query
        \/ status' \in {"found", "limited"} /\ PathIsTrue' /\ query' = query
    BY <1>1, <1>3, <2>1, FollowPathKeeps DEF SearchesInv
  <2>. QED  BY <1>1, <2>1, <2>2 DEF SearchesInv, SearchesAreTrue, FlowIsWhole, Answered
<1>4. CASE PathEnds
  <2>1. query.kind = "path"  BY <1>4 DEF PathEnds, AtEnd, Walking
  <2>2. status' \in {"limited", "not_found"} /\ PathIsTrue' /\ query' = query
    BY <1>1, <1>4, <2>1, PathEndsKeeps DEF SearchesInv
  <2>. QED  BY <1>1, <2>1, <2>2 DEF SearchesInv, SearchesAreTrue, FlowIsWhole, Answered
<1>5. CASE ImpactCut \/ ImpactFull \/ ImpactVisit \/ FollowImpact
  <2>1. query.kind = "impact"
    BY <1>5 DEF ImpactCut, ImpactFull, ImpactVisit, FollowImpact, AtHead, Walking
  <2>2. ImpactInv' /\ UNCHANGED <<query, status>>
    BY <1>1, <1>5, <2>1, ImpactCutKeeps, ImpactVisitKeeps, FollowImpactKeeps DEF SearchesInv
  <2>. QED  BY <1>1, <2>1, <2>2 DEF SearchesInv, SearchesAreTrue, FlowIsWhole, Answered
<1>6. CASE ImpactEnds
  <2>1. query.kind = "impact"  BY <1>6 DEF ImpactEnds, AtEnd, Walking
  <2>2. status' \in {"truncated", "complete"} /\ ImpactIsTrue' /\ query' = query
    BY <1>1, <1>6, <2>1, ImpactEndsKeeps DEF SearchesInv
  <2>. QED  BY <1>1, <2>1, <2>2 DEF SearchesInv, SearchesAreTrue, FlowIsWhole, Answered
<1>7. CASE FlowVisit \/ FollowFlow
  <2>1. query.kind = "flow"  BY <1>7 DEF FlowVisit, FollowFlow, AtHead, Walking
  <2>2. FlowInv' /\ UNCHANGED <<query, status>>
    BY <1>1, <1>7, <2>1, FlowVisitKeeps, FollowFlowKeeps DEF SearchesInv
  <2>. QED  BY <1>1, <2>1, <2>2 DEF SearchesInv, SearchesAreTrue, FlowIsWhole, Answered
<1>8. CASE FlowEnds
  <2>1. query.kind = "flow"  BY <1>8 DEF FlowEnds, AtEnd, Walking
  <2>2. FlowIsWhole' /\ query' = query /\ status' \in {"truncated", "partial", "complete"}
    BY <1>1, <1>8, <2>1, FlowEndsKeeps DEF SearchesInv
  <2>. QED  BY <1>1, <2>1, <2>2 DEF SearchesInv, SearchesAreTrue, Answered
<1>. QED  BY <1>1, <1>2, <1>3, <1>4, <1>5, <1>6, <1>7, <1>8 DEF QueryStep

\* Nothing is said of what no step touches.
LEMMA QueriesStand ==
    ASSUME SearchesInv, UNCHANGED queries
    PROVE  SearchesInv'
<1>1. UNCHANGED <<graph, entered, performed, query, queue, current, pending, seen, reached, parents,
                  shown, links, cut, status>>
  BY DEF queries, walk
<1>2. /\ UNCHANGED <<Successors, Impacts, Ends, Others, Spared>>
      /\ \A n : Affected(n)' = Affected(n)
  BY <1>1 DEF Successors, Impacts, Out, Ends, Others, Other, Spared, Affected
<1>3. UNCHANGED <<FlowEntries, Start>> /\ Yield(pending)' = Yield(pending)  BY <1>1, FlowStays
<1>4. PathInv => PathInv'  BY <1>1, <1>2 DEF PathInv, ParentsFit
<1>5. ImpactInv => ImpactInv'  BY <1>1, <1>2 DEF ImpactInv
<1>6. FlowInv => FlowInv'  BY <1>1, <1>3 DEF FlowInv, PendingFits
<1>7. FoundPath => FoundPath'
  <2>. SUFFICES ASSUME FoundPath  PROVE FoundPath'  OBVIOUS
  <2>1. PICK d \in 1..query.depth :
            /\ AtDistance(Successors, {query.from}, query.to, d)
            /\ LeadsBack(query.to, parents, graph, query.from, d)
    BY DEF FoundPath, LeadsBack
  <2>2. /\ AtDistance(Successors', {query'.from}, query'.to, d) /\ d \in 1..query'.depth
        /\ LeadsBack(query'.to, parents', graph', query'.from, d)
    BY <1>1, <1>2, <2>1
  <2>. QED  BY <2>2 DEF FoundPath, LeadsBack
<1>8. PathIsTrue => PathIsTrue'  BY <1>1, <1>2, <1>7 DEF PathIsTrue
<1>9. ImpactIsTrue => ImpactIsTrue'  BY <1>1, <1>2 DEF ImpactIsTrue
<1>10. FlowIsWhole => FlowIsWhole'  BY <1>1, <1>3 DEF FlowIsWhole, Answered, Start
<1>. QED  BY <1>1, <1>4, <1>5, <1>6, <1>8, <1>9, <1>10 DEF SearchesInv, SearchesAreTrue, Answered

LEMMA NoQueries ==
    ASSUME status' = "none"
    PROVE  QueriesInv'
  BY DEF QueriesInv, SearchesInv, SearchesAreTrue, FlowIsWhole, Answered

-----------------------------------------------------------------------------
(***************************************************************************)
(* The run.  What a part hands to the next one is in its graph: no edge is *)
(* drawn but of the vocabulary, and none from a node to itself.            *)
(***************************************************************************)
Phases == {"packs", "collection", "resolution", "drawn", "layout", "saved", "failed"}

HandedOver ==
    /\ phase \in Phases
    /\ phase \in {"packs", "collection"} => stage = "none"
    /\ phase = "drawn" => drawn.edges \subseteq Edge
    /\ graph \subseteq Edge

PartsInv == PacksInv /\ ResolutionInv /\ LayoutInv /\ HandedOver
RunInv   == PartsInv /\ QueriesInv

LEMMA PacksStay ==
    ASSUME PacksInv, UNCHANGED packs
    PROVE  PacksInv'
  BY CommandsKeepPacks DEF packs

LEMMA InitRunInv == Init => RunInv
<1>. SUFFICES ASSUME Init  PROVE RunInv  OBVIOUS
<1>1. PacksInv  BY NoPacks DEF Init, InitPacks
<1>2. ResolutionInv /\ LayoutInv  BY NoResolution, NoLayout DEF Init
<1>3. HandedOver  BY DEF Init, InitResolution, InitQueries, HandedOver, Phases
<1>4. QueriesInv
  BY DEF Init, InitQueries, QueriesInv, SearchesInv, SearchesAreTrue, FlowIsWhole, Answered
<1>. QED  BY <1>1, <1>2, <1>3, <1>4 DEF RunInv, PartsInv

\* The edge of a dependency leads from its service to something else.
LEMMA DrawingsAreEdges ==
    ASSUME ResolutionInv, stage \in {"resolved", "unresolved"}, NEW d \in Drawings, d # None
    PROVE  d.edge \in Edge
<1>1. dep \in Dependency /\ dep.from \in Services /\ exposed \subseteq Exposure
  BY DEF ResolutionInv, EvidenceFits, Dependency
<1>2. match # None => match.service \in Services \ {dep.from}
  BY DEF ResolutionInv, MatchFits
<1>3. ASSUME NEW s \in Services \ {dep.from}  PROVE Call(s) \in Edge
  BY <1>1, <1>3 DEF Call, Edge, Link
<1>4. Owners \subseteq Services \ {dep.from}
  BY <1>1 DEF Owners, SameRoute, OfOthers, Exposure
<1>5. CASE dep.kind = "publish"
  <2>1. PICK q \in Queues :
           d = [edge |-> [from |-> dep.from, to |-> q, type |-> "queue_publish"], by |-> "queue"]
    BY <1>5 DEF Drawings
  <2>2. dep.from # q  BY <1>1, GraphAssumption DEF GraphAssumption
  <2>. QED  BY <1>1, <2>1, <2>2 DEF Edge, Link
<1>6. CASE dep.kind = "data"
  <2>1. PICK r \in Resources :
           d = [edge |-> [from |-> dep.from, to |-> r, type |-> DataType(r)], by |-> "resource"]
    BY <1>6 DEF Drawings
  <2>2. dep.from # r  BY <1>1, GraphAssumption DEF GraphAssumption
  <2>3. CASE r \in Buckets  BY <1>1, <2>1, <2>2, <2>3 DEF Edge, Link, DataType
  <2>4. CASE r \notin Buckets  BY <1>1, <2>1, <2>2, <2>4 DEF Edge, Link, DataType
  <2>. QED  BY <2>3, <2>4
<1>7. CASE dep.kind \in {"http", "rpc"}
  <2>1. CASE match # None
    <3>1. d.edge = Call(match.service)  BY <1>7, <2>1 DEF Drawings
    <3>. QED  BY <1>2, <1>3, <2>1, <3>1
  <2>2. CASE match = None /\ dep.target = "explicit"
    <3>1. \E s \in Services \ {dep.from} : d.edge = Call(s)  BY <1>7, <2>2 DEF Drawings
    <3>. QED  BY <1>3, <3>1
  <2>3. CASE match = None /\ dep.target # "explicit"
    <3>1. \E s \in Owners : d.edge = Call(s)  BY <1>7, <2>3 DEF Drawings
    <3>. QED  BY <1>3, <1>4, <3>1
  <2>. QED  BY <2>1, <2>2, <2>3
<1>. QED  BY <1>1, <1>5, <1>6, <1>7 DEF Dependency

LEMMA DrawKeeps ==
    ASSUME PartsInv, Draw
    PROVE  PartsInv'
<1>1. PICK d \in Drawings :
        drawn' = [edges |-> IF d = None THEN {} ELSE {d.edge},
                  by |-> IF d = None THEN None ELSE d.by, route |-> dep.route]
  BY DEF Draw
<1>2. d # None => d.edge \in Edge  BY DrawingsAreEdges DEF PartsInv, Draw
<1>3. drawn'.edges \subseteq Edge  BY <1>1, <1>2
<1>4. phase' = "drawn" /\ graph' = graph /\ UNCHANGED <<packs, layout>>  BY DEF Draw, queries
<1>5. PacksInv' /\ ResolutionInv' /\ LayoutInv'
  BY <1>4, PacksStay, NoResolution, LayoutStays DEF PartsInv, Draw
<1>. QED  BY <1>3, <1>4, <1>5 DEF PartsInv, HandedOver, Phases

LEMMA DrawOthersKeeps ==
    ASSUME PartsInv, DrawOthers
    PROVE  PartsInv'
<1>1. PICK others \in UpTo(Edge, MaxOtherEdges) : graph' = drawn.edges \cup others  BY DEF DrawOthers
<1>2. graph' \subseteq Edge
  BY <1>1, UpToIsFinite, RunAssumption DEF RunAssumption, PartsInv, HandedOver, DrawOthers
<1>3. phase' = "layout" /\ UNCHANGED <<packs, resolution, layout>>  BY DEF DrawOthers
<1>4. PacksInv' /\ ResolutionInv' /\ LayoutInv'
  BY <1>3, PacksStay, ResolutionStays, LayoutStays DEF PartsInv
<1>. QED  BY <1>2, <1>3, <1>4 DEF PartsInv, HandedOver, Phases

\* No query changes the graph.
LEMMA QueriesLeaveGraph ==
    StartQuery \/ Querying => UNCHANGED <<packs, resolution, layout, graph, phase, drawn>>
  BY DEF StartQuery, Querying, QueryStep, PathVisit, FollowPath, PathEnds, ImpactCut, ImpactFull,
         ImpactVisit, FollowImpact, ImpactEnds, FlowVisit, FollowFlow, FlowEnds

LEMMA NextKeepsParts ==
    ASSUME PartsInv, [Next]_vars
    PROVE  PartsInv'
<1>0. PacksInv /\ ResolutionInv /\ LayoutInv /\ HandedOver  BY DEF PartsInv
<1>1. CASE LoadPacks
  <2>1. PacksInv'  BY <1>0, <1>1, PackStepKeeps DEF LoadPacks
  <2>2. UNCHANGED <<resolution, layout, graph, stage, phase, drawn>>
    BY <1>1 DEF LoadPacks, resolution, queries
  <2>. QED  BY <1>0, <2>1, <2>2, ResolutionStays, LayoutStays DEF PartsInv, HandedOver
<1>2. CASE PacksLoaded
  <2>1. PacksInv'  BY <1>2, NoPacks DEF PacksLoaded, DropPacks
  <2>2. /\ UNCHANGED <<resolution, layout, graph, stage, drawn>>
        /\ phase = "packs" /\ phase' = "collection"
    BY <1>2 DEF PacksLoaded, resolution, queries
  <2>. QED  BY <1>0, <2>1, <2>2, ResolutionStays, LayoutStays DEF PartsInv, HandedOver, Phases
<1>3. CASE Collect
  <2>1. UNCHANGED <<packs, layout, graph>> /\ phase' = "resolution" /\ phase = "collection"
    BY <1>3 DEF Collect, queries
  <2>2. ResolutionInv'  BY <1>0, <1>3, <2>1, BeginKeeps DEF Collect, HandedOver
  <2>. QED  BY <1>0, <2>1, <2>2, PacksStay, LayoutStays DEF PartsInv, HandedOver, Phases
<1>4. CASE Resolution
  <2>1. UNCHANGED <<packs, layout, graph, phase, drawn>> /\ phase = "resolution"
    BY <1>4 DEF Resolution, queries
  <2>2. ResolutionInv'  BY <1>0, <1>4, ResolutionStepKeeps DEF Resolution
  <2>. QED  BY <1>0, <2>1, <2>2, PacksStay, LayoutStays DEF PartsInv, HandedOver
<1>5. CASE RunFails
  <2>1. UNCHANGED <<packs, resolution, layout, graph>> /\ phase' = "failed"
    BY <1>5 DEF RunFails, queries
  <2>. QED  BY <1>0, <2>1, PacksStay, ResolutionStays, LayoutStays DEF PartsInv, HandedOver, Phases
<1>6. CASE Draw  BY <1>6, DrawKeeps
<1>7. CASE DrawOthers  BY <1>7, DrawOthersKeeps
<1>8. CASE Layout
  <2>1. UNCHANGED <<packs, resolution, graph, phase, drawn>> /\ phase = "layout"
    BY <1>8 DEF Layout, queries
  <2>2. LayoutInv'  BY <1>0, <1>8, BeginLayoutKeeps, LayoutStepKeeps DEF Layout, HandedOver
  <2>. QED  BY <1>0, <2>1, <2>2, PacksStay, ResolutionStays DEF PartsInv, HandedOver
<1>9. CASE Save
  <2>1. UNCHANGED <<packs, resolution, graph>> /\ phase' = "saved"  BY <1>9 DEF Save, queries
  <2>2. LayoutInv'  BY <1>9, NoLayout DEF Save
  <2>. QED  BY <1>0, <2>1, <2>2, PacksStay, ResolutionStays DEF PartsInv, HandedOver, Phases
<1>10. CASE UNCHANGED <<packs, resolution, layout, graph, phase, drawn>>
  <2>1. UNCHANGED stage  BY <1>10 DEF resolution
  <2>. QED  BY <1>0, <1>10, <2>1, PacksStay, ResolutionStays, LayoutStays DEF PartsInv, HandedOver
<1>11. CASE UNCHANGED vars
  BY <1>10, <1>11 DEF vars, queries
<1>. QED
  BY <1>1, <1>2, <1>3, <1>4, <1>5, <1>6, <1>7, <1>8, <1>9, <1>10, <1>11, QueriesLeaveGraph DEF Next

\* No query is under way before the graph is saved.
LEMMA NextKeepsQueries ==
    ASSUME QueriesInv, graph \subseteq Edge, [Next]_vars
    PROVE  QueriesInv'
<1>1. CASE StartQuery
  <2>1. PICK q \in Query : Ask(q)  BY <1>1 DEF StartQuery
  <2>2. phase' = "saved"  BY <1>1 DEF StartQuery
  <2>. QED  BY <2>1, <2>2, AskKeeps DEF QueriesInv
<1>2. CASE Querying
  <2>1. SearchesInv' /\ phase' = "saved"
    BY <1>2, QueryStepKeeps DEF Querying, QueriesInv
  <2>. QED  BY <2>1 DEF QueriesInv
<1>3. CASE UNCHANGED vars
  <2>1. UNCHANGED <<queries, phase>> /\ UNCHANGED status  BY <1>3 DEF vars, queries
  <2>. QED  BY <2>1, QueriesStand DEF QueriesInv
<1>4. ASSUME phase # "saved", UNCHANGED status  PROVE QueriesInv'
  BY <1>4, NoQueries DEF QueriesInv
<1>5. CASE LoadPacks \/ PacksLoaded \/ Collect \/ Resolution \/ RunFails
  BY <1>4, <1>5 DEF LoadPacks, PacksLoaded, Collect, Resolution, RunFails, queries
<1>6. CASE Draw \/ DrawOthers \/ Layout \/ Save
  BY <1>4, <1>6 DEF Draw, DrawOthers, Layout, Save, queries
<1>. QED  BY <1>1, <1>2, <1>3, <1>5, <1>6 DEF Next

LEMMA NextRunInv == RunInv /\ [Next]_vars => RunInv'
  BY NextKeepsParts, NextKeepsQueries DEF RunInv, PartsInv, HandedOver

THEOREM RunInvariance == Spec => []RunInv
<1>. QED  BY InitRunInv, NextRunInv, PTL DEF Spec

\* Whatever commands and hands do to the packs meanwhile, a run uses what
\* the lock it read says of each pack that nobody touched while it loaded.
THEOREM PacksStayAsLocked == Spec => []PacksAreAsLocked
<1>1. RunInv => PacksAreAsLocked  BY PacksFollow DEF RunInv, PartsInv
<1>. QED  BY <1>1, RunInvariance, PTL

\* The identities decide the same way in every order of the index, and no
\* dependency is resolved to the service it is of.
THEOREM EveryOrderDecidesAlike == Spec => []IdentitiesDecideAlike
<1>1. RunInv => IdentitiesDecideAlike  BY DEF RunInv, PartsInv, ResolutionInv
<1>. QED  BY <1>1, RunInvariance, PTL

\* As many passes as there are nodes are enough, in every order of the
\* constraints: each that was kept points to the right, and no rank is
\* higher than a chain of them demands.
THEOREM PassesAreEnough == Spec => []EdgesPointRight
<1>1. RunInv => EdgesPointRight  BY DEF RunInv, PartsInv, LayoutInv
<1>. QED  BY <1>1, RunInvariance, PTL

\* A path that is found is a shortest one and one that is not found does not
\* exist, unless a limit was met and said; an impact view that is complete
\* shows what a change reaches, all of it, and how far away it is.
THEOREM SearchesStayTrue == Spec => []SearchesAreTrue
<1>1. RunInv => SearchesAreTrue  BY DEF RunInv, QueriesInv, SearchesInv
<1>. QED  BY <1>1, RunInvariance, PTL

\* A flow view that is not truncated has entered what the flow reaches within
\* its depth, in every order in which its edges are followed.
THEOREM FlowsAreWhole == Spec => []FlowIsWhole
<1>1. RunInv => FlowIsWhole  BY DEF RunInv, QueriesInv, SearchesInv
<1>. QED  BY <1>1, RunInvariance, PTL
=============================================================================
