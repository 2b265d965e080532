------------------------ MODULE DependencyResolution ------------------------
(***************************************************************************)
(* How a run of the workspace decides which service one dependency of      *)
(* another service means: internal/workspace/resolver.  Knowledge rules    *)
(* come first, then HTTP routes, then queue topics, then the identities    *)
(* the services are known by.  The services come out of a Go map, so the   *)
(* index is read in an arbitrary order of the services.                    *)
(*                                                                         *)
(* Strings are abstracted to what the comparisons find: how an exposed     *)
(* route resembles the dependency's (normalizeHTTPPath), whether a topic   *)
(* is the dependency's (normalizeQueueTopic), and which tier and length an *)
(* identity matches with (matchIdentityTier).  Entries that resemble       *)
(* nothing are left out of the index: reading one changes nothing.         *)
(***************************************************************************)
EXTENDS ArchitectureGraph

CONSTANTS
    MaxExposures,   \* bound: exposed routes that resemble the dependency's
    MaxIdentities,  \* bound: identities that match its target
    MaxRules        \* bound: knowledge rules that match its target

(* The dependency: what kind of call it is, how its target is known (an    *)
(* explicit destination, only the name of the dependency, or not at all)   *)
(* and its route, which may be one that every service exposes.             *)
Dependency ==
    {d \in [from : Services, kind : {"http", "rpc", "publish", "data"},
            target : {"explicit", "name", "none"}, route : {"none", "own", "generic"}] :
        d.kind # "http" => d.route = "none"}

Exposure == [service : Services, id : {1, 2}, like : {"exact", "stripped"}]
Identity ==   \* equal identities (tier 95) are of one length
    {i \in [service : Services, tier : {75, 90, 95}, length : {1, 2}] :
        i.tier = 95 => i.length = 2}
Rule     == [service : Services, priority : {1, 2}]

ASSUME ResolutionAssumption ==
    /\ {MaxExposures, MaxIdentities, MaxRules} \subseteq Nat
    /\ None \notin Identity

VARIABLES
    dep,        \* the dependency being resolved
    exposed,    \* the routes of all services that resemble its own
    topics,     \* the services with its topic among their queue identities
    index,      \* the identities that match its target
    unread,     \* those of them that the scan has still to read
    best,       \* the best identity so far
    ambiguous,  \* another service matched as well as the best
    stage,      \* how far the resolution is
    match       \* what the dependency was resolved to, and by what

resolution == <<dep, exposed, topics, index, unread, best, ambiguous, stage, match>>
evidence   == <<dep, exposed, topics>>
scan       == <<index, unread, best, ambiguous>>

InitResolution ==
    /\ dep = None /\ exposed = {} /\ topics = {} /\ index = {} /\ unread = {}
    /\ best = None /\ ambiguous = FALSE /\ match = None /\ stage = "none"

(* The repositories have been read. *)
BeginResolution ==
    /\ dep' \in Dependency
    /\ exposed' \in IF dep'.route = "none" THEN {{}} ELSE UpTo(Exposure, MaxExposures)
    /\ topics' \in IF dep'.kind = "publish" THEN SUBSET Services ELSE {{}}
    /\ stage' = "rules"
    /\ UNCHANGED <<scan, match>>

DropResolution ==
    /\ dep' = None /\ exposed' = {} /\ topics' = {} /\ index' = {} /\ unread' = {}
    /\ best' = None /\ ambiguous' = FALSE /\ match' = None /\ stage' = "none"

Resolve(s, by) ==
    /\ match' = [service |-> s, by |-> by]
    /\ stage' = "resolved"

Pass(next) == stage' = next /\ UNCHANGED match

(***************************************************************************)
(* Knowledge rules: of those that name another known service the ones of   *)
(* the highest priority decide, and must agree.                            *)
(***************************************************************************)
Candidates(rules) == {r \in rules : r.service # dep.from}
Decisive(rules) ==
    {r \in Candidates(rules) : \A q \in Candidates(rules) : q.priority <= r.priority}

ApplyRules ==
    /\ stage = "rules"
    /\ \E rules \in UpTo(Rule, MaxRules) :
        LET named == {r.service : r \in Decisive(rules)} IN
        \/ named = {} /\ Pass("routes")
        \/ Cardinality(named) = 1 /\ Resolve(CHOOSE s \in named : TRUE, "rule")
        \/ Cardinality(named) > 1 /\ Pass("failed")
    /\ UNCHANGED <<evidence, scan>>

(***************************************************************************)
(* A call without a destination of its own may be identified by its route, *)
(* when exactly one route of another service is the same, or, if none is,  *)
(* exactly one is the same but for prefixes such as /api/v1.               *)
(***************************************************************************)
RouteMayIdentify == dep.kind = "http" /\ dep.target # "explicit" /\ dep.route # "none"
OfOthers  == {x \in exposed : x.service # dep.from}
SameRoute == {x \in OfOthers : x.like = "exact"}
RouteOwner == IF SameRoute # {} THEN SameRoute ELSE OfOthers

MatchRoute ==
    /\ stage = "routes" /\ RouteMayIdentify
    /\ Cardinality(RouteOwner) = 1
    /\ \E x \in RouteOwner : Resolve(x.service, "route")
    /\ UNCHANGED <<evidence, scan>>

NoRoute ==
    /\ stage = "routes"
    /\ ~(RouteMayIdentify /\ Cardinality(RouteOwner) = 1)
    /\ IF dep.kind = "data" \/ dep.target = "none" THEN Pass("unresolved") ELSE Pass("topics")
    /\ UNCHANGED <<evidence, scan>>

(* A publication goes to the first other service in the index with a queue *)
(* identity of the same topic; the index begins with any service.          *)
MatchTopic ==
    /\ stage = "topics" /\ dep.kind = "publish"
    /\ \E s \in topics \ {dep.from} : Resolve(s, "topic")
    /\ UNCHANGED <<evidence, scan>>

(***************************************************************************)
(* Otherwise the identities are compared one by one: the highest tier, and *)
(* in a tier the longest identity, wins; a tie of two services is an error *)
(* that fails the whole run.  A token of an RPC stub's name is no evidence.*)
(***************************************************************************)
NoTopic ==
    /\ stage = "topics"
    /\ dep.kind = "publish" => topics \ {dep.from} = {}
    /\ \E found \in UpTo(Identity, MaxIdentities) : index' = found /\ unread' = found
    /\ Pass("identities")
    /\ UNCHANGED <<evidence, best, ambiguous>>

Eligible(i) == i.service # dep.from /\ (dep.kind = "rpc" => i.tier >= 90)
Beats(i, j) == i.tier > j.tier \/ (i.tier = j.tier /\ i.length > j.length)
Ties(i, j)  == i.tier = j.tier /\ i.length = j.length /\ i.service # j.service

(* The identities of one service stand together in the index. *)
Consecutive(i) ==
    LET begun == {j \in unread : \E r \in index \ unread : r.service = j.service}
    IN begun # {} => i \in begun

(* Mutant: a tie is not forgotten when a better identity is read. *)
ReadIdentityTied ==
    /\ stage = "identities"
    /\ \E i \in unread :
        /\ Consecutive(i)
        /\ unread' = unread \ {i}
        /\ IF Eligible(i) /\ (IF best = None THEN TRUE ELSE Beats(i, best))
           THEN best' = i /\ UNCHANGED ambiguous
           ELSE /\ ambiguous' = (ambiguous \/ (Eligible(i) /\ Ties(i, best)))
                /\ UNCHANGED best
    /\ UNCHANGED <<evidence, index, stage, match>>

ReadIdentity ==
    /\ stage = "identities"
    /\ \E i \in unread :
        /\ Consecutive(i)
        /\ unread' = unread \ {i}
        /\ \/ /\ Eligible(i) /\ (IF best = None THEN TRUE ELSE Beats(i, best))
              /\ best' = i /\ ambiguous' = FALSE
           \/ /\ ~(Eligible(i) /\ (IF best = None THEN TRUE ELSE Beats(i, best)))
              /\ ambiguous' = (ambiguous \/ (Eligible(i) /\ Ties(i, best)))
              /\ UNCHANGED best
    /\ UNCHANGED <<evidence, index, stage, match>>

Settle ==
    /\ stage = "identities" /\ unread = {}
    /\ \/ ambiguous /\ Pass("failed")
       \/ ~ambiguous /\ best = None /\ Pass("unresolved")
       \/ ~ambiguous /\ best # None /\ Resolve(best.service, "identity")
    /\ UNCHANGED <<evidence, scan>>

ResolutionStep ==
    ApplyRules \/ MatchRoute \/ NoRoute \/ MatchTopic \/ NoTopic \/ ReadIdentity \/ Settle

Resolved == stage \in {"resolved", "unresolved", "failed"}
-----------------------------------------------------------------------------
(***************************************************************************)
(* The identities decide the same way in whatever order the services come  *)
(* out of the registry: the service is the one whose identity no other     *)
(* service's equals or beats, a failure means that two are equally best,   *)
(* and no answer means that nothing matched (resolver.go, "The same inputs *)
(* always produce the same graph").                                        *)
(***************************************************************************)
Strongest == {i \in index : Eligible(i) /\ \A j \in index : Eligible(j) => ~Beats(j, i)}

IdentitiesDecideAlike ==
    /\ (Resolved /\ index # {}) =>
        LET named == {i.service : i \in Strongest} IN
        /\ stage = "failed" <=> Cardinality(named) > 1
        /\ stage = "unresolved" <=> named = {}
        /\ stage = "resolved" => named = {match.service}
    /\ (Resolved /\ match # None) => match.service # dep.from
=============================================================================
