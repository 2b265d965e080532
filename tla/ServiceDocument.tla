-------------------------- MODULE ServiceDocument --------------------------
(***************************************************************************)
(* The document in which a run hands its result to the workspace: how      *)
(* src/internal/extractor/artifacts/protocol.go builds it, what            *)
(* src/protocol/validate.go demands of it, and what the workspace reads    *)
(* back (src/internal/workspace/artifacts/protocol.go).                    *)
(*                                                                         *)
(* Exposures and dependencies become objects under ids of their meaning    *)
(* (method and path, operation and table, ...): entities that share one    *)
(* become one object, described by the first of them, with the places of   *)
(* all.  An entity is [entity, object, group, resource, places]: the group *)
(* is the list it is put in ("endpoint", "query", ...; commands that are   *)
(* offered and commands that are run, "command" and "execution", share     *)
(* one), the resource the object its data store gets, or None.  An object's       *)
(* references to its observations and evidence are added together with     *)
(* them and are left out, as are the fields of data that a flow carries.   *)
(***************************************************************************)
EXTENDS Sublists

CONSTANTS
    None,
    Refused     \* ids, and pairs of the ids a flow is named by, that look like source lines

Entrypoints == {"endpoint", "consumer", "rpc", "activation", "command"}
Dependents  == {"call", "query", "publisher", "cache", "remote", "workflow"}

NewDocument == [objects |-> <<>>, names |-> {}, observations |-> <<>>, evidence |-> <<>>, flows |-> {}]

Ids(doc) == {o.id : o \in ToSet(doc.objects)}

(* Places are numbered per object, on from those it already has; evidence  *)
(* that an earlier entity gave for the same place is shared.               *)
Ordinal(items, object) == 1 + Cardinality({i \in DOMAIN items : items[i].object = object})

Observe(doc, object, places) ==
    LET given == {v.place : v \in ToSet(doc.evidence)}
        fresh == Sublist(places, {i \in DOMAIN places :
                                     places[i] \notin given \cup {places[k] : k \in 1..(i - 1)}})
    IN  [doc EXCEPT
            !.observations = @ \o [i \in DOMAIN places |->
                [object |-> object, n |-> Ordinal(doc.observations, object) + i - 1]],
            !.evidence = @ \o [i \in DOMAIN fresh |->
                [object |-> object, n |-> Ordinal(doc.evidence, object) + i - 1, place |-> fresh[i]]]]

AddObject(doc, object, group, places) ==
    Observe([doc EXCEPT !.objects = Append(@, [id |-> object, group |-> group])], object, places)

(* The data store of an operation is added with the first operation of its  *)
(* meaning, unless another added it before.                                 *)
EnsureResource(doc, e) ==
    IF e.resource = None \/ e.resource \in Ids(doc) THEN doc
    ELSE AddObject(doc, e.resource, "resource", e.places)

AddFirstEntity(doc, e) ==                                   \* mutant of AddEntity
    IF e.object \in Ids(doc) THEN Observe(doc, e.object, e.places)
    ELSE EnsureResource(AddObject([doc EXCEPT !.names = @ \cup {<<e.entity, e.object>>}],
                                  e.object, e.group, e.places), e)

AddEntity(doc, e) ==
    LET named == [doc EXCEPT !.names = @ \cup {<<e.entity, e.object>>}]
    IN  IF e.object \in Ids(doc) THEN Observe(named, e.object, e.places)
        ELSE EnsureResource(AddObject(named, e.object, e.group, e.places), e)

(* A connection becomes a flow of the objects of its ends, if they have      *)
(* any; an entry that no connection leaves gets a flow of its own.           *)
ObjectOf(doc, entity) == {p[2] : p \in {q \in doc.names : q[1] = entity}}

AddFlows(doc, connections) ==
    [doc EXCEPT !.flows = @ \cup
        UNION {[entry : ObjectOf(doc, c[1]), to : ObjectOf(doc, c[2])] : c \in connections}]

FlowedFrom(doc) == {f.entry : f \in {g \in doc.flows : g.to # None}}

AddTraces(doc, exposures) ==
    LET entries == UNION {ObjectOf(doc, e.entity) : e \in ToSet(exposures)}
    IN  [doc EXCEPT !.flows = @ \cup [entry : entries \ FlowedFrom(doc), to : {None}]]

BuildDocument(exposures, dependencies, connections) ==
    LET objects == FoldLeft(AddEntity, NewDocument, exposures \o dependencies)
    IN  AddTraces(AddFlows(objects, connections), exposures)

(***************************************************************************)
(* Validation.  An object of a command that a program runs is no entry     *)
(* point to it, although it stands in the list of commands.                *)
(***************************************************************************)
Numbered(items) == IsInjective([i \in DOMAIN items |-> <<items[i].object, items[i].n>>])

ValidObjects(doc) ==
    /\ IsInjective([i \in DOMAIN doc.objects |-> doc.objects[i].id])
    /\ Ids(doc) \cap Refused = {}

ValidPlaces(doc) ==
    /\ Numbered(doc.observations) /\ Numbered(doc.evidence)
    /\ \A o \in Ids(doc) : \E b \in ToSet(doc.observations) : b.object = o
    /\ \A b \in ToSet(doc.observations) : b.object \in Ids(doc)

ValidFlow(doc, f) ==
    /\ <<f.entry, f.to>> \notin Refused
    /\ f.entry \in Ids(doc)
    /\ f.to \in Ids(doc) \cup {None}

EntriesFlow(doc) ==
    \A o \in ToSet(doc.objects) :
        o.group \in Entrypoints => \E f \in doc.flows : f.entry = o.id

Valid(doc) ==
    /\ ValidObjects(doc) /\ ValidPlaces(doc)
    /\ \A f \in doc.flows : ValidFlow(doc, f)
    /\ EntriesFlow(doc)

(***************************************************************************)
(* Reading.  All commands are read as entry points, also those a program   *)
(* runs; a flow is read as a connection if it ends in a dependency.        *)
(***************************************************************************)
ReadExposures(doc) ==
    {o.id : o \in {p \in ToSet(doc.objects) : p.group \in Entrypoints \cup {"execution"}}}
ReadDependencies(doc) ==
    {o.id : o \in {p \in ToSet(doc.objects) : p.group \in Dependents}}
ReadConnections(doc) ==
    {<<f.entry, f.to>> : f \in {g \in doc.flows :
        g.entry \in ReadExposures(doc) /\ g.to \in ReadDependencies(doc)}}

(* A document may be refused for how its ids look, and else never; and what *)
(* is read back of it is what the run found: every exposure, every          *)
(* dependency and every connection, under the ids of their meaning.         *)
TellsTheResult(doc, exposures, dependencies, connections) ==
    LET Meaning(e) == {x.object : x \in {y \in ToSet(exposures \o dependencies) : y.entity = e}}
        executed == {e.entity : e \in {d \in ToSet(dependencies) : d.group = "execution"}}
    IN  /\ \/ Valid(doc)
           \/ Ids(doc) \cap Refused # {} \/ \E f \in doc.flows : <<f.entry, f.to>> \in Refused
        /\ \A e \in ToSet(exposures) : e.object \in ReadExposures(doc)
        /\ \A e \in ToSet(dependencies) :
              e.entity \in executed \/ e.object \in ReadDependencies(doc)
        /\ ReadConnections(doc) =
              UNION {Meaning(c[1]) \X Meaning(c[2]) : c \in {k \in connections : k[2] \notin executed}}
=============================================================================
