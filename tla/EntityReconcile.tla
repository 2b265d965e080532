-------------------------- MODULE EntityReconcile --------------------------
(***************************************************************************)
(* What src/internal/extractor makes of the dependencies it discovered:    *)
(* duplicates of one fact are merged (stage/reconcile/policies.go), calls  *)
(* of repositories that no detector claimed are added, and rows without a  *)
(* platform get the one the repository is configured for.                  *)
(*                                                                         *)
(* A row's fact stands for its type, its resource without the schema, and  *)
(* the operation; ids are numbers, in the order of the ids of the code;    *)
(* platforms are numbers, in the order of their names, and 0 is a generic  *)
(* one ("database", "jdbc", "unknown").  Rows that are no operations on    *)
(* stored data are merged by a key of theirs alone, which the fact stands  *)
(* for; schema and platform say nothing of them.  Filters on names (junk   *)
(* tables, transports of queues) come before all this and are left out.    *)
(***************************************************************************)
EXTENDS Sublists

CONSTANT Nothing    \* the store of a row nobody has told one

(* The rows of a set in the order of their ids.                            *)
ById(S) ==
    LET ids == {r.id : r \in S}
    IN  [n \in 1..Cardinality(ids) |-> CHOOSE r \in S : r.id = Nth(ids, n)]

(* A name without schema is that of the only schema its fact is seen with. *)
Schemas(rows, fact) == {r.schema : r \in {x \in ToSet(rows) : x.fact = fact}} \ {""}

Qualified(rows) ==
    [i \in DOMAIN rows |->
        IF rows[i].schema = "" /\ Cardinality(Schemas(rows, rows[i].fact)) = 1
        THEN [rows[i] EXCEPT !.schema = CHOOSE s \in Schemas(rows, rows[i].fact) : TRUE]
        ELSE rows[i]]

(* Of two rows the more confident one is kept, the first if they are alike; *)
(* it takes over only the fields it lacks: a store may be among them, its   *)
(* places are not.  (A blank platform would be taken over as well, but a    *)
(* row that names one is as sure as any and comes first; details are left   *)
(* out.)                                                                    *)
Completed(r, s) == IF r.store = Nothing THEN [r EXCEPT !.store = s.store] ELSE r
Choose(r, s) == IF s.confidence > r.confidence THEN Completed(s, r) ELSE Completed(r, s)
Reduce(rows) == FoldLeft(Choose, Head(rows), Tail(rows))

(* One row is kept for each platform of a group; generic rows are merged    *)
(* into the first of them, and stand for themselves where there is none.    *)
OnPlatform(rows, p) == Sublist(rows, {i \in DOMAIN rows : rows[i].platform = p})
JoinGeneric(rows, p) == OnPlatform(rows, p) \o OnPlatform(rows, 0)

KeptOf(group) ==
    LET platforms == {r.platform : r \in ToSet(group)} \ {0}
        first == CHOOSE p \in platforms : \A q \in platforms : p <= q
    IN  IF platforms = {} THEN {Reduce(group)}
        ELSE {Reduce(IF p = first THEN JoinGeneric(group, p) ELSE OnPlatform(group, p)) : p \in platforms}

Dedupe(rows) ==
    LET q == Qualified(rows)
        keys == {<<r.fact, r.schema>> : r \in ToSet(q)}
        Group(k) == Sublist(q, {i \in DOMAIN q : <<q[i].fact, q[i].schema>> = k})
    IN  ById(UNION {KeptOf(Group(k)) : k \in keys})

(* The platform that most rows have; equally frequent ones are told apart   *)
(* by the order of a map, so any of them may be it.  (The code counts       *)
(* instances and databases of a platform apart, and of equally frequent     *)
(* ones prefers one with a database: no part of a row here.)                *)
Stores(rows, p) == Cardinality({r \in ToSet(rows) : r.data /\ r.platform = p})
Commonest(rows) ==
    LET stores == {r \in ToSet(rows) : r.data}
    IN  IF stores = {} THEN {0}
        ELSE {p \in {r.platform : r \in stores} :
                 \A r \in stores : Stores(rows, r.platform) <= Stores(rows, p)}

(* Rows of caches, which the code leaves alone, name their platform.        *)
Stamp(rows, configured) ==
    [i \in DOMAIN rows |->
        IF configured # 0 /\ rows[i].data /\ rows[i].platform = 0 THEN [rows[i] EXCEPT !.platform = configured]
        ELSE rows[i]]
=============================================================================
