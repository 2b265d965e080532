------------------------- MODULE ArchitectureGraph --------------------------
(* The vocabulary of a saved architecture graph: services, queues and data *)
(* resources, and the edges internal/workspace/archgraph draws among them. *)
(* Edges point from caller to callee (HTTP or RPC) and along messages;     *)
(* none leads from a node to itself.  A resource is a database or, if it   *)
(* is one of the Buckets, an object storage.  Schedulers, caches and       *)
(* workflow engines have edges that behave as these do and are left out.   *)
EXTENDS Naturals, FiniteSets

CONSTANTS Services, Queues, Resources, Buckets, None

Nodes == Services \cup Queues \cup Resources

ASSUME GraphAssumption ==
    /\ None \notin Nodes /\ IsFiniteSet(Nodes)
    /\ Services \cap Queues = {} /\ (Services \cup Queues) \cap Resources = {}
    /\ Buckets \subseteq Resources

Link(A, B, t) == {e \in [from : A, to : B, type : {t}] : e.from # e.to}
DataType(r) == IF r \in Buckets THEN "object_storage" ELSE "database"
Edge == Link(Services, Services, "call") \cup Link(Services, Buckets, "object_storage")
        \cup Link(Services, Resources \ Buckets, "database")
        \cup Link(Services, Queues, "queue_publish") \cup Link(Queues, Services, "queue_consume")
        \cup Link(Queues, Queues, "queue_subscription")

(* Impact travels along messages and against calls and data accesses; the  *)
(* accesses of an object storage are in neither set (impact.go:16-22).     *)
Forward == {"queue_publish", "queue_subscription", "queue_consume"}
Reverse == {"call", "database"}

(* The sets of at most n elements of S. *)
UpTo(S, n) == {{}} \cup {{f[i] : i \in 1..n} : f \in [1..n -> S]}

(* The nodes within k steps of a set, where next[n] are the neighbours. *)
Within(next, from, k) ==
    LET ball[i \in 0..k] ==
            IF i = 0 THEN from ELSE ball[i - 1] \cup UNION {next[n] : n \in ball[i - 1]}
    IN ball[k]
=============================================================================
