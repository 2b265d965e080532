------------------------ MODULE ExtractionRunProofs ------------------------
(***************************************************************************)
(* Safety of ExtractionRun for every repository: its symbols, its calls,   *)
(* what the detectors find, its exposures and workers.                     *)
(***************************************************************************)
EXTENDS ExtractionRun, FiniteSetTheorems, SequenceTheorems, WellFoundedInduction, TLAPS

-----------------------------------------------------------------------------
(***************************************************************************)
(* Numbers.                                                                *)
(***************************************************************************)
\* Of some numbers one is the least.
LEMMA SomeIsLeast ==
    ASSUME NEW T \in SUBSET Nat, T # {}
    PROVE  \E m \in T : \A k \in T : m <= k
<1>. DEFINE L == OpToRel(<, Nat)
<1>1. IsWellFoundedOn(L, Nat)  BY NatLessThanWellFounded
<1>. HIDE DEF L
<1>2. PICK m \in T : \A k \in T : ~ (<<k, m>> \in L)  BY <1>1, WFMin
<1>3. ASSUME NEW k \in T, k < m  PROVE <<k, m>> \in L
  <2>. DEFINE s == <<k, m>>
  <2>1. s \in Nat \X Nat /\ s[1] < s[2]  BY <1>3
  <2>. HIDE DEF s
  <2>2. s \in {t \in Nat \X Nat : t[1] < t[2]}  BY <2>1
  <2>3. s \in L  BY <2>2 DEF L, OpToRel
  <2>. QED  BY <2>3 DEF s
<1>4. ASSUME NEW k \in T  PROVE m <= k
  <2>1. ~ k < m  BY <1>2, <1>3
  <2>2. k \in Nat /\ m \in Nat  OBVIOUS
  <2>. QED  BY <2>1, <2>2
<1>. QED  BY <1>4

\* What is so of zero, and of each number after one it is so of, is so of all.
LEMMA SoOfAll ==
    ASSUME NEW n \in Nat, NEW T \in SUBSET (0..n), 0 \in T, \A k \in T : k < n => k + 1 \in T
    PROVE  T = 0..n
<1>. SUFFICES ASSUME (0..n) \ T # {}  PROVE FALSE  OBVIOUS
<1>1. PICK m \in (0..n) \ T : \A k \in (0..n) \ T : m <= k
  <2>1. (0..n) \ T \in SUBSET Nat  OBVIOUS
  <2>. QED  BY <2>1, SomeIsLeast
<1>2. m # 0 /\ m - 1 \in 0..n /\ ~ m <= m - 1  BY <1>1
<1>3. m - 1 \in T  BY <1>1, <1>2
<1>. QED  BY <1>1, <1>2, <1>3

\* Of the first numbers, some have a greatest among them.
LEMMA MaxIsGreatest ==
    ASSUME NEW n \in Nat, NEW S \in SUBSET (1..n), S # {}
    PROVE  Max(S) \in S /\ \A k \in S : k <= Max(S)
<1>. DEFINE T == {n - k : k \in S}
<1>0. \A k \in S : k \in 1..n /\ n - k \in Nat  OBVIOUS
<1>1. T \in SUBSET Nat /\ T # {}  BY <1>0
<1>2. PICK m \in T : \A k \in T : m <= k  BY <1>1, SomeIsLeast
<1>3. PICK g \in S : m = n - g  BY <1>2
<1>4. \A k \in S : g >= k
  <2>. SUFFICES ASSUME NEW k \in S  PROVE g >= k  OBVIOUS
  <2>1. n - k \in T  OBVIOUS
  <2>2. n - g <= n - k  BY <1>2, <1>3, <2>1
  <2>3. g \in 1..n /\ k \in 1..n  OBVIOUS
  <2>. QED  BY <2>2, <2>3
<1>5. Max(S) \in S /\ \A k \in S : Max(S) >= k  BY <1>3, <1>4 DEF Max
<1>6. \A k \in S : k \in 1..n  OBVIOUS
<1>. QED  BY <1>5, <1>6

-----------------------------------------------------------------------------
(***************************************************************************)
(* Lists.  The members of a finite set of numbers are each the n-th of it  *)
(* for one n.                                                              *)
(***************************************************************************)
Below(I, i) == {j \in I : j < i}

LEMMA RanksAreInjective ==
    ASSUME NEW I \in SUBSET Nat, IsFiniteSet(I)
    PROVE  /\ \A i \in I : Cardinality(Below(I, i)) \in 0..(Cardinality(I) - 1)
           /\ \A i, k \in I : Cardinality(Below(I, i)) = Cardinality(Below(I, k)) => i = k
<1>1. \A i : IsFiniteSet(Below(I, i)) /\ Cardinality(Below(I, i)) \in Nat
  <2>. SUFFICES ASSUME NEW i PROVE IsFiniteSet(Below(I, i)) /\ Cardinality(Below(I, i)) \in Nat
    OBVIOUS
  <2>1. Below(I, i) \subseteq I  BY DEF Below
  <2>. QED  BY <2>1, FS_Subset, FS_CardinalityType
<1>2. ASSUME NEW i \in I, NEW T \in SUBSET I, Below(I, i) \subseteq T, i \in T
      PROVE  Cardinality(Below(I, i)) + 1 <= Cardinality(T) /\ Cardinality(T) \in Nat
  <2>1. i \notin Below(I, i)  BY DEF Below
  <2>2. Cardinality(Below(I, i) \cup {i}) = Cardinality(Below(I, i)) + 1
    BY <1>1, <2>1, FS_AddElement
  <2>3. Below(I, i) \cup {i} \subseteq T  BY <1>2
  <2>4. IsFiniteSet(T) /\ Cardinality(T) \in Nat  BY FS_Subset, FS_CardinalityType
  <2>5. Cardinality(Below(I, i) \cup {i}) <= Cardinality(T)  BY <2>3, <2>4, FS_Subset
  <2>. QED  BY <2>2, <2>4, <2>5
<1>3. \A i \in I : Cardinality(Below(I, i)) \in 0..(Cardinality(I) - 1)
  <2>. SUFFICES ASSUME NEW i \in I PROVE Cardinality(Below(I, i)) \in 0..(Cardinality(I) - 1)
    OBVIOUS
  <2>1. Below(I, i) \subseteq I  BY DEF Below
  <2>2. Cardinality(Below(I, i)) + 1 <= Cardinality(I) /\ Cardinality(I) \in Nat  BY <1>2, <2>1
  <2>. QED  BY <1>1, <2>2
<1>4. ASSUME NEW i \in I, NEW k \in I, i < k
      PROVE  Cardinality(Below(I, i)) # Cardinality(Below(I, k))
  <2>0. \A j \in I : j < i => j < k
    <3>. SUFFICES ASSUME NEW j \in I, j < i PROVE j < k  OBVIOUS
    <3>1. i \in Nat /\ k \in Nat /\ j \in Nat  OBVIOUS
    <3>. QED  BY <1>4, <3>1
  <2>1. Below(I, i) \subseteq Below(I, k) /\ i \in Below(I, k) /\ Below(I, k) \subseteq I
    BY <1>4, <2>0 DEF Below
  <2>2. Cardinality(Below(I, i)) + 1 <= Cardinality(Below(I, k))  BY <1>2, <2>1
  <2>. QED  BY <1>1, <2>2
<1>5. \A i, k \in I : i \in Nat /\ k \in Nat  OBVIOUS
<1>. QED  BY <1>3, <1>4, <1>5

LEMMA NthIsIn ==
    ASSUME NEW I \in SUBSET Nat, IsFiniteSet(I), NEW n \in 1..Cardinality(I)
    PROVE  Nth(I, n) \in I /\ Cardinality(Below(I, Nth(I, n))) = n - 1
<1>. DEFINE rank == [i \in I |-> Cardinality(Below(I, i)) + 1]
            N == Cardinality(I)
<1>1. N \in Nat  BY FS_CardinalityType
<1>2. \A i \in I : Cardinality(Below(I, i)) \in Nat /\ Cardinality(Below(I, i)) + 1 \in 1..N
  BY <1>1, RanksAreInjective
<1>3. rank \in [I -> 1..N]  BY <1>2
<1>4. \A i, k \in I : rank[i] = rank[k] => i = k  BY <1>2, RanksAreInjective
<1>5. rank \in Injection(I, 1..N)  BY <1>3, <1>4 DEF Injection, IsInjective
<1>6. IsFiniteSet(1..N) /\ Cardinality(1..N) = N  BY <1>1, FS_Interval
<1>7. rank \in Surjection(I, 1..N)  BY <1>5, <1>6, FS_Injection
<1>8. PICK i \in I : rank[i] = n  BY <1>7 DEF Surjection
<1>9. Cardinality({j \in I : j < i}) = n - 1
  <2>1. Cardinality(Below(I, i)) + 1 = n /\ Cardinality(Below(I, i)) \in Nat  BY <1>2, <1>8
  <2>. QED  BY <2>1 DEF Below
<1>10. Nth(I, n) \in I /\ Cardinality({j \in I : j < Nth(I, n)}) = n - 1  BY <1>9 DEF Nth
<1>. QED  BY <1>10 DEF Below

LEMMA NthIsOnto ==
    ASSUME NEW I \in SUBSET Nat, IsFiniteSet(I), NEW i \in I
    PROVE  \E n \in 1..Cardinality(I) : Nth(I, n) = i
<1>. DEFINE n == Cardinality(Below(I, i)) + 1
<1>1. Cardinality(I) \in Nat /\ Cardinality(Below(I, i)) \in 0..(Cardinality(I) - 1)
  BY RanksAreInjective, FS_CardinalityType
<1>2. n \in 1..Cardinality(I) /\ n - 1 = Cardinality(Below(I, i))  BY <1>1
<1>3. Nth(I, n) \in I /\ Cardinality(Below(I, Nth(I, n))) = n - 1  BY <1>2, NthIsIn
<1>4. Cardinality(Below(I, Nth(I, n))) = Cardinality(Below(I, i))  BY <1>2, <1>3
<1>5. Nth(I, n) = i
  <2>. HIDE DEF n
  <2>1. \A j, k \in I : Cardinality(Below(I, j)) = Cardinality(Below(I, k)) => j = k
    BY RanksAreInjective
  <2>. QED  BY <1>3, <1>4, <2>1
<1>. QED  BY <1>2, <1>5

\* No two numbers have the same member for their n-th.
LEMMA NthIsInjective ==
    ASSUME NEW I \in SUBSET Nat, IsFiniteSet(I),
           NEW m \in 1..Cardinality(I), NEW n \in 1..Cardinality(I), Nth(I, m) = Nth(I, n)
    PROVE  m = n
<1>1. Cardinality(Below(I, Nth(I, m))) = m - 1 /\ Cardinality(Below(I, Nth(I, n))) = n - 1
  BY NthIsIn
<1>. QED  BY <1>1

LEMMA SublistHasItems ==
    ASSUME NEW S, NEW list \in Seq(S), NEW I \in SUBSET DOMAIN list
    PROVE  /\ IsFiniteSet(I) /\ Cardinality(I) \in Nat
           /\ Sublist(list, I) \in Seq({list[i] : i \in I})
           /\ Len(Sublist(list, I)) = Cardinality(I)
           /\ ToSet(Sublist(list, I)) = {list[i] : i \in I}
<1>. DEFINE N == Cardinality(I)
            items == {list[i] : i \in I}
<1>1. I \in SUBSET Nat /\ IsFiniteSet(I) /\ N \in Nat
  <2>1. DOMAIN list = 1..Len(list) /\ Len(list) \in Nat  OBVIOUS
  <2>2. IsFiniteSet(DOMAIN list)  BY <2>1, FS_Interval
  <2>3. \A i \in I : i \in Nat  BY <2>1
  <2>. QED  BY <2>2, <2>3, FS_Subset, FS_CardinalityType
<1>2. \A n \in 1..N : Nth(I, n) \in I  BY <1>1, NthIsIn
<1>3. \A i \in I : \E n \in 1..N : Nth(I, n) = i  BY <1>1, NthIsOnto
<1>4. Sublist(list, I) = [n \in 1..N |-> list[Nth(I, n)]]  BY DEF Sublist
<1>. HIDE DEF N
<1>5. Sublist(list, I) \in [1..N -> items]  BY <1>2, <1>4
<1>6. Sublist(list, I) \in Seq(items) /\ Len(Sublist(list, I)) = N
  BY <1>1, <1>5
<1>7. DOMAIN Sublist(list, I) = 1..N /\ \A n \in 1..N : Sublist(list, I)[n] = list[Nth(I, n)]
  BY <1>4
<1>8. ToSet(Sublist(list, I)) = items  BY <1>2, <1>3, <1>7 DEF ToSet
<1>. QED  BY <1>1, <1>6, <1>8 DEF N

\* What two lists end to end have.
LEMMA JoinedHas ==
    ASSUME NEW S, NEW a \in Seq(S), NEW b \in Seq(S)
    PROVE  ToSet(a \o b) = ToSet(a) \cup ToSet(b)
<1>1. a \o b \in Seq(S) /\ Len(a \o b) = Len(a) + Len(b) /\ Len(a) \in Nat /\ Len(b) \in Nat
  OBVIOUS
<1>2. ToSet(a \o b) \subseteq ToSet(a) \cup ToSet(b)
  <2>. SUFFICES ASSUME NEW i \in DOMAIN (a \o b)
                PROVE  (a \o b)[i] \in ToSet(a) \cup ToSet(b)
    BY DEF ToSet
  <2>1. i \in 1..(Len(a) + Len(b))  BY <1>1
  <2>2. CASE i <= Len(a)
    <3>1. i \in DOMAIN a /\ (a \o b)[i] = a[i]  BY <1>1, <2>1, <2>2
    <3>. QED  BY <3>1 DEF ToSet
  <2>3. CASE i > Len(a)
    <3>1. i - Len(a) \in DOMAIN b /\ (a \o b)[i] = b[i - Len(a)]  BY <1>1, <2>1, <2>3
    <3>. QED  BY <3>1 DEF ToSet
  <2>. QED  BY <1>1, <2>1, <2>2, <2>3
<1>3. ToSet(a) \subseteq ToSet(a \o b)
  <2>. SUFFICES ASSUME NEW i \in DOMAIN a  PROVE a[i] \in ToSet(a \o b)  BY DEF ToSet
  <2>1. i \in DOMAIN (a \o b) /\ (a \o b)[i] = a[i]  BY <1>1
  <2>. QED  BY <2>1 DEF ToSet
<1>4. ToSet(b) \subseteq ToSet(a \o b)
  <2>. SUFFICES ASSUME NEW i \in DOMAIN b  PROVE b[i] \in ToSet(a \o b)  BY DEF ToSet
  <2>1. i + Len(a) \in DOMAIN (a \o b) /\ (a \o b)[i + Len(a)] = b[i]  BY <1>1
  <2>. QED  BY <2>1 DEF ToSet
<1>. QED  BY <1>2, <1>3, <1>4

\* A list of rows that have their ids for themselves.
Keyed(rows) ==
    /\ rows \in Seq(ToSet(rows))
    /\ \A r \in ToSet(rows) : IsRow(r)
    /\ \A i, j \in DOMAIN rows : rows[i].id = rows[j].id => i = j

IdsOf(rows) == {r.id : r \in rows}

LEMMA KeyedRows ==
    ASSUME NEW rows, Keyed(rows)
    PROVE  /\ DOMAIN rows = 1..Len(rows) /\ Len(rows) \in Nat
           /\ \A i \in DOMAIN rows : rows[i] \in ToSet(rows) /\ IsRow(rows[i])
           /\ \A r, q \in ToSet(rows) : r.id = q.id => r = q
           /\ IsFiniteSet(ToSet(rows))
<1>1. rows \in Seq(ToSet(rows))  BY DEF Keyed
<1>2. DOMAIN rows = 1..Len(rows) /\ Len(rows) \in Nat  BY <1>1
<1>3. IsFiniteSet(DOMAIN rows)  BY <1>2, FS_Interval
<1>4. ToSet(rows) = {rows[i] : i \in DOMAIN rows}  BY DEF ToSet
<1>5. IsFiniteSet({rows[i] : i \in DOMAIN rows})
  <2>. DEFINE f == [i \in DOMAIN rows |-> rows[i]]
              T == {rows[i] : i \in DOMAIN rows}
  <2>1. f \in Surjection(DOMAIN rows, T)  BY DEF Surjection
  <2>. QED  BY <1>3, <2>1, FS_Surjection
<1>. QED  BY <1>2, <1>4, <1>5 DEF Keyed

LEMMA ByIdIsKeyed ==
    ASSUME NEW S, IsFiniteSet(S), \A r \in S : IsRow(r), \A r, q \in S : r.id = q.id => r = q
    PROVE  Keyed(ById(S)) /\ ToSet(ById(S)) = S
<1>. DEFINE ids == IdsOf(S)
            N == Cardinality(ids)
            At(n) == CHOOSE r \in S : r.id = Nth(ids, n)
<1>1. ids \in SUBSET Nat  BY DEF IdsOf, IsRow
<1>2. IsFiniteSet(ids)
  <2>. DEFINE f == [r \in S |-> r.id]
  <2>1. f \in Surjection(S, ids)  BY DEF Surjection, IdsOf
  <2>. QED  BY <2>1, FS_Surjection
<1>3. N \in Nat  BY <1>2, FS_CardinalityType
<1>4. ById(S) = [n \in 1..N |-> At(n)]  BY DEF ById, IdsOf
<1>5. ASSUME NEW n \in 1..N  PROVE At(n) \in S /\ At(n).id = Nth(ids, n)
  <2>1. Nth(ids, n) \in ids  BY <1>1, <1>2, NthIsIn
  <2>. QED  BY <2>1 DEF IdsOf
<1>6. ASSUME NEW r \in S  PROVE \E n \in 1..N : At(n) = r
  <2>1. r.id \in ids  BY DEF IdsOf
  <2>2. PICK n \in 1..N : Nth(ids, n) = r.id  BY <1>1, <1>2, <2>1, NthIsOnto
  <2>3. At(n) \in S /\ At(n).id = r.id  BY <1>5, <2>2
  <2>. QED  BY <2>3
<1>7. \A m, n \in 1..N : Nth(ids, m) = Nth(ids, n) => m = n
  BY <1>1, <1>2, NthIsInjective
<1>. HIDE DEF N, At
<1>8. DOMAIN ById(S) = 1..N /\ \A n \in 1..N : ById(S)[n] = At(n)  BY <1>4
<1>9. ToSet(ById(S)) = S  BY <1>5, <1>6, <1>8 DEF ToSet
<1>10. ById(S) \in Seq(S)
  <2>1. ById(S) \in [1..N -> S]  BY <1>4, <1>5
  <2>. QED  BY <1>3, <2>1
<1>11. \A i, j \in DOMAIN ById(S) : ById(S)[i].id = ById(S)[j].id => i = j
  BY <1>5, <1>7, <1>8
<1>. QED  BY <1>9, <1>10, <1>11 DEF Keyed

\* Rows that change, and keep their fields and ids, stay apart.
LEMMA ChangedRowsAreKeyed ==
    ASSUME NEW rows, Keyed(rows), NEW changed, changed = [i \in DOMAIN rows |-> changed[i]],
           \A i \in DOMAIN rows : IsRow(changed[i]) /\ changed[i].id = rows[i].id
    PROVE  Keyed(changed) /\ IdsOf(ToSet(changed)) = IdsOf(ToSet(rows))
<1>1. DOMAIN rows = 1..Len(rows) /\ Len(rows) \in Nat  BY KeyedRows
<1>2. DOMAIN changed = DOMAIN rows  OBVIOUS
<1>3. ToSet(changed) = {changed[i] : i \in DOMAIN rows} /\ ToSet(rows) = {rows[i] : i \in DOMAIN rows}
  BY <1>2 DEF ToSet
<1>4. changed \in Seq(ToSet(changed))
  <2>1. changed \in [1..Len(rows) -> ToSet(changed)]  BY <1>1, <1>3
  <2>. QED  BY <1>1, <2>1
<1>5. \A i, j \in DOMAIN changed : changed[i].id = changed[j].id => i = j  BY <1>2 DEF Keyed
<1>6. \A r \in ToSet(changed) : IsRow(r)  BY <1>3
<1>7. IdsOf(ToSet(changed)) = IdsOf(ToSet(rows))
  <2>1. IdsOf(ToSet(changed)) = {changed[i].id : i \in DOMAIN rows}  BY <1>3 DEF IdsOf
  <2>2. IdsOf(ToSet(rows)) = {rows[i].id : i \in DOMAIN rows}  BY <1>3 DEF IdsOf
  <2>. QED  BY <2>1, <2>2
<1>. QED  BY <1>4, <1>5, <1>6, <1>7 DEF Keyed

-----------------------------------------------------------------------------
(***************************************************************************)
(* Merging.  A fold is a chain: what it has made of the first rows is made *)
(* with the next one into what it makes of those.                          *)
(***************************************************************************)
IsReduction(kept, first, rest, n) ==
    kept = [S \in SUBSET (1..n) |-> IF S = {} THEN first ELSE Choose(kept[S \ {Max(S)}], rest[Max(S)])]

LEMMA ReductionExists ==
    ASSUME NEW first, NEW rest, NEW n \in Nat
    PROVE  \E kept : IsReduction(kept, first, rest, n)
<1>. DEFINE T == {k \in 0..n : \E kept : IsReduction(kept, first, rest, k)}
<1>1. 0 \in T
  <2>. DEFINE kept == [S \in SUBSET (1..0) |-> first]
  <2>1. \A S \in SUBSET (1..0) : S = {}  OBVIOUS
  <2>2. kept = [S \in SUBSET (1..0) |-> IF S = {} THEN first ELSE Choose(kept[S \ {Max(S)}], rest[Max(S)])]
    BY <2>1
  <2>. HIDE DEF kept
  <2>3. IsReduction(kept, first, rest, 0)  BY <2>2 DEF IsReduction
  <2>. QED  BY <2>3
<1>2. ASSUME NEW m \in T, m < n  PROVE m + 1 \in T
  <2>1. PICK kept : IsReduction(kept, first, rest, m)  OBVIOUS
  <2>2. m \in Nat  OBVIOUS
  <2>. DEFINE more == [S \in SUBSET (1..m + 1) |->
                          IF m + 1 \in S THEN Choose(kept[S \ {m + 1}], rest[m + 1]) ELSE kept[S]]
  <2>3. \A S \in SUBSET (1..m) :
            kept[S] = IF S = {} THEN first ELSE Choose(kept[S \ {Max(S)}], rest[Max(S)])
    BY <2>1 DEF IsReduction
  <2>4. \A S \in SUBSET (1..m) : S \in SUBSET (1..m + 1) /\ m + 1 \notin S  BY <2>2
  <2>5. \A S \in SUBSET (1..m) : more[S] = kept[S]  BY <2>4
  <2>6. ASSUME NEW S \in SUBSET (1..m + 1)
        PROVE  more[S] = IF S = {} THEN first ELSE Choose(more[S \ {Max(S)}], rest[Max(S)])
    <3>1. CASE m + 1 \in S
      <4>0. m + 1 \in Nat /\ S # {}  BY <2>2, <3>1
      <4>1. Max(S) \in S /\ \A k \in S : k <= Max(S)  BY <4>0, MaxIsGreatest
      <4>2. Max(S) = m + 1
        <5>1. Max(S) \in 1..m + 1 /\ m + 1 <= Max(S)  BY <3>1, <4>1
        <5>. QED  BY <2>2, <5>1
      <4>3. S \ {m + 1} \in SUBSET (1..m)  BY <2>2
      <4>. QED  BY <2>5, <3>1, <4>2, <4>3
    <3>2. CASE m + 1 \notin S
      <4>1. S \in SUBSET (1..m)  BY <2>2, <3>2
      <4>2. S # {} => Max(S) \in S  BY <2>2, <4>1, MaxIsGreatest
      <4>3. S \ {Max(S)} \in SUBSET (1..m)  BY <4>1
      <4>. QED  BY <2>3, <2>5, <4>1, <4>3
    <3>. QED  BY <3>1, <3>2
  <2>7. more = [S \in SUBSET (1..m + 1) |-> more[S]]  OBVIOUS
  <2>. HIDE DEF more
  <2>8. more = [S \in SUBSET (1..m + 1) |->
                   IF S = {} THEN first ELSE Choose(more[S \ {Max(S)}], rest[Max(S)])]
    BY <2>6, <2>7
  <2>9. IsReduction(more, first, rest, m + 1)  BY <2>8 DEF IsReduction
  <2>. QED  BY <1>2, <2>9
<1>3. T \in SUBSET (0..n)  OBVIOUS
<1>4. n \in T
  <2>. HIDE DEF T
  <2>1. T = 0..n  BY <1>1, <1>2, <1>3, SoOfAll
  <2>. QED  BY <2>1
<1>. QED  BY <1>4

\* Reduce, as the chain of the rows it has kept so far.
Reduces(kept, rows) ==
    /\ kept[1] = rows[1]
    /\ \A i \in 1..Len(rows) : i < Len(rows) => kept[i + 1] = Choose(kept[i], rows[i + 1])

LEMMA ReduceIsAChain ==
    ASSUME NEW S, NEW rows \in Seq(S), rows # <<>>
    PROVE  \E kept : Reduces(kept, rows) /\ Reduce(rows) = kept[Len(rows)]
<1>. DEFINE first == Head(rows)
            rest == Tail(rows)
            n == Len(rest)
            Iter == CHOOSE kept : IsReduction(kept, first, rest, n)
            kept == [i \in 1..Len(rows) |-> Iter[1..(i - 1)]]
<1>1. n \in Nat /\ DOMAIN rest = 1..n /\ Len(rows) = n + 1 /\ first = rows[1]
      /\ \A i \in 1..n : rest[i] = rows[i + 1]
  OBVIOUS
<1>2. Reduce(rows) = Iter[1..n]
  <2>1. Reduce(rows) = (CHOOSE iter : IsReduction(iter, first, rest, n))[DOMAIN rest]
    BY <1>1 DEF Reduce, FoldLeft, MapThenFoldSet, IsReduction
  <2>. QED  BY <1>1, <2>1
<1>3. IsReduction(Iter, first, rest, n)  BY <1>1, ReductionExists
<1>. HIDE DEF first, rest, n, Iter
<1>4. \A T \in SUBSET (1..n) :
          Iter[T] = IF T = {} THEN first ELSE Choose(Iter[T \ {Max(T)}], rest[Max(T)])
  BY <1>3 DEF IsReduction
<1>5. kept[1] = rows[1]
  <2>1. 1..(1 - 1) = {} /\ 1 \in 1..Len(rows)  BY <1>1
  <2>. QED  BY <1>1, <1>4, <2>1
<1>6. ASSUME NEW i \in 1..Len(rows), i < Len(rows)
      PROVE  kept[i + 1] = Choose(kept[i], rows[i + 1])
  <2>1. i \in 1..n /\ i + 1 \in 1..Len(rows) /\ (i + 1) - 1 = i  BY <1>1, <1>6
  <2>2. 1..i \in SUBSET (1..n) /\ i \in 1..i /\ 1..i # {} /\ (1..i) \ {i} = 1..(i - 1)
    <3>1. i \in Nat /\ 1 <= i /\ i <= n  BY <1>1, <2>1
    <3>2. \A k : k \in (1..i) \ {i} <=> k \in 1..(i - 1)  BY <3>1
    <3>3. (1..i) \ {i} = 1..(i - 1)  BY <3>2
    <3>4. \A k \in 1..i : k \in 1..n  BY <1>1, <3>1
    <3>. QED  BY <3>1, <3>3, <3>4
  <2>3. Max(1..i) = i
    <3>1. Max(1..i) \in 1..i /\ \A k \in 1..i : k <= Max(1..i)  BY <1>1, <2>2, MaxIsGreatest
    <3>. QED  BY <2>2, <3>1
  <2>4. Iter[1..i] = Choose(Iter[1..(i - 1)], rest[i])  BY <1>4, <2>2, <2>3
  <2>5. kept[i + 1] = Iter[1..i] /\ kept[i] = Iter[1..(i - 1)]  BY <2>1
  <2>. QED  BY <1>1, <2>1, <2>4, <2>5
<1>7. kept[Len(rows)] = Iter[1..n]  BY <1>1
<1>. QED  BY <1>2, <1>5, <1>6, <1>7 DEF Reduces

\* Rows that differ at most in the store they were told.
Like(r, q) == DOMAIN r = RowFields /\ \A f \in RowFields \ {"store"} : r[f] = q[f]

LEMMA LikeRows ==
    ASSUME NEW r, NEW q, IsRow(q), Like(r, q)
    PROVE  IsRow(r) /\ r.id = q.id /\ r.fact = q.fact /\ r.schema = q.schema /\ r.platform = q.platform
  BY DEF Like, IsRow, RowFields

LEMMA ChosenIsLikeOne ==
    ASSUME NEW r, NEW s, NEW q, IsRow(q), IsRow(s), Like(r, q)
    PROVE  Like(Choose(r, s), q) \/ Like(Choose(r, s), s)
<1>1. DOMAIN r = RowFields /\ DOMAIN s = RowFields  BY DEF Like, IsRow
<1>2. \A t, u : DOMAIN t = RowFields => Like(Completed(t, u), t)
  BY DEF Completed, Like, RowFields
<1>. QED  BY <1>1, <1>2 DEF Choose, Like

\* Merging rows keeps one of them, but for its store.
LEMMA ReducedIsLikeOne ==
    ASSUME NEW S, NEW rows \in Seq(S), rows # <<>>, \A r \in ToSet(rows) : IsRow(r)
    PROVE  \E q \in ToSet(rows) : Like(Reduce(rows), q)
<1>1. PICK kept : Reduces(kept, rows) /\ Reduce(rows) = kept[Len(rows)]  BY ReduceIsAChain
<1>2. /\ Len(rows) \in Nat \ {0} /\ DOMAIN rows = 1..Len(rows)
      /\ \A i \in 1..Len(rows) : rows[i] \in ToSet(rows)
  BY DEF ToSet
<1>. DEFINE n == Len(rows) - 1
            T == {i \in 0..n : \E q \in ToSet(rows) : Like(kept[i + 1], q)}
<1>3. n \in Nat /\ n + 1 = Len(rows)  BY <1>2
<1>4. 0 \in T
  <2>1. kept[0 + 1] = rows[1] /\ rows[1] \in ToSet(rows) /\ 0 \in 0..n  BY <1>1, <1>2, <1>3 DEF Reduces
  <2>2. Like(rows[1], rows[1])  BY <2>1 DEF Like, IsRow
  <2>. QED  BY <2>1, <2>2
<1>5. ASSUME NEW k \in T, k < n  PROVE k + 1 \in T
  <2>1. /\ k + 1 \in 0..n /\ k + 1 \in 1..Len(rows) /\ k + 1 < Len(rows)
        /\ (k + 1) + 1 \in 1..Len(rows)
    BY <1>3, <1>5
  <2>2. PICK q \in ToSet(rows) : Like(kept[k + 1], q)  OBVIOUS
  <2>3. kept[(k + 1) + 1] = Choose(kept[k + 1], rows[(k + 1) + 1])  BY <1>1, <2>1 DEF Reduces
  <2>4. rows[(k + 1) + 1] \in ToSet(rows)  BY <1>2, <2>1
  <2>5. \E u \in ToSet(rows) : Like(kept[(k + 1) + 1], u)
    BY <2>2, <2>3, <2>4, ChosenIsLikeOne
  <2>. QED  BY <2>1, <2>5
<1>6. n \in T
  <2>. HIDE DEF T
  <2>1. T \in SUBSET (0..n)  BY DEF T
  <2>2. T = 0..n  BY <1>3, <1>4, <1>5, <2>1, SoOfAll
  <2>. QED  BY <1>3, <2>2
<1>. QED  BY <1>1, <1>3, <1>6

LEMMA QualifiedIsKeyed ==
    ASSUME NEW rows, Keyed(rows)
    PROVE  Keyed(Qualified(rows)) /\ IdsOf(ToSet(Qualified(rows))) = IdsOf(ToSet(rows))
<1>. DEFINE q == Qualified(rows)
<1>1. q = [i \in DOMAIN rows |-> q[i]]  BY DEF Qualified
<1>2. \A i \in DOMAIN rows : IsRow(rows[i])  BY KeyedRows
<1>3. \A i \in DOMAIN rows : IsRow(q[i]) /\ q[i].id = rows[i].id
  BY <1>2 DEF Qualified, IsRow, RowFields
<1>. HIDE DEF q
<1>4. Keyed(q) /\ IdsOf(ToSet(q)) = IdsOf(ToSet(rows))  BY <1>1, <1>3, ChangedRowsAreKeyed
<1>. QED  BY <1>4 DEF q

\* The rows of a group, and those of it that are merged into one row.
GroupOf(q, k)   == Sublist(q, {i \in DOMAIN q : <<q[i].fact, q[i].schema>> = k})
PlatformsOf(group) == {r.platform : r \in ToSet(group)} \ {0}
FirstOf(group)  == CHOOSE p \in PlatformsOf(group) : \A t \in PlatformsOf(group) : p <= t
PartOf(group, p) == IF p = FirstOf(group) THEN JoinGeneric(group, p) ELSE OnPlatform(group, p)

LEMMA OnPlatformHas ==
    ASSUME NEW S, NEW group \in Seq(S), NEW p
    PROVE  OnPlatform(group, p) \in Seq(S) /\ ToSet(OnPlatform(group, p)) = {r \in ToSet(group) : r.platform = p}
<1>. DEFINE I == {i \in DOMAIN group : group[i].platform = p}
<1>1. /\ OnPlatform(group, p) \in Seq({group[i] : i \in I})
      /\ ToSet(OnPlatform(group, p)) = {group[i] : i \in I}
  BY SublistHasItems DEF OnPlatform
<1>2. \A i \in DOMAIN group : group[i] \in S  BY ElementOfSeq
<1>3. {group[i] : i \in I} \subseteq S  BY <1>2
<1>4. {group[i] : i \in I} = {r \in ToSet(group) : r.platform = p}  BY DEF ToSet
<1>. QED  BY <1>1, <1>3, <1>4, SeqMonotonic

LEMMA PartHas ==
    ASSUME NEW S, NEW group \in Seq(S), NEW p \in PlatformsOf(group)
    PROVE  /\ PartOf(group, p) \in Seq(S) /\ PartOf(group, p) # <<>>
           /\ ToSet(PartOf(group, p)) =
                {r \in ToSet(group) : r.platform = p \/ (p = FirstOf(group) /\ r.platform = 0)}
<1>1. PICK r \in ToSet(group) : r.platform = p  BY DEF PlatformsOf
<1>. DEFINE a == OnPlatform(group, p)
            b == OnPlatform(group, 0)
<1>2. /\ a \in Seq(S) /\ ToSet(a) = {t \in ToSet(group) : t.platform = p}
      /\ b \in Seq(S) /\ ToSet(b) = {t \in ToSet(group) : t.platform = 0}
  BY OnPlatformHas
<1>3. ToSet(a) # {}  BY <1>1, <1>2
<1>. HIDE DEF a, b
<1>4. a # <<>>  BY <1>3 DEF ToSet
<1>5. a \o b \in Seq(S) /\ a \o b # <<>> /\ ToSet(a \o b) = ToSet(a) \cup ToSet(b)
  <2>1. a \o b \in Seq(S) /\ Len(a \o b) = Len(a) + Len(b) /\ Len(a) \in Nat \ {0} /\ Len(b) \in Nat
    BY <1>2, <1>4
  <2>5. a \o b # <<>>  BY <2>1
  <2>. QED  BY <1>2, <2>1, <2>5, JoinedHas
<1>6. CASE p = FirstOf(group)
  BY <1>2, <1>5, <1>6 DEF PartOf, JoinGeneric, a, b
<1>7. CASE p # FirstOf(group)
  BY <1>2, <1>4, <1>7 DEF PartOf, a
<1>. QED  BY <1>6, <1>7

LEMMA KeptRows ==
    ASSUME NEW S, NEW group \in Seq(S), group # <<>>, \A r \in ToSet(group) : IsRow(r),
           \A r, q \in ToSet(group) : r.id = q.id => r = q
    PROVE  /\ \A r \in KeptOf(group) : \E q \in ToSet(group) : Like(r, q)
           /\ \A r, s \in KeptOf(group) : r.id = s.id => r = s
<1>1. KeptOf(group) = IF PlatformsOf(group) = {} THEN {Reduce(group)}
                      ELSE {Reduce(PartOf(group, p)) : p \in PlatformsOf(group)}
  BY DEF KeptOf, PlatformsOf, FirstOf, PartOf
<1>2. CASE PlatformsOf(group) = {}
  BY <1>1, <1>2, ReducedIsLikeOne
<1>3. CASE PlatformsOf(group) # {}
  <2>1. ASSUME NEW p \in PlatformsOf(group)
        PROVE  \E q \in ToSet(PartOf(group, p)) : q \in ToSet(group) /\ Like(Reduce(PartOf(group, p)), q)
    <3>1. /\ PartOf(group, p) \in Seq(S) /\ PartOf(group, p) # <<>>
          /\ ToSet(PartOf(group, p)) \subseteq ToSet(group)
      BY PartHas
    <3>. QED  BY <3>1, ReducedIsLikeOne
  <2>2. ASSUME NEW p \in PlatformsOf(group), NEW t \in PlatformsOf(group),
               Reduce(PartOf(group, p)).id = Reduce(PartOf(group, t)).id
        PROVE  p = t
    <3>1. PICK q \in ToSet(PartOf(group, p)) : q \in ToSet(group) /\ Like(Reduce(PartOf(group, p)), q)
      BY <2>1
    <3>2. PICK u \in ToSet(PartOf(group, t)) : u \in ToSet(group) /\ Like(Reduce(PartOf(group, t)), u)
      BY <2>1
    <3>3. q.id = u.id  BY <2>2, <3>1, <3>2, LikeRows
    <3>4. q = u  BY <3>1, <3>2, <3>3
    <3>5. q.platform = p \/ (p = FirstOf(group) /\ q.platform = 0)  BY <3>1, PartHas
    <3>6. u.platform = t \/ (t = FirstOf(group) /\ u.platform = 0)  BY <3>2, PartHas
    <3>7. p # 0 /\ t # 0  BY DEF PlatformsOf
    <3>. QED  BY <3>4, <3>5, <3>6, <3>7
  <2>3. ASSUME NEW r \in KeptOf(group)
        PROVE  \E p \in PlatformsOf(group) : r = Reduce(PartOf(group, p))
    BY <1>1, <1>3
  <2>4. \A r \in KeptOf(group) : \E q \in ToSet(group) : Like(r, q)  BY <2>1, <2>3
  <2>5. ASSUME NEW r \in KeptOf(group), NEW s \in KeptOf(group), r.id = s.id
        PROVE  r = s
    <3>1. PICK p \in PlatformsOf(group) : r = Reduce(PartOf(group, p))  BY <2>3
    <3>2. PICK t \in PlatformsOf(group) : s = Reduce(PartOf(group, t))  BY <2>3
    <3>. QED  BY <2>2, <2>5, <3>1, <3>2
  <2>. QED  BY <2>4, <2>5
<1>. QED  BY <1>2, <1>3

KeysOf(q)     == {<<r.fact, r.schema>> : r \in ToSet(q)}
AllKeptOf(q)  == UNION {KeptOf(GroupOf(q, k)) : k \in KeysOf(q)}

LEMMA GroupHas ==
    ASSUME NEW q, Keyed(q), NEW k \in KeysOf(q)
    PROVE  /\ GroupOf(q, k) \in Seq(ToSet(q)) /\ GroupOf(q, k) # <<>>
           /\ ToSet(GroupOf(q, k)) = {r \in ToSet(q) : <<r.fact, r.schema>> = k}
<1>. DEFINE I == {i \in DOMAIN q : <<q[i].fact, q[i].schema>> = k}
            group == GroupOf(q, k)
<1>1. q \in Seq(ToSet(q))  BY DEF Keyed
<1>2. group \in Seq({q[i] : i \in I}) /\ ToSet(group) = {q[i] : i \in I}
  BY <1>1, SublistHasItems DEF GroupOf
<1>3. {q[i] : i \in I} = {r \in ToSet(q) : <<r.fact, r.schema>> = k}  BY DEF ToSet
<1>4. {q[i] : i \in I} \subseteq ToSet(q)  BY <1>3
<1>5. group \in Seq(ToSet(q))  BY <1>2, <1>4, SeqMonotonic
<1>6. ToSet(group) # {}  BY <1>2, <1>3 DEF KeysOf
<1>. HIDE DEF group
<1>7. group # <<>>  BY <1>6 DEF ToSet
<1>. QED  BY <1>2, <1>3, <1>5, <1>7 DEF group

LEMMA AllKeptRows ==
    ASSUME NEW q, Keyed(q)
    PROVE  /\ IsFiniteSet(AllKeptOf(q))
           /\ \A r \in AllKeptOf(q) : \E u \in ToSet(q) : Like(r, u)
           /\ \A r, s \in AllKeptOf(q) : r.id = s.id => r = s
<1>1. ASSUME NEW k \in KeysOf(q)
      PROVE  /\ \A r \in KeptOf(GroupOf(q, k)) : \E u \in ToSet(q) : Like(r, u) /\ <<u.fact, u.schema>> = k
             /\ \A r, s \in KeptOf(GroupOf(q, k)) : r.id = s.id => r = s
  <2>. DEFINE group == GroupOf(q, k)
  <2>1. /\ group \in Seq(ToSet(q)) /\ group # <<>>
        /\ ToSet(group) = {r \in ToSet(q) : <<r.fact, r.schema>> = k}
    BY GroupHas
  <2>2. \A r \in ToSet(group) : IsRow(r)  BY <2>1 DEF Keyed
  <2>3. \A r, u \in ToSet(group) : r.id = u.id => r = u  BY <2>1, KeyedRows
  <2>4. /\ \A r \in KeptOf(group) : \E u \in ToSet(group) : Like(r, u)
        /\ \A r, s \in KeptOf(group) : r.id = s.id => r = s
    <3>. HIDE DEF group
    <3>. QED  BY <2>1, <2>2, <2>3, KeptRows
  <2>. QED  BY <2>1, <2>4
<1>2. \A r \in AllKeptOf(q) : \E k \in KeysOf(q) : r \in KeptOf(GroupOf(q, k))  BY DEF AllKeptOf
<1>3. \A r \in AllKeptOf(q) : \E u \in ToSet(q) : Like(r, u)  BY <1>1, <1>2
<1>4. ASSUME NEW r \in AllKeptOf(q), NEW s \in AllKeptOf(q), r.id = s.id
      PROVE  r = s
  <2>1. PICK k \in KeysOf(q) : r \in KeptOf(GroupOf(q, k))  BY <1>2
  <2>2. PICK l \in KeysOf(q) : s \in KeptOf(GroupOf(q, l))  BY <1>2
  <2>3. PICK u \in ToSet(q) : Like(r, u) /\ <<u.fact, u.schema>> = k  BY <1>1, <2>1
  <2>4. PICK v \in ToSet(q) : Like(s, v) /\ <<v.fact, v.schema>> = l  BY <1>1, <2>2
  <2>5. IsRow(u) /\ IsRow(v)  BY DEF Keyed
  <2>6. u.id = v.id  BY <1>4, <2>3, <2>4, <2>5, LikeRows
  <2>7. u = v  BY <2>6, KeyedRows
  <2>8. k = l  BY <2>3, <2>4, <2>7
  <2>. QED  BY <1>1, <1>4, <2>1, <2>2, <2>8
<1>5. IsFiniteSet(AllKeptOf(q))
  <2>. DEFINE f == [r \in AllKeptOf(q) |-> r.id]
              ids == IdsOf(ToSet(q))
  <2>1. IsFiniteSet(ids)
    <3>. DEFINE g == [r \in ToSet(q) |-> r.id]
    <3>1. g \in Surjection(ToSet(q), ids)  BY DEF Surjection, IdsOf
    <3>2. IsFiniteSet(ToSet(q))  BY KeyedRows
    <3>. QED  BY <3>1, <3>2, FS_Surjection
  <2>2. \A r \in AllKeptOf(q) : r.id \in ids  BY <1>3, LikeRows DEF Keyed, IdsOf
  <2>3. f \in Injection(AllKeptOf(q), ids)  BY <1>4, <2>2 DEF Injection, IsInjective
  <2>. QED  BY <2>1, <2>3, FS_Injection
<1>. QED  BY <1>3, <1>4, <1>5

\* Merging keeps rows apart, each with the id of one of those it was given.
LEMMA DedupeIsKeyed ==
    ASSUME NEW rows, Keyed(rows)
    PROVE  /\ Keyed(Dedupe(rows))
           /\ ToSet(Dedupe(rows)) = AllKeptOf(Qualified(rows))
           /\ IdsOf(ToSet(Dedupe(rows))) \subseteq IdsOf(ToSet(rows))
<1>. DEFINE q == Qualified(rows)
<1>1. Keyed(q) /\ IdsOf(ToSet(q)) = IdsOf(ToSet(rows))  BY QualifiedIsKeyed
<1>2. Dedupe(rows) = ById(AllKeptOf(q))  BY DEF Dedupe, AllKeptOf, KeysOf, GroupOf
<1>. HIDE DEF q
<1>3. /\ IsFiniteSet(AllKeptOf(q))
      /\ \A r \in AllKeptOf(q) : \E u \in ToSet(q) : Like(r, u)
      /\ \A r, s \in AllKeptOf(q) : r.id = s.id => r = s
  BY <1>1, AllKeptRows
<1>4. \A u \in ToSet(q) : IsRow(u)  BY <1>1 DEF Keyed
<1>5. \A r \in AllKeptOf(q) : IsRow(r)  BY <1>3, <1>4, LikeRows
<1>6. Keyed(Dedupe(rows)) /\ ToSet(Dedupe(rows)) = AllKeptOf(q)
  BY <1>2, <1>3, <1>5, ByIdIsKeyed
<1>7. IdsOf(AllKeptOf(q)) \subseteq IdsOf(ToSet(q))  BY <1>3, <1>4, LikeRows DEF IdsOf
<1>. QED  BY <1>1, <1>6, <1>7 DEF q

-----------------------------------------------------------------------------
(***************************************************************************)
(* The walk.  What it has met by proper paths is reachable; and it keeps,  *)
(* unless it says that it was cut, a set of symbols whose proper calls are *)
(* followed, which together with what waits in the queue is as good as     *)
(* closed.                                                                 *)
(***************************************************************************)
IsGraph(g) == g.calls \in [Symbols -> Seq(Seq(Symbols))] /\ g.local \subseteq Symbols

Inner(g, T, e) == {e} \cup (g.local \ T)

Reached(g, T, e) == {s \in Symbols : \A S \in SUBSET Symbols : Closed(g, T, e, S) => s \in S}

LEMMA ReachedIsClosed ==
    ASSUME NEW g, IsGraph(g), NEW T \in SUBSET Symbols, NEW e \in Symbols
    PROVE  /\ \A s \in Symbols : Callees(g, s) \subseteq Symbols
           /\ e \in Reached(g, T, e)
           /\ \A s \in Reached(g, T, e) \cap Inner(g, T, e) : Callees(g, s) \subseteq Reached(g, T, e)
           /\ Reachable(g, T, e) = (Reached(g, T, e) \cap T) \ {e}
<1>1. ASSUME NEW s \in Symbols  PROVE Callees(g, s) \subseteq Symbols
  <2>1. g.calls[s] \in Seq(Seq(Symbols))  BY DEF IsGraph
  <2>2. ASSUME NEW i \in DOMAIN g.calls[s], NEW j \in DOMAIN g.calls[s][i]
        PROVE  g.calls[s][i][j] \in Symbols
    <3>1. g.calls[s][i] \in Seq(Symbols)  BY <2>1, ElementOfSeq
    <3>. QED  BY <3>1, ElementOfSeq
  <2>3. Callees(g, s) \subseteq UNION {ToSet(g.calls[s][i]) : i \in DOMAIN g.calls[s]}  BY DEF Callees
  <2>. QED  BY <2>2, <2>3 DEF ToSet
<1>2. e \in Reached(g, T, e)  BY DEF Reached, Closed
<1>3. \A s \in Reached(g, T, e) \cap Inner(g, T, e) : Callees(g, s) \subseteq Reached(g, T, e)
  BY <1>1 DEF Reached, Closed, Inner
<1>4. DOMAIN g.calls = Symbols  BY DEF IsGraph
<1>5. Reachable(g, T, e) = (Reached(g, T, e) \cap T) \ {e}
  BY <1>4 DEF Reachable, Reached
<1>. QED  BY <1>1, <1>2, <1>3, <1>5

NodeTypes == [symbol : Symbols, visited : SUBSET Symbols, depth : Nat, proper : BOOLEAN]
WalkTypes == [queue : Seq(NodeTypes), node : NodeTypes, sites : Seq(Seq(Symbols)), paths : Seq(Symbols),
              proper : SUBSET Nat, edges : Nat, truncated : BOOLEAN, done : BOOLEAN]

\* A node a walk from e may be at.
NodeFits(g, T, e, n) ==
    /\ e \in n.visited
    /\ n.proper => /\ n.symbol \in Reached(g, T, e) \cap Inner(g, T, e)
                   /\ n.visited \subseteq Inner(g, T, e)

\* Those of the callees S at the node that a proper path goes on to.
Due(g, w, S) == {s \in S : Proper(g, w, s)}

WalkFits(g, T, e, w) ==
    /\ w \in WalkTypes
    /\ NodeFits(g, T, e, w.node)
    /\ \A i \in DOMAIN w.queue : NodeFits(g, T, e, w.queue[i])
    /\ \A i \in DOMAIN w.sites : Due(g, w, ToSet(w.sites[i])) \subseteq Callees(g, w.node.symbol)
    /\ ToSet(w.paths) \subseteq T \ {e}
    /\ w.proper \subseteq DOMAIN w.paths /\ ProperTargets(w) \subseteq Reachable(g, T, e)
    /\ \A t \in Symbols : Hits(w, t) <= MaxPathsPerTarget

Pending(w)   == {w.queue[i].symbol : i \in {k \in DOMAIN w.queue : w.queue[k].proper}}
Left(g, w)   == UNION {Due(g, w, ToSet(w.sites[i])) : i \in DOMAIN w.sites}
Leaves(g, T) == Symbols \ (g.local \cup T)

\* The targets that are met, and those that get no more paths.
Served(w) == ProperTargets(w) \cup {t \in Symbols : Hits(w, t) >= MaxPathsPerTarget}

\* The symbols of E were taken from the queue: what they call is among them,
\* is met or is waiting; L is left of the call site that is followed.
Covers(g, T, e, w, E, L) ==
    /\ E \subseteq Inner(g, T, e) /\ e \in E \cup Pending(w)
    /\ \A i \in DOMAIN w.queue :
          w.queue[i].proper => w.queue[i].visited \subseteq E \cup {w.queue[i].symbol}
    /\ \A u \in E : Callees(g, u) \subseteq
          E \cup Served(w) \cup Leaves(g, T) \cup Pending(w) \cup Left(g, w) \cup L

\* The limit of all paths is one that the limit for each target keeps.
TotalIsAmple == Cardinality(Symbols) * MaxPathsPerTarget <= MaxPathsTotal

WalkCovers(g, T, e, w) ==
    TotalIsAmple /\ ~w.truncated =>
        \E E \in SUBSET Symbols :
            Covers(g, T, e, w, E, {}) /\ (w.sites # <<>> /\ w.node.proper => w.node.visited \subseteq E)

WalkIs(g, T, e, w) == WalkFits(g, T, e, w) /\ WalkCovers(g, T, e, w)

LEMMA WalkStarts ==
    ASSUME NEW g, IsGraph(g), NEW T \in SUBSET Symbols, NEW e \in Symbols
    PROVE  WalkIs(g, T, e, StartWalk(e)) /\ StartWalk(e).done = FALSE
<1>. DEFINE w == StartWalk(e)
            n == [symbol |-> e, visited |-> {e}, depth |-> 0, proper |-> TRUE]
<1>1. w = [queue |-> <<n>>, node |-> n, sites |-> <<>>, paths |-> <<>>, proper |-> {}, edges |-> 0,
           truncated |-> FALSE, done |-> FALSE]
  BY DEF StartWalk, Node
<1>2. n \in NodeTypes  BY DEF NodeTypes
<1>3. w \in WalkTypes  BY <1>1, <1>2 DEF WalkTypes
<1>4. NodeFits(g, T, e, n)  BY ReachedIsClosed DEF NodeFits, Inner
<1>. HIDE DEF n
<1>5. w.queue = <<n>> /\ w.node = n /\ w.sites = <<>> /\ w.paths = <<>> /\ w.proper = {}  BY <1>1
<1>6. Pending(w) = {e}
  <2>1. n.proper /\ n.symbol = e  BY DEF n
  <2>. QED  BY <1>5, <2>1 DEF Pending
<1>7. \A t \in Symbols : Hits(w, t) <= MaxPathsPerTarget
  <2>1. \A t : {i \in DOMAIN w.paths : w.paths[i] = t} = {}  BY <1>5
  <2>2. Cardinality({}) = 0  BY FS_EmptySet
  <2>3. MaxPathsPerTarget \in Nat  BY WalkAssumption
  <2>. QED  BY <2>1, <2>2, <2>3 DEF Hits
<1>8. ToSet(w.paths) = {} /\ ProperTargets(w) = {}  BY <1>5 DEF ToSet, ProperTargets
<1>9. WalkFits(g, T, e, w)  BY <1>3, <1>4, <1>5, <1>7, <1>8 DEF WalkFits
<1>10. Covers(g, T, e, w, {}, {})
  <2>1. n.visited = {e} /\ n.symbol = e  BY DEF n
  <2>. QED  BY <1>5, <1>6, <2>1 DEF Covers
<1>11. WalkCovers(g, T, e, w)  BY <1>5, <1>10 DEF WalkCovers
<1>. QED  BY <1>1, <1>9, <1>11 DEF WalkIs

\* Each target has no more paths than its limit, so that the targets together
\* have no more than the product.
LEMMA PathsAreFew ==
    ASSUME NEW paths \in Seq(Symbols),
           \A t \in Symbols : Cardinality({i \in DOMAIN paths : paths[i] = t}) <= MaxPathsPerTarget
    PROVE  Len(paths) <= Cardinality(Symbols) * MaxPathsPerTarget
<1>. DEFINE At(t) == {i \in DOMAIN paths : paths[i] = t}
            N == Len(paths)
            M == MaxPathsPerTarget
            place == [i \in 1..N |-> <<paths[i], Cardinality(Below(At(paths[i]), i)) + 1>>]
<1>1. N \in Nat /\ DOMAIN paths = 1..N /\ \A i \in 1..N : paths[i] \in Symbols  OBVIOUS
<1>2. M \in Nat /\ IsFiniteSet(Symbols) /\ Cardinality(Symbols) \in Nat
  BY WalkAssumption, RunAssumption, FS_CardinalityType
<1>3. ASSUME NEW t
      PROVE  At(t) \in SUBSET Nat /\ IsFiniteSet(At(t)) /\ Cardinality(At(t)) \in Nat
  <2>1. At(t) \subseteq 1..N  BY <1>1
  <2>2. IsFiniteSet(1..N)  BY <1>1, FS_Interval
  <2>3. IsFiniteSet(At(t))  BY <2>1, <2>2, FS_Subset
  <2>. QED  BY <1>1, <2>1, <2>3, FS_CardinalityType
<1>4. \A t \in Symbols : Cardinality(At(t)) <= M  OBVIOUS
<1>. HIDE DEF N, M
<1>5. ASSUME NEW i \in 1..N
      PROVE  Cardinality(Below(At(paths[i]), i)) + 1 \in 1..M
             /\ Cardinality(Below(At(paths[i]), i)) \in Nat
  <2>1. i \in At(paths[i]) /\ paths[i] \in Symbols  BY <1>1
  <2>. DEFINE I == At(paths[i])
  <2>3. Cardinality(I) \in Nat /\ Cardinality(I) <= M  BY <1>3, <1>4, <2>1
  <2>5. I \in SUBSET Nat /\ IsFiniteSet(I) /\ i \in I  BY <1>3, <2>1
  <2>. HIDE DEF I
  <2>2. Cardinality(Below(I, i)) \in 0..(Cardinality(I) - 1)  BY <2>5, RanksAreInjective
  <2>4. Cardinality(Below(I, i)) + 1 \in 1..M /\ Cardinality(Below(I, i)) \in Nat  BY <1>2, <2>2, <2>3
  <2>. QED  BY <2>4 DEF I
<1>6. ASSUME NEW i \in 1..N, NEW k \in 1..N, place[i] = place[k]
      PROVE  i = k
  <2>1. paths[i] = paths[k] /\ Cardinality(Below(At(paths[i]), i)) + 1 = Cardinality(Below(At(paths[k]), k)) + 1
    BY <1>6
  <2>. DEFINE I == At(paths[i])
  <2>2. i \in I /\ k \in I /\ I \in SUBSET Nat /\ IsFiniteSet(I)  BY <1>1, <1>3, <2>1
  <2>3. Cardinality(Below(I, i)) = Cardinality(Below(I, k))  BY <1>5, <2>1
  <2>. HIDE DEF I
  <2>4. \A j, l \in I : Cardinality(Below(I, j)) = Cardinality(Below(I, l)) => j = l
    BY <2>2, RanksAreInjective
  <2>. QED  BY <2>2, <2>3, <2>4
<1>7. place \in Injection(1..N, Symbols \X (1..M))
  <2>1. place \in [1..N -> Symbols \X (1..M)]  BY <1>1, <1>5
  <2>. QED  BY <1>6, <2>1 DEF Injection, IsInjective
<1>8. IsFiniteSet(1..M) /\ Cardinality(1..M) = M
  <2>1. 1 \in Int /\ M \in Int /\ (IF 1 > M THEN 0 ELSE M - 1 + 1) = M  BY <1>2
  <2>. QED  BY <2>1, FS_Interval
<1>9. IsFiniteSet(Symbols \X (1..M)) /\ Cardinality(Symbols \X (1..M)) = Cardinality(Symbols) * M
  BY <1>2, <1>8, FS_Product
<1>10. Cardinality(1..N) = N  BY <1>1, FS_Interval
<1>. HIDE DEF place
<1>11. Cardinality(1..N) <= Cardinality(Symbols \X (1..M))  BY <1>7, <1>9, FS_Injection
<1>. QED  BY <1>9, <1>10, <1>11 DEF N, M

LEMMA HitsAreCounted ==
    ASSUME NEW paths \in Seq(Symbols), NEW t
    PROVE  /\ IsFiniteSet({i \in DOMAIN paths : paths[i] = t})
           /\ Cardinality({i \in DOMAIN paths : paths[i] = t}) \in Nat
<1>1. {i \in DOMAIN paths : paths[i] = t} \subseteq 1..Len(paths) /\ Len(paths) \in Nat  OBVIOUS
<1>2. IsFiniteSet(1..Len(paths))  BY <1>1, FS_Interval
<1>. QED  BY <1>1, <1>2, FS_Subset, FS_CardinalityType

\* What following one callee may do.
VisitOutcome(g, T, w, s, v) ==
    /\ v \in WalkTypes
    /\ v.node = w.node /\ v.sites = w.sites /\ v.done = w.done /\ v.edges = w.edges
    /\ \/ /\ v.queue = w.queue /\ v.paths = w.paths /\ v.proper = w.proper /\ v.truncated = w.truncated
          /\ \/ s \in w.node.visited
             \/ s \in T /\ (Hits(w, s) >= MaxPathsPerTarget \/ Len(w.paths) >= MaxPathsTotal)
             \/ s \notin T /\ s \notin g.local
       \/ /\ s \notin w.node.visited /\ s \in T
          /\ Hits(w, s) < MaxPathsPerTarget /\ Len(w.paths) < MaxPathsTotal
          /\ v.queue = w.queue /\ v.paths = Append(w.paths, s) /\ v.truncated = w.truncated
          /\ v.proper = w.proper \cup (IF Proper(g, w, s) THEN {Len(w.paths) + 1} ELSE {})
       \/ v.queue = w.queue /\ v.paths = w.paths /\ v.proper = w.proper /\ v.truncated
       \/ /\ s \notin w.node.visited /\ s \notin T /\ s \in g.local
          /\ v.queue = Append(w.queue, Node(s, w.node.visited, w.node.depth + 1, Proper(g, w, s)))
          /\ v.paths = w.paths /\ v.proper = w.proper /\ v.truncated = w.truncated

LEMMA NewNode ==
    ASSUME NEW g, NEW w \in WalkTypes, NEW s \in Symbols
    PROVE  /\ Proper(g, w, s) \in BOOLEAN
           /\ Node(s, w.node.visited, w.node.depth + 1, Proper(g, w, s)) \in NodeTypes
<1>1. w.node \in NodeTypes  BY DEF WalkTypes
<1>2. Proper(g, w, s) \in BOOLEAN  BY <1>1 DEF Proper, NodeTypes
<1>. QED  BY <1>1, <1>2 DEF Node, NodeTypes

LEMMA VisitDoes ==
    ASSUME NEW g, NEW T, NEW w \in WalkTypes, NEW s \in Symbols
    PROVE  VisitOutcome(g, T, w, s, Visit(g, T, w, s))
<1>. DEFINE v == Visit(g, T, w, s)
            n == Node(s, w.node.visited, w.node.depth + 1, Proper(g, w, s))
<1>1. /\ w.queue \in Seq(NodeTypes) /\ w.node \in NodeTypes /\ w.sites \in Seq(Seq(Symbols))
      /\ w.paths \in Seq(Symbols) /\ w.proper \in SUBSET Nat
      /\ w.edges \in Nat /\ w.truncated \in BOOLEAN /\ w.done \in BOOLEAN
      /\ DOMAIN w = {"queue", "node", "sites", "paths", "proper", "edges", "truncated", "done"}
  BY DEF WalkTypes
<1>2. n \in NodeTypes  BY NewNode
<1>. HIDE DEF n, VisitOutcome
<1>3. Hits(w, s) \in Nat /\ Len(w.paths) \in Nat /\ MaxPathsPerTarget \in Nat /\ MaxPathsTotal \in Nat
  <2>1. Cardinality({i \in DOMAIN w.paths : w.paths[i] = s}) \in Nat  BY <1>1, HitsAreCounted
  <2>2. Hits(w, s) \in Nat  BY <2>1 DEF Hits
  <2>. QED  BY <1>1, <2>2, WalkAssumption
<1>4. CASE s \in w.node.visited
  <2>1. v = w  BY <1>4 DEF Visit
  <2>. QED  BY <1>2, <1>4, <2>1 DEF n, VisitOutcome
<1>5. CASE s \notin w.node.visited /\ s \in T
  <2>1. v = AtTarget(g, w, s)  BY <1>5 DEF Visit
  <2>2. CASE Hits(w, s) < MaxPathsPerTarget /\ Len(w.paths) < MaxPathsTotal
    <3>. DEFINE proper == w.proper \cup (IF Proper(g, w, s) THEN {Len(w.paths) + 1} ELSE {})
    <3>1. v = [w EXCEPT !.paths = Append(w.paths, s), !.proper = proper]  BY <2>1, <2>2 DEF AtTarget
    <3>2. Append(w.paths, s) \in Seq(Symbols) /\ proper \in SUBSET Nat  BY <1>1
    <3>. HIDE DEF proper
    <3>3. v \in WalkTypes  BY <1>1, <3>1, <3>2 DEF WalkTypes
    <3>4. /\ v.node = w.node /\ v.sites = w.sites /\ v.done = w.done /\ v.edges = w.edges
          /\ v.queue = w.queue /\ v.paths = Append(w.paths, s) /\ v.truncated = w.truncated
          /\ v.proper = proper
      BY <1>1, <3>1
    <3>. QED  BY <1>2, <1>5, <2>2, <3>3, <3>4 DEF n, proper, VisitOutcome
  <2>3. CASE ~ (Hits(w, s) < MaxPathsPerTarget /\ Len(w.paths) < MaxPathsTotal)
    <3>1. v = w  BY <2>1, <2>3 DEF AtTarget
    <3>2. Hits(w, s) >= MaxPathsPerTarget \/ Len(w.paths) >= MaxPathsTotal  BY <1>3, <2>3
    <3>. QED  BY <1>2, <1>5, <3>1, <3>2 DEF n, VisitOutcome
  <2>. QED  BY <2>2, <2>3
<1>6. CASE s \notin w.node.visited /\ s \notin T /\ s \in g.local
  <2>1. v = Enqueue(g, w, s)  BY <1>6 DEF Visit
  <2>2. CASE Len(w.queue) >= MaxQueuedNodes
    <3>1. v = [w EXCEPT !.truncated = TRUE]  BY <2>1, <2>2 DEF Enqueue
    <3>2. v \in WalkTypes  BY <1>1, <3>1 DEF WalkTypes
    <3>3. /\ v.node = w.node /\ v.sites = w.sites /\ v.done = w.done /\ v.edges = w.edges
          /\ v.queue = w.queue /\ v.paths = w.paths /\ v.proper = w.proper /\ v.truncated
      BY <1>1, <3>1
    <3>. QED  BY <1>2, <3>2, <3>3 DEF n, VisitOutcome
  <2>3. CASE ~ Len(w.queue) >= MaxQueuedNodes
    <3>1. v = [w EXCEPT !.queue = Append(w.queue, n)]  BY <2>1, <2>3 DEF Enqueue, n
    <3>2. Append(w.queue, n) \in Seq(NodeTypes)  BY <1>1, <1>2
    <3>3. v \in WalkTypes  BY <1>1, <3>1, <3>2 DEF WalkTypes
    <3>4. /\ v.node = w.node /\ v.sites = w.sites /\ v.done = w.done /\ v.edges = w.edges
          /\ v.queue = Append(w.queue, n) /\ v.paths = w.paths /\ v.proper = w.proper
          /\ v.truncated = w.truncated
      BY <1>1, <3>1
    <3>. QED  BY <1>2, <1>6, <3>3, <3>4 DEF n, VisitOutcome
  <2>. QED  BY <2>2, <2>3
<1>7. CASE s \notin w.node.visited /\ s \notin T /\ s \notin g.local
  <2>1. v = w  BY <1>7 DEF Visit
  <2>. QED  BY <1>2, <1>7, <2>1 DEF n, VisitOutcome
<1>. QED  BY <1>4, <1>5, <1>6, <1>7

LEMMA AppendedHas ==
    ASSUME NEW S, NEW list \in Seq(S), NEW x \in S
    PROVE  /\ ToSet(Append(list, x)) = ToSet(list) \cup {x}
           /\ DOMAIN Append(list, x) = DOMAIN list \cup {Len(list) + 1}
           /\ \A i \in DOMAIN list : Append(list, x)[i] = list[i]
           /\ Append(list, x)[Len(list) + 1] = x
           /\ Len(list) + 1 \notin DOMAIN list
<1>1. Len(list) \in Nat /\ DOMAIN list = 1..Len(list)  OBVIOUS
<1>2. DOMAIN Append(list, x) = 1..(Len(list) + 1)  OBVIOUS
<1>3. \A i \in DOMAIN list : Append(list, x)[i] = list[i]  OBVIOUS
<1>4. Append(list, x)[Len(list) + 1] = x  OBVIOUS
<1>5. DOMAIN Append(list, x) = DOMAIN list \cup {Len(list) + 1} /\ Len(list) + 1 \notin DOMAIN list
  BY <1>1, <1>2
<1>. HIDE DEF Append
<1>6. ToSet(Append(list, x)) = ToSet(list) \cup {x}  BY <1>3, <1>4, <1>5 DEF ToSet
<1>. QED  BY <1>3, <1>4, <1>5, <1>6

LEMMA OneHitMore ==
    ASSUME NEW paths \in Seq(Symbols), NEW s \in Symbols,
           \A t \in Symbols : Cardinality({i \in DOMAIN paths : paths[i] = t}) <= MaxPathsPerTarget,
           Cardinality({i \in DOMAIN paths : paths[i] = s}) < MaxPathsPerTarget
    PROVE  \A t \in Symbols :
             /\ Cardinality({i \in DOMAIN Append(paths, s) : Append(paths, s)[i] = t}) <= MaxPathsPerTarget
             /\ Cardinality({i \in DOMAIN paths : paths[i] = t}) >= MaxPathsPerTarget =>
                   Cardinality({i \in DOMAIN Append(paths, s) : Append(paths, s)[i] = t}) >= MaxPathsPerTarget
<1>. SUFFICES ASSUME NEW t \in Symbols
              PROVE  /\ Cardinality({i \in DOMAIN Append(paths, s) : Append(paths, s)[i] = t}) <= MaxPathsPerTarget
                     /\ Cardinality({i \in DOMAIN paths : paths[i] = t}) >= MaxPathsPerTarget =>
                          Cardinality({i \in DOMAIN Append(paths, s) : Append(paths, s)[i] = t}) >= MaxPathsPerTarget
  OBVIOUS
<1>. DEFINE I == {i \in DOMAIN paths : paths[i] = t}
            J == {i \in DOMAIN Append(paths, s) : Append(paths, s)[i] = t}
<1>1. J = IF t = s THEN I \cup {Len(paths) + 1} ELSE I  BY AppendedHas
<1>2. Len(paths) + 1 \notin I  BY AppendedHas
<1>3. IsFiniteSet(I) /\ Cardinality(I) \in Nat  BY HitsAreCounted
<1>4. Cardinality(I) <= MaxPathsPerTarget /\ MaxPathsPerTarget \in Nat  BY WalkAssumption
<1>5. t = s => Cardinality(I) < MaxPathsPerTarget  OBVIOUS
<1>. HIDE DEF I, J
<1>6. CASE t = s
  <2>1. Cardinality(J) = Cardinality(I) + 1  BY <1>1, <1>2, <1>3, <1>6, FS_AddElement
  <2>2. Cardinality(J) <= MaxPathsPerTarget /\ ~ Cardinality(I) >= MaxPathsPerTarget
    BY <1>3, <1>4, <1>5, <1>6, <2>1
  <2>. QED  BY <2>2 DEF I, J
<1>7. CASE t # s
  <2>1. J = I /\ Cardinality(J) <= MaxPathsPerTarget  BY <1>1, <1>4, <1>7
  <2>. QED  BY <2>1 DEF I, J
<1>. QED  BY <1>6, <1>7

LEMMA VisitKeepsFit ==
    ASSUME NEW g, IsGraph(g), NEW T \in SUBSET Symbols, NEW e \in Symbols,
           NEW w, WalkFits(g, T, e, w), NEW s \in Symbols,
           Proper(g, w, s) => s \in Callees(g, w.node.symbol)
    PROVE  LET v == Visit(g, T, w, s)
           IN  /\ WalkFits(g, T, e, v)
               /\ Served(w) \subseteq Served(v) /\ Pending(w) \subseteq Pending(v)
               /\ w.truncated => v.truncated
<1>. DEFINE v == Visit(g, T, w, s)
            n == Node(s, w.node.visited, w.node.depth + 1, Proper(g, w, s))
            more == IF Proper(g, w, s) THEN {Len(w.paths) + 1} ELSE {}
<1>1. w \in WalkTypes /\ NodeFits(g, T, e, w.node)  BY DEF WalkFits
<1>2. w.node.symbol \in Symbols /\ w.queue \in Seq(NodeTypes) /\ w.paths \in Seq(Symbols)
  BY <1>1 DEF WalkTypes, NodeTypes
<1>3. Proper(g, w, s) => s \in Reached(g, T, e) /\ w.node.proper
  <2>1. Proper(g, w, s) => w.node.proper  BY DEF Proper
  <2>2. w.node.proper => w.node.symbol \in Reached(g, T, e) \cap Inner(g, T, e)  BY <1>1 DEF NodeFits
  <2>. QED  BY <2>1, <2>2, ReachedIsClosed
<1>4. /\ v \in WalkTypes /\ n \in NodeTypes
      /\ v.node = w.node /\ v.sites = w.sites /\ v.done = w.done /\ v.edges = w.edges
      /\ \/ /\ v.queue = w.queue /\ v.paths = w.paths /\ v.proper = w.proper /\ (w.truncated => v.truncated)
         \/ /\ s \notin w.node.visited /\ s \in T
            /\ Hits(w, s) < MaxPathsPerTarget
            /\ v.queue = w.queue /\ v.paths = Append(w.paths, s) /\ v.truncated = w.truncated
            /\ v.proper = w.proper \cup more
         \/ /\ s \notin w.node.visited /\ s \notin T /\ s \in g.local
            /\ v.queue = Append(w.queue, n) /\ v.paths = w.paths /\ v.proper = w.proper
            /\ v.truncated = w.truncated
  <2>1. VisitOutcome(g, T, w, s, v) /\ n \in NodeTypes  BY <1>1, VisitDoes, NewNode
  <2>. QED  BY <2>1 DEF VisitOutcome
<1>5. n.symbol = s /\ n.visited = w.node.visited \cup {s} /\ n.proper = Proper(g, w, s)  BY DEF Node
<1>. HIDE DEF v, n
<1>6. \A S : Due(g, v, S) = Due(g, w, S)  BY <1>4 DEF Due, Proper
<1>7. CASE v.queue = w.queue /\ v.paths = w.paths /\ v.proper = w.proper /\ (w.truncated => v.truncated)
  BY <1>4, <1>6, <1>7 DEF WalkFits, Pending, Hits, Served, ProperTargets, v
<1>8. CASE /\ s \notin w.node.visited /\ s \in T
           /\ Hits(w, s) < MaxPathsPerTarget
           /\ v.queue = w.queue /\ v.paths = Append(w.paths, s) /\ v.truncated = w.truncated
           /\ v.proper = w.proper \cup more
  <2>1. /\ ToSet(v.paths) = ToSet(w.paths) \cup {s}
        /\ DOMAIN v.paths = DOMAIN w.paths \cup {Len(w.paths) + 1}
        /\ \A i \in DOMAIN w.paths : v.paths[i] = w.paths[i]
        /\ v.paths[Len(w.paths) + 1] = s
    BY <1>2, <1>8, AppendedHas
  <2>2. s # e
    <3>1. e \in w.node.visited  BY <1>1 DEF NodeFits
    <3>. QED  BY <1>8, <3>1
  <2>3. Proper(g, w, s) => s \in Reachable(g, T, e)
    <3>1. Reachable(g, T, e) = (Reached(g, T, e) \cap T) \ {e}  BY ReachedIsClosed
    <3>. QED  BY <1>3, <1>8, <2>2, <3>1
  <2>4. \A t \in Symbols : Hits(v, t) <= MaxPathsPerTarget
                           /\ (Hits(w, t) >= MaxPathsPerTarget => Hits(v, t) >= MaxPathsPerTarget)
    <3>1. \A t \in Symbols : Cardinality({i \in DOMAIN w.paths : w.paths[i] = t}) <= MaxPathsPerTarget
      BY DEF WalkFits, Hits
    <3>2. Cardinality({i \in DOMAIN w.paths : w.paths[i] = s}) < MaxPathsPerTarget
      BY <1>8 DEF Hits
    <3>. DEFINE longer == Append(w.paths, s)
    <3>3. \A t \in Symbols :
             /\ Cardinality({i \in DOMAIN longer : longer[i] = t}) <= MaxPathsPerTarget
             /\ Cardinality({i \in DOMAIN w.paths : w.paths[i] = t}) >= MaxPathsPerTarget =>
                   Cardinality({i \in DOMAIN longer : longer[i] = t}) >= MaxPathsPerTarget
      BY <1>2, <3>1, <3>2, OneHitMore
    <3>. QED  BY <1>8, <3>3 DEF Hits
  <2>5. /\ w.proper \subseteq DOMAIN w.paths /\ ProperTargets(w) \subseteq Reachable(g, T, e)
        /\ ToSet(w.paths) \subseteq T \ {e}
    BY DEF WalkFits
  <2>6. v.proper \subseteq DOMAIN v.paths  BY <1>8, <2>1, <2>5
  <2>7. ProperTargets(w) \subseteq ProperTargets(v) /\ ProperTargets(v) \subseteq Reachable(g, T, e)
    <3>1. \A i \in w.proper : i \in v.proper /\ v.paths[i] = w.paths[i]  BY <1>8, <2>1, <2>5
    <3>2. \A i \in v.proper : i \in w.proper \/ (v.paths[i] = s /\ Proper(g, w, s))  BY <1>8, <2>1
    <3>. QED  BY <2>3, <2>5, <3>1, <3>2 DEF ProperTargets
  <2>8. WalkFits(g, T, e, v)
    BY <1>4, <1>6, <1>8, <2>1, <2>2, <2>4, <2>5, <2>6, <2>7 DEF WalkFits
  <2>9. Served(w) \subseteq Served(v)  BY <2>4, <2>7 DEF Served
  <2>. QED  BY <1>8, <2>8, <2>9 DEF Pending, v
<1>9. CASE /\ s \notin w.node.visited /\ s \notin T /\ s \in g.local
           /\ v.queue = Append(w.queue, n) /\ v.paths = w.paths /\ v.proper = w.proper
           /\ v.truncated = w.truncated
  <2>1. NodeFits(g, T, e, n)
    <3>1. s \in Inner(g, T, e)  BY <1>9 DEF Inner
    <3>2. e \in w.node.visited /\ (w.node.proper => w.node.visited \subseteq Inner(g, T, e))
      BY <1>1 DEF NodeFits
    <3>. QED  BY <1>3, <1>5, <3>1, <3>2 DEF NodeFits
  <2>2. /\ DOMAIN v.queue = DOMAIN w.queue \cup {Len(w.queue) + 1}
        /\ \A i \in DOMAIN w.queue : v.queue[i] = w.queue[i]
        /\ v.queue[Len(w.queue) + 1] = n
    BY <1>2, <1>4, <1>9, AppendedHas
  <2>3. \A i \in DOMAIN v.queue : NodeFits(g, T, e, v.queue[i])
    BY <2>1, <2>2 DEF WalkFits
  <2>4. WalkFits(g, T, e, v)
    BY <1>4, <1>6, <1>9, <2>3 DEF WalkFits, Hits, ProperTargets
  <2>5. Pending(w) \subseteq Pending(v)  BY <2>2 DEF Pending
  <2>6. Served(w) = Served(v)  BY <1>9 DEF Served, Hits, ProperTargets
  <2>. QED  BY <1>9, <2>4, <2>5, <2>6 DEF v
<1>. QED  BY <1>4, <1>7, <1>8, <1>9

\* What is due of a callee that is visited (M) is due no more afterwards (L).
Settles(g, w, s, M, L) == \A x \in M : x \in L \/ (x = s /\ Proper(g, w, s))

LEMMA VisitCovers ==
    ASSUME NEW g, IsGraph(g), NEW T \in SUBSET Symbols, NEW e \in Symbols,
           NEW w, WalkFits(g, T, e, w), NEW s \in Symbols,
           Proper(g, w, s) => s \in Callees(g, w.node.symbol),
           TotalIsAmple, ~Visit(g, T, w, s).truncated,
           NEW E, w.node.proper => w.node.visited \subseteq E, NEW L, NEW M, Settles(g, w, s, M, L),
           Covers(g, T, e, w, E, M)
    PROVE  Covers(g, T, e, Visit(g, T, w, s), E, L)
<1>. DEFINE v == Visit(g, T, w, s)
            n == Node(s, w.node.visited, w.node.depth + 1, Proper(g, w, s))
            Known(x) == E \cup Served(x) \cup Leaves(g, T) \cup Pending(x)
<1>1. w \in WalkTypes  BY DEF WalkFits
<1>2. w.node.symbol \in Symbols /\ w.queue \in Seq(NodeTypes) /\ w.paths \in Seq(Symbols)
  BY <1>1 DEF WalkTypes, NodeTypes
<1>3. Proper(g, w, s) => w.node.visited \subseteq E  BY DEF Proper
<1>4. VisitOutcome(g, T, w, s, v) /\ n \in NodeTypes  BY <1>1, VisitDoes, NewNode
<1>5. n.symbol = s /\ n.visited = w.node.visited \cup {s} /\ n.proper = Proper(g, w, s)  BY DEF Node
<1>6. Served(w) \subseteq Served(v) /\ Pending(w) \subseteq Pending(v)  BY VisitKeepsFit
<1>7. ~v.truncated  OBVIOUS
<1>. HIDE DEF v, n
<1>8. v.sites = w.sites /\ v.node = w.node  BY <1>4 DEF VisitOutcome
<1>9. Left(g, v) = Left(g, w)  BY <1>8 DEF Left, Due, Proper
<1>10. Proper(g, w, s) => s \in Known(v)
  <2>. SUFFICES ASSUME Proper(g, w, s)  PROVE s \in Known(v)
    OBVIOUS
  <2>1. CASE /\ v.queue = w.queue /\ v.paths = w.paths /\ v.proper = w.proper
             /\ \/ s \in w.node.visited
                \/ s \in T /\ (Hits(w, s) >= MaxPathsPerTarget \/ Len(w.paths) >= MaxPathsTotal)
                \/ s \notin T /\ s \notin g.local
    <3>1. CASE s \in w.node.visited  BY <1>3, <3>1
    <3>2. CASE s \notin T /\ s \notin g.local  BY <3>2 DEF Leaves
    <3>3. CASE Hits(w, s) >= MaxPathsPerTarget  BY <1>6, <3>3 DEF Served
    <3>4. CASE ~ Hits(w, s) >= MaxPathsPerTarget /\ Len(w.paths) >= MaxPathsTotal
      <4>1. Hits(w, s) < MaxPathsPerTarget
        <5>1. Hits(w, s) \in Nat  BY <1>2, HitsAreCounted DEF Hits
        <5>. QED  BY <3>4, <5>1, WalkAssumption
      <4>2. \A t \in Symbols : Cardinality({i \in DOMAIN w.paths : w.paths[i] = t}) <= MaxPathsPerTarget
        BY DEF WalkFits, Hits
      <4>. DEFINE more == Append(w.paths, s)
      <4>3. \A t \in Symbols : Cardinality({i \in DOMAIN more : more[i] = t}) <= MaxPathsPerTarget
        BY <1>2, <4>1, <4>2, OneHitMore DEF Hits
      <4>4. more \in Seq(Symbols) /\ Len(more) = Len(w.paths) + 1 /\ Len(w.paths) \in Nat  BY <1>2
      <4>. HIDE DEF more
      <4>5. Len(more) <= Cardinality(Symbols) * MaxPathsPerTarget  BY <4>3, <4>4, PathsAreFew
      <4>6. Cardinality(Symbols) \in Nat  BY RunAssumption, FS_CardinalityType
      <4>7. MaxPathsPerTarget \in Nat /\ MaxPathsTotal \in Nat  BY WalkAssumption
      <4>. DEFINE P == Cardinality(Symbols) * MaxPathsPerTarget
      <4>8. P \in Nat /\ Len(more) <= P /\ P <= MaxPathsTotal  BY <4>5, <4>6, <4>7 DEF TotalIsAmple
      <4>. HIDE DEF P
      <4>. QED  BY <3>4, <4>4, <4>7, <4>8
    <3>. QED  BY <2>1, <3>1, <3>2, <3>3, <3>4
  <2>2. CASE /\ v.paths = Append(w.paths, s)
             /\ v.proper = w.proper \cup (IF Proper(g, w, s) THEN {Len(w.paths) + 1} ELSE {})
    <3>1. Len(w.paths) + 1 \in v.proper  BY <2>2
    <3>2. v.paths[Len(w.paths) + 1] = s  BY <1>2, <2>2, AppendedHas
    <3>. QED  BY <3>1, <3>2 DEF Served, ProperTargets
  <2>3. CASE v.queue = Append(w.queue, n)
    <3>1. Len(w.queue) + 1 \in DOMAIN v.queue /\ v.queue[Len(w.queue) + 1] = n
      BY <1>2, <1>4, <2>3, AppendedHas
    <3>2. s \in Pending(v)  BY <1>5, <3>1 DEF Pending
    <3>. QED  BY <3>2
  <2>. QED  BY <1>4, <1>7, <2>1, <2>2, <2>3 DEF VisitOutcome, n
<1>11. \A i \in DOMAIN v.queue : v.queue[i].proper => v.queue[i].visited \subseteq E \cup {v.queue[i].symbol}
  <2>1. CASE v.queue = w.queue  BY <2>1 DEF Covers
  <2>2. CASE v.queue = Append(w.queue, n)
    <3>1. /\ DOMAIN v.queue = DOMAIN w.queue \cup {Len(w.queue) + 1}
          /\ \A i \in DOMAIN w.queue : v.queue[i] = w.queue[i]
          /\ v.queue[Len(w.queue) + 1] = n
      BY <1>2, <1>4, <2>2, AppendedHas
    <3>. QED  BY <1>3, <1>5, <3>1 DEF Covers
  <2>. QED  BY <1>4, <2>1, <2>2 DEF VisitOutcome, n
<1>12. ASSUME NEW u \in E
       PROVE  Callees(g, u) \subseteq E \cup Served(v) \cup Leaves(g, T) \cup Pending(v) \cup Left(g, v) \cup L
  <2>1. Callees(g, u) \subseteq
            E \cup Served(w) \cup Leaves(g, T) \cup Pending(w) \cup Left(g, w) \cup M
    BY DEF Covers
  <2>2. M \subseteq L \cup Known(v)  BY <1>10 DEF Settles
  <2>. QED  BY <1>6, <1>9, <2>1, <2>2
<1>13. E \subseteq Inner(g, T, e) /\ e \in E \cup Pending(v)  BY <1>6 DEF Covers
<1>14. Covers(g, T, e, v, E, L)  BY <1>11, <1>12, <1>13 DEF Covers
<1>. QED  BY <1>14 DEF v

\* Following a call site is a chain as well: one callee after the other.
IsFollowing(met, g, T, w, site, n) ==
    met = [S \in SUBSET (1..n) |-> IF S = {} THEN w ELSE Visit(g, T, met[S \ {Max(S)}], site[Max(S)])]

LEMMA FollowingExists ==
    ASSUME NEW g, NEW T, NEW w, NEW site, NEW n \in Nat
    PROVE  \E met : IsFollowing(met, g, T, w, site, n)
<1>. DEFINE Ts == {k \in 0..n : \E met : IsFollowing(met, g, T, w, site, k)}
<1>1. 0 \in Ts
  <2>. DEFINE met == [S \in SUBSET (1..0) |-> w]
  <2>1. \A S \in SUBSET (1..0) : S = {}  OBVIOUS
  <2>2. met = [S \in SUBSET (1..0) |-> IF S = {} THEN w ELSE Visit(g, T, met[S \ {Max(S)}], site[Max(S)])]
    BY <2>1
  <2>. HIDE DEF met
  <2>3. IsFollowing(met, g, T, w, site, 0)  BY <2>2 DEF IsFollowing
  <2>. QED  BY <2>3
<1>2. ASSUME NEW m \in Ts, m < n  PROVE m + 1 \in Ts
  <2>1. PICK met : IsFollowing(met, g, T, w, site, m)  OBVIOUS
  <2>2. m \in Nat  OBVIOUS
  <2>. DEFINE more == [S \in SUBSET (1..m + 1) |->
                          IF m + 1 \in S THEN Visit(g, T, met[S \ {m + 1}], site[m + 1]) ELSE met[S]]
  <2>3. \A S \in SUBSET (1..m) :
            met[S] = IF S = {} THEN w ELSE Visit(g, T, met[S \ {Max(S)}], site[Max(S)])
    BY <2>1 DEF IsFollowing
  <2>4. \A S \in SUBSET (1..m) : S \in SUBSET (1..m + 1) /\ m + 1 \notin S  BY <2>2
  <2>5. \A S \in SUBSET (1..m) : more[S] = met[S]  BY <2>4
  <2>6. ASSUME NEW S \in SUBSET (1..m + 1)
        PROVE  more[S] = IF S = {} THEN w ELSE Visit(g, T, more[S \ {Max(S)}], site[Max(S)])
    <3>1. CASE m + 1 \in S
      <4>0. m + 1 \in Nat /\ S # {}  BY <2>2, <3>1
      <4>1. Max(S) \in S /\ \A k \in S : k <= Max(S)  BY <4>0, MaxIsGreatest
      <4>2. Max(S) = m + 1
        <5>1. Max(S) \in 1..m + 1 /\ m + 1 <= Max(S)  BY <3>1, <4>1
        <5>. QED  BY <2>2, <5>1
      <4>3. S \ {m + 1} \in SUBSET (1..m)  BY <2>2
      <4>. QED  BY <2>5, <3>1, <4>2, <4>3
    <3>2. CASE m + 1 \notin S
      <4>1. S \in SUBSET (1..m)  BY <2>2, <3>2
      <4>2. S # {} => Max(S) \in S  BY <2>2, <4>1, MaxIsGreatest
      <4>3. S \ {Max(S)} \in SUBSET (1..m)  BY <4>1
      <4>. QED  BY <2>3, <2>5, <4>1, <4>3
    <3>. QED  BY <3>1, <3>2
  <2>7. more = [S \in SUBSET (1..m + 1) |-> more[S]]  OBVIOUS
  <2>. HIDE DEF more
  <2>8. more = [S \in SUBSET (1..m + 1) |->
                   IF S = {} THEN w ELSE Visit(g, T, more[S \ {Max(S)}], site[Max(S)])]
    BY <2>6, <2>7
  <2>9. IsFollowing(more, g, T, w, site, m + 1)  BY <2>8 DEF IsFollowing
  <2>. QED  BY <1>2, <2>9
<1>3. Ts \in SUBSET (0..n)  OBVIOUS
<1>4. n \in Ts
  <2>. HIDE DEF Ts
  <2>1. Ts = 0..n  BY <1>1, <1>2, <1>3, SoOfAll
  <2>. QED  BY <2>1
<1>. QED  BY <1>4

Followed(g, T, w, site) == FoldLeft(LAMBDA v, s : Visit(g, T, v, s), w, site)

Follows(met, g, T, w, site) ==
    /\ met[0] = w
    /\ \A i \in 0..Len(site) : i < Len(site) => met[i + 1] = Visit(g, T, met[i], site[i + 1])

LEMMA FollowIsAChain ==
    ASSUME NEW g, NEW T, NEW w, NEW S, NEW site \in Seq(S)
    PROVE  \E met : Follows(met, g, T, w, site) /\ Followed(g, T, w, site) = met[Len(site)]
<1>. DEFINE n == Len(site)
            Iter == CHOOSE met : IsFollowing(met, g, T, w, site, n)
            met == [i \in 0..n |-> Iter[1..i]]
<1>1. n \in Nat /\ DOMAIN site = 1..n  OBVIOUS
<1>2. Followed(g, T, w, site) = Iter[1..n]
  <2>1. Followed(g, T, w, site) = (CHOOSE iter : IsFollowing(iter, g, T, w, site, n))[DOMAIN site]
    BY <1>1 DEF Followed, FoldLeft, MapThenFoldSet, IsFollowing
  <2>. QED  BY <1>1, <2>1
<1>3. IsFollowing(Iter, g, T, w, site, n)  BY <1>1, FollowingExists
<1>. HIDE DEF n, Iter
<1>4. \A U \in SUBSET (1..n) :
          Iter[U] = IF U = {} THEN w ELSE Visit(g, T, Iter[U \ {Max(U)}], site[Max(U)])
  BY <1>3 DEF IsFollowing
<1>5. met[0] = w
  <2>1. 1..0 = {} /\ 0 \in 0..n  BY <1>1
  <2>. QED  BY <1>1, <1>4, <2>1
<1>6. ASSUME NEW i \in 0..n, i < n
      PROVE  met[i + 1] = Visit(g, T, met[i], site[i + 1])
  <2>1. i \in Nat /\ i + 1 \in 0..n  BY <1>1, <1>6
  <2>2. 1..(i + 1) \in SUBSET (1..n) /\ i + 1 \in 1..(i + 1) /\ (1..(i + 1)) \ {i + 1} = 1..i
    <3>1. \A k : k \in (1..(i + 1)) \ {i + 1} <=> k \in 1..i  BY <2>1
    <3>2. (1..(i + 1)) \ {i + 1} = 1..i  BY <3>1
    <3>3. \A k \in 1..(i + 1) : k \in 1..n  BY <1>1, <1>6, <2>1
    <3>. QED  BY <2>1, <3>2, <3>3
  <2>3. Max(1..(i + 1)) = i + 1
    <3>1. 1..(i + 1) # {}  BY <2>2
    <3>2. Max(1..(i + 1)) \in 1..(i + 1) /\ \A k \in 1..(i + 1) : k <= Max(1..(i + 1))
      BY <1>1, <2>2, <3>1, MaxIsGreatest
    <3>3. i + 1 <= Max(1..(i + 1)) /\ Max(1..(i + 1)) <= i + 1 /\ Max(1..(i + 1)) \in Nat
      BY <2>1, <2>2, <3>2
    <3>. QED  BY <2>1, <3>3
  <2>4. Iter[1..(i + 1)] = Visit(g, T, Iter[1..i], site[i + 1])  BY <1>4, <2>2, <2>3
  <2>5. met[i + 1] = Iter[1..(i + 1)] /\ met[i] = Iter[1..i]  BY <2>1
  <2>. QED  BY <2>4, <2>5
<1>7. met[n] = Iter[1..n]  BY <1>1
<1>8. Follows(met, g, T, w, site)  BY <1>5, <1>6 DEF Follows, n
<1>. HIDE DEF met
<1>. QED  BY <1>2, <1>7, <1>8 DEF n

SiteCovers(g, T, e, w, L) ==
    TotalIsAmple /\ ~w.truncated =>
        \E E \in SUBSET Symbols :
            Covers(g, T, e, w, E, L) /\ (w.node.proper => w.node.visited \subseteq E)

LEMMA VisitKeeps ==
    ASSUME NEW g, IsGraph(g), NEW T \in SUBSET Symbols, NEW e \in Symbols,
           NEW w, WalkFits(g, T, e, w), NEW s \in Symbols,
           Proper(g, w, s) => s \in Callees(g, w.node.symbol)
    PROVE  /\ WalkFits(g, T, e, Visit(g, T, w, s))
           /\ Visit(g, T, w, s).node = w.node /\ Visit(g, T, w, s).sites = w.sites
           /\ Visit(g, T, w, s).done = w.done
           /\ \A L, M : Settles(g, w, s, M, L) /\ SiteCovers(g, T, e, w, M)
                            => SiteCovers(g, T, e, Visit(g, T, w, s), L)
<1>. DEFINE v == Visit(g, T, w, s)
<1>1. WalkFits(g, T, e, v) /\ (w.truncated => v.truncated)  BY VisitKeepsFit
<1>2. w \in WalkTypes  BY DEF WalkFits
<1>4. v.node = w.node /\ v.sites = w.sites /\ v.done = w.done
  <2>1. VisitOutcome(g, T, w, s, v)  BY <1>2, VisitDoes
  <2>. QED  BY <2>1 DEF VisitOutcome
<1>5. ASSUME NEW L, NEW M, Settles(g, w, s, M, L), SiteCovers(g, T, e, w, M)
      PROVE  SiteCovers(g, T, e, v, L)
  <2>. SUFFICES ASSUME TotalIsAmple, ~v.truncated
                PROVE  \E E \in SUBSET Symbols :
                          Covers(g, T, e, v, E, L) /\ (v.node.proper => v.node.visited \subseteq E)
    BY DEF SiteCovers
  <2>1. PICK E \in SUBSET Symbols :
            Covers(g, T, e, w, E, M) /\ (w.node.proper => w.node.visited \subseteq E)
    BY <1>1, <1>5 DEF SiteCovers
  <2>2. Covers(g, T, e, v, E, L)  BY <1>5, <2>1, VisitCovers
  <2>. QED  BY <1>4, <2>1, <2>2
<1>. QED  BY <1>1, <1>4, <1>5

LEMMA FollowKeeps ==
    ASSUME NEW g, IsGraph(g), NEW T \in SUBSET Symbols, NEW e \in Symbols,
           NEW w, WalkFits(g, T, e, w), NEW site \in Seq(Symbols),
           Due(g, w, ToSet(site)) \subseteq Callees(g, w.node.symbol),
           SiteCovers(g, T, e, w, Due(g, w, ToSet(site)))
    PROVE  LET v == Followed(g, T, w, site)
           IN  /\ WalkFits(g, T, e, v) /\ v.node = w.node /\ v.sites = w.sites /\ v.done = w.done
               /\ SiteCovers(g, T, e, v, {})
<1>. DEFINE n == Len(site)
            v == Followed(g, T, w, site)
            After(i) == Due(g, w, {site[j] : j \in (i + 1)..n})
<1>1. PICK met : Follows(met, g, T, w, site) /\ v = met[n]  BY FollowIsAChain
<1>2. n \in Nat /\ DOMAIN site = 1..n /\ \A i \in 1..n : site[i] \in ToSet(site)
                 /\ site[i] \in Symbols
  BY DEF ToSet
<1>3. ToSet(site) = {site[j] : j \in 1..n}  BY <1>2 DEF ToSet
<1>. HIDE DEF v
<1>. DEFINE So(i) == /\ WalkFits(g, T, e, met[i])
                     /\ met[i].node = w.node /\ met[i].sites = w.sites /\ met[i].done = w.done
                     /\ SiteCovers(g, T, e, met[i], After(i))
            Is == {i \in 0..n : So(i)}
<1>4. 0 \in Is
  <2>1. met[0] = w  BY <1>1 DEF Follows
  <2>2. After(0) = Due(g, w, ToSet(site))  BY <1>3
  <2>. HIDE DEF After
  <2>3. So(0)  BY <2>1, <2>2
  <2>. QED  BY <1>2, <2>3
<1>5. ASSUME NEW i \in Is, i < n  PROVE i + 1 \in Is
  <2>. HIDE DEF So
  <2>0. i \in 0..n /\ So(i)  OBVIOUS
  <2>1. i + 1 \in 0..n /\ i + 1 \in 1..n  BY <1>2, <1>5, <2>0
  <2>6. /\ WalkFits(g, T, e, met[i])
        /\ met[i].node = w.node /\ met[i].sites = w.sites /\ met[i].done = w.done
        /\ SiteCovers(g, T, e, met[i], After(i))
    BY <2>0 DEF So
  <2>. DEFINE s == site[i + 1]
  <2>2. met[i + 1] = Visit(g, T, met[i], s)  BY <1>1, <1>5, <2>0 DEF Follows
  <2>3. /\ s \in Symbols /\ s \in ToSet(site)
        /\ Proper(g, met[i], s) <=> Proper(g, w, s)
        /\ Proper(g, met[i], s) => s \in Callees(g, met[i].node.symbol)
    <3>1. s \in Symbols /\ s \in ToSet(site)  BY <1>2, <2>1
    <3>2. Proper(g, met[i], s) <=> Proper(g, w, s)  BY <2>6 DEF Proper
    <3>3. Proper(g, w, s) => s \in Due(g, w, ToSet(site))  BY <3>1 DEF Due
    <3>. QED  BY <2>6, <3>1, <3>2, <3>3
  <2>4. Settles(g, met[i], s, After(i), After(i + 1))
    <3>1. \A j \in (i + 1)..n : j \in ((i + 1) + 1)..n \/ j = i + 1  BY <1>2, <2>0
    <3>. DEFINE From(k) == {site[j] : j \in k..n}
    <3>2. From(i + 1) \subseteq From((i + 1) + 1) \cup {s}  BY <3>1
    <3>. HIDE DEF From
    <3>3. \A x \in Due(g, w, From(i + 1)) : x \in Due(g, w, From((i + 1) + 1)) \/ (x = s /\ Proper(g, w, s))
      BY <3>2 DEF Due
    <3>. QED  BY <2>3, <3>3 DEF Settles, From
  <2>. HIDE DEF After, s
  <2>5. /\ WalkFits(g, T, e, met[i + 1])
        /\ met[i + 1].node = w.node /\ met[i + 1].sites = w.sites /\ met[i + 1].done = w.done
        /\ SiteCovers(g, T, e, met[i + 1], After(i + 1))
    <3>. DEFINE v0 == met[i]
    <3>1. WalkFits(g, T, e, v0) /\ s \in Symbols /\ (Proper(g, v0, s) => s \in Callees(g, v0.node.symbol))
      BY <2>3, <2>6
    <3>2. /\ WalkFits(g, T, e, Visit(g, T, v0, s))
          /\ Visit(g, T, v0, s).node = v0.node /\ Visit(g, T, v0, s).sites = v0.sites
          /\ Visit(g, T, v0, s).done = v0.done
          /\ \A L, M : Settles(g, v0, s, M, L) /\ SiteCovers(g, T, e, v0, M)
                           => SiteCovers(g, T, e, Visit(g, T, v0, s), L)
      <4>. HIDE DEF v0
      <4>. QED  BY <3>1, VisitKeeps
    <3>. QED  BY <2>2, <2>4, <2>6, <3>2
  <2>. QED  BY <2>1, <2>5 DEF So
<1>6. So(n)
  <2>. HIDE DEF So
  <2>1. Is \in SUBSET (0..n)  OBVIOUS
  <2>. HIDE DEF Is
  <2>2. Is = 0..n  BY <1>2, <1>4, <1>5, <2>1, SoOfAll
  <2>. QED  BY <1>2, <2>2 DEF Is
<1>7. After(n) = {}
  <2>1. (n + 1)..n = {}  BY <1>2
  <2>. QED  BY <2>1 DEF Due
<1>. HIDE DEF After
<1>8. /\ WalkFits(g, T, e, v) /\ v.node = w.node /\ v.sites = w.sites /\ v.done = w.done
      /\ SiteCovers(g, T, e, v, {})
  BY <1>1, <1>6, <1>7
<1>. QED  BY <1>8 DEF v

LEMMA TailHas ==
    ASSUME NEW S, NEW list \in Seq(S), list # <<>>
    PROVE  /\ Head(list) \in S /\ Tail(list) \in Seq(S)
           /\ 1 \in DOMAIN list /\ Head(list) = list[1]
           /\ \A i \in DOMAIN Tail(list) : i + 1 \in DOMAIN list /\ Tail(list)[i] = list[i + 1]
           /\ \A i \in DOMAIN list : i = 1 \/ (i - 1 \in DOMAIN Tail(list) /\ list[i] = Tail(list)[i - 1])
           /\ ToSet(list) = {Head(list)} \cup ToSet(Tail(list))
<1>1. /\ Len(list) \in Nat \ {0} /\ DOMAIN list = 1..Len(list)
      /\ Tail(list) \in Seq(S) /\ Len(Tail(list)) = Len(list) - 1 /\ Head(list) = list[1] /\ list[1] \in S
      /\ \A i \in 1..(Len(list) - 1) : Tail(list)[i] = list[i + 1]
  OBVIOUS
<1>2. DOMAIN Tail(list) = 1..(Len(list) - 1)  BY <1>1
<1>3. ASSUME NEW i \in DOMAIN list, i # 1
      PROVE  i - 1 \in DOMAIN Tail(list) /\ list[i] = Tail(list)[i - 1]
  <2>1. i - 1 \in 1..(Len(list) - 1) /\ (i - 1) + 1 = i  BY <1>1, <1>3
  <2>. QED  BY <1>1, <1>2, <2>1
<1>. DEFINE rest == Tail(list)
<1>4. \A i \in DOMAIN rest : i + 1 \in DOMAIN list /\ rest[i] = list[i + 1]  BY <1>1, <1>2
<1>5. \A i \in DOMAIN list : i = 1 \/ (i - 1 \in DOMAIN rest /\ list[i] = rest[i - 1])  BY <1>3
<1>6. 1 \in DOMAIN list  BY <1>1
<1>7. ToSet(list) = {list[1]} \cup ToSet(rest)
  <2>. HIDE DEF rest
  <2>1. \A i \in DOMAIN list : list[i] \in {list[1]} \cup ToSet(rest)  BY <1>5 DEF ToSet
  <2>2. \A i \in DOMAIN rest : rest[i] \in ToSet(list)  BY <1>4 DEF ToSet
  <2>3. list[1] \in ToSet(list)  BY <1>6 DEF ToSet
  <2>. QED  BY <2>1, <2>2, <2>3 DEF ToSet
<1>. QED  BY <1>1, <1>2, <1>3, <1>7

LEMMA FollowSiteKeeps ==
    ASSUME NEW g, IsGraph(g), NEW T \in SUBSET Symbols, NEW e \in Symbols,
           NEW w, WalkIs(g, T, e, w), w.sites # <<>>
    PROVE  /\ WalkIs(g, T, e, FollowSite(g, T, w))
           /\ FollowSite(g, T, w).done => w.done \/ FollowSite(g, T, w).truncated
<1>. DEFINE v == FollowSite(g, T, w)
<1>1. WalkFits(g, T, e, w) /\ WalkCovers(g, T, e, w)  BY DEF WalkIs
<1>2. /\ w \in WalkTypes
      /\ w.queue \in Seq(NodeTypes) /\ w.node \in NodeTypes /\ w.sites \in Seq(Seq(Symbols))
      /\ w.paths \in Seq(Symbols) /\ w.proper \in SUBSET Nat
      /\ w.edges \in Nat /\ w.truncated \in BOOLEAN /\ w.done \in BOOLEAN
      /\ DOMAIN w = {"queue", "node", "sites", "paths", "proper", "edges", "truncated", "done"}
  BY <1>1 DEF WalkFits, WalkTypes
<1>3. ASSUME NEW x, x \in {[w EXCEPT !.truncated = TRUE, !.sites = <<>>],
                           [w EXCEPT !.truncated = TRUE, !.sites = <<>>, !.done = TRUE]}
      PROVE  WalkIs(g, T, e, x) /\ x.truncated
  <2>1. /\ x.queue = w.queue /\ x.node = w.node /\ x.paths = w.paths /\ x.proper = w.proper /\ x.sites = <<>>
        /\ x.truncated = TRUE
    BY <1>2, <1>3
  <2>2. x \in WalkTypes
    <3>1. <<>> \in Seq(Seq(Symbols)) /\ TRUE \in BOOLEAN  OBVIOUS
    <3>2. CASE x = [w EXCEPT !.truncated = TRUE, !.sites = <<>>]
      BY <1>2, <3>1, <3>2 DEF WalkTypes
    <3>3. CASE x = [w EXCEPT !.truncated = TRUE, !.sites = <<>>, !.done = TRUE]
      BY <1>2, <3>1, <3>3 DEF WalkTypes
    <3>. QED  BY <1>3, <3>2, <3>3
  <2>3. WalkFits(g, T, e, x)  BY <1>1, <2>1, <2>2 DEF WalkFits, Hits, ProperTargets
  <2>. QED  BY <2>1, <2>3 DEF WalkIs, WalkCovers
<1>4. CASE Len(w.paths) >= MaxPathsTotal \/ w.edges + 1 > MaxVisitedEdges
  <2>1. v \in {[w EXCEPT !.truncated = TRUE, !.sites = <<>>],
               [w EXCEPT !.truncated = TRUE, !.sites = <<>>, !.done = TRUE]}
    BY <1>4 DEF FollowSite
  <2>. HIDE DEF v
  <2>2. WalkIs(g, T, e, v) /\ v.truncated  BY <1>3, <2>1
  <2>. QED  BY <2>2 DEF v
<1>5. CASE ~ (Len(w.paths) >= MaxPathsTotal \/ w.edges + 1 > MaxVisitedEdges)
  <2>. DEFINE x == [w EXCEPT !.edges = @ + 1, !.sites = Tail(@)]
              site == Head(w.sites)
  <2>1. v = Followed(g, T, x, site)  BY <1>5 DEF FollowSite, Followed
  <2>2. /\ site \in Seq(Symbols) /\ Tail(w.sites) \in Seq(Seq(Symbols))
        /\ 1 \in DOMAIN w.sites /\ site = w.sites[1]
        /\ \A i \in DOMAIN Tail(w.sites) : i + 1 \in DOMAIN w.sites /\ Tail(w.sites)[i] = w.sites[i + 1]
        /\ \A i \in DOMAIN w.sites :
              i = 1 \/ (i - 1 \in DOMAIN Tail(w.sites) /\ w.sites[i] = Tail(w.sites)[i - 1])
    BY <1>2, TailHas
  <2>3. /\ x.queue = w.queue /\ x.node = w.node /\ x.paths = w.paths /\ x.sites = Tail(w.sites)
        /\ x.proper = w.proper /\ x.truncated = w.truncated /\ x.done = w.done
    BY <1>2
  <2>4. x \in WalkTypes
    <3>1. w.edges + 1 \in Nat  BY <1>2
    <3>. QED  BY <1>2, <2>2, <3>1 DEF WalkTypes
  <2>. HIDE DEF x, site, v
  <2>. DEFINE due == Due(g, x, ToSet(site))
  <2>0. \A S : Due(g, x, S) = Due(g, w, S)  BY <2>3 DEF Due, Proper
  <2>5. WalkFits(g, T, e, x)
    <3>1. \A i \in DOMAIN x.sites : Due(g, x, ToSet(x.sites[i])) \subseteq Callees(g, x.node.symbol)
      BY <1>1, <2>0, <2>2, <2>3 DEF WalkFits
    <3>. QED  BY <1>1, <2>3, <2>4, <3>1 DEF WalkFits, Hits, ProperTargets
  <2>6. due \subseteq Callees(g, x.node.symbol)  BY <1>1, <2>0, <2>2, <2>3 DEF WalkFits
  <2>7. SiteCovers(g, T, e, x, due)
    <3>. SUFFICES ASSUME TotalIsAmple, ~x.truncated
                  PROVE  \E E \in SUBSET Symbols :
                            Covers(g, T, e, x, E, due) /\ (x.node.proper => x.node.visited \subseteq E)
      BY DEF SiteCovers
    <3>1. PICK E \in SUBSET Symbols :
              Covers(g, T, e, w, E, {}) /\ (w.node.proper => w.node.visited \subseteq E)
      BY <1>1, <2>3 DEF WalkCovers
    <3>2. Left(g, w) \subseteq Left(g, x) \cup due
      <4>. SUFFICES ASSUME NEW i \in DOMAIN w.sites
                    PROVE  Due(g, w, ToSet(w.sites[i])) \subseteq Left(g, x) \cup due
        BY DEF Left
      <4>1. CASE i = 1  BY <2>0, <2>2, <4>1
      <4>2. CASE i # 1
        <5>1. i - 1 \in DOMAIN x.sites /\ w.sites[i] = x.sites[i - 1]  BY <2>2, <2>3, <4>2
        <5>2. \A k \in DOMAIN x.sites : Due(g, x, ToSet(x.sites[k])) \subseteq Left(g, x)  BY DEF Left
        <5>. QED  BY <2>0, <5>1, <5>2
      <4>. QED  BY <4>1, <4>2
    <3>3. Pending(x) = Pending(w) /\ Served(x) = Served(w)  BY <2>3 DEF Pending, Served, Hits, ProperTargets
    <3>4. ASSUME NEW u \in E
          PROVE  Callees(g, u) \subseteq E \cup Served(x) \cup Leaves(g, T) \cup Pending(x)
                                           \cup Left(g, x) \cup due
      <4>1. Callees(g, u) \subseteq
               E \cup Served(w) \cup Leaves(g, T) \cup Pending(w) \cup Left(g, w) \cup {}
        BY <3>1 DEF Covers
      <4>. QED  BY <3>2, <3>3, <4>1
    <3>5. Covers(g, T, e, x, E, due)  BY <2>3, <3>1, <3>3, <3>4 DEF Covers
    <3>. QED  BY <2>3, <3>1, <3>5
  <2>8. /\ WalkFits(g, T, e, v) /\ v.done = x.done /\ SiteCovers(g, T, e, v, {})
    BY <2>1, <2>2, <2>5, <2>6, <2>7, FollowKeeps
  <2>9. WalkCovers(g, T, e, v)  BY <2>8 DEF SiteCovers, WalkCovers
  <2>. QED  BY <2>3, <2>8, <2>9 DEF WalkIs, v
<1>. QED  BY <1>4, <1>5

LEMMA TakeNodeKeeps ==
    ASSUME NEW g, IsGraph(g), NEW T \in SUBSET Symbols, NEW e \in Symbols,
           NEW w, WalkIs(g, T, e, w), w.sites = <<>>, w.queue # <<>>
    PROVE  /\ WalkIs(g, T, e, TakeNode(g, w))
           /\ TakeNode(g, w).done => w.done \/ TakeNode(g, w).truncated
<1>. DEFINE v == TakeNode(g, w)
            n == Head(w.queue)
            deep == n.depth >= MaxDepth
<1>1. WalkFits(g, T, e, w) /\ WalkCovers(g, T, e, w)  BY DEF WalkIs
<1>2. /\ w \in WalkTypes
      /\ w.queue \in Seq(NodeTypes) /\ w.node \in NodeTypes /\ w.sites \in Seq(Seq(Symbols))
      /\ w.paths \in Seq(Symbols) /\ w.proper \in SUBSET Nat
      /\ w.edges \in Nat /\ w.truncated \in BOOLEAN /\ w.done \in BOOLEAN
      /\ DOMAIN w = {"queue", "node", "sites", "paths", "proper", "edges", "truncated", "done"}
  BY <1>1 DEF WalkFits, WalkTypes
<1>3. CASE Len(w.paths) >= MaxPathsTotal
  <2>1. v = [w EXCEPT !.truncated = TRUE, !.done = TRUE]  BY <1>3 DEF TakeNode
  <2>2. /\ v.queue = w.queue /\ v.node = w.node /\ v.paths = w.paths /\ v.proper = w.proper
        /\ v.sites = w.sites /\ v.truncated = TRUE
    BY <1>2, <2>1
  <2>3. v \in WalkTypes  BY <1>2, <2>1 DEF WalkTypes
  <2>. HIDE DEF v
  <2>4. WalkFits(g, T, e, v)  BY <1>1, <2>2, <2>3 DEF WalkFits, Hits, ProperTargets, Due, Proper
  <2>5. WalkIs(g, T, e, v) /\ v.truncated  BY <2>2, <2>4 DEF WalkIs, WalkCovers
  <2>. QED  BY <2>5 DEF v
<1>4. CASE ~ (Len(w.paths) >= MaxPathsTotal)
  <2>1. v = [w EXCEPT !.queue = Tail(w.queue), !.node = n,
                      !.sites = IF deep THEN <<>> ELSE g.calls[n.symbol],
                      !.truncated = w.truncated \/ (deep /\ g.calls[n.symbol] # <<>>)]
    BY <1>4 DEF TakeNode
  <2>2. /\ n \in NodeTypes /\ Tail(w.queue) \in Seq(NodeTypes)
        /\ 1 \in DOMAIN w.queue /\ n = w.queue[1]
        /\ \A i \in DOMAIN Tail(w.queue) : i + 1 \in DOMAIN w.queue /\ Tail(w.queue)[i] = w.queue[i + 1]
        /\ \A i \in DOMAIN w.queue :
              i = 1 \/ (i - 1 \in DOMAIN Tail(w.queue) /\ w.queue[i] = Tail(w.queue)[i - 1])
    BY <1>2, TailHas
  <2>. HIDE DEF n
  <2>3. n.symbol \in Symbols /\ n.visited \in SUBSET Symbols  BY <2>2 DEF NodeTypes
  <2>4. g.calls[n.symbol] \in Seq(Seq(Symbols))  BY <2>3 DEF IsGraph
  <2>. HIDE DEF deep
  <2>5. /\ v.queue = Tail(w.queue) /\ v.node = n /\ v.paths = w.paths /\ v.proper = w.proper /\ v.done = w.done
        /\ v.sites = IF deep THEN <<>> ELSE g.calls[n.symbol]
        /\ v.truncated = (w.truncated \/ (deep /\ g.calls[n.symbol] # <<>>))
    BY <1>2, <2>1
  <2>6. v \in WalkTypes
    <3>1. (IF deep THEN <<>> ELSE g.calls[n.symbol]) \in Seq(Seq(Symbols))  BY <2>4
    <3>. QED  BY <1>2, <2>1, <2>2, <3>1 DEF WalkTypes
  <2>. HIDE DEF v
  <2>7. NodeFits(g, T, e, n)  BY <1>1, <2>2 DEF WalkFits
  <2>8. WalkFits(g, T, e, v)
    <3>1. \A i \in DOMAIN v.queue : NodeFits(g, T, e, v.queue[i])  BY <1>1, <2>2, <2>5 DEF WalkFits
    <3>2. \A i \in DOMAIN v.sites : Due(g, v, ToSet(v.sites[i])) \subseteq Callees(g, v.node.symbol)
      BY <2>5 DEF Callees, Due, Proper
    <3>. QED  BY <1>1, <2>5, <2>6, <2>7, <3>1, <3>2 DEF WalkFits, Hits, ProperTargets
  <2>9. WalkCovers(g, T, e, v)
    <3>. SUFFICES ASSUME TotalIsAmple, ~v.truncated
                  PROVE  \E E \in SUBSET Symbols :
                            Covers(g, T, e, v, E, {}) /\ (v.node.proper => v.node.visited \subseteq E)
      BY DEF WalkCovers
    <3>1. ~w.truncated /\ v.sites = g.calls[n.symbol]  BY <1>2, <2>5
    <3>2. PICK D \in SUBSET Symbols : Covers(g, T, e, w, D, {})  BY <1>1, <3>1 DEF WalkCovers
    <3>. DEFINE E == IF n.proper THEN D \cup {n.symbol} ELSE D
    <3>3. E \in SUBSET Symbols  BY <2>3
    <3>4. Pending(w) \subseteq Pending(v) \cup E
      <4>. SUFFICES ASSUME NEW i \in DOMAIN w.queue, w.queue[i].proper
                    PROVE  w.queue[i].symbol \in Pending(v) \cup E
        BY DEF Pending
      <4>1. CASE i = 1  BY <2>2, <4>1
      <4>2. CASE i # 1
        <5>1. i - 1 \in DOMAIN v.queue /\ v.queue[i - 1] = w.queue[i]  BY <2>2, <2>5, <4>2
        <5>. QED  BY <5>1 DEF Pending
      <4>. QED  BY <4>1, <4>2
    <3>5. Left(g, w) = {}  BY DEF Left
    <3>6. n.proper => Callees(g, n.symbol) \subseteq Left(g, v)
      BY <2>5, <3>1 DEF Left, Callees, Due, Proper
    <3>7. Served(v) = Served(w)  BY <2>5 DEF Served, Hits, ProperTargets
    <3>8. ASSUME NEW u \in E
          PROVE  Callees(g, u) \subseteq
                    E \cup Served(v) \cup Leaves(g, T) \cup Pending(v) \cup Left(g, v) \cup {}
      <4>1. CASE u \in D
        <5>1. Callees(g, u) \subseteq
                 D \cup Served(w) \cup Leaves(g, T) \cup Pending(w) \cup Left(g, w) \cup {}
          BY <3>2, <4>1 DEF Covers
        <5>. QED  BY <3>4, <3>5, <3>7, <5>1
      <4>2. CASE n.proper /\ u = n.symbol  BY <3>6, <4>2
      <4>. QED  BY <4>1, <4>2
    <3>9. \A i \in DOMAIN v.queue :
             v.queue[i].proper => v.queue[i].visited \subseteq E \cup {v.queue[i].symbol}
      BY <2>2, <2>5, <3>2 DEF Covers
    <3>10. E \subseteq Inner(g, T, e)  BY <2>7, <3>2 DEF Covers, NodeFits
    <3>11. e \in E \cup Pending(v)  BY <3>2, <3>4 DEF Covers
    <3>12. Covers(g, T, e, v, E, {})  BY <3>8, <3>9, <3>10, <3>11 DEF Covers
    <3>13. v.node.proper => v.node.visited \subseteq E
      <4>1. n.proper => n.visited \subseteq D \cup {n.symbol}  BY <2>2, <3>2 DEF Covers
      <4>. QED  BY <2>5, <4>1
    <3>. QED  BY <3>3, <3>12, <3>13
  <2>. QED  BY <2>5, <2>8, <2>9 DEF WalkIs, v
<1>. QED  BY <1>3, <1>4

\* Each step of a walk keeps what it has met reachable, and what it has not
\* met waiting, as long as it does not say that it was cut.
LEMMA WalkStepKeeps ==
    ASSUME NEW g, IsGraph(g), NEW T \in SUBSET Symbols, NEW e \in Symbols,
           NEW w, WalkIs(g, T, e, w), NEW stop
    PROVE  WalkIs(g, T, e, WalkStep(g, T, w, stop))
<1>1. /\ w \in WalkTypes /\ WalkFits(g, T, e, w) /\ WalkCovers(g, T, e, w)
      /\ DOMAIN w = {"queue", "node", "sites", "paths", "proper", "edges", "truncated", "done"}
  BY DEF WalkIs, WalkFits, WalkTypes
<1>2. CASE stop \/ (w.sites = <<>> /\ w.queue = <<>>)
  <2>. DEFINE v == [w EXCEPT !.done = TRUE]
  <2>1. WalkStep(g, T, w, stop) = v  BY <1>2 DEF WalkStep
  <2>2. /\ v.queue = w.queue /\ v.node = w.node /\ v.paths = w.paths /\ v.sites = w.sites
        /\ v.proper = w.proper /\ v.truncated = w.truncated
    BY <1>1
  <2>3. v \in WalkTypes  BY <1>1 DEF WalkTypes
  <2>. HIDE DEF v
  <2>4. WalkFits(g, T, e, v)  BY <1>1, <2>2, <2>3 DEF WalkFits, Hits, ProperTargets, Due, Proper
  <2>5. Pending(v) = Pending(w) /\ Served(v) = Served(w)
    BY <2>2 DEF Pending, Served, Hits, ProperTargets
  <2>6. Left(g, v) = Left(g, w)
    <3>1. \A S : Due(g, v, S) = Due(g, w, S)  BY <2>2 DEF Due, Proper
    <3>. QED  BY <2>2, <3>1 DEF Left
  <2>7. \A E : Covers(g, T, e, w, E, {}) => Covers(g, T, e, v, E, {})
    BY <2>2, <2>5, <2>6 DEF Covers
  <2>8. WalkCovers(g, T, e, v)  BY <1>1, <2>2, <2>7 DEF WalkCovers
  <2>. QED  BY <2>1, <2>4, <2>8 DEF WalkIs
<1>3. CASE ~stop /\ w.sites # <<>>
  BY <1>3, FollowSiteKeeps DEF WalkStep
<1>4. CASE ~stop /\ w.sites = <<>> /\ w.queue # <<>>
  BY <1>4, TakeNodeKeeps DEF WalkStep
<1>. QED  BY <1>2, <1>3, <1>4

\* A walk that ends, was not stopped and does not say that it was cut has met
\* all there is to meet, but for targets that noise shut out.
LEMMA WalkEnds ==
    ASSUME NEW g, IsGraph(g), NEW T \in SUBSET Symbols, NEW e \in Symbols,
           NEW w, WalkIs(g, T, e, w), ~w.done, WalkStep(g, T, w, FALSE).done,
           TotalIsAmple, ~WalkStep(g, T, w, FALSE).truncated
    PROVE  LET next == WalkStep(g, T, w, FALSE)
           IN  Reachable(g, T, e) \subseteq ProperTargets(next) \cup Crowded(next)
<1>1. w \in WalkTypes /\ WalkCovers(g, T, e, w)
  BY DEF WalkIs, WalkFits
<1>2. w.sites = <<>> /\ w.queue = <<>>
  <2>1. CASE w.sites # <<>>  BY <2>1, FollowSiteKeeps DEF WalkStep
  <2>2. CASE w.sites = <<>> /\ w.queue # <<>>  BY <2>2, TakeNodeKeeps DEF WalkStep
  <2>. QED  BY <2>1, <2>2
<1>3. WalkStep(g, T, w, FALSE) = [w EXCEPT !.done = TRUE]  BY <1>2 DEF WalkStep
<1>. DEFINE next == WalkStep(g, T, w, FALSE)
<1>4. next.paths = w.paths /\ next.proper = w.proper /\ ~w.truncated
  BY <1>1, <1>3 DEF WalkTypes
<1>5. PICK E \in SUBSET Symbols : Covers(g, T, e, w, E, {})  BY <1>1, <1>4 DEF WalkCovers
<1>6. Pending(w) = {} /\ Left(g, w) = {}  BY <1>2 DEF Pending, Left
<1>. DEFINE C == E \cup Served(w) \cup Leaves(g, T)
<1>7. Served(w) \subseteq T \ {e} /\ Served(w) \subseteq ProperTargets(w) \cup Crowded(w)
  <2>1. ToSet(w.paths) \subseteq T \ {e} /\ w.proper \subseteq DOMAIN w.paths  BY DEF WalkIs, WalkFits
  <2>2. ProperTargets(w) \subseteq ToSet(w.paths)  BY <2>1 DEF ProperTargets, ToSet
  <2>3. ASSUME NEW t \in Symbols, Hits(w, t) >= MaxPathsPerTarget
        PROVE  t \in ToSet(w.paths) /\ t \in ProperTargets(w) \cup Crowded(w)
    <3>1. MaxPathsPerTarget \in Nat \ {0}  BY WalkAssumption
    <3>2. Hits(w, t) # 0  BY <2>3, <3>1
    <3>3. Cardinality({}) = 0  BY FS_EmptySet
    <3>4. \E i \in DOMAIN w.paths : w.paths[i] = t  BY <3>2, <3>3 DEF Hits
    <3>5. t \in ToSet(w.paths)  BY <3>4 DEF ToSet
    <3>. QED  BY <2>3, <3>5 DEF Crowded, ProperTargets
  <2>. QED  BY <2>1, <2>2, <2>3 DEF Served
<1>8. Reachable(g, T, e) = (Reached(g, T, e) \cap T) \ {e}  BY ReachedIsClosed
<1>9. C \in SUBSET Symbols  BY <1>7 DEF Leaves
<1>10. e \in E /\ E \subseteq Inner(g, T, e)  BY <1>5, <1>6 DEF Covers
<1>11. ASSUME NEW u \in C \cap Inner(g, T, e)  PROVE Callees(g, u) \subseteq C
  <2>1. u \in E  BY <1>7, <1>10 DEF Inner, Leaves
  <2>. QED  BY <1>5, <1>6, <2>1 DEF Covers
<1>12. Closed(g, T, e, C)  BY <1>10, <1>11 DEF Closed, Inner
<1>13. Reached(g, T, e) \subseteq C  BY <1>9, <1>12 DEF Reached
<1>14. Reachable(g, T, e) \subseteq Served(w)  BY <1>8, <1>10, <1>13 DEF Inner, Leaves
<1>15. ProperTargets(next) = ProperTargets(w) /\ Crowded(next) = Crowded(w)
  BY <1>4 DEF ProperTargets, Crowded, Hits
<1>. QED  BY <1>7, <1>14, <1>15

LEMMA FiniteHasGreatest ==
    ASSUME NEW I \in SUBSET Nat, IsFiniteSet(I), I # {}
    PROVE  Max(I) \in I
<1>. DEFINE N == Cardinality(I)
            m == Nth(I, N)
<1>1. N \in Nat /\ N # 0  BY FS_CardinalityType, FS_EmptySet
<1>2. N \in 1..N  BY <1>1
<1>3. m \in I /\ Cardinality(Below(I, m)) = N - 1  BY <1>2, NthIsIn
<1>. HIDE DEF m
<1>4. ASSUME NEW k \in I, k > m  PROVE FALSE
  <2>1. Below(I, m) \cup {m} \subseteq Below(I, k) /\ m \notin Below(I, m) /\ Below(I, k) \subseteq I
    <3>1. m \in Nat /\ k \in Nat /\ \A j \in I : j \in Nat  BY <1>3
    <3>2. \A j \in I : j < m => j < k  BY <1>4, <3>1
    <3>3. m < k /\ ~ m < m  BY <1>4, <3>1
    <3>. QED  BY <1>3, <3>2, <3>3 DEF Below
  <2>2. IsFiniteSet(Below(I, k)) /\ IsFiniteSet(Below(I, m))  BY <2>1, FS_Subset
  <2>3. Cardinality(Below(I, m) \cup {m}) = N
    <3>1. Cardinality(Below(I, m) \cup {m}) = Cardinality(Below(I, m)) + 1
      BY <2>1, <2>2, FS_AddElement
    <3>. QED  BY <1>1, <1>3, <3>1
  <2>4. Cardinality(Below(I, m) \cup {m}) <= Cardinality(Below(I, k))  BY <2>1, <2>2, FS_Subset
  <2>5. Cardinality(Below(I, k)) \in 0..(N - 1)  BY RanksAreInjective
  <2>. QED  BY <1>1, <2>3, <2>4, <2>5
<1>5. \A k \in I : m >= k
  <2>1. \A k \in I : k \in Nat  OBVIOUS
  <2>. QED  BY <1>3, <1>4, <2>1
<1>. QED  BY <1>3, <1>5 DEF Max

LEMMA WidestIsANumber ==
    ASSUME NEW g, IsGraph(g)
    PROVE  Widest(g) \in Nat
<1>. DEFINE Sites == UNION {ToSet(g.calls[s]) : s \in DOMAIN g.calls}
            I == {0} \cup {Len(c) : c \in Sites}
<1>1. DOMAIN g.calls = Symbols /\ IsFiniteSet(Symbols) /\ \A s \in Symbols : g.calls[s] \in Seq(Seq(Symbols))
  BY RunAssumption DEF IsGraph
<1>2. ASSUME NEW s \in Symbols  PROVE IsFiniteSet(ToSet(g.calls[s])) /\ ToSet(g.calls[s]) \subseteq Seq(Symbols)
  <2>. DEFINE calls == g.calls[s]
  <2>1. calls \in Seq(Seq(Symbols))  BY <1>1
  <2>. HIDE DEF calls
  <2>2. DOMAIN calls = 1..Len(calls) /\ Len(calls) \in Nat /\ \A i \in DOMAIN calls : calls[i] \in Seq(Symbols)
    BY <2>1
  <2>3. IsFiniteSet(DOMAIN calls)  BY <2>2, FS_Interval
  <2>. DEFINE f == [i \in DOMAIN calls |-> calls[i]]
  <2>4. f \in Surjection(DOMAIN calls, ToSet(calls))  BY DEF Surjection, ToSet
  <2>5. IsFiniteSet(ToSet(calls))  BY <2>3, <2>4, FS_Surjection
  <2>6. ToSet(calls) \subseteq Seq(Symbols)  BY <2>2 DEF ToSet
  <2>. QED  BY <2>5, <2>6 DEF calls
<1>3. IsFiniteSet(Sites) /\ Sites \subseteq Seq(Symbols)
  <2>. DEFINE F == {ToSet(g.calls[s]) : s \in Symbols}
              f == [s \in Symbols |-> ToSet(g.calls[s])]
  <2>1. f \in Surjection(Symbols, F)  BY DEF Surjection
  <2>2. IsFiniteSet(F)  BY <1>1, <2>1, FS_Surjection
  <2>3. \A S \in F : IsFiniteSet(S) /\ S \subseteq Seq(Symbols)  BY <1>2
  <2>. HIDE DEF F
  <2>4. IsFiniteSet(UNION F) /\ UNION F \subseteq Seq(Symbols)  BY <2>2, <2>3, FS_UNION
  <2>. QED  BY <1>1, <2>4 DEF F
<1>. HIDE DEF Sites
<1>4. IsFiniteSet(I) /\ I \in SUBSET Nat /\ I # {}
  <2>. DEFINE L == {Len(c) : c \in Sites}
              f == [c \in Sites |-> Len(c)]
  <2>1. f \in Surjection(Sites, L)  BY DEF Surjection
  <2>2. IsFiniteSet(L)  BY <1>3, <2>1, FS_Surjection
  <2>3. \A c \in Sites : Len(c) \in Nat
    <3>1. \A c \in Seq(Symbols) : Len(c) \in Nat  OBVIOUS
    <3>. QED  BY <1>3, <3>1
  <2>4. IsFiniteSet({0})  BY FS_Singleton
  <2>5. IsFiniteSet({0} \cup L)  BY <2>2, <2>4, FS_Union
  <2>. QED  BY <2>3, <2>5
<1>5. Widest(g) = Max(I)  BY DEF Widest, Sites
<1>. HIDE DEF I
<1>6. Max(I) \in I  BY <1>4, FiniteHasGreatest
<1>. QED  BY <1>4, <1>5, <1>6

\* A walk to its end, as the chain of its steps.
IsWalk(walk, g, T, start, n) ==
    walk = [k \in 0..n |->
               IF k = 0 THEN start
               ELSE LET w == walk[k - 1] IN IF w.done THEN w ELSE WalkStep(g, T, w, FALSE)]

LEMMA WalkExists ==
    ASSUME NEW g, NEW T, NEW start, NEW n \in Nat
    PROVE  \E walk : IsWalk(walk, g, T, start, n)
<1>. DEFINE Ns == {k \in 0..n : \E walk : IsWalk(walk, g, T, start, k)}
            On(w) == IF w.done THEN w ELSE WalkStep(g, T, w, FALSE)
<1>1. 0 \in Ns
  <2>. DEFINE walk == [k \in 0..0 |-> start]
  <2>1. walk = [k \in 0..0 |->
                  IF k = 0 THEN start
                  ELSE LET w == walk[k - 1] IN IF w.done THEN w ELSE WalkStep(g, T, w, FALSE)]
    <3>1. \A k \in 0..0 : k = 0  OBVIOUS
    <3>. QED  BY <3>1
  <2>. HIDE DEF walk
  <2>2. IsWalk(walk, g, T, start, 0)  BY <2>1 DEF IsWalk
  <2>. QED  BY <2>2
<1>2. ASSUME NEW m \in Ns, m < n  PROVE m + 1 \in Ns
  <2>1. PICK walk : IsWalk(walk, g, T, start, m)  OBVIOUS
  <2>2. m \in Nat /\ m + 1 \in 0..n  BY <1>2
  <2>3. walk = [k \in 0..m |-> IF k = 0 THEN start ELSE On(walk[k - 1])]  BY <2>1 DEF IsWalk
  <2>. HIDE DEF On
  <2>4. \A k \in 0..m : walk[k] = IF k = 0 THEN start ELSE On(walk[k - 1])  BY <2>3
  <2>. DEFINE more == [k \in 0..(m + 1) |-> IF k = m + 1 THEN On(walk[m]) ELSE walk[k]]
  <2>5. \A k \in 0..(m + 1) : k = m + 1 \/ k \in 0..m  BY <2>2
  <2>6. \A k \in 0..m : k \in 0..(m + 1) /\ k # m + 1 /\ more[k] = walk[k]  BY <2>2
  <2>7. m \in 0..m /\ m + 1 \in 0..(m + 1) /\ (m + 1) - 1 = m /\ m + 1 # 0 /\ more[m + 1] = On(walk[m])  BY <2>2
  <2>. HIDE DEF more
  <2>8. ASSUME NEW k \in 0..(m + 1)
        PROVE  more[k] = IF k = 0 THEN start ELSE On(more[k - 1])
    <3>1. CASE k = m + 1  BY <2>6, <2>7, <3>1
    <3>2. CASE k \in 0..m
      <4>1. k # 0 => k - 1 \in 0..m  BY <2>2, <3>2
      <4>2. more[k] = walk[k] /\ (k # 0 => more[k - 1] = walk[k - 1])  BY <2>6, <3>2, <4>1
      <4>. QED  BY <2>4, <3>2, <4>2
    <3>. QED  BY <2>5, <3>1, <3>2
  <2>9. more = [k \in 0..(m + 1) |-> more[k]]  BY DEF more
  <2>10. more = [k \in 0..(m + 1) |-> IF k = 0 THEN start ELSE On(more[k - 1])]  BY <2>8, <2>9
  <2>11. IsWalk(more, g, T, start, m + 1)  BY <2>10 DEF IsWalk, On
  <2>. QED  BY <2>2, <2>11
<1>3. Ns \in SUBSET (0..n)  OBVIOUS
<1>4. n \in Ns
  <2>. HIDE DEF Ns
  <2>1. Ns = 0..n  BY <1>1, <1>2, <1>3, SoOfAll
  <2>. QED  BY <2>1
<1>. QED  BY <1>4

\* Whatever limits a walk to its end met, it has met nothing by a proper path
\* but what is reachable.
LEMMA WalkedIsReachable ==
    ASSUME NEW g, IsGraph(g), NEW T \in SUBSET Symbols, NEW e \in Symbols
    PROVE  /\ WalkIs(g, T, e, Walked(g, T, StartWalk(e)))
           /\ ProperTargets(Walked(g, T, StartWalk(e))) \subseteq Reachable(g, T, e)
<1>. DEFINE start == StartWalk(e)
            n == MaxVisitedEdges * (Widest(g) + 1) + 3
            walk == CHOOSE x : IsWalk(x, g, T, start, n)
<1>1. n \in Nat
  <2>1. Widest(g) \in Nat /\ MaxVisitedEdges \in Nat  BY WidestIsANumber, WalkAssumption
  <2>2. Widest(g) + 1 \in Nat  BY <2>1
  <2>3. \A a, b \in Nat : a * b + 3 \in Nat  OBVIOUS
  <2>. QED  BY <2>1, <2>2, <2>3
<1>2. Walked(g, T, start) = walk[n]  BY DEF Walked, IsWalk
<1>3. IsWalk(walk, g, T, start, n)  BY <1>1, WalkExists
<1>4. WalkIs(g, T, e, start)  BY WalkStarts
<1>. HIDE DEF n, walk, start
<1>5. \A k \in 0..n : walk[k] = IF k = 0 THEN start
                                ELSE IF walk[k - 1].done THEN walk[k - 1] ELSE WalkStep(g, T, walk[k - 1], FALSE)
  BY <1>3 DEF IsWalk
<1>. DEFINE Ks == {k \in 0..n : WalkIs(g, T, e, walk[k])}
<1>6. 0 \in Ks
  <2>0. 0 \in 0..n  BY <1>1
  <2>1. walk[0] = start  BY <1>5, <2>0
  <2>. QED  BY <1>4, <2>0, <2>1
<1>7. ASSUME NEW k \in Ks, k < n  PROVE k + 1 \in Ks
  <2>1. k + 1 \in 0..n /\ k + 1 # 0 /\ (k + 1) - 1 = k  BY <1>1, <1>7
  <2>2. walk[k + 1] = walk[k] \/ walk[k + 1] = WalkStep(g, T, walk[k], FALSE)  BY <1>5, <2>1
  <2>3. WalkIs(g, T, e, walk[k])  OBVIOUS
  <2>4. WalkIs(g, T, e, WalkStep(g, T, walk[k], FALSE))  BY <2>3, WalkStepKeeps
  <2>. QED  BY <2>1, <2>2, <2>3, <2>4
<1>8. WalkIs(g, T, e, walk[n])
  <2>1. Ks \in SUBSET (0..n)  OBVIOUS
  <2>. HIDE DEF Ks
  <2>2. Ks = 0..n  BY <1>1, <1>6, <1>7, <2>1, SoOfAll
  <2>. QED  BY <1>1, <2>2 DEF Ks
<1>9. ProperTargets(walk[n]) \subseteq Reachable(g, T, e)  BY <1>8 DEF WalkIs, WalkFits
<1>. QED  BY <1>2, <1>8, <1>9 DEF start

-----------------------------------------------------------------------------
(***************************************************************************)
(* The rows of the run, from what was found to what is connected.          *)
(***************************************************************************)
LEMMA JoinedIsKeyed ==
    ASSUME NEW a, NEW b, Keyed(a), Keyed(b), IdsOf(ToSet(a)) \cap IdsOf(ToSet(b)) = {}
    PROVE  Keyed(a \o b)
<1>. DEFINE S == ToSet(a) \cup ToSet(b)
<1>1. a \in Seq(ToSet(a)) /\ b \in Seq(ToSet(b))  BY DEF Keyed
<1>2. a \in Seq(S) /\ b \in Seq(S)  BY <1>1, SeqMonotonic
<1>3. ToSet(a \o b) = S  BY <1>2, JoinedHas
<1>4. a \o b \in Seq(ToSet(a \o b))
  <2>1. a \o b \in Seq(S)  BY <1>2
  <2>. QED  BY <1>3, <2>1
<1>5. \A r \in ToSet(a \o b) : IsRow(r)  BY <1>3 DEF Keyed
<1>6. /\ DOMAIN a = 1..Len(a) /\ Len(a) \in Nat /\ DOMAIN b = 1..Len(b) /\ Len(b) \in Nat
      /\ DOMAIN (a \o b) = 1..(Len(a) + Len(b))
      /\ \A i \in 1..Len(a) : (a \o b)[i] = a[i]
      /\ \A i \in 1..(Len(a) + Len(b)) : i > Len(a) => (a \o b)[i] = b[i - Len(a)]
  BY <1>2
<1>. DEFINE c == a \o b
<1>7. ASSUME NEW i \in DOMAIN c
      PROVE  \/ i \in DOMAIN a /\ c[i] = a[i] /\ c[i].id \in IdsOf(ToSet(a))
             \/ i - Len(a) \in DOMAIN b /\ c[i] = b[i - Len(a)] /\ c[i].id \in IdsOf(ToSet(b))
                /\ i \in Nat
  <2>. HIDE DEF c
  <2>0. i \in 1..(Len(a) + Len(b)) /\ i \in Nat  BY <1>6 DEF c
  <2>1. CASE i <= Len(a)
    <3>1. i \in DOMAIN a /\ c[i] = a[i]  BY <1>6, <2>0, <2>1 DEF c
    <3>. QED  BY <3>1 DEF IdsOf, ToSet
  <2>2. CASE ~ i <= Len(a)
    <3>0. i > Len(a) /\ i - Len(a) \in 1..Len(b)  BY <1>6, <2>0, <2>2
    <3>1. i - Len(a) \in DOMAIN b /\ c[i] = b[i - Len(a)]  BY <1>6, <2>0, <3>0 DEF c
    <3>. QED  BY <2>0, <3>1 DEF IdsOf, ToSet
  <2>. QED  BY <2>1, <2>2
<1>. HIDE DEF c
<1>8. ASSUME NEW i \in DOMAIN c, NEW j \in DOMAIN c, c[i].id = c[j].id
      PROVE  i = j
  <2>1. CASE i \in DOMAIN a /\ c[i] = a[i] /\ c[i].id \in IdsOf(ToSet(a))
    <3>1. j \in DOMAIN a /\ c[j] = a[j]  BY <1>7, <1>8, <2>1
    <3>. QED  BY <1>8, <2>1, <3>1 DEF Keyed
  <2>2. CASE /\ i - Len(a) \in DOMAIN b /\ c[i] = b[i - Len(a)] /\ c[i].id \in IdsOf(ToSet(b))
             /\ i \in Nat
    <3>1. j - Len(a) \in DOMAIN b /\ c[j] = b[j - Len(a)] /\ j \in Nat  BY <1>7, <1>8, <2>2
    <3>2. i - Len(a) = j - Len(a)  BY <1>8, <2>2, <3>1 DEF Keyed
    <3>. QED  BY <1>6, <2>2, <3>1, <3>2
  <2>. QED  BY <1>7, <2>1, <2>2
<1>. QED  BY <1>4, <1>5, <1>8 DEF Keyed, c

LEMMA SourcesAre ==
    ASSUME NEW c \in Sources
    PROVE  /\ IsGraph(c.graph) /\ IsFiniteSet(c.found)
           /\ \A r \in c.found : IsRow(r)
           /\ \A r, q \in c.found : r.id = q.id => r = q
           /\ IdsOf(c.found) \cap {Repository[s].id : s \in DOMAIN Repository} = {}
  BY RunAssumption DEF IsGraph, IdsOf

LEMMA CallsAreOfRepositories ==
    ASSUME code \in Sources
    PROVE  CallsOfRepositories \subseteq DOMAIN Repository
<1>. SUFFICES ASSUME NEW e \in EntrySymbols
              PROVE  ProperTargets(Walked(code.graph, DOMAIN Repository, StartWalk(e))) \subseteq DOMAIN Repository
  BY DEF CallsOfRepositories
<1>1. e \in Symbols
  <2>1. PICK x \in Exposures : e \in ToSet(Entries[x])  BY DEF EntrySymbols
  <2>2. Entries[x] \in Seq(Symbols)  BY RunAssumption
  <2>3. \A i \in DOMAIN Entries[x] : Entries[x][i] \in Symbols  BY <2>2, ElementOfSeq
  <2>. QED  BY <2>1, <2>3 DEF ToSet
<1>2. IsGraph(code.graph) /\ DOMAIN Repository \subseteq Symbols  BY SourcesAre, RunAssumption
<1>3. ProperTargets(Walked(code.graph, DOMAIN Repository, StartWalk(e)))
         \subseteq Reachable(code.graph, DOMAIN Repository, e)
  BY <1>1, <1>2, WalkedIsReachable
<1>. QED  BY <1>3 DEF Reachable

LEMMA AugmentIsKeyed ==
    ASSUME code \in Sources, NEW rows, Keyed(rows), IdsOf(ToSet(rows)) \subseteq IdsOf(code.found), NEW p
    PROVE  /\ Keyed(Augment(rows, p))
           /\ ToSet(Augment(rows, p)) =
                 ToSet(rows) \cup {DerivedRow(s, p) : s \in CallsOfRepositories \ Named(rows)}
<1>. DEFINE S == {DerivedRow(s, p) : s \in CallsOfRepositories \ Named(rows)}
<1>1. \A s \in CallsOfRepositories : s \in DOMAIN Repository /\ s \in Symbols
  BY CallsAreOfRepositories, RunAssumption
<1>2. \A s : DerivedRow(s, p).id = Repository[s].id  BY DEF DerivedRow
<1>3. \A s \in CallsOfRepositories : IsRow(DerivedRow(s, p))
  <2>1. \A s : DOMAIN DerivedRow(s, p) = RowFields  BY DEF DerivedRow, RowFields
  <2>2. \A s \in DOMAIN Repository : Repository[s].id \in Nat  BY RunAssumption
  <2>3. \A s : DerivedRow(s, p).confidence \in 0..100  BY DEF DerivedRow
  <2>. QED  BY <1>1, <1>2, <2>1, <2>2, <2>3 DEF IsRow
<1>4. \A s, t \in DOMAIN Repository : Repository[s].id = Repository[t].id => s = t  BY RunAssumption
<1>. HIDE DEF DerivedRow
<1>5. IsFiniteSet(S)
  <2>. DEFINE calls == CallsOfRepositories \ Named(rows)
              f == [s \in calls |-> DerivedRow(s, p)]
  <2>1. IsFiniteSet(calls)
    <3>1. calls \subseteq Symbols  BY <1>1
    <3>. QED  BY <3>1, RunAssumption, FS_Subset
  <2>2. f \in Surjection(calls, S)  BY DEF Surjection
  <2>. QED  BY <2>1, <2>2, FS_Surjection
<1>6. (\A r \in S : IsRow(r)) /\ (\A r, q \in S : r.id = q.id => r = q)
  BY <1>1, <1>2, <1>3, <1>4
<1>7. IdsOf(S) \subseteq {Repository[s].id : s \in DOMAIN Repository}
  BY <1>1, <1>2 DEF IdsOf
<1>. HIDE DEF S
<1>8. Keyed(ById(S)) /\ ToSet(ById(S)) = S  BY <1>5, <1>6, ByIdIsKeyed
<1>9. IdsOf(ToSet(rows)) \cap IdsOf(ToSet(ById(S))) = {}
  <2>1. IdsOf(code.found) \cap {Repository[s].id : s \in DOMAIN Repository} = {}  BY SourcesAre
  <2>. QED  BY <1>7, <1>8, <2>1
<1>10. Keyed(rows \o ById(S))  BY <1>8, <1>9, JoinedIsKeyed
<1>11. ToSet(rows \o ById(S)) = ToSet(rows) \cup S
  <2>. DEFINE U == ToSet(rows) \cup S
  <2>1. rows \in Seq(ToSet(rows)) /\ ById(S) \in Seq(S)  BY <1>8 DEF Keyed
  <2>2. rows \in Seq(U) /\ ById(S) \in Seq(U)  BY <2>1, SeqMonotonic
  <2>. QED  BY <1>8, <2>2, JoinedHas
<1>. QED  BY <1>10, <1>11 DEF Augment, S

LEMMA StampIsKeyed ==
    ASSUME NEW rows, Keyed(rows), NEW configured
    PROVE  Keyed(Stamp(rows, configured))
<1>. DEFINE q == Stamp(rows, configured)
<1>1. q = [i \in DOMAIN rows |-> q[i]]  BY DEF Stamp
<1>2. \A i \in DOMAIN rows : IsRow(rows[i])  BY KeyedRows
<1>3. \A i \in DOMAIN rows : IsRow(q[i]) /\ q[i].id = rows[i].id
  BY <1>2 DEF Stamp, IsRow, RowFields
<1>. HIDE DEF q
<1>4. Keyed(q)  BY <1>1, <1>3, ChangedRowsAreKeyed
<1>. QED  BY <1>4 DEF q

LEMMA PropagatedIsKeyed ==
    ASSUME NEW rows, Keyed(rows), NEW config, NEW resolved
    PROVE  Keyed(PropagateClientInstances(config, resolved, rows))
<1>. DEFINE q == PropagateClientInstances(config, resolved, rows)
            Same(r, u) == IsRow(u) /\ u.id = r.id
<1>1. q = [i \in DOMAIN rows |-> q[i]]  BY DEF PropagateClientInstances
<1>2. \A i \in DOMAIN rows : IsRow(rows[i])  BY KeyedRows
<1>3. \A r, store : IsRow(r) => Same(r, StampDatastoreInstance(r, store))
  BY DEF StampDatastoreInstance, IsRow, RowFields
<1>4. \A r, client : IsRow(r) => Same(r, ApplyClientInstance(r, client))
  <2>. SUFFICES ASSUME NEW r, IsRow(r), NEW client
                PROVE  Same(r, ApplyClientInstance(r, client))
    OBVIOUS
  <2>. DEFINE told == StampDatastoreInstance(r, client.store)
  <2>1. IsRow(told) /\ told.id = r.id  BY <1>3
  <2>. HIDE DEF told
  <2>2. Same(r, [told EXCEPT !.platform = client.store.platform])
    BY <2>1 DEF IsRow, RowFields
  <2>. QED  BY <2>1, <2>2 DEF ApplyClientInstance, told
<1>5. \A i \in DOMAIN rows : IsRow(q[i]) /\ q[i].id = rows[i].id
  <2>. SUFFICES ASSUME NEW i \in DOMAIN rows  PROVE IsRow(q[i]) /\ q[i].id = rows[i].id
    OBVIOUS
  <2>. DEFINE told == ApplyClientInstance(rows[i], MatchClient(rows[i], resolved))
              both == StampDatastoreInstance(told, SingleDatastoreRef(config))
  <2>1. IsRow(told) /\ told.id = rows[i].id  BY <1>2, <1>4
  <2>2. IsRow(both) /\ both.id = rows[i].id
    <3>. HIDE DEF told
    <3>. QED  BY <1>3, <2>1
  <2>3. q[i] = IF rows[i].data THEN both ELSE rows[i]  BY DEF PropagateClientInstances
  <2>. QED  BY <1>2, <2>2, <2>3
<1>. HIDE DEF q
<1>6. Keyed(q)  BY <1>1, <1>5, ChangedRowsAreKeyed
<1>. QED  BY <1>6 DEF q

-----------------------------------------------------------------------------
(***************************************************************************)
(* The workers.  What is said of them is said of the rows D of the run, of *)
(* the lists the workers share, and of whether the run is stopped.         *)
(***************************************************************************)
LookedUp(D, s) == {r \in D : s \in r.at}
Aims(D)        == {s \in Symbols : LookedUp(D, s) # {}}

MetIn(g, D, x) ==
    {s \in UNION {Reachable(g, Aims(D), e) : e \in ToSet(Entries[x])} : ClassOf[s] \notin OwnClasses(x)}

\* The list at s may be sorted, and is in no order then.
Sortable(D, s) ==
    /\ \A r \in LookedUp(D, s) : s \notin r.exact
    /\ \E r \in LookedUp(D, s) : ~r.narrow

Answered(D, linked, s) ==
    IF \E r \in LookedUp(D, s) : ~r.narrow
    THEN \E r \in LookedUp(D, s) : r.id \in linked
    ELSE \A r \in LookedUp(D, s) :
            ((\E q \in LookedUp(D, s) : s \in q.exact) => s \in r.exact) => r.id \in linked

Sound(g, D, x, linked) ==
    \A d \in linked : \E r \in D :
        /\ r.id = d
        /\ (\E e \in ToSet(Entries[x]) : e \in r.at /\ e \in r.inside) \/ r.at \cap MetIn(g, D, x) # {}

TargetsFit(D, lists) ==
    /\ lists \in [Symbols -> Seq(D)]
    /\ \A s \in Symbols :
          /\ ToSet(lists[s]) \subseteq LookedUp(D, s)
          /\ LookedUp(D, s) # {} => lists[s] # <<>>
          /\ Sortable(D, s) \/ LookedUp(D, s) \subseteq ToSet(lists[s])

Links == [symbol : Symbols, direct : BOOLEAN]
LinkFits(g, D, x, l) ==
    IF l.direct THEN l.symbol \in ToSet(Entries[x]) ELSE l.symbol \in MetIn(g, D, x)

\* What an entry leads to is still to be walked to, is being walked to, or is
\* linked or about to be, unless noise crowded it out.
SeesTo(g, D, v, e) ==
    \/ e \in ToSet(v.entries)
    \/ v.pc = "walk" /\ WalkIs(g, Aims(D), e, v.walk)
    \/ \A s \in Reachable(g, Aims(D), e) :
          \/ ClassOf[s] \in OwnClasses(v.exposure) \/ s \in v.crowded
          \/ Answered(D, v.linked, s) \/ Link(s, FALSE) \in ToSet(v.links)

SortFits(D, lists, v) ==
    /\ v.links # <<>> /\ Sortable(D, v.links[1].symbol)
    /\ v.i \in Nat /\ v.j \in Nat /\ 1 <= v.j /\ v.j <= v.i
    /\ v.pc # "sort" => /\ v.j # 1 /\ v.i <= Len(lists[v.links[1].symbol])
                        /\ v.held \in LookedUp(D, v.links[1].symbol)

WorkerFields == {"pc", "exposure", "entries", "walk", "links", "linked", "truncated", "crowded", "i", "j", "held"}

WorkerFits(g, D, lists, stopped, v) ==
    /\ DOMAIN v = WorkerFields
    /\ v.pc \in {"link", "walk", "sort", "copy", "store"}
    /\ v.exposure \in Exposures /\ v.truncated \in BOOLEAN
    /\ v.entries \in Seq(Symbols) /\ ToSet(v.entries) \subseteq ToSet(Entries[v.exposure])
    /\ v.links \in Seq(Links) /\ \A l \in ToSet(v.links) : LinkFits(g, D, v.exposure, l)
    /\ Sound(g, D, v.exposure, v.linked)
    /\ v.pc = "walk" =>
          /\ v.links = <<>> /\ ~v.walk.done
          /\ \E e \in ToSet(Entries[v.exposure]) : WalkIs(g, Aims(D), e, v.walk)
    /\ v.pc \in {"sort", "copy", "store"} => SortFits(D, lists, v)
    /\ TotalIsAmple => v.truncated \/ stopped \/ \A e \in ToSet(Entries[v.exposure]) : SeesTo(g, D, v, e)

ResultFits(g, D, stopped, x, r) ==
    r # None =>
        /\ Sound(g, D, x, r.linked)
        /\ TotalIsAmple => stopped \/ r.truncated \/
              \A s \in MetIn(g, D, x) \ r.crowded : Answered(D, r.linked, s)

\* The invariant of the run.
ConnectingFits ==
    /\ Keyed(dependencies) /\ TargetsFit(ToSet(dependencies), targets) /\ jobs \in Seq(Exposures)
    /\ \A x \in Exposures : ResultFits(code.graph, ToSet(dependencies), cancelled, x, results[x])

WorkersFit ==
    \A w \in Workers :
        \/ worker[w].pc = "idle"
        \/ /\ phase = "connections"
           /\ WorkerFits(code.graph, ToSet(dependencies), targets, cancelled, worker[w])

RunInv ==
    /\ code \in Sources /\ cancelled \in BOOLEAN
    /\ DOMAIN worker = Workers /\ worker = [w \in Workers |-> worker[w]]
    /\ DOMAIN results = Exposures /\ results = [x \in Exposures |-> results[x]]
    /\ phase \in {"index", "discovery", "derivation"} =>
          targets = [s \in Symbols |-> <<>>] /\ jobs = <<>> /\ results = [x \in Exposures |-> None]
    /\ phase = "derivation" =>
          Keyed(dependencies) /\ IdsOf(ToSet(dependencies)) \subseteq IdsOf(code.found)
    /\ phase \in {"connections", "reconcile"} => ConnectingFits
    /\ WorkersFit

LEMMA EntriesAreSymbols ==
    ASSUME NEW x \in Exposures
    PROVE  /\ Entries[x] \in Seq(Symbols) /\ ToSet(Entries[x]) \subseteq Symbols
           /\ \A i \in DOMAIN Entries[x] : Entries[x][i] \in ToSet(Entries[x])
<1>1. Entries[x] \in Seq(Symbols)  BY RunAssumption
<1>2. \A i \in DOMAIN Entries[x] : Entries[x][i] \in Symbols  BY <1>1, ElementOfSeq
<1>. QED  BY <1>1, <1>2 DEF ToSet

\* A cancellation, and a change of the order of a list, leave the rest of the
\* workers as they are.
LEMMA OthersStay ==
    ASSUME NEW g, NEW D, NEW lists, NEW others, NEW stopped, NEW later, NEW v,
           WorkerFits(g, D, lists, stopped, v), stopped => later,
           \A s \in Symbols : Len(others[s]) = Len(lists[s])
    PROVE  WorkerFits(g, D, others, later, v)
<1>1. SortFits(D, lists, v) => SortFits(D, others, v)
  <2>. SUFFICES ASSUME SortFits(D, lists, v)  PROVE SortFits(D, others, v)
    OBVIOUS
  <2>1. v.links \in Seq(Links) /\ v.links # <<>>  BY DEF WorkerFits, SortFits
  <2>2. v.links[1].symbol \in Symbols
    <3>1. v.links[1] \in Links  BY <2>1
    <3>. QED  BY <3>1 DEF Links
  <2>. QED  BY <2>2 DEF SortFits
<1>. QED  BY <1>1 DEF WorkerFits

LEMMA TakenFits ==
    ASSUME NEW g, NEW D, NEW lists, NEW stopped, NEW x \in Exposures
    PROVE  WorkerFits(g, D, lists, stopped,
              [Idle EXCEPT !.pc = "link", !.exposure = x, !.entries = Entries[x],
                           !.links = [i \in DOMAIN Entries[x] |-> Link(Entries[x][i], TRUE)]])
<1>. DEFINE links == [i \in DOMAIN Entries[x] |-> Link(Entries[x][i], TRUE)]
            v == [Idle EXCEPT !.pc = "link", !.exposure = x, !.entries = Entries[x], !.links = links]
<1>1. /\ Entries[x] \in Seq(Symbols) /\ ToSet(Entries[x]) \subseteq Symbols
      /\ \A i \in DOMAIN Entries[x] : Entries[x][i] \in ToSet(Entries[x])
  BY EntriesAreSymbols
<1>2. \A i \in DOMAIN Entries[x] : links[i] \in Links /\ LinkFits(g, D, x, links[i])
  BY <1>1 DEF Link, Links, LinkFits
<1>3. links \in Seq(Links)
  <2>. DEFINE n == Len(Entries[x])
  <2>1. DOMAIN Entries[x] = 1..n /\ n \in Nat  BY <1>1
  <2>. HIDE DEF n
  <2>2. links \in [1..n -> Links]  BY <1>2, <2>1
  <2>. HIDE DEF links
  <2>. QED  BY <2>1, <2>2
<1>4. DOMAIN links = DOMAIN Entries[x]  OBVIOUS
<1>. HIDE DEF links
<1>5. \A l \in ToSet(links) : LinkFits(g, D, x, l)  BY <1>2, <1>4 DEF ToSet
<1>6. /\ DOMAIN v = WorkerFields /\ v.pc = "link" /\ v.exposure = x /\ v.entries = Entries[x]
      /\ v.links = links /\ v.linked = {} /\ v.truncated = FALSE
  BY DEF Idle, WorkerFields
<1>. HIDE DEF v
<1>7. Sound(g, D, x, {})  BY DEF Sound
<1>8. \A e \in ToSet(Entries[x]) : SeesTo(g, D, v, e)  BY <1>6 DEF SeesTo
<1>9. WorkerFits(g, D, lists, stopped, v)
  BY <1>1, <1>3, <1>5, <1>6, <1>7, <1>8 DEF WorkerFits
<1>. QED  BY <1>9 DEF v, links

LEMMA StartedFits ==
    ASSUME NEW g, IsGraph(g), NEW D, NEW lists, NEW stopped, NEW v, WorkerFits(g, D, lists, stopped, v),
           v.pc = "link", v.links = <<>>, v.entries # <<>>
    PROVE  WorkerFits(g, D, lists, stopped,
              [v EXCEPT !.pc = "walk", !.entries = Tail(@), !.walk = StartWalk(Head(v.entries))])
<1>. DEFINE e == Head(v.entries)
            u == [v EXCEPT !.pc = "walk", !.entries = Tail(@), !.walk = StartWalk(e)]
<1>1. /\ DOMAIN v = WorkerFields /\ v.entries \in Seq(Symbols)
      /\ ToSet(v.entries) \subseteq ToSet(Entries[v.exposure])
  BY DEF WorkerFits
<1>2. e \in Symbols /\ Tail(v.entries) \in Seq(Symbols)  BY <1>1, TailHas
<1>3. ToSet(v.entries) = {e} \cup ToSet(Tail(v.entries))  BY <1>1, TailHas
<1>4. /\ DOMAIN u = WorkerFields /\ u.pc = "walk" /\ u.exposure = v.exposure
      /\ u.entries = Tail(v.entries) /\ u.walk = StartWalk(e) /\ u.links = <<>>
      /\ u.linked = v.linked /\ u.truncated = v.truncated /\ u.crowded = v.crowded
  BY <1>1 DEF WorkerFields
<1>. HIDE DEF u, e
<1>5. WalkIs(g, Aims(D), e, StartWalk(e)) /\ StartWalk(e).done = FALSE
  <2>1. Aims(D) \in SUBSET Symbols  BY DEF Aims
  <2>. QED  BY <1>2, <2>1, WalkStarts
<1>6. \A d \in ToSet(Entries[v.exposure]) : SeesTo(g, D, v, d) => SeesTo(g, D, u, d)
  <2>. SUFFICES ASSUME NEW d \in ToSet(Entries[v.exposure]), SeesTo(g, D, v, d)
                PROVE  SeesTo(g, D, u, d)
    OBVIOUS
  <2>1. CASE d = e  BY <1>4, <1>5, <2>1 DEF SeesTo
  <2>2. CASE d \in ToSet(Tail(v.entries))  BY <1>4, <2>2 DEF SeesTo
  <2>3. CASE d \notin ToSet(v.entries)  BY <1>4, <2>3 DEF SeesTo
  <2>. QED  BY <1>3, <2>1, <2>2, <2>3
<1>7. e \in ToSet(Entries[v.exposure]) /\ ToSet(u.entries) \subseteq ToSet(Entries[v.exposure])
  BY <1>1, <1>3, <1>4
<1>8. WorkerFits(g, D, lists, stopped, u)
  BY <1>2, <1>4, <1>5, <1>6, <1>7 DEF WorkerFits
<1>. QED  BY <1>8 DEF u, e

Walking(v, next, met) ==
    IF next.done
    THEN [v EXCEPT !.pc = "link", !.walk = None, !.truncated = @ \/ next.truncated,
             !.crowded = @ \cup Crowded(next),
             !.links = [i \in DOMAIN met |-> Link(met[i], FALSE)]]
    ELSE [v EXCEPT !.walk = next]

\* What a walk met of other classes waits to be linked when it has ended.
LEMMA WalkingFits ==
    ASSUME NEW g, IsGraph(g), NEW D, NEW lists, NEW stopped \in BOOLEAN,
           NEW v, WorkerFits(g, D, lists, stopped, v), v.pc = "walk",
           NEW next, next = WalkStep(g, Aims(D), v.walk, stopped),
           NEW met, met = Foreign(v.exposure, next)
    PROVE  WorkerFits(g, D, lists, stopped, Walking(v, next, met))
<1>. DEFINE x == v.exposure
            T == Aims(D)
<1>1. /\ DOMAIN v = WorkerFields /\ x \in Exposures /\ v.links = <<>> /\ ~v.walk.done
      /\ v.truncated \in BOOLEAN
  BY DEF WorkerFits
<1>2. PICK e \in ToSet(Entries[x]) : WalkIs(g, T, e, v.walk)  BY DEF WorkerFits
<1>3. T \in SUBSET Symbols /\ ToSet(Entries[x]) \subseteq Symbols
  BY <1>1, EntriesAreSymbols DEF Aims
<1>4. \A d \in ToSet(Entries[x]) : WalkIs(g, T, d, v.walk) => WalkIs(g, T, d, next)
  BY <1>3, WalkStepKeeps
<1>5. /\ next \in WalkTypes /\ next.proper \subseteq DOMAIN next.paths
      /\ ProperTargets(next) \subseteq Reachable(g, T, e)
  BY <1>2, <1>4 DEF WalkIs, WalkFits
<1>6. CASE ~next.done
  <2>. DEFINE u == [v EXCEPT !.walk = next]
  <2>1. /\ DOMAIN u = WorkerFields /\ u.pc = "walk" /\ u.exposure = x /\ u.entries = v.entries
        /\ u.walk = next /\ u.links = v.links /\ u.linked = v.linked /\ u.truncated = v.truncated
        /\ u.crowded = v.crowded
    BY <1>1 DEF WorkerFields
  <2>. HIDE DEF u
  <2>2. \A d \in ToSet(Entries[x]) : SeesTo(g, D, v, d) => SeesTo(g, D, u, d)
    BY <1>4, <2>1 DEF SeesTo
  <2>3. WorkerFits(g, D, lists, stopped, u)
    BY <1>1, <1>2, <1>4, <1>6, <2>1, <2>2 DEF WorkerFits
  <2>. QED  BY <1>6, <2>3 DEF u, Walking
<1>7. CASE next.done
  <2>. DEFINE links == [i \in DOMAIN met |-> Link(met[i], FALSE)]
              I == {i \in next.proper : ClassOf[next.paths[i]] \notin OwnClasses(x)}
              u == [v EXCEPT !.pc = "link", !.walk = None, !.truncated = v.truncated \/ next.truncated,
                             !.crowded = v.crowded \cup Crowded(next), !.links = links]
  <2>1. next.paths \in Seq(Symbols)  BY <1>5 DEF WalkTypes
  <2>2. /\ met \in Seq({next.paths[i] : i \in I})
        /\ ToSet(met) = {next.paths[i] : i \in I}
    <3>1. I \in SUBSET DOMAIN next.paths  BY <1>5
    <3>2. met = Sublist(next.paths, I)  BY DEF Foreign
    <3>. HIDE DEF I
    <3>. QED  BY <2>1, <3>1, <3>2, SublistHasItems
  <2>3. \A i \in I : i \in DOMAIN next.paths /\ next.paths[i] \in MetIn(g, D, x)
    BY <1>5 DEF MetIn, ProperTargets
  <2>4. ToSet(met) \subseteq MetIn(g, D, x)  BY <2>2, <2>3
  <2>5. \A s \in ProperTargets(next) : ClassOf[s] \in OwnClasses(x) \/ s \in ToSet(met)
    BY <2>2 DEF ProperTargets
  <2>6. met \in Seq(Symbols)
    <3>1. \A i \in I : next.paths[i] \in Symbols  BY <2>1, <2>3
    <3>. QED  BY <2>2, <3>1, SeqMonotonic
  <2>. HIDE DEF I
  <2>7. links \in Seq(Links)
    <3>. DEFINE n == Len(met)
    <3>1. n \in Nat /\ DOMAIN met = 1..n /\ \A i \in DOMAIN met : met[i] \in Symbols  BY <2>6
    <3>2. \A i \in DOMAIN met : links[i] \in Links  BY <3>1 DEF Link, Links
    <3>. HIDE DEF n
    <3>3. links \in [1..n -> Links]  BY <3>1, <3>2
    <3>. HIDE DEF links
    <3>. QED  BY <3>1, <3>3
  <2>8. ToSet(links) = {Link(s, FALSE) : s \in ToSet(met)}
    <3>1. DOMAIN links = DOMAIN met /\ \A i \in DOMAIN met : links[i] = Link(met[i], FALSE)  OBVIOUS
    <3>. HIDE DEF links
    <3>2. \A l \in ToSet(links) : \E s \in ToSet(met) : l = Link(s, FALSE)  BY <3>1 DEF ToSet
    <3>. DEFINE M == DOMAIN met
    <3>3. /\ ToSet(met) = {met[i] : i \in M} /\ ToSet(links) = {links[i] : i \in M}
          /\ \A i \in M : links[i] = Link(met[i], FALSE)
      BY <3>1 DEF ToSet
    <3>. HIDE DEF M
    <3>4. \A s \in ToSet(met) : Link(s, FALSE) \in ToSet(links)  BY <3>3, Zenon
    <3>. QED  BY <3>2, <3>4
  <2>9. \A l \in ToSet(links) : LinkFits(g, D, x, l)  BY <2>4, <2>8 DEF LinkFits, Link
  <2>. HIDE DEF links
  <2>10. /\ DOMAIN u = WorkerFields /\ u.pc = "link" /\ u.exposure = x /\ u.entries = v.entries
         /\ u.links = links /\ u.linked = v.linked /\ u.truncated = (v.truncated \/ next.truncated)
         /\ u.crowded = v.crowded \cup Crowded(next)
    BY <1>1 DEF WorkerFields
  <2>. HIDE DEF u
  <2>11. ASSUME TotalIsAmple, ~stopped, ~u.truncated, NEW d \in ToSet(Entries[x]), SeesTo(g, D, v, d)
         PROVE  SeesTo(g, D, u, d)
    <3>1. CASE d \in ToSet(v.entries)  BY <2>10, <3>1 DEF SeesTo
    <3>2. CASE WalkIs(g, T, d, v.walk)
      <4>1. stopped = FALSE /\ next.truncated # TRUE  BY <2>10, <2>11
      <4>2. ~next.truncated  BY <2>10, <2>11
      <4>3. next = WalkStep(g, T, v.walk, FALSE)  BY <4>1
      <4>4. Reachable(g, T, d) \subseteq ProperTargets(next) \cup Crowded(next)
        BY <1>1, <1>3, <1>7, <2>11, <3>2, <4>2, <4>3, WalkEnds
      <4>5. \A s \in Reachable(g, T, d) :
               ClassOf[s] \in OwnClasses(x) \/ s \in u.crowded \/ Link(s, FALSE) \in ToSet(u.links)
        BY <2>5, <2>8, <2>10, <4>4
      <4>. QED  BY <2>10, <4>5 DEF SeesTo
    <3>3. CASE \A s \in Reachable(g, T, d) :
                  \/ ClassOf[s] \in OwnClasses(x) \/ s \in v.crowded
                  \/ Answered(D, v.linked, s) \/ Link(s, FALSE) \in ToSet(v.links)
      <4>1. ToSet(v.links) = {}  BY <1>1 DEF ToSet
      <4>. QED  BY <2>10, <3>3, <4>1 DEF SeesTo
    <3>. QED  BY <2>11, <3>1, <3>2, <3>3 DEF SeesTo
  <2>12. TotalIsAmple => u.truncated \/ stopped \/ \A d \in ToSet(Entries[x]) : SeesTo(g, D, u, d)
    BY <2>10, <2>11 DEF WorkerFits
  <2>13. WorkerFits(g, D, lists, stopped, u)
    BY <1>1, <1>5, <2>7, <2>9, <2>10, <2>12 DEF WorkerFits, WalkTypes
  <2>. QED  BY <1>7, <2>13 DEF u, links, Walking
<1>. QED  BY <1>6, <1>7

\* A link is made of rows looked up at its symbol; behind a symbol that was
\* met, of all those that are owed.
LEMMA LinkedFits ==
    ASSUME NEW g, IsGraph(g), NEW D, NEW lists, NEW stopped,
           NEW v, WorkerFits(g, D, lists, stopped, v), v.pc # "walk", v.links # <<>>,
           NEW rows, rows \subseteq LookedUp(D, Head(v.links).symbol),
           LookedUp(D, Head(v.links).symbol) # {} =>
              Answered(D, {r.id : r \in rows}, Head(v.links).symbol)
    PROVE  WorkerFits(g, D, lists, stopped, Linked(v, Head(v.links), rows))
<1>. DEFINE x == v.exposure
            l == Head(v.links)
            more == {r.id : r \in {d \in rows : l.direct => l.symbol \in d.inside}}
            u == Linked(v, l, rows)
<1>1. /\ DOMAIN v = WorkerFields /\ x \in Exposures /\ v.links \in Seq(Links)
      /\ \A k \in ToSet(v.links) : LinkFits(g, D, x, k)
  BY DEF WorkerFits
<1>2. l \in Links /\ Tail(v.links) \in Seq(Links) /\ ToSet(v.links) = {l} \cup ToSet(Tail(v.links))
  BY <1>1, TailHas
<1>. HIDE DEF l
<1>3. /\ DOMAIN u = WorkerFields /\ u.pc = "link" /\ u.exposure = x /\ u.entries = v.entries
      /\ u.links = Tail(v.links) /\ u.linked = v.linked \cup more /\ u.truncated = v.truncated
      /\ u.crowded = v.crowded
  BY <1>1 DEF WorkerFields, Linked
<1>. HIDE DEF u, more
<1>4. LinkFits(g, D, x, l)  BY <1>1, <1>2
<1>5. Sound(g, D, x, u.linked)
  <2>1. Sound(g, D, x, v.linked)  BY DEF WorkerFits
  <2>2. Sound(g, D, x, more)
    <3>. SUFFICES ASSUME NEW r \in rows, l.direct => l.symbol \in r.inside
                  PROVE  r \in D /\ ((\E e \in ToSet(Entries[x]) : e \in r.at /\ e \in r.inside)
                                      \/ r.at \cap MetIn(g, D, x) # {})
      BY DEF Sound, more
    <3>1. r \in D /\ l.symbol \in r.at  BY DEF LookedUp, l
    <3>2. CASE l.direct  BY <1>4, <3>1, <3>2 DEF LinkFits
    <3>3. CASE ~l.direct  BY <1>4, <3>1, <3>3 DEF LinkFits
    <3>. QED  BY <3>2, <3>3
  <2>. QED  BY <1>3, <2>1, <2>2 DEF Sound
<1>6. \A s, small, large : small \subseteq large /\ Answered(D, small, s) => Answered(D, large, s)
  BY DEF Answered
<1>7. ~l.direct => Answered(D, u.linked, l.symbol)
  <2>. SUFFICES ASSUME ~l.direct  PROVE Answered(D, u.linked, l.symbol)
    OBVIOUS
  <2>1. l.symbol \in MetIn(g, D, x)  BY <1>4 DEF LinkFits
  <2>2. LookedUp(D, l.symbol) # {}  BY <2>1 DEF MetIn, Reachable, Aims
  <2>3. {r.id : r \in rows} \subseteq u.linked  BY <1>3 DEF more
  <2>. QED  BY <1>6, <2>2, <2>3 DEF l
<1>8. ASSUME NEW e \in ToSet(Entries[x]), SeesTo(g, D, v, e)
      PROVE  SeesTo(g, D, u, e)
  <2>1. CASE e \in ToSet(v.entries)  BY <1>3, <2>1 DEF SeesTo
  <2>2. CASE \A s \in Reachable(g, Aims(D), e) :
                \/ ClassOf[s] \in OwnClasses(x) \/ s \in v.crowded
                \/ Answered(D, v.linked, s) \/ Link(s, FALSE) \in ToSet(v.links)
    <3>1. \A s : Link(s, FALSE) = l => ~l.direct /\ l.symbol = s  BY DEF Link
    <3>2. \A s : Answered(D, v.linked, s) => Answered(D, u.linked, s)  BY <1>3, <1>6
    <3>3. \A s \in Reachable(g, Aims(D), e) :
                \/ ClassOf[s] \in OwnClasses(x) \/ s \in u.crowded
                \/ Answered(D, u.linked, s) \/ Link(s, FALSE) \in ToSet(u.links)
      BY <1>2, <1>3, <1>7, <2>2, <3>1, <3>2
    <3>. QED  BY <1>3, <3>3 DEF SeesTo
  <2>. QED  BY <1>8, <2>1, <2>2 DEF SeesTo
<1>9. TotalIsAmple => u.truncated \/ stopped \/ \A e \in ToSet(Entries[x]) : SeesTo(g, D, u, e)
  BY <1>3, <1>8 DEF WorkerFits
<1>10. WorkerFits(g, D, lists, stopped, u)
  BY <1>1, <1>2, <1>3, <1>5, <1>9 DEF WorkerFits
<1>. QED  BY <1>10 DEF u, l

LEMMA ChosenAnswers ==
    ASSUME NEW D, TargetsFit(D, targets), NEW s \in Symbols
    PROVE  /\ Chosen(s) \subseteq LookedUp(D, s)
           /\ LookedUp(D, s) # {} => Answered(D, {r.id : r \in Chosen(s)}, s)
           /\ NeedsSort(s) => Sortable(D, s)
<1>1. /\ ToSet(targets[s]) \subseteq LookedUp(D, s)
      /\ LookedUp(D, s) # {} => targets[s] # <<>>
      /\ Sortable(D, s) \/ LookedUp(D, s) \subseteq ToSet(targets[s])
  BY DEF TargetsFit
<1>2. Chosen(s) \subseteq LookedUp(D, s)  BY <1>1 DEF Chosen, Exact
<1>3. NeedsSort(s) => Sortable(D, s)  BY <1>1 DEF NeedsSort, Sortable, Exact
<1>4. ASSUME LookedUp(D, s) # {}, \E r \in LookedUp(D, s) : ~r.narrow
      PROVE  \E r \in LookedUp(D, s) : r.id \in {q.id : q \in Chosen(s)}
  <2>1. targets[s] # <<>> /\ targets[s] \in Seq(D)  BY <1>1, <1>4 DEF TargetsFit
  <2>2. 1 \in DOMAIN targets[s]  BY <2>1
  <2>3. ToSet(targets[s]) # {}  BY <2>2 DEF ToSet
  <2>4. Chosen(s) # {}  BY <2>3 DEF Chosen
  <2>. QED  BY <1>2, <2>4
<1>5. ASSUME \A r \in LookedUp(D, s) : r.narrow
      PROVE  \A r \in LookedUp(D, s) :
                ((\E q \in LookedUp(D, s) : s \in q.exact) => s \in r.exact) => r.id \in {q.id : q \in Chosen(s)}
  <2>1. ToSet(targets[s]) = LookedUp(D, s)  BY <1>1, <1>5 DEF Sortable
  <2>2. \A r \in LookedUp(D, s) :
            ((\E q \in LookedUp(D, s) : s \in q.exact) => s \in r.exact) => r \in Chosen(s)
    BY <2>1 DEF Chosen, Exact
  <2>. QED  BY <2>2
<1>6. LookedUp(D, s) # {} => Answered(D, {r.id : r \in Chosen(s)}, s)
  BY <1>4, <1>5 DEF Answered
<1>. QED  BY <1>2, <1>3, <1>6

\* The lists with row r at place k of the list of symbol s.
Put(s, k, r) == [targets EXCEPT ![s][k] = r]

\* A row that is copied or stored at a symbol whose list may be sorted.
LEMMA SwappedFit ==
    ASSUME NEW D, TargetsFit(D, targets), NEW s \in Symbols, Sortable(D, s),
           NEW k \in 1..Len(targets[s]), NEW r \in LookedUp(D, s),
           NEW swapped, swapped = Put(s, k, r)
    PROVE  /\ TargetsFit(D, swapped)
           /\ \A t \in Symbols : Len(swapped[t]) = Len(targets[t])
<1>. DEFINE list == [targets[s] EXCEPT ![k] = r]
            lists == [targets EXCEPT ![s] = list]
<1>1. targets \in [Symbols -> Seq(D)] /\ targets[s] \in Seq(D) /\ r \in D
  BY DEF TargetsFit, LookedUp
<1>2. swapped = lists  BY DEF Put
<1>3. /\ list \in Seq(D) /\ Len(list) = Len(targets[s]) /\ DOMAIN list = DOMAIN targets[s]
      /\ k \in DOMAIN targets[s]
      /\ \A i \in DOMAIN targets[s] : list[i] = IF i = k THEN r ELSE targets[s][i]
  BY <1>1
<1>. HIDE DEF list
<1>4. \A t \in Symbols : lists[t] = IF t = s THEN list ELSE targets[t]  BY <1>1
<1>5. lists \in [Symbols -> Seq(D)]  BY <1>1, <1>3
<1>. HIDE DEF lists
<1>6. ToSet(list) \subseteq LookedUp(D, s)
  <2>1. ToSet(targets[s]) \subseteq LookedUp(D, s)  BY DEF TargetsFit
  <2>. QED  BY <1>3, <2>1 DEF ToSet
<1>7. list # <<>>  BY <1>3
<1>8. TargetsFit(D, lists)  BY <1>4, <1>5, <1>6, <1>7 DEF TargetsFit
<1>9. \A t \in Symbols : Len(lists[t]) = Len(targets[t])  BY <1>3, <1>4
<1>. QED  BY <1>2, <1>8, <1>9

LEMMA AimsAreTargets ==
    ASSUME NEW D, TargetsFit(D, targets)
    PROVE  IsTarget = Aims(D)
<1>1. ASSUME NEW s \in Symbols  PROVE targets[s] # <<>> <=> LookedUp(D, s) # {}
  <2>1. targets[s] \in Seq(D) /\ ToSet(targets[s]) \subseteq LookedUp(D, s)
        /\ (LookedUp(D, s) # {} => targets[s] # <<>>)
    BY DEF TargetsFit
  <2>2. ASSUME targets[s] # <<>>  PROVE LookedUp(D, s) # {}
    <3>1. 1 \in DOMAIN targets[s]  BY <2>1, <2>2
    <3>. QED  BY <2>1, <3>1 DEF ToSet
  <2>. QED  BY <2>1, <2>2
<1>. QED  BY <1>1 DEF IsTarget, Aims

-----------------------------------------------------------------------------
(***************************************************************************)
(* The invariant of the run.                                               *)
(***************************************************************************)
\* What a worker that takes a step leaves of the run.
LEMMA StepOfWorker ==
    ASSUME RunInv, phase = "connections", NEW w \in Workers, NEW v,
           UNCHANGED <<code, phase, cancelled, dependencies>>,
           worker' = [worker EXCEPT ![w] = v],
           TargetsFit(ToSet(dependencies), targets'),
           \A s \in Symbols : Len(targets'[s]) = Len(targets[s]),
           v.pc = "idle" \/ WorkerFits(code.graph, ToSet(dependencies), targets', cancelled, v),
           jobs' \in Seq(Exposures),
           results' = [x \in Exposures |-> results'[x]],
           \A x \in Exposures : ResultFits(code.graph, ToSet(dependencies), cancelled, x, results'[x])
    PROVE  RunInv'
<1>. DEFINE D == ToSet(dependencies)
<1>1. /\ code \in Sources /\ cancelled \in BOOLEAN
      /\ DOMAIN worker = Workers /\ worker = [u \in Workers |-> worker[u]]
      /\ ConnectingFits /\ WorkersFit
  BY DEF RunInv
<1>2. ToSet(dependencies)' = D  BY DEF ToSet
<1>. HIDE DEF D
<1>3. ConnectingFits'
  BY <1>1, <1>2 DEF ConnectingFits, D
<1>4. WorkersFit'
  <2>1. ASSUME NEW u \in Workers
        PROVE  \/ worker'[u].pc = "idle"
               \/ WorkerFits(code.graph, D, targets', cancelled, worker'[u])
    <3>1. CASE u = w
      <4>1. worker'[u] = v  BY <1>1, <3>1
      <4>. QED  BY <4>1 DEF D
    <3>2. CASE u # w
      <4>1. worker'[u] = worker[u]  BY <1>1, <3>2
      <4>2. worker[u].pc = "idle" \/ WorkerFits(code.graph, D, targets, cancelled, worker[u])
        BY <1>1 DEF WorkersFit, D
      <4>3. WorkerFits(code.graph, D, targets, cancelled, worker[u])
               => WorkerFits(code.graph, D, targets', cancelled, worker[u])
        BY OthersStay
      <4>. QED  BY <4>1, <4>2, <4>3
    <3>. QED  BY <3>1, <3>2
  <2>. QED  BY <1>2, <2>1 DEF WorkersFit
<1>5. /\ DOMAIN worker' = Workers /\ worker' = [u \in Workers |-> worker'[u]]
      /\ DOMAIN results' = Exposures
  BY <1>1
<1>. QED  BY <1>1, <1>3, <1>4, <1>5 DEF RunInv

LEMMA InitFits ==
    Init => RunInv
<1>. SUFFICES ASSUME Init  PROVE RunInv  OBVIOUS
<1>1. /\ code \in Sources /\ cancelled \in BOOLEAN /\ phase = "index"
      /\ targets = [s \in Symbols |-> <<>>] /\ jobs = <<>>
      /\ worker = [w \in Workers |-> Idle] /\ results = [x \in Exposures |-> None]
  BY DEF Init
<1>2. \A w \in Workers : worker[w].pc = "idle"  BY <1>1 DEF Idle
<1>3. WorkersFit  BY <1>2 DEF WorkersFit
<1>. QED  BY <1>1, <1>3 DEF RunInv

LEMMA StageKeeps ==
    ASSUME RunInv, UNCHANGED <<code, worker>>, cancelled \in BOOLEAN /\ cancelled' = cancelled,
           DOMAIN results' = Exposures /\ results' = [x \in Exposures |-> results'[x]],
           phase' \in {"index", "discovery", "derivation"} =>
              targets' = [s \in Symbols |-> <<>>] /\ jobs' = <<>> /\ results' = [x \in Exposures |-> None],
           phase' = "derivation" =>
              Keyed(dependencies)' /\ IdsOf(ToSet(dependencies')) \subseteq IdsOf(code.found),
           phase' \in {"connections", "reconcile"} => ConnectingFits',
           \A w \in Workers : worker[w].pc = "idle"
    PROVE  RunInv'
<1>1. WorkersFit'  BY DEF WorkersFit
<1>2. ToSet(dependencies)' = ToSet(dependencies')  BY DEF ToSet
<1>. QED  BY <1>1, <1>2 DEF RunInv

LEMMA IdleUnlessConnecting ==
    ASSUME RunInv, phase # "connections"
    PROVE  \A w \in Workers : worker[w].pc = "idle"
  BY DEF RunInv, WorkersFit

LEMMA CancelKeeps ==
    ASSUME RunInv, Cancel
    PROVE  RunInv'
<1>1. cancelled' = TRUE /\ UNCHANGED <<code, phase, dependencies, targets, jobs, worker, results>>
  BY DEF Cancel, connecting
<1>2. ToSet(dependencies)' = ToSet(dependencies) /\ Keyed(dependencies)' = Keyed(dependencies)
  BY <1>1 DEF ToSet, Keyed
<1>3. ASSUME NEW x, ResultFits(code.graph, ToSet(dependencies), cancelled, x, results[x])
      PROVE  ResultFits(code.graph, ToSet(dependencies), TRUE, x, results[x])
  BY <1>3 DEF ResultFits
<1>4. ConnectingFits => ConnectingFits'
  BY <1>1, <1>2, <1>3 DEF ConnectingFits
<1>5. ASSUME NEW v, WorkerFits(code.graph, ToSet(dependencies), targets, cancelled, v)
      PROVE  WorkerFits(code.graph, ToSet(dependencies), targets, TRUE, v)
  BY <1>5, OthersStay
<1>6. WorkersFit'
  BY <1>1, <1>2, <1>5 DEF RunInv, WorkersFit
<1>. QED  BY <1>1, <1>2, <1>4, <1>6 DEF RunInv

LEMMA JobsAreExposures ==
    SetToSeq(Exposures) \in Seq(Exposures)
<1>. DEFINE n == Cardinality(Exposures)
<1>1. n \in Nat /\ ExistsBijection(1..n, Exposures)  BY RunAssumption, FS_CardinalityType
<1>2. PICK f : f \in Bijection(1..n, Exposures)  BY <1>1 DEF ExistsBijection
<1>3. f \in [1..n -> Exposures] /\ IsInjective(f)
  BY <1>2 DEF Bijection, Injection, IsInjective
<1>4. SetToSeq(Exposures) = CHOOSE h \in [1..n -> Exposures] : IsInjective(h)  BY DEF SetToSeq
<1>. HIDE DEF n
<1>5. SetToSeq(Exposures) \in [1..n -> Exposures]  BY <1>3, <1>4
<1>. QED  BY <1>1, <1>5

LEMMA TargetsOfFit ==
    ASSUME NEW rows, Keyed(rows)
    PROVE  TargetsFit(ToSet(rows), TargetsOf(rows))
<1>. DEFINE D == ToSet(rows)
            I(s) == {i \in DOMAIN rows : s \in rows[i].at}
<1>1. rows \in Seq(D)  BY DEF Keyed
<1>2. \A i \in DOMAIN rows : rows[i] \in D  BY DEF ToSet
<1>3. \A s \in Symbols : {rows[i] : i \in I(s)} = LookedUp(D, s)
  BY DEF LookedUp, ToSet
<1>4. \A s \in Symbols : TargetsOf(rows)[s] = Sublist(rows, I(s))  BY DEF TargetsOf
<1>5. ASSUME NEW s \in Symbols
      PROVE  /\ Sublist(rows, I(s)) \in Seq(D)
             /\ ToSet(Sublist(rows, I(s))) = LookedUp(D, s)
  <2>. DEFINE J == I(s)
  <2>1. J \in SUBSET DOMAIN rows  OBVIOUS
  <2>. HIDE DEF J
  <2>2. /\ Sublist(rows, J) \in Seq({rows[i] : i \in J})
        /\ ToSet(Sublist(rows, J)) = {rows[i] : i \in J}
    BY <1>1, <2>1, SublistHasItems
  <2>3. {rows[i] : i \in J} \subseteq D  BY <1>2, <2>1
  <2>4. Sublist(rows, J) \in Seq(D)  BY <2>2, <2>3, SeqMonotonic
  <2>. QED  BY <1>3, <2>2, <2>4 DEF J
<1>6. TargetsOf(rows) = [s \in Symbols |-> Sublist(rows, I(s))]  BY DEF TargetsOf
<1>. HIDE DEF I
<1>7. TargetsOf(rows) \in [Symbols -> Seq(D)]  BY <1>5, <1>6
<1>8. ASSUME NEW s \in Symbols, LookedUp(D, s) # {}  PROVE TargetsOf(rows)[s] # <<>>
  <2>1. ToSet(TargetsOf(rows)[s]) # {}  BY <1>4, <1>5, <1>8
  <2>. QED  BY <2>1 DEF ToSet
<1>. QED  BY <1>4, <1>5, <1>7, <1>8 DEF TargetsFit

LEMMA DiscoverKeeps ==
    ASSUME RunInv, Discover
    PROVE  RunInv'
<1>1. /\ phase = "discovery" /\ code \in Sources /\ cancelled \in BOOLEAN
      /\ UNCHANGED <<code, cancelled, targets, jobs, worker, results>>
      /\ dependencies' = (IF cancelled THEN <<>> ELSE Dedupe(ById(code.found)))
      /\ phase' = IF cancelled THEN "write" ELSE "derivation"
      /\ DOMAIN results = Exposures /\ results = [x \in Exposures |-> results[x]]
      /\ targets = [s \in Symbols |-> <<>>] /\ jobs = <<>> /\ results = [x \in Exposures |-> None]
  BY DEF RunInv, Discover, connecting
<1>2. ASSUME ~cancelled
      PROVE  Keyed(dependencies') /\ IdsOf(ToSet(dependencies')) \subseteq IdsOf(code.found)
  <2>1. /\ IsFiniteSet(code.found) /\ \A r \in code.found : IsRow(r)
        /\ \A r, q \in code.found : r.id = q.id => r = q
    BY <1>1, SourcesAre
  <2>2. Keyed(ById(code.found)) /\ ToSet(ById(code.found)) = code.found  BY <2>1, ByIdIsKeyed
  <2>. QED  BY <1>1, <1>2, <2>2, DedupeIsKeyed
<1>3. Keyed(dependencies') = Keyed(dependencies)'  BY DEF Keyed, ToSet
<1>4. \A w \in Workers : worker[w].pc = "idle"  BY <1>1, IdleUnlessConnecting
<1>. QED  BY <1>1, <1>2, <1>3, <1>4, StageKeeps

LEMMA DeriveKeeps ==
    ASSUME RunInv, Derive
    PROVE  RunInv'
<1>1. /\ phase = "derivation" /\ code \in Sources /\ cancelled \in BOOLEAN
      /\ UNCHANGED <<code, cancelled, worker, results>>
      /\ Keyed(dependencies) /\ IdsOf(ToSet(dependencies)) \subseteq IdsOf(code.found)
      /\ DOMAIN results = Exposures /\ results = [x \in Exposures |-> results[x]]
      /\ targets = [s \in Symbols |-> <<>>] /\ jobs = <<>> /\ results = [x \in Exposures |-> None]
  BY DEF RunInv, Derive
<1>2. Keyed(dependencies')
  <2>1. PICK p, found, resolved :
           dependencies' = Dedupe(PropagateClientInstances(code.config, resolved,
                              Stamp(Augment(dependencies, p), InferConfigDBPlatform(code.config))))
    BY DEF Derive
  <2>2. Keyed(Augment(dependencies, p))  BY <1>1, AugmentIsKeyed
  <2>. DEFINE rows == Stamp(Augment(dependencies, p), InferConfigDBPlatform(code.config))
  <2>3. Keyed(rows)  BY <2>2, StampIsKeyed
  <2>. HIDE DEF rows
  <2>4. Keyed(PropagateClientInstances(code.config, resolved, rows))  BY <2>3, PropagatedIsKeyed
  <2>. QED  BY <2>1, <2>4, DedupeIsKeyed DEF rows
<1>. DEFINE D == ToSet(dependencies')
<1>3. \A x \in Exposures : ResultFits(code.graph, D, cancelled, x, results[x])
  BY <1>1 DEF ResultFits
<1>4. CASE dependencies' = <<>>
  <2>1. phase' = "reconcile" /\ UNCHANGED <<targets, jobs>>  BY <1>4 DEF Derive
  <2>2. D = {}  BY <1>4 DEF ToSet
  <2>3. TargetsFit({}, targets)
    <3>1. targets \in [Symbols -> Seq({})] /\ \A s \in Symbols : targets[s] = <<>>  BY <1>1
    <3>2. \A s : LookedUp({}, s) = {}  BY DEF LookedUp
    <3>3. ToSet(<<>>) = {}  BY DEF ToSet
    <3>. QED  BY <3>1, <3>2, <3>3 DEF TargetsFit
  <2>4. jobs \in Seq(Exposures)  BY <1>1
  <2>. HIDE DEF D
  <2>5. ConnectingFits'
    <3>1. Keyed(dependencies)' /\ ToSet(dependencies)' = D  BY <1>2 DEF Keyed, ToSet, D
    <3>. QED  BY <1>1, <1>3, <2>1, <2>2, <2>3, <2>4, <3>1 DEF ConnectingFits
  <2>6. \A w \in Workers : worker[w].pc = "idle"  BY <1>1, IdleUnlessConnecting
  <2>. QED  BY <1>1, <2>1, <2>5, <2>6, StageKeeps
<1>5. CASE dependencies' # <<>>
  <2>1. /\ phase' = "connections" /\ targets' = TargetsOf(dependencies') /\ jobs' = SetToSeq(Exposures)
    BY <1>5 DEF Derive
  <2>2. TargetsFit(D, targets')  BY <1>2, <2>1, TargetsOfFit
  <2>3. jobs' \in Seq(Exposures)  BY <2>1, JobsAreExposures
  <2>. HIDE DEF D
  <2>4. ConnectingFits'
    <3>1. Keyed(dependencies)' /\ ToSet(dependencies)' = D  BY <1>2 DEF Keyed, ToSet, D
    <3>. QED  BY <1>1, <1>3, <2>2, <2>3, <3>1 DEF ConnectingFits
  <2>5. \A w \in Workers : worker[w].pc = "idle"  BY <1>1, IdleUnlessConnecting
  <2>. QED  BY <1>1, <2>1, <2>4, <2>5, StageKeeps
<1>. QED  BY <1>4, <1>5

LEMMA OtherStagesKeep ==
    ASSUME RunInv, IndexFails \/ BuildIndex \/ Collect \/ Reconcile \/ WriteManifest \/ WriteArtifacts
    PROVE  RunInv'
<1>1. /\ UNCHANGED <<code, cancelled, targets, jobs, worker, results>>
      /\ cancelled \in BOOLEAN
      /\ DOMAIN results = Exposures /\ results = [x \in Exposures |-> results[x]]
  BY DEF RunInv, IndexFails, BuildIndex, Collect, Reconcile, WriteManifest, WriteArtifacts, connecting
<1>2. CASE phase = "index" /\ phase' \in {"discovery", "done"}
  <2>1. \A w \in Workers : worker[w].pc = "idle"  BY <1>2, IdleUnlessConnecting
  <2>. QED  BY <1>1, <1>2, <2>1, StageKeeps DEF RunInv
<1>3. CASE Collect
  <2>1. /\ phase = "connections" /\ phase' = "reconcile" /\ dependencies' = dependencies
        /\ \A w \in Workers : worker[w].pc = "idle"
    BY <1>3 DEF Collect
  <2>2. ConnectingFits  BY <2>1 DEF RunInv
  <2>3. ConnectingFits'
    BY <1>1, <2>1, <2>2 DEF ConnectingFits, Keyed, ToSet
  <2>. QED  BY <1>1, <2>1, <2>3, StageKeeps
<1>4. CASE phase \in {"reconcile", "write", "artifacts"} /\ phase' \in {"write", "artifacts", "done"}
  <2>1. \A w \in Workers : worker[w].pc = "idle"  BY <1>4, IdleUnlessConnecting
  <2>. QED  BY <1>1, <1>4, <2>1, StageKeeps
<1>. QED
  BY <1>2, <1>3, <1>4 DEF IndexFails, BuildIndex, Reconcile, WriteManifest, WriteArtifacts

LEMMA AtWork ==
    ASSUME RunInv, NEW w \in Workers, worker[w].pc # "idle"
    PROVE  /\ phase = "connections" /\ ConnectingFits
           /\ WorkerFits(code.graph, ToSet(dependencies), targets, cancelled, worker[w])
           /\ IsGraph(code.graph) /\ cancelled \in BOOLEAN
<1>1. code \in Sources /\ WorkersFit /\ cancelled \in BOOLEAN  BY DEF RunInv
<1>2. phase = "connections"  BY <1>1 DEF WorkersFit
<1>. QED  BY <1>1, <1>2, SourcesAre DEF RunInv, WorkersFit

\* A step that leaves the lists and the results alone.
LEMMA OwnStep ==
    ASSUME RunInv, NEW w \in Workers, worker[w].pc # "idle", NEW v, Become(w, v),
           UNCHANGED <<code, phase, cancelled, dependencies, targets, jobs, results>>,
           WorkerFits(code.graph, ToSet(dependencies), targets, cancelled, v)
    PROVE  RunInv'
<1>1. phase = "connections" /\ ConnectingFits  BY AtWork
<1>2. /\ TargetsFit(ToSet(dependencies), targets) /\ jobs \in Seq(Exposures)
      /\ \A x \in Exposures : ResultFits(code.graph, ToSet(dependencies), cancelled, x, results[x])
  BY <1>1 DEF ConnectingFits
<1>3. results = [x \in Exposures |-> results[x]]  BY DEF RunInv
<1>. QED  BY <1>1, <1>2, <1>3, StepOfWorker DEF Become

LEMMA TakeKeeps ==
    ASSUME RunInv, NEW w \in Workers, Take(w)
    PROVE  RunInv'
<1>. DEFINE D == ToSet(dependencies)
            x == Head(jobs)
<1>1. /\ phase = "connections" /\ jobs # <<>> /\ jobs' = Tail(jobs) /\ worker[w].pc = "idle"
      /\ UNCHANGED <<code, phase, cancelled, dependencies, targets>>
  BY DEF Take
<1>2. /\ TargetsFit(D, targets) /\ jobs \in Seq(Exposures)
      /\ \A y \in Exposures : ResultFits(code.graph, D, cancelled, y, results[y])
  BY <1>1 DEF RunInv, ConnectingFits
<1>3. x \in Exposures /\ jobs' \in Seq(Exposures)  BY <1>1, <1>2, TailHas
<1>4. results = [y \in Exposures |-> results[y]] /\ worker = [u \in Workers |-> worker[u]]
      /\ DOMAIN worker = Workers
  BY DEF RunInv
<1>. HIDE DEF x, D
<1>5. CASE cancelled
  <2>1. /\ results' = [results EXCEPT ![x] = [linked |-> {}, truncated |-> FALSE, crowded |-> {}]]
        /\ worker' = worker
    BY <1>5 DEF Take, Yield, Idle, x
  <2>2. results' = [y \in Exposures |-> results'[y]]  BY <1>4, <2>1
  <2>3. ResultFits(code.graph, D, cancelled, x, [linked |-> {}, truncated |-> FALSE, crowded |-> {}])
    BY <1>5 DEF ResultFits, Sound
  <2>4. \A y \in Exposures : ResultFits(code.graph, D, cancelled, y, results'[y])
    BY <1>2, <1>3, <1>4, <2>1, <2>3
  <2>5. worker' = [worker EXCEPT ![w] = worker[w]]  BY <1>4, <2>1
  <2>6. targets' = targets  BY <1>1
  <2>. QED  BY <1>1, <1>2, <1>3, <2>2, <2>4, <2>5, <2>6, StepOfWorker DEF D
<1>6. CASE ~cancelled
  <2>. DEFINE v == [Idle EXCEPT !.pc = "link", !.exposure = x, !.entries = Entries[x],
                        !.links = [i \in DOMAIN Entries[x] |-> Link(Entries[x][i], TRUE)]]
  <2>1. worker' = [worker EXCEPT ![w] = v] /\ results' = results
    BY <1>6 DEF Take, Become, x
  <2>2. WorkerFits(code.graph, D, targets, cancelled, v)  BY <1>3, TakenFits
  <2>. HIDE DEF v
  <2>. QED  BY <1>1, <1>2, <1>3, <1>4, <2>1, <2>2, StepOfWorker DEF D
<1>. QED  BY <1>5, <1>6

LEMMA NextEntryKeeps ==
    ASSUME RunInv, NEW w \in Workers, NextEntry(w)
    PROVE  RunInv'
<1>. DEFINE D == ToSet(dependencies)
            v == worker[w]
            x == v.exposure
<1>1. /\ v.pc = "link" /\ v.links = <<>>
      /\ UNCHANGED <<code, phase, cancelled, dependencies, targets, jobs>>
  BY DEF NextEntry
<1>2. /\ phase = "connections" /\ ConnectingFits /\ IsGraph(code.graph)
      /\ WorkerFits(code.graph, D, targets, cancelled, v)
  BY <1>1, AtWork
<1>3. /\ TargetsFit(D, targets) /\ jobs \in Seq(Exposures)
      /\ \A y \in Exposures : ResultFits(code.graph, D, cancelled, y, results[y])
  BY <1>2 DEF ConnectingFits
<1>4. results = [y \in Exposures |-> results[y]] /\ DOMAIN results = Exposures  BY DEF RunInv
<1>. HIDE DEF D
<1>5. CASE v.entries = <<>> \/ cancelled
  <2>. DEFINE r == IF v.entries = <<>> THEN [linked |-> v.linked, truncated |-> v.truncated, crowded |-> v.crowded]
                   ELSE [linked |-> {}, truncated |-> FALSE, crowded |-> {}]
  <2>1. results' = [results EXCEPT ![x] = r] /\ worker' = [worker EXCEPT ![w] = Idle]
    BY <1>5 DEF NextEntry, Yield, Become, Idle
  <2>2. ResultFits(code.graph, D, cancelled, x, r)
    <3>1. CASE v.entries # <<>>
      BY <1>5, <3>1 DEF ResultFits, Sound
    <3>2. CASE v.entries = <<>>
      <4>1. r.linked = v.linked /\ r.truncated = v.truncated /\ r.crowded = v.crowded  BY <3>2
      <4>. HIDE DEF r
      <4>2. Sound(code.graph, D, x, v.linked)  BY <1>2 DEF WorkerFits
      <4>3. ASSUME TotalIsAmple, ~cancelled, ~v.truncated, NEW s \in MetIn(code.graph, D, x) \ v.crowded
            PROVE  Answered(D, v.linked, s)
        <5>1. PICK e \in ToSet(Entries[x]) : s \in Reachable(code.graph, Aims(D), e)
                                             /\ ClassOf[s] \notin OwnClasses(x)
          BY DEF MetIn
        <5>2. SeesTo(code.graph, D, v, e)  BY <1>2, <4>3 DEF WorkerFits
        <5>3. ToSet(v.entries) = {} /\ ToSet(v.links) = {}  BY <1>1, <3>2 DEF ToSet
        <5>. QED  BY <1>1, <5>1, <5>2, <5>3 DEF SeesTo
      <4>. QED  BY <4>1, <4>2, <4>3 DEF ResultFits
    <3>. QED  BY <3>1, <3>2
  <2>. HIDE DEF r
  <2>3. results' = [y \in Exposures |-> results'[y]]  BY <1>4, <2>1
  <2>4. x \in Exposures  BY <1>2 DEF WorkerFits
  <2>5. \A y \in Exposures : ResultFits(code.graph, D, cancelled, y, results'[y])
    BY <1>3, <1>4, <2>1, <2>2, <2>4
  <2>6. Idle.pc = "idle"  BY DEF Idle
  <2>7. targets' = targets /\ jobs' = jobs  BY <1>1
  <2>. QED  BY <1>1, <1>2, <1>3, <2>1, <2>3, <2>5, <2>6, <2>7, StepOfWorker DEF D
<1>6. CASE ~ (v.entries = <<>> \/ cancelled)
  <2>. DEFINE u == [v EXCEPT !.pc = "walk", !.entries = Tail(@), !.walk = StartWalk(Head(v.entries))]
  <2>1. Become(w, u) /\ results' = results
    BY <1>6 DEF NextEntry
  <2>2. WorkerFits(code.graph, D, targets, cancelled, u)
    BY <1>1, <1>2, <1>6, StartedFits
  <2>. HIDE DEF u
  <2>. QED  BY <1>1, <2>1, <2>2, OwnStep DEF D
<1>. QED  BY <1>5, <1>6

LEMMA WalkKeeps ==
    ASSUME RunInv, NEW w \in Workers, Walk(w)
    PROVE  RunInv'
<1>. DEFINE D == ToSet(dependencies)
            v == worker[w]
            next == WalkStep(code.graph, IsTarget, v.walk, cancelled)
            met == Foreign(v.exposure, next)
            u == Walking(v, next, met)
<1>1. /\ v.pc = "walk" /\ Become(w, u)
      /\ UNCHANGED <<code, phase, cancelled, dependencies, targets, jobs, results>>
  BY DEF Walk, Walking
<1>2. /\ ConnectingFits /\ IsGraph(code.graph) /\ cancelled \in BOOLEAN
      /\ WorkerFits(code.graph, D, targets, cancelled, v)
  BY <1>1, AtWork
<1>3. IsTarget = Aims(D)  BY <1>2, AimsAreTargets DEF ConnectingFits
<1>. HIDE DEF D
<1>4. WorkerFits(code.graph, D, targets, cancelled, u)
  <2>1. next = WalkStep(code.graph, Aims(D), v.walk, cancelled)  BY <1>3
  <2>2. met = Foreign(v.exposure, next)  OBVIOUS
  <2>. HIDE DEF next, met
  <2>. QED  BY <1>1, <1>2, <2>1, <2>2, WalkingFits
<1>. HIDE DEF u
<1>. QED  BY <1>1, <1>4, OwnStep DEF D

\* What a worker that has something to link knows of its first link.
LEMMA FirstLink ==
    ASSUME NEW g, NEW D, NEW lists, NEW stopped, NEW v, WorkerFits(g, D, lists, stopped, v), v.links # <<>>
    PROVE  /\ Head(v.links) = v.links[1] /\ v.links[1].symbol \in Symbols
           /\ DOMAIN v = WorkerFields
<1>1. v.links \in Seq(Links) /\ DOMAIN v = WorkerFields  BY DEF WorkerFits
<1>2. Head(v.links) \in Links /\ Head(v.links) = v.links[1]  BY <1>1, TailHas
<1>. QED  BY <1>1, <1>2 DEF Links

\* A worker that sorts is the same to all but its own place in the list.
LEMMA SortingFits ==
    ASSUME NEW g, NEW D, NEW lists, NEW stopped, NEW v, WorkerFits(g, D, lists, stopped, v), v.pc # "walk",
           NEW u, DOMAIN u = WorkerFields, u.pc \in {"sort", "copy", "store"},
           u.exposure = v.exposure, u.entries = v.entries, u.links = v.links, u.linked = v.linked,
           u.truncated = v.truncated, u.crowded = v.crowded, SortFits(D, lists, u)
    PROVE  WorkerFits(g, D, lists, stopped, u)
<1>1. \A e : SeesTo(g, D, v, e) => SeesTo(g, D, u, e)  BY DEF SeesTo
<1>. QED  BY <1>1 DEF WorkerFits

LEMMA LinkNextKeeps ==
    ASSUME RunInv, NEW w \in Workers, LinkNext(w)
    PROVE  RunInv'
<1>. DEFINE D == ToSet(dependencies)
            v == worker[w]
            l == Head(v.links)
<1>1. /\ v.pc = "link" /\ v.links # <<>>
      /\ UNCHANGED <<code, phase, cancelled, dependencies, targets, jobs, results>>
  BY DEF LinkNext
<1>2. /\ ConnectingFits /\ IsGraph(code.graph)
      /\ WorkerFits(code.graph, D, targets, cancelled, v)
  BY <1>1, AtWork
<1>3. l = v.links[1] /\ l.symbol \in Symbols /\ DOMAIN v = WorkerFields  BY <1>1, <1>2, FirstLink
<1>4. TargetsFit(D, targets)  BY <1>2 DEF ConnectingFits
<1>. HIDE DEF D
<1>5. /\ Chosen(l.symbol) \subseteq LookedUp(D, l.symbol)
      /\ LookedUp(D, l.symbol) # {} => Answered(D, {r.id : r \in Chosen(l.symbol)}, l.symbol)
      /\ NeedsSort(l.symbol) => Sortable(D, l.symbol)
  BY <1>3, <1>4, ChosenAnswers
<1>6. CASE NeedsSort(l.symbol)
  <2>. DEFINE u == [v EXCEPT !.pc = "sort", !.i = 2, !.j = 2]
  <2>1. Become(w, u)  BY <1>6 DEF LinkNext
  <2>2. /\ DOMAIN u = WorkerFields /\ u.pc = "sort" /\ u.i = 2 /\ u.j = 2
        /\ u.exposure = v.exposure /\ u.entries = v.entries /\ u.links = v.links /\ u.linked = v.linked
        /\ u.truncated = v.truncated /\ u.crowded = v.crowded
    BY <1>3 DEF WorkerFields
  <2>. HIDE DEF u
  <2>3. SortFits(D, targets, u)  BY <1>1, <1>3, <1>5, <1>6, <2>2 DEF SortFits
  <2>4. WorkerFits(code.graph, D, targets, cancelled, u)  BY <1>1, <1>2, <2>2, <2>3, SortingFits
  <2>. QED  BY <1>1, <2>1, <2>4, OwnStep DEF D
<1>7. CASE ~NeedsSort(l.symbol)
  <2>1. Become(w, Linked(v, l, Chosen(l.symbol)))  BY <1>7 DEF LinkNext
  <2>2. WorkerFits(code.graph, D, targets, cancelled, Linked(v, l, Chosen(l.symbol)))
    BY <1>1, <1>2, <1>5, LinkedFits
  <2>. QED  BY <1>1, <2>1, <2>2, OwnStep DEF D
<1>. QED  BY <1>6, <1>7

LEMMA CompareKeeps ==
    ASSUME RunInv, NEW w \in Workers, Compare(w)
    PROVE  RunInv'
<1>. DEFINE D == ToSet(dependencies)
            v == worker[w]
            l == Head(v.links)
            s == l.symbol
            list == targets[s]
<1>1. /\ v.pc = "sort"
      /\ UNCHANGED <<code, phase, cancelled, dependencies, targets, jobs, results>>
  BY DEF Compare
<1>2. /\ ConnectingFits /\ IsGraph(code.graph)
      /\ WorkerFits(code.graph, D, targets, cancelled, v)
  BY <1>1, AtWork
<1>3. SortFits(D, targets, v)  BY <1>1, <1>2 DEF WorkerFits
<1>4. l = v.links[1] /\ s \in Symbols /\ DOMAIN v = WorkerFields /\ v.links # <<>>
  <2>1. v.links # <<>>  BY <1>3 DEF SortFits
  <2>. QED  BY <1>2, <2>1, FirstLink
<1>5. /\ TargetsFit(D, targets) /\ Sortable(D, s)
      /\ v.i \in Nat /\ v.j \in Nat /\ 1 <= v.j /\ v.j <= v.i
  BY <1>2, <1>3, <1>4 DEF ConnectingFits, SortFits
<1>6. list \in Seq(D) /\ ToSet(list) \subseteq LookedUp(D, s) /\ (LookedUp(D, s) # {} => list # <<>>)
  BY <1>4, <1>5 DEF TargetsFit
<1>. HIDE DEF D
<1>7. CASE v.i > Len(list)
  <2>1. Become(w, Linked(v, l, {list[1]}))  BY <1>7 DEF Compare
  <2>2. list[1] \in LookedUp(D, s)
    <3>1. LookedUp(D, s) # {}  BY <1>5 DEF Sortable
    <3>2. 1 \in DOMAIN list  BY <1>6, <3>1
    <3>. QED  BY <1>6, <3>2 DEF ToSet
  <2>3. Answered(D, {r.id : r \in {list[1]}}, s)  BY <1>5, <2>2 DEF Answered, Sortable
  <2>4. WorkerFits(code.graph, D, targets, cancelled, Linked(v, l, {list[1]}))
    BY <1>1, <1>2, <1>4, <2>2, <2>3, LinkedFits
  <2>. QED  BY <1>1, <2>1, <2>4, OwnStep DEF D
<1>8. ASSUME ~ v.i > Len(list), NEW u, Become(w, u),
             u = IF v.j > 1 /\ Before(list[v.j], list[v.j - 1])
                 THEN [v EXCEPT !.pc = "copy", !.held = list[v.j]]
                 ELSE [v EXCEPT !.i = @ + 1, !.j = v.i + 1]
      PROVE  RunInv'
  <2>0. Len(list) \in Nat /\ DOMAIN list = 1..Len(list) /\ v.i <= Len(list)
    <3>. DEFINE i == v.i
    <3>1. list \in Seq(D) /\ i \in Nat /\ ~ i > Len(list)  BY <1>5, <1>6, <1>8
    <3>. HIDE DEF list, i
    <3>2. Len(list) \in Nat /\ DOMAIN list = 1..Len(list)  BY <3>1
    <3>3. i <= Len(list)  BY <3>1, <3>2
    <3>. QED  BY <3>2, <3>3 DEF i
  <2>1. CASE v.j > 1 /\ Before(list[v.j], list[v.j - 1])
    <3>1. u = [v EXCEPT !.pc = "copy", !.held = list[v.j]]  BY <1>8, <2>1
    <3>2. /\ DOMAIN u = WorkerFields /\ u.pc = "copy" /\ u.i = v.i /\ u.j = v.j /\ u.held = list[v.j]
          /\ u.exposure = v.exposure /\ u.entries = v.entries /\ u.links = v.links /\ u.linked = v.linked
          /\ u.truncated = v.truncated /\ u.crowded = v.crowded
      BY <1>4, <3>1 DEF WorkerFields
    <3>3. v.j \in DOMAIN list /\ v.j # 1
      <4>. DEFINE i == v.i
                  j == v.j
                  n == Len(list)
      <4>1. i \in Nat /\ j \in Nat /\ j <= i /\ j > 1 /\ n \in Nat /\ i <= n  BY <1>5, <2>0, <2>1
      <4>2. DOMAIN list = 1..n  BY <2>0
      <4>. HIDE DEF i, j, n
      <4>3. j \in 1..n /\ j # 1  BY <4>1
      <4>. QED  BY <4>2, <4>3 DEF j
    <3>4. list[v.j] \in LookedUp(D, s)  BY <1>6, <3>3 DEF ToSet
    <3>5. SortFits(D, targets, u)  BY <1>4, <1>5, <2>0, <3>2, <3>3, <3>4 DEF SortFits
    <3>6. WorkerFits(code.graph, D, targets, cancelled, u)  BY <1>1, <1>2, <3>2, <3>5, SortingFits
    <3>. QED  BY <1>1, <1>8, <3>6, OwnStep DEF D
  <2>2. CASE ~ (v.j > 1 /\ Before(list[v.j], list[v.j - 1]))
    <3>1. u = [v EXCEPT !.i = v.i + 1, !.j = v.i + 1]  BY <1>8, <2>2
    <3>2. /\ DOMAIN u = WorkerFields /\ u.pc = "sort" /\ u.i = v.i + 1 /\ u.j = v.i + 1
          /\ u.exposure = v.exposure /\ u.entries = v.entries /\ u.links = v.links /\ u.linked = v.linked
          /\ u.truncated = v.truncated /\ u.crowded = v.crowded
      BY <1>1, <1>4, <3>1 DEF WorkerFields
    <3>3. u.i \in Nat /\ u.j \in Nat /\ 1 <= u.j /\ u.j <= u.i  BY <1>5, <3>2
    <3>4. SortFits(D, targets, u)  BY <1>4, <1>5, <3>2, <3>3 DEF SortFits
    <3>5. WorkerFits(code.graph, D, targets, cancelled, u)  BY <1>1, <1>2, <3>2, <3>4, SortingFits
    <3>. QED  BY <1>1, <1>8, <3>5, OwnStep DEF D
  <2>. QED  BY <2>1, <2>2
<1>9. CASE ~ v.i > Len(list)
  <2>. DEFINE u == IF v.j > 1 /\ Before(list[v.j], list[v.j - 1])
                   THEN [v EXCEPT !.pc = "copy", !.held = list[v.j]]
                   ELSE [v EXCEPT !.i = @ + 1, !.j = v.i + 1]
  <2>1. Become(w, u)  BY <1>9 DEF Compare
  <2>. QED  BY <1>8, <1>9, <2>1
<1>. QED  BY <1>7, <1>9

\* One row is copied or stored.
LEMMA MoveKeeps ==
    ASSUME RunInv, NEW w \in Workers, worker[w].pc \in {"copy", "store"},
           NEW s, s = Head(worker[w].links).symbol,
           NEW k \in 1..Len(targets[s]), NEW r \in LookedUp(ToSet(dependencies), s),
           targets' = [targets EXCEPT ![s][k] = r],
           UNCHANGED <<code, phase, cancelled, dependencies, jobs, results>>,
           NEW u, Become(w, u), DOMAIN u = WorkerFields, u.pc \in {"sort", "store"},
           u.exposure = worker[w].exposure, u.entries = worker[w].entries, u.links = worker[w].links,
           u.linked = worker[w].linked, u.truncated = worker[w].truncated,
           u.crowded = worker[w].crowded,
           SortFits(ToSet(dependencies), targets, u)
    PROVE  RunInv'
<1>. DEFINE D == ToSet(dependencies)
            v == worker[w]
<1>1. /\ phase = "connections" /\ ConnectingFits
      /\ WorkerFits(code.graph, D, targets, cancelled, v)
  BY AtWork
<1>2. SortFits(D, targets, v)  BY <1>1 DEF WorkerFits
<1>3. s \in Symbols /\ Sortable(D, s)
  <2>1. v.links # <<>> /\ Sortable(D, v.links[1].symbol)  BY <1>2 DEF SortFits
  <2>. QED  BY <1>1, <2>1, FirstLink
<1>4. /\ TargetsFit(D, targets) /\ jobs \in Seq(Exposures)
      /\ \A x \in Exposures : ResultFits(code.graph, D, cancelled, x, results[x])
  BY <1>1 DEF ConnectingFits
<1>. DEFINE later == [targets EXCEPT ![s][k] = r]
<1>a. r \in LookedUp(D, s) /\ k \in 1..Len(targets[s])  OBVIOUS
<1>b. WorkerFits(code.graph, D, targets, cancelled, u)  BY <1>1, SortingFits
<1>c. targets' = later  OBVIOUS
<1>. HIDE DEF D
<1>5a. TargetsFit(D, later) /\ \A t \in Symbols : Len(later[t]) = Len(targets[t])
  <2>1. later = Put(s, k, r)  BY DEF Put
  <2>. HIDE DEF later
  <2>2. TargetsFit(D, targets)  BY <1>4
  <2>3. s \in Symbols  BY <1>3
  <2>4. Sortable(D, s)  BY <1>3
  <2>5. k \in 1..Len(targets[s])  OBVIOUS
  <2>6. r \in LookedUp(D, s)  BY <1>a
  <2>. QED  BY <2>1, <2>2, <2>3, <2>4, <2>5, <2>6, SwappedFit
<1>. HIDE DEF later
<1>7a. WorkerFits(code.graph, D, later, cancelled, u)  BY <1>5a, <1>b, OthersStay
<1>5. TargetsFit(D, targets') /\ \A t \in Symbols : Len(targets'[t]) = Len(targets[t])  BY <1>5a, <1>c
<1>7. WorkerFits(code.graph, D, targets', cancelled, u)  BY <1>7a, <1>c
<1>8. results' = [x \in Exposures |-> results'[x]]  BY DEF RunInv
<1>. QED  BY <1>1, <1>4, <1>5, <1>7, <1>8, StepOfWorker DEF Become, D

LEMMA CopyKeeps ==
    ASSUME RunInv, NEW w \in Workers, Copy(w)
    PROVE  RunInv'
<1>. DEFINE D == ToSet(dependencies)
            v == worker[w]
            s == Head(v.links).symbol
            u == [v EXCEPT !.pc = "store"]
<1>1. /\ v.pc = "copy" /\ targets' = [targets EXCEPT ![s][v.j] = targets[s][v.j - 1]] /\ Become(w, u)
      /\ UNCHANGED <<code, phase, cancelled, dependencies, jobs, results>>
  BY DEF Copy
<1>2. ConnectingFits /\ WorkerFits(code.graph, D, targets, cancelled, v)  BY <1>1, AtWork
<1>3. SortFits(D, targets, v)  BY <1>1, <1>2 DEF WorkerFits
<1>4. Head(v.links) = v.links[1] /\ s \in Symbols /\ DOMAIN v = WorkerFields
  <2>1. v.links # <<>>  BY <1>3 DEF SortFits
  <2>. QED  BY <1>2, <2>1, FirstLink
<1>5. /\ targets[s] \in Seq(D) /\ ToSet(targets[s]) \subseteq LookedUp(D, s)
      /\ v.i \in Nat /\ v.j \in Nat /\ 1 <= v.j /\ v.j <= v.i /\ v.j # 1 /\ v.i <= Len(targets[s])
  BY <1>1, <1>2, <1>3, <1>4 DEF ConnectingFits, TargetsFit, SortFits
<1>6. v.j \in 1..Len(targets[s]) /\ v.j - 1 \in DOMAIN targets[s]  BY <1>5
<1>7. targets[s][v.j - 1] \in LookedUp(D, s)  BY <1>5, <1>6 DEF ToSet
<1>8. /\ DOMAIN u = WorkerFields /\ u.pc = "store" /\ u.i = v.i /\ u.j = v.j /\ u.held = v.held
      /\ u.exposure = v.exposure /\ u.entries = v.entries /\ u.links = v.links /\ u.linked = v.linked
      /\ u.truncated = v.truncated /\ u.crowded = v.crowded
  BY <1>4 DEF WorkerFields
<1>. HIDE DEF u
<1>9. SortFits(D, targets, u)  BY <1>1, <1>3, <1>8 DEF SortFits
<1>. QED  BY <1>1, <1>6, <1>7, <1>8, <1>9, MoveKeeps

LEMMA StoreKeeps ==
    ASSUME RunInv, NEW w \in Workers, Store(w)
    PROVE  RunInv'
<1>. DEFINE D == ToSet(dependencies)
            v == worker[w]
            s == Head(v.links).symbol
            u == [v EXCEPT !.pc = "sort", !.j = v.j - 1, !.held = None]
<1>1. /\ v.pc = "store" /\ targets' = [targets EXCEPT ![s][v.j - 1] = v.held] /\ Become(w, u)
      /\ UNCHANGED <<code, phase, cancelled, dependencies, jobs, results>>
  BY DEF Store
<1>2. ConnectingFits /\ WorkerFits(code.graph, D, targets, cancelled, v)  BY <1>1, AtWork
<1>3. SortFits(D, targets, v)  BY <1>1, <1>2 DEF WorkerFits
<1>4. Head(v.links) = v.links[1] /\ s \in Symbols /\ DOMAIN v = WorkerFields
  <2>1. v.links # <<>>  BY <1>3 DEF SortFits
  <2>. QED  BY <1>2, <2>1, FirstLink
<1>5. /\ targets[s] \in Seq(D)
      /\ v.i \in Nat /\ v.j \in Nat /\ 1 <= v.j /\ v.j <= v.i /\ v.j # 1 /\ v.i <= Len(targets[s])
      /\ v.held \in LookedUp(D, s)
  BY <1>1, <1>2, <1>3, <1>4 DEF ConnectingFits, TargetsFit, SortFits
<1>6. v.j - 1 \in 1..Len(targets[s]) /\ v.j - 1 \in Nat /\ 1 <= v.j - 1 /\ v.j - 1 <= v.i
  <2>. DEFINE i == v.i
              j == v.j
              list == targets[s]
              n == Len(list)
  <2>1. n \in Nat
    <3>1. list \in Seq(D)  BY <1>5
    <3>. HIDE DEF list
    <3>. QED  BY <3>1
  <2>2. i \in Nat /\ j \in Nat /\ 1 <= j /\ j <= i /\ j # 1 /\ i <= n  BY <1>5
  <2>. HIDE DEF i, j, n
  <2>3. j - 1 \in 1..n /\ j - 1 \in Nat /\ 1 <= j - 1 /\ j - 1 <= i  BY <2>1, <2>2
  <2>. QED  BY <2>3 DEF i, j, n
<1>7. /\ DOMAIN u = WorkerFields /\ u.pc = "sort" /\ u.i = v.i /\ u.j = v.j - 1
      /\ u.exposure = v.exposure /\ u.entries = v.entries /\ u.links = v.links /\ u.linked = v.linked
      /\ u.truncated = v.truncated /\ u.crowded = v.crowded
  BY <1>4 DEF WorkerFields
<1>. HIDE DEF u
<1>8. SortFits(D, targets, u)  BY <1>3, <1>5, <1>6, <1>7 DEF SortFits
<1>. QED  BY <1>1, <1>5, <1>6, <1>7, <1>8, MoveKeeps

-----------------------------------------------------------------------------
(***************************************************************************)
(* The invariant, and what it is for.                                      *)
(***************************************************************************)
LEMMA NextKeeps ==
    ASSUME RunInv, [Next]_vars
    PROVE  RunInv'
<1>1. CASE Cancel  BY <1>1, CancelKeeps
<1>2. CASE Stage
  <2>1. CASE Discover  BY <2>1, DiscoverKeeps
  <2>2. CASE Derive  BY <2>2, DeriveKeeps
  <2>3. CASE IndexFails \/ BuildIndex \/ Collect \/ Reconcile \/ WriteManifest \/ WriteArtifacts
    BY <2>3, OtherStagesKeep
  <2>. QED  BY <1>2, <2>1, <2>2, <2>3 DEF Stage
<1>3. ASSUME NEW w \in Workers, WorkerStep(w)  PROVE RunInv'
  <2>1. CASE Take(w)  BY <2>1, TakeKeeps
  <2>2. CASE NextEntry(w)  BY <2>2, NextEntryKeeps
  <2>3. CASE Walk(w)  BY <2>3, WalkKeeps
  <2>4. CASE LinkNext(w)  BY <2>4, LinkNextKeeps
  <2>5. CASE Compare(w)  BY <2>5, CompareKeeps
  <2>6. CASE Copy(w)  BY <2>6, CopyKeeps
  <2>7. CASE Store(w)  BY <2>7, StoreKeeps
  <2>. QED  BY <1>3, <2>1, <2>2, <2>3, <2>4, <2>5, <2>6, <2>7 DEF WorkerStep
<1>4. CASE UNCHANGED vars
  <2>1. UNCHANGED <<code, phase, cancelled, dependencies, targets, jobs, worker, results>>
    BY <1>4 DEF vars, connecting
  <2>2. ToSet(dependencies)' = ToSet(dependencies) /\ Keyed(dependencies)' = Keyed(dependencies)
    BY <2>1 DEF ToSet, Keyed
  <2>3. ConnectingFits' <=> ConnectingFits  BY <2>1, <2>2 DEF ConnectingFits
  <2>4. WorkersFit' <=> WorkersFit  BY <2>1, <2>2 DEF WorkersFit
  <2>. QED  BY <2>1, <2>2, <2>3, <2>4 DEF RunInv
<1>. QED  BY <1>1, <1>2, <1>3, <1>4 DEF Next

\* While workers connect, whatever rows they swap under each other, no list
\* they share takes in a row of another symbol, and none is empty whose symbol
\* a row is looked up at; and what each of them has linked, is about to link
\* and has still to walk accounts for all its exposure leads to by calls that
\* are no noise, but for symbols whose paths noise used up
\* (src/internal/extractor/stage/connections/engine.go).
THEOREM RunInvariance == Spec => []RunInv
<1>1. Init => RunInv  BY InitFits
<1>2. RunInv /\ [Next]_vars => RunInv'  BY NextKeeps
<1>. QED  BY <1>1, <1>2, PTL DEF Spec

\* Of the row an id stands for there is one only.
LEMMA RowOfId ==
    ASSUME Keyed(dependencies), NEW r \in ToSet(dependencies)
    PROVE  Row(r.id) = r
<1>1. \A q \in ToSet(dependencies) : q.id = r.id => q = r  BY KeyedRows
<1>. QED  BY <1>1 DEF Row

LEMMA MetIsMetIn ==
    ASSUME TargetsFit(ToSet(dependencies), targets), NEW x
    PROVE  Met(x) = MetIn(code.graph, ToSet(dependencies), x)
<1>. DEFINE D == ToSet(dependencies)
<1>1. IsTarget = Aims(D)  BY AimsAreTargets
<1>2. \A s : ClassOf[s] \notin OwnClasses(x)
            <=> ClassOf[s] \notin Housed[x] /\ \A e \in ToSet(Entries[x]) : ClassOf[s] # ClassOf[e]
  BY DEF OwnClasses
<1>. QED  BY <1>1, <1>2 DEF Met, MetIn

\* What Answered asks is what is owed.
LEMMA AnsweredIsOwed ==
    ASSUME NEW s, NEW linked, Answered(ToSet(dependencies), linked, s)
    PROVE  IF \E r \in RowsAt(s) : ~r.narrow
           THEN \E r \in RowsAt(s) : r.id \in linked
           ELSE \A r \in Owed(s) : r.id \in linked
<1>1. RowsAt(s) = LookedUp(ToSet(dependencies), s)  BY DEF RowsAt, LookedUp
<1>. DEFINE rows == LookedUp(ToSet(dependencies), s)
            exact == {r \in rows : s \in r.exact}
<1>2. CASE \E r \in rows : ~r.narrow  BY <1>1, <1>2 DEF Answered
<1>3. CASE \A r \in rows : r.narrow
  <2>1. Owed(s) = IF exact # {} THEN exact ELSE rows  BY <1>1, <1>3 DEF Owed
  <2>2. \A r \in rows : ((\E q \in rows : s \in q.exact) => s \in r.exact) => r.id \in linked
    BY <1>3 DEF Answered
  <2>3. \A r \in Owed(s) : r.id \in linked  BY <2>1, <2>2
  <2>. QED  BY <1>1, <1>3, <2>3
<1>. QED  BY <1>2, <1>3

LEMMA LinksAreSound ==
    ASSUME RunInv, NEW x \in Linking, NEW d \in results[x].linked
    PROVE  \/ \E e \in ToSet(Entries[x]) : e \in Row(d).at /\ e \in Row(d).inside
           \/ Row(d).at \cap Met(x) # {}
<1>. DEFINE D == ToSet(dependencies)
<1>1. x \in Exposures /\ results[x] # None /\ phase = "reconcile"  BY DEF Linking
<1>2. ConnectingFits  BY <1>1 DEF RunInv
<1>3. Keyed(dependencies) /\ TargetsFit(D, targets) /\ Sound(code.graph, D, x, results[x].linked)
  BY <1>1, <1>2 DEF ConnectingFits, ResultFits
<1>4. PICK r \in D :
        /\ r.id = d
        /\ (\E e \in ToSet(Entries[x]) : e \in r.at /\ e \in r.inside)
              \/ r.at \cap MetIn(code.graph, D, x) # {}
  BY <1>3 DEF Sound
<1>5. Row(d) = r  BY <1>3, <1>4, RowOfId
<1>6. Met(x) = MetIn(code.graph, D, x)  BY <1>3, MetIsMetIn
<1>. QED  BY <1>4, <1>5, <1>6

LEMMA LinksAreAll ==
    ASSUME RunInv, TotalIsAmple, NEW x \in Linking, ~cancelled, ~results[x].truncated, NEW s \in Met(x) \ results[x].crowded
    PROVE  IF \E r \in RowsAt(s) : ~r.narrow
           THEN \E r \in RowsAt(s) : r.id \in results[x].linked
           ELSE \A r \in Owed(s) : r.id \in results[x].linked
<1>. DEFINE D == ToSet(dependencies)
<1>1. x \in Exposures /\ results[x] # None /\ phase = "reconcile"  BY DEF Linking
<1>2. ConnectingFits  BY <1>1 DEF RunInv
<1>3. TargetsFit(D, targets) /\ ResultFits(code.graph, D, cancelled, x, results[x])
  BY <1>1, <1>2 DEF ConnectingFits
<1>4. Met(x) = MetIn(code.graph, D, x)  BY <1>3, MetIsMetIn
<1>5. Answered(D, results[x].linked, s)  BY <1>1, <1>3, <1>4 DEF ResultFits
<1>. QED  BY <1>5, AnsweredIsOwed

\* No exposure is connected with what its code does not reach, whatever the
\* limits of the walk: each link leads to a dependency that is called in an
\* entry, or looked up at a symbol that calls lead to, none of them in a test
\* or of a name that says little, and outside the classes of the entries and
\* those at the exposure's own place (connectionsForExposure, engine.go).
THEOREM NoLinkIsInvented ==
    Spec => [](\A x \in Linking : \A d \in results[x].linked :
                  \/ \E e \in ToSet(Entries[x]) : e \in Row(d).at /\ e \in Row(d).inside
                  \/ Row(d).at \cap Met(x) # {})
<1>1. RunInv => \A x \in Linking : \A d \in results[x].linked :
                  \/ \E e \in ToSet(Entries[x]) : e \in Row(d).at /\ e \in Row(d).inside
                  \/ Row(d).at \cap Met(x) # {}
  BY LinksAreSound
<1>. QED  BY <1>1, RunInvariance, PTL

\* What an exposure is connected with is what its code reaches, no more and,
\* of a walk that was neither cancelled nor says it was cut, no less but for
\* symbols whose paths noise used up; if the limit on all paths leaves each
\* symbol its own (engine.go, target_policy.go, walker.go).
THEOREM ConnectionsTellTheCalls == TotalIsAmple => (Spec => []ConnectionsAreReachable)
<1>. SUFFICES ASSUME TotalIsAmple  PROVE Spec => []ConnectionsAreReachable  OBVIOUS
<1>1. RunInv => ConnectionsAreReachable
  <2>. SUFFICES ASSUME RunInv, NEW x \in Linking
                PROVE  /\ \A d \in results[x].linked :
                             \/ \E e \in ToSet(Entries[x]) : e \in Row(d).at /\ e \in Row(d).inside
                             \/ Row(d).at \cap Met(x) # {}
                       /\ cancelled \/ results[x].truncated \/
                          \A s \in Met(x) \ results[x].crowded :
                             IF \E r \in RowsAt(s) : ~r.narrow
                             THEN \E r \in RowsAt(s) : r.id \in results[x].linked
                             ELSE \A r \in Owed(s) : r.id \in results[x].linked
    BY DEF ConnectionsAreReachable
  <2>1. \A d \in results[x].linked :
           \/ \E e \in ToSet(Entries[x]) : e \in Row(d).at /\ e \in Row(d).inside
           \/ Row(d).at \cap Met(x) # {}
    BY LinksAreSound
  <2>. QED  BY <2>1, LinksAreAll
<1>. QED  BY <1>1, RunInvariance, PTL

-----------------------------------------------------------------------------
(***************************************************************************)
(* What merging makes of the rows of a fact.                               *)
(***************************************************************************)
\* Of the first k rows, the m-th is the first of the greatest confidence.
Best(rows, m, k) ==
    \A i \in 1..k :
        /\ rows[i].confidence <= rows[m].confidence
        /\ rows[i].confidence = rows[m].confidence => m <= i

LEMMA BestOfMore ==
    ASSUME NEW rows, NEW n \in Nat, \A i \in 1..n : IsRow(rows[i]),
           NEW k \in 1..n, k < n, NEW m \in 1..k, Best(rows, m, k)
    PROVE  IF rows[k + 1].confidence > rows[m].confidence
           THEN Best(rows, k + 1, k + 1) ELSE Best(rows, m, k + 1)
<1>. DEFINE c(i) == rows[i].confidence
<1>1. \A i \in 1..n : c(i) \in Int  BY DEF IsRow
<1>2. \A i \in 1..k : c(i) <= c(m) /\ (c(i) = c(m) => m <= i)  BY DEF Best
<1>3. k \in Nat /\ k + 1 \in 1..n /\ m \in 1..n /\ \A i \in 1..(k + 1) : i \in 1..k \/ i = k + 1  OBVIOUS
<1>4. 1..k \subseteq 1..n  OBVIOUS
<1>. HIDE DEF c
<1>5. CASE c(k + 1) > c(m)
  <2>1. \A i \in 1..(k + 1) : c(i) <= c(k + 1) /\ (c(i) = c(k + 1) => k + 1 <= i)
    <3>. SUFFICES ASSUME NEW i \in 1..(k + 1)
                  PROVE  c(i) <= c(k + 1) /\ (c(i) = c(k + 1) => k + 1 <= i)
      OBVIOUS
    <3>1. CASE i = k + 1  BY <1>1, <1>3, <3>1
    <3>2. CASE i \in 1..k  BY <1>1, <1>2, <1>3, <1>4, <1>5, <3>2
    <3>. QED  BY <1>3, <3>1, <3>2
  <2>. QED  BY <1>5, <2>1 DEF Best, c
<1>6. CASE ~ c(k + 1) > c(m)
  <2>1. \A i \in 1..(k + 1) : c(i) <= c(m) /\ (c(i) = c(m) => m <= i)
    <3>. SUFFICES ASSUME NEW i \in 1..(k + 1)
                  PROVE  c(i) <= c(m) /\ (c(i) = c(m) => m <= i)
      OBVIOUS
    <3>1. CASE i = k + 1  BY <1>1, <1>3, <1>6, <3>1
    <3>2. CASE i \in 1..k  BY <1>2, <3>2
    <3>. QED  BY <1>3, <3>1, <3>2
  <2>. QED  BY <1>6, <2>1 DEF Best, c
<1>. QED  BY <1>5, <1>6

LEMMA ChosenOfTwo ==
    ASSUME NEW r, NEW s, NEW q, IsRow(q), IsRow(s), Like(r, q)
    PROVE  /\ IF s.confidence > q.confidence THEN Like(Choose(r, s), s) ELSE Like(Choose(r, s), q)
           /\ Choose(r, s).store \in {r.store, s.store}
<1>1. DOMAIN r = RowFields /\ DOMAIN s = RowFields /\ r.confidence = q.confidence
  BY DEF Like, IsRow, RowFields
<1>2. \A t, u : DOMAIN t = RowFields => Like(Completed(t, u), t)
  BY DEF Completed, Like, RowFields
<1>3. \A t, u : DOMAIN t = RowFields => Completed(t, u).store \in {t.store, u.store}
  BY DEF Completed, RowFields
<1>4. CASE s.confidence > q.confidence
  <2>1. Choose(r, s) = Completed(s, r)  BY <1>1, <1>4 DEF Choose
  <2>. QED  BY <1>1, <1>2, <1>3, <1>4, <2>1
<1>5. CASE ~ s.confidence > q.confidence
  <2>1. Choose(r, s) = Completed(r, s)  BY <1>1, <1>5 DEF Choose
  <2>2. Like(Completed(r, s), r)  BY <1>1, <1>2
  <2>3. Like(Completed(r, s), q)  BY <2>2 DEF Like
  <2>. QED  BY <1>1, <1>3, <1>5, <2>1, <2>3
<1>. QED  BY <1>4, <1>5

\* Merging rows keeps the first of those that are most confident, but for its
\* store, which one of them was told.
LEMMA ReducedIsTheBest ==
    ASSUME NEW S, NEW rows \in Seq(S), rows # <<>>, \A r \in ToSet(rows) : IsRow(r)
    PROVE  /\ \E m \in DOMAIN rows : Best(rows, m, Len(rows)) /\ Like(Reduce(rows), rows[m])
           /\ \E q \in ToSet(rows) : Reduce(rows).store = q.store
<1>1. PICK kept : Reduces(kept, rows) /\ Reduce(rows) = kept[Len(rows)]  BY ReduceIsAChain
<1>2. /\ Len(rows) \in Nat \ {0} /\ DOMAIN rows = 1..Len(rows)
      /\ \A i \in 1..Len(rows) : rows[i] \in ToSet(rows) /\ IsRow(rows[i])
  BY DEF ToSet
<1>. DEFINE n == Len(rows) - 1
            Good(k) == /\ \E m \in 1..k : Best(rows, m, k) /\ Like(kept[k], rows[m])
                       /\ \E q \in ToSet(rows) : kept[k].store = q.store
            T == {i \in 0..n : Good(i + 1)}
<1>3. n \in Nat /\ n + 1 = Len(rows) /\ Len(rows) \in Nat  BY <1>2
<1>4. 0 \in T
  <2>1. kept[1] = rows[1] /\ rows[1] \in ToSet(rows) /\ IsRow(rows[1]) /\ 0 \in 0..n /\ 0 + 1 = 1
    BY <1>1, <1>2, <1>3 DEF Reduces
  <2>2. Like(rows[1], rows[1])  BY <2>1 DEF Like, IsRow
  <2>3. Best(rows, 1, 1)
    <3>. DEFINE c == rows[1].confidence
    <3>1. c \in 0..100 /\ \A i \in 1..1 : i = 1  BY <2>1 DEF IsRow
    <3>. HIDE DEF c
    <3>2. c <= c  BY <3>1
    <3>3. \A i \in 1..1 : rows[i].confidence <= c /\ (rows[i].confidence = c => 1 <= i)
      BY <3>1, <3>2 DEF c
    <3>. QED  BY <3>3 DEF Best, c
  <2>4. Good(1)  BY <2>1, <2>2, <2>3
  <2>. QED  BY <2>1, <2>4
<1>5. ASSUME NEW i \in T, i < n  PROVE i + 1 \in T
  <2>. DEFINE k == i + 1
  <2>1. /\ k \in 0..n /\ k \in 1..Len(rows) /\ k < Len(rows) /\ k + 1 \in 1..Len(rows) /\ k \in 1..k /\ k \in Nat
    BY <1>3, <1>5
  <2>2. PICK m \in 1..k : Best(rows, m, k) /\ Like(kept[k], rows[m])  OBVIOUS
  <2>3. PICK q \in ToSet(rows) : kept[k].store = q.store  OBVIOUS
  <2>4. kept[k + 1] = Choose(kept[k], rows[k + 1])  BY <1>1, <2>1 DEF Reduces
  <2>. HIDE DEF k
  <2>5. m \in 1..Len(rows) /\ m \in 1..(k + 1) /\ k + 1 \in 1..(k + 1)  BY <1>3, <2>1
  <2>6. IsRow(rows[m]) /\ IsRow(rows[k + 1]) /\ rows[k + 1] \in ToSet(rows)  BY <1>2, <2>1, <2>5
  <2>7. /\ IF rows[k + 1].confidence > rows[m].confidence
           THEN Like(kept[k + 1], rows[k + 1]) ELSE Like(kept[k + 1], rows[m])
        /\ kept[k + 1].store \in {kept[k].store, rows[k + 1].store}
    BY <2>2, <2>4, <2>6, ChosenOfTwo, ZenonT(60)
  <2>8. IF rows[k + 1].confidence > rows[m].confidence
        THEN Best(rows, k + 1, k + 1) ELSE Best(rows, m, k + 1)
    BY <1>2, <1>3, <2>1, <2>2, BestOfMore
  <2>9. Good(k + 1)  BY <2>3, <2>5, <2>6, <2>7, <2>8
  <2>. QED  BY <2>1, <2>9 DEF k
<1>6. n \in T
  <2>. HIDE DEF T
  <2>1. T \in SUBSET (0..n)  BY DEF T
  <2>2. T = 0..n  BY <1>3, <1>4, <1>5, <2>1, SoOfAll
  <2>. QED  BY <1>3, <2>2
<1>7. Good(Len(rows))  BY <1>3, <1>6
<1>. QED  BY <1>1, <1>2, <1>7
-----------------------------------------------------------------------------
(***************************************************************************)
(* What a merge keeps.                                                     *)
(***************************************************************************)
LEMMA SchemasAreFinite ==
    ASSUME NEW rows, Keyed(rows), NEW fact
    PROVE  IsFiniteSet(Schemas(rows, fact))
<1>. DEFINE S == {x \in ToSet(rows) : x.fact = fact}
            T == {r.schema : r \in S}
            f == [r \in S |-> r.schema]
<1>1. IsFiniteSet(S)  BY KeyedRows, FS_Subset
<1>2. f \in Surjection(S, T)  BY DEF Surjection
<1>3. IsFiniteSet(T)  BY <1>1, <1>2, FS_Surjection
<1>. QED  BY <1>3, FS_Subset DEF Schemas

LEMMA OnlySchema ==
    ASSUME NEW rows, Keyed(rows), NEW fact
    PROVE  Cardinality(Schemas(rows, fact)) = 1 <=> \E s : Schemas(rows, fact) = {s}
  BY SchemasAreFinite, FS_Singleton

\* Rows that differ at most in their schema.
Namesakes(r, u) == DOMAIN r = RowFields /\ \A f \in RowFields \ {"schema"} : r[f] = u[f]

LEMMA NamesakeRows ==
    ASSUME NEW r, NEW u, IsRow(u), Namesakes(r, u)
    PROVE  IsRow(r) /\ r.id = u.id /\ r.fact = u.fact /\ r.platform = u.platform
           /\ r.confidence = u.confidence /\ r.store = u.store
  BY DEF Namesakes, IsRow, RowFields

\* What becomes of a row when the schemas of names without one are filled in.
QualifiedAs(rows, u, r) ==
    /\ Namesakes(r, u)
    /\ IF u.schema = "" /\ Cardinality(Schemas(rows, u.fact)) = 1
       THEN r.schema \in Schemas(rows, u.fact) ELSE r = u

LEMMA QualifiedRows ==
    ASSUME NEW rows, Keyed(rows)
    PROVE  /\ \A r \in ToSet(Qualified(rows)) : \E u \in ToSet(rows) : QualifiedAs(rows, u, r)
           /\ \A u \in ToSet(rows) : \E r \in ToSet(Qualified(rows)) : QualifiedAs(rows, u, r)
<1>. DEFINE q == Qualified(rows)
<1>1. ASSUME NEW i \in DOMAIN rows
      PROVE  QualifiedAs(rows, rows[i], q[i])
  <2>. DEFINE u == rows[i]
              S == Schemas(rows, u.fact)
              s == CHOOSE x \in S : TRUE
  <2>1. IsRow(u)  BY KeyedRows
  <2>2. q[i] = IF u.schema = "" /\ Cardinality(S) = 1 THEN [u EXCEPT !.schema = s] ELSE u
    BY DEF Qualified
  <2>3. CASE u.schema = "" /\ Cardinality(S) = 1
    <3>0. \E x : S = {x}  BY <2>3, OnlySchema
    <3>1. s \in S  BY <3>0
    <3>. HIDE DEF s
    <3>2. q[i] = [u EXCEPT !.schema = s]  BY <2>2, <2>3
    <3>3. Namesakes(q[i], u) /\ q[i].schema = s
      <4>. HIDE DEF u, q, S
      <4>. QED  BY <2>1, <3>2 DEF Namesakes, IsRow, RowFields
    <3>. QED  BY <2>3, <3>1, <3>3 DEF QualifiedAs
  <2>4. CASE ~ (u.schema = "" /\ Cardinality(S) = 1)
    <3>1. q[i] = u  BY <2>2, <2>4
    <3>2. Namesakes(u, u)  BY <2>1 DEF Namesakes, IsRow
    <3>. QED  BY <2>4, <3>1, <3>2 DEF QualifiedAs
  <2>. QED  BY <2>3, <2>4
<1>2. DOMAIN q = DOMAIN rows  BY DEF Qualified
<1>. HIDE DEF q
<1>3. ToSet(q) = {q[i] : i \in DOMAIN rows} /\ ToSet(rows) = {rows[i] : i \in DOMAIN rows}
  BY <1>2 DEF ToSet
<1>4. \A r \in ToSet(q) : \E u \in ToSet(rows) : QualifiedAs(rows, u, r)  BY <1>1, <1>3
<1>5. \A u \in ToSet(rows) : \E r \in ToSet(q) : QualifiedAs(rows, u, r)  BY <1>1, <1>3
<1>. QED  BY <1>4, <1>5 DEF q

LEMMA QualifiedSchemas ==
    ASSUME NEW rows, Keyed(rows), NEW fact
    PROVE  Schemas(Qualified(rows), fact) = Schemas(rows, fact)
<1>. DEFINE q == Qualified(rows)
<1>. HIDE DEF q
<1>1. \A u \in ToSet(rows) : IsRow(u)  BY DEF Keyed
<1>2. \A r \in ToSet(q) : \E u \in ToSet(rows) : QualifiedAs(rows, u, r)  BY QualifiedRows DEF q
<1>3. \A u \in ToSet(rows) : \E r \in ToSet(q) : QualifiedAs(rows, u, r)  BY QualifiedRows DEF q
<1>4. ASSUME NEW s \in Schemas(q, fact)  PROVE s \in Schemas(rows, fact)
  <2>1. PICK r \in ToSet(q) : r.fact = fact /\ r.schema = s /\ s # ""  BY DEF Schemas
  <2>2. PICK u \in ToSet(rows) : QualifiedAs(rows, u, r)  BY <1>2
  <2>3. u.fact = fact  BY <1>1, <2>1, <2>2, NamesakeRows DEF QualifiedAs
  <2>. QED  BY <2>1, <2>2, <2>3 DEF QualifiedAs, Schemas
<1>5. ASSUME NEW s \in Schemas(rows, fact)  PROVE s \in Schemas(q, fact)
  <2>1. PICK u \in ToSet(rows) : u.fact = fact /\ u.schema = s /\ s # ""  BY DEF Schemas
  <2>2. PICK r \in ToSet(q) : QualifiedAs(rows, u, r)  BY <1>3
  <2>3. r.fact = fact /\ r.schema = s  BY <1>1, <2>1, <2>2, NamesakeRows DEF QualifiedAs
  <2>. QED  BY <2>1, <2>3 DEF Schemas
<1>. QED  BY <1>4, <1>5 DEF q

\* Whatever generic rows a group has, a row of platform p is as sure as each.
Backed(group, p) ==
    \A g \in ToSet(group) : g.platform = 0 =>
        \E w \in ToSet(group) : w.platform = p /\ g.confidence <= w.confidence

LEMMA BackedIsKept ==
    ASSUME NEW S, NEW group \in Seq(S), \A r \in ToSet(group) : IsRow(r),
           NEW p \in PlatformsOf(group), Backed(group, p)
    PROVE  \E q \in ToSet(group) :
              /\ q.platform = p /\ Like(Reduce(PartOf(group, p)), q)
              /\ \A t \in ToSet(group) : t.platform = p => t.confidence <= q.confidence
<1>. DEFINE part == PartOf(group, p)
            a == OnPlatform(group, p)
            b == OnPlatform(group, 0)
<1>1. /\ part \in Seq(S) /\ part # <<>>
      /\ ToSet(part) = {r \in ToSet(group) : r.platform = p \/ (p = FirstOf(group) /\ r.platform = 0)}
  BY PartHas
<1>2. /\ a \in Seq(S) /\ ToSet(a) = {r \in ToSet(group) : r.platform = p}
      /\ b \in Seq(S) /\ ToSet(b) = {r \in ToSet(group) : r.platform = 0}
  BY OnPlatformHas
<1>3. part = IF p = FirstOf(group) THEN a \o b ELSE a  BY DEF PartOf, JoinGeneric
<1>4. p # 0  BY DEF PlatformsOf
<1>. HIDE DEF part, a, b
<1>5. PICK m \in DOMAIN part : Best(part, m, Len(part)) /\ Like(Reduce(part), part[m])
  BY <1>1, ReducedIsTheBest
<1>6. /\ DOMAIN part = 1..Len(part) /\ Len(part) \in Nat /\ DOMAIN a = 1..Len(a) /\ Len(a) \in Nat
      /\ Len(a) <= Len(part) /\ \A i \in 1..Len(a) : part[i] = a[i]
  <2>1. CASE p = FirstOf(group)
    <3>1. part = a \o b  BY <1>3, <2>1
    <3>2. Len(b) \in Nat /\ Len(a) \in Nat /\ Len(part) = Len(a) + Len(b)  BY <1>2, <3>1
    <3>3. Len(a) <= Len(part)  BY <3>2
    <3>. QED  BY <1>1, <1>2, <3>1, <3>2, <3>3
  <2>2. CASE p # FirstOf(group)  BY <1>1, <1>2, <1>3, <2>2
  <2>. QED  BY <2>1, <2>2
<1>7. part[m] \in ToSet(part)  BY DEF ToSet
<1>8. \A i \in 1..Len(part) : part[i].confidence <= part[m].confidence
  BY <1>5 DEF Best
<1>9. part[m].platform = p
  <2>. SUFFICES ASSUME part[m].platform = 0  PROVE FALSE  BY <1>1, <1>7
  <2>1. PICK w \in ToSet(group) : w.platform = p /\ part[m].confidence <= w.confidence
    BY <1>1, <1>7 DEF Backed
  <2>2. PICK i \in 1..Len(a) : a[i] = w
    <3>1. w \in ToSet(a)  BY <1>2, <2>1
    <3>. QED  BY <1>6, <3>1 DEF ToSet
  <2>3. i \in 1..Len(part) /\ part[i] = w  BY <1>6, <2>2
  <2>4. part[i].confidence = part[m].confidence
    <3>. DEFINE x == part[i].confidence
                y == part[m].confidence
    <3>1. x \in 0..100 /\ y \in 0..100  BY <1>1, <1>7, <2>3 DEF IsRow
    <3>2. x <= y /\ y <= x  BY <1>8, <2>1, <2>3
    <3>. HIDE DEF x, y
    <3>3. x = y  BY <3>1, <3>2
    <3>. QED  BY <3>3 DEF x, y
  <2>5. m <= i  BY <1>5, <2>3, <2>4 DEF Best
  <2>6. m \in 1..Len(a)  BY <1>6, <2>2, <2>5
  <2>7. part[m] \in ToSet(a)  BY <1>6, <2>6 DEF ToSet
  <2>. QED  BY <1>2, <1>4, <2>7
<1>10. ASSUME NEW t \in ToSet(group), t.platform = p  PROVE t.confidence <= part[m].confidence
  <2>1. t \in ToSet(part)  BY <1>1, <1>10
  <2>2. PICK i \in DOMAIN part : part[i] = t  BY <2>1 DEF ToSet
  <2>. QED  BY <1>6, <1>8, <2>2
<1>. QED  BY <1>1, <1>5, <1>7, <1>9, <1>10 DEF part

LEMMA KeptIsNotEmpty ==
    ASSUME NEW group
    PROVE  KeptOf(group) = IF PlatformsOf(group) = {} THEN {Reduce(group)}
                           ELSE {Reduce(PartOf(group, p)) : p \in PlatformsOf(group)}
  BY DEF KeptOf, PlatformsOf, FirstOf, PartOf

LEMMA KeptIsOfGroup ==
    ASSUME NEW S, NEW group \in Seq(S), group # <<>>, \A r \in ToSet(group) : IsRow(r),
           NEW d \in KeptOf(group)
    PROVE  /\ \E q \in ToSet(group) : Like(d, q)
           /\ \E q \in ToSet(group) : d.store = q.store
<1>1. CASE PlatformsOf(group) = {}
  <2>1. d = Reduce(group)  BY <1>1, KeptIsNotEmpty
  <2>. QED  BY <2>1, ReducedIsTheBest, ReducedIsLikeOne
<1>2. CASE PlatformsOf(group) # {}
  <2>1. PICK p \in PlatformsOf(group) : d = Reduce(PartOf(group, p))  BY <1>2, KeptIsNotEmpty
  <2>. DEFINE part == PartOf(group, p)
  <2>2. part \in Seq(S) /\ part # <<>> /\ ToSet(part) \subseteq ToSet(group)  BY PartHas
  <2>. HIDE DEF part
  <2>3. \A r \in ToSet(part) : IsRow(r)  BY <2>2
  <2>4. /\ \E q \in ToSet(part) : Like(Reduce(part), q)
        /\ \E q \in ToSet(part) : Reduce(part).store = q.store
    BY <2>2, <2>3, ReducedIsTheBest, ReducedIsLikeOne
  <2>. QED  BY <2>1, <2>2, <2>4 DEF part
<1>. QED  BY <1>1, <1>2

LEMMA KeyGroups ==
    ASSUME NEW rows, Keyed(rows), NEW q, q = Qualified(rows)
    PROVE  /\ Keyed(q)
           /\ \A d \in ToSet(Dedupe(rows)) : \E k \in KeysOf(q) : d \in KeptOf(GroupOf(q, k))
           /\ \A k \in KeysOf(q) : KeptOf(GroupOf(q, k)) \subseteq ToSet(Dedupe(rows))
           /\ \A k \in KeysOf(q) :
                 /\ GroupOf(q, k) \in Seq(ToSet(q)) /\ GroupOf(q, k) # <<>>
                 /\ ToSet(GroupOf(q, k)) = {r \in ToSet(q) : <<r.fact, r.schema>> = k}
                 /\ \A r \in ToSet(GroupOf(q, k)) : IsRow(r)
                 /\ \A r, u \in ToSet(GroupOf(q, k)) : r.id = u.id => r = u
<1>1. Keyed(q)  BY QualifiedIsKeyed
<1>2. ToSet(Dedupe(rows)) = AllKeptOf(q)  BY DedupeIsKeyed
<1>3. ASSUME NEW k \in KeysOf(q)
      PROVE  /\ GroupOf(q, k) \in Seq(ToSet(q)) /\ GroupOf(q, k) # <<>>
             /\ ToSet(GroupOf(q, k)) = {r \in ToSet(q) : <<r.fact, r.schema>> = k}
             /\ \A r \in ToSet(GroupOf(q, k)) : IsRow(r)
             /\ \A r, u \in ToSet(GroupOf(q, k)) : r.id = u.id => r = u
  <2>1. /\ GroupOf(q, k) \in Seq(ToSet(q)) /\ GroupOf(q, k) # <<>>
        /\ ToSet(GroupOf(q, k)) = {r \in ToSet(q) : <<r.fact, r.schema>> = k}
    BY <1>1, GroupHas
  <2>2. \A r \in ToSet(q) : IsRow(r)  BY <1>1 DEF Keyed
  <2>3. \A r, u \in ToSet(q) : r.id = u.id => r = u  BY <1>1, KeyedRows
  <2>. QED  BY <2>1, <2>2, <2>3
<1>. QED  BY <1>1, <1>2, <1>3 DEF AllKeptOf

\* A row of the merge is one of those given, but for its store and perhaps its
\* schema; and what is merged leaves a row of its fact.
LEMMA DedupeRows ==
    ASSUME NEW rows, Keyed(rows), NEW q, q = Qualified(rows)
    PROVE  /\ \A d \in ToSet(Dedupe(rows)) :
                 (\E r \in ToSet(q) : Like(d, r)) /\ (\E u \in ToSet(rows) : d.store = u.store)
           /\ \A r \in ToSet(q) : \E d \in ToSet(Dedupe(rows)) : d.fact = r.fact /\ d.schema = r.schema
<1>1. \A r \in ToSet(q) : \E u \in ToSet(rows) : r.store = u.store
  <2>1. \A u \in ToSet(rows) : IsRow(u)  BY DEF Keyed
  <2>. QED  BY <2>1, QualifiedRows, NamesakeRows DEF QualifiedAs
<1>2. ASSUME NEW d \in ToSet(Dedupe(rows))
      PROVE  (\E r \in ToSet(q) : Like(d, r)) /\ (\E u \in ToSet(rows) : d.store = u.store)
  <2>1. PICK k \in KeysOf(q) : d \in KeptOf(GroupOf(q, k))  BY KeyGroups
  <2>. DEFINE group == GroupOf(q, k)
  <2>2. /\ group \in Seq(ToSet(q)) /\ group # <<>> /\ ToSet(group) \subseteq ToSet(q)
        /\ \A r \in ToSet(group) : IsRow(r)
    BY KeyGroups
  <2>. HIDE DEF group
  <2>3. (\E r \in ToSet(group) : Like(d, r)) /\ (\E r \in ToSet(group) : d.store = r.store)
    BY <2>1, <2>2, KeptIsOfGroup DEF group
  <2>. QED  BY <1>1, <2>2, <2>3
<1>3. ASSUME NEW r \in ToSet(q)
      PROVE  \E d \in ToSet(Dedupe(rows)) : d.fact = r.fact /\ d.schema = r.schema
  <2>. DEFINE k == <<r.fact, r.schema>>
              group == GroupOf(q, k)
  <2>1. k \in KeysOf(q)  BY DEF KeysOf
  <2>. HIDE DEF k
  <2>2. /\ group \in Seq(ToSet(q)) /\ group # <<>>
        /\ ToSet(group) = {u \in ToSet(q) : <<u.fact, u.schema>> = k}
        /\ \A u \in ToSet(group) : IsRow(u)
        /\ KeptOf(group) \subseteq ToSet(Dedupe(rows))
    BY <2>1, KeyGroups
  <2>. HIDE DEF group
  <2>3. PICK d : d \in KeptOf(group)
    <3>1. KeptOf(group) # {}  BY KeptIsNotEmpty
    <3>. QED  BY <3>1
  <2>4. PICK u \in ToSet(group) : Like(d, u)  BY <2>2, <2>3, KeptIsOfGroup
  <2>5. d.fact = u.fact /\ d.schema = u.schema  BY <2>2, <2>4, LikeRows
  <2>. QED  BY <2>2, <2>3, <2>4, <2>5 DEF k
<1>. QED  BY <1>2, <1>3

\* A row of a platform its detector is sure of stays, under its own platform.
LEMMA SureRowsStay ==
    ASSUME NEW rows, Keyed(rows), NEW u \in ToSet(rows), u.platform # 0, u.confidence = 100
    PROVE  \E d \in ToSet(Dedupe(rows)) :
              /\ d.fact = u.fact /\ d.platform = u.platform /\ d.confidence = 100
              /\ u.schema \in {"", d.schema}
<1>. DEFINE q == Qualified(rows)
<1>1. \A r \in ToSet(rows) : IsRow(r)  BY DEF Keyed
<1>2. PICK r \in ToSet(q) : QualifiedAs(rows, u, r)  BY QualifiedRows
<1>3. /\ r.fact = u.fact /\ r.platform = u.platform /\ r.confidence = 100 /\ u.schema \in {"", r.schema}
  <2>1. Namesakes(r, u) /\ IsRow(u)  BY <1>1, <1>2 DEF QualifiedAs
  <2>2. r.fact = u.fact /\ r.platform = u.platform /\ r.confidence = 100  BY <2>1, NamesakeRows
  <2>3. u.schema \in {"", r.schema}  BY <1>2 DEF QualifiedAs
  <2>. QED  BY <2>2, <2>3
<1>. DEFINE k == <<r.fact, r.schema>>
            group == GroupOf(q, k)
<1>4. k \in KeysOf(q)  BY DEF KeysOf
<1>. HIDE DEF k
<1>5. /\ group \in Seq(ToSet(q)) /\ group # <<>>
      /\ ToSet(group) = {t \in ToSet(q) : <<t.fact, t.schema>> = k}
      /\ \A t \in ToSet(group) : IsRow(t)
      /\ KeptOf(group) \subseteq ToSet(Dedupe(rows))
  BY <1>4, KeyGroups
<1>. HIDE DEF group, q
<1>6. r \in ToSet(group) /\ r.platform \in PlatformsOf(group)  BY <1>3, <1>5 DEF k, PlatformsOf
<1>7. Backed(group, r.platform)
  <2>1. \A t \in ToSet(group) : t.confidence <= r.confidence
    <3>1. \A t \in ToSet(group) : t.confidence \in 0..100  BY <1>5 DEF IsRow
    <3>2. \A x \in 0..100 : x <= 100  OBVIOUS
    <3>. QED  BY <1>3, <3>1, <3>2
  <2>. QED  BY <1>6, <2>1 DEF Backed
<1>8. PICK t \in ToSet(group) :
         /\ t.platform = r.platform /\ Like(Reduce(PartOf(group, r.platform)), t)
         /\ r.confidence <= t.confidence
  BY <1>5, <1>6, <1>7, BackedIsKept
<1>. DEFINE d == Reduce(PartOf(group, r.platform))
<1>9. d \in KeptOf(group)  BY <1>6, KeptIsNotEmpty
<1>. HIDE DEF d
<1>10. /\ d.fact = t.fact /\ d.schema = t.schema /\ d.platform = t.platform /\ d.confidence = t.confidence
       /\ t.confidence = 100
  <2>1. IsRow(t) /\ Like(d, t)  BY <1>5, <1>8 DEF d
  <2>2. t.confidence = 100
    <3>1. t.confidence \in 0..100  BY <2>1 DEF IsRow
    <3>2. \A x \in 0..100 : 100 <= x => x = 100  OBVIOUS
    <3>. QED  BY <1>3, <1>8, <3>1, <3>2
  <2>3. d.confidence = t.confidence  BY <2>1 DEF Like, RowFields
  <2>. QED  BY <2>1, <2>2, <2>3, LikeRows
<1>11. t.fact = r.fact /\ t.schema = r.schema  BY <1>5 DEF k
<1>12. d \in ToSet(Dedupe(rows))  BY <1>5, <1>9
<1>13. d.fact = u.fact /\ d.platform = u.platform /\ d.confidence = 100 /\ u.schema \in {"", d.schema}
  BY <1>3, <1>8, <1>10, <1>11
<1>. QED  BY <1>12, <1>13

-----------------------------------------------------------------------------
(***************************************************************************)
(* What a merge leaves, another merge leaves alone: one row of each        *)
(* platform, none of them generic unless it is the only one, and no name   *)
(* without schema that a single one could be filled in for.                *)
(***************************************************************************)
Apart(rows) ==
    \A r, q \in ToSet(rows) :
        r.fact = q.fact /\ r.schema = q.schema /\ r # q =>
            r.platform # 0 /\ q.platform # 0 /\ r.platform # q.platform

Stable(rows) == \A r \in ToSet(rows) : r.schema = "" => Cardinality(Schemas(rows, r.fact)) # 1

LEMMA DedupeIsStable ==
    ASSUME NEW rows, Keyed(rows)
    PROVE  /\ Stable(Dedupe(rows))
           /\ \A fact : Schemas(Dedupe(rows), fact) = Schemas(rows, fact)
<1>. DEFINE q == Qualified(rows)
            D == Dedupe(rows)
<1>1. /\ \A d \in ToSet(D) : \E r \in ToSet(q) : Like(d, r)
      /\ \A r \in ToSet(q) : \E d \in ToSet(D) : d.fact = r.fact /\ d.schema = r.schema
  BY DedupeRows
<1>2. Keyed(q)  BY KeyGroups
<1>3. \A r \in ToSet(q) : IsRow(r)  BY <1>2 DEF Keyed
<1>4. \A r \in ToSet(q) : \E u \in ToSet(rows) : QualifiedAs(rows, u, r)  BY QualifiedRows
<1>5. \A fact : Schemas(q, fact) = Schemas(rows, fact)  BY QualifiedSchemas
<1>6. \A u \in ToSet(rows) : IsRow(u)  BY DEF Keyed
<1>. HIDE DEF q, D
<1>7. \A d \in ToSet(D) : \E r \in ToSet(q) : d.fact = r.fact /\ d.schema = r.schema
  BY <1>1, <1>3, LikeRows
<1>8. ASSUME NEW fact  PROVE Schemas(D, fact) = Schemas(q, fact)
  <2>1. \A s : s \in Schemas(D, fact) => s \in Schemas(q, fact)  BY <1>7 DEF Schemas
  <2>2. \A s : s \in Schemas(q, fact) => s \in Schemas(D, fact)  BY <1>1 DEF Schemas
  <2>. QED  BY <2>1, <2>2
<1>9. ASSUME NEW d \in ToSet(D), d.schema = "", Cardinality(Schemas(D, d.fact)) = 1  PROVE FALSE
  <2>1. PICK r \in ToSet(q) : d.fact = r.fact /\ d.schema = r.schema  BY <1>7
  <2>2. PICK u \in ToSet(rows) : QualifiedAs(rows, u, r)  BY <1>4
  <2>3. u.fact = d.fact  BY <1>6, <2>1, <2>2, NamesakeRows DEF QualifiedAs
  <2>4. Cardinality(Schemas(rows, u.fact)) = 1  BY <1>5, <1>8, <1>9, <2>3
  <2>5. "" \notin Schemas(rows, u.fact)  BY DEF Schemas
  <2>6. r.schema \in Schemas(rows, u.fact) \/ (r = u /\ u.schema # "")
    BY <2>2, <2>4 DEF QualifiedAs
  <2>. QED  BY <1>9, <2>1, <2>5, <2>6
<1>. QED  BY <1>5, <1>8, <1>9 DEF Stable, D

LEMMA StableIsQualified ==
    ASSUME NEW rows, Keyed(rows), NEW u \in ToSet(rows), NEW r, QualifiedAs(rows, u, r),
           u.schema # "" \/ Cardinality(Schemas(rows, u.fact)) # 1
    PROVE  r = u
  BY DEF QualifiedAs

LEMMA ApartStays ==
    ASSUME NEW rows, Keyed(rows), Apart(rows), Stable(rows)
    PROVE  IdsOf(ToSet(Dedupe(rows))) = IdsOf(ToSet(rows))
<1>. DEFINE q == Qualified(rows)
            D == Dedupe(rows)
<1>1. ToSet(q) = ToSet(rows)
  <2>1. \A u \in ToSet(rows) : \A r : QualifiedAs(rows, u, r) => r = u
    BY StableIsQualified DEF Stable
  <2>. QED  BY <2>1, QualifiedRows
<1>2. IdsOf(ToSet(D)) \subseteq IdsOf(ToSet(rows))  BY DedupeIsKeyed
<1>3. ASSUME NEW r \in ToSet(rows)  PROVE r.id \in IdsOf(ToSet(D))
  <2>. DEFINE k == <<r.fact, r.schema>>
              group == GroupOf(q, k)
  <2>1. k \in KeysOf(q)  BY <1>1 DEF KeysOf
  <2>. HIDE DEF k
  <2>2. /\ group \in Seq(ToSet(q)) /\ group # <<>>
        /\ ToSet(group) = {t \in ToSet(rows) : <<t.fact, t.schema>> = k}
        /\ \A t \in ToSet(group) : IsRow(t)
        /\ KeptOf(group) \subseteq ToSet(D)
    BY <1>1, <2>1, KeyGroups
  <2>. HIDE DEF group, D
  <2>3. r \in ToSet(group)  BY <2>2 DEF k
  <2>4. \A t \in ToSet(group) : t # r => r.platform # 0 /\ t.platform # 0 /\ t.platform # r.platform
    BY <2>2 DEF k, Apart
  <2>5. \E d \in KeptOf(group) : Like(d, r)
    <3>1. CASE r.platform = 0
      <4>1. ToSet(group) = {r}  BY <2>3, <2>4, <3>1
      <4>2. PlatformsOf(group) = {}  BY <3>1, <4>1 DEF PlatformsOf
      <4>3. Reduce(group) \in KeptOf(group)  BY <4>2, KeptIsNotEmpty
      <4>. QED  BY <2>2, <4>1, <4>3, ReducedIsLikeOne
    <3>2. CASE r.platform # 0
      <4>. DEFINE p == r.platform
                  part == PartOf(group, p)
      <4>1. p \in PlatformsOf(group)  BY <2>3, <3>2 DEF PlatformsOf
      <4>2. Reduce(part) \in KeptOf(group)  BY <4>1, KeptIsNotEmpty
      <4>3. /\ part \in Seq(ToSet(q)) /\ part # <<>>
            /\ ToSet(part) = {t \in ToSet(group) : t.platform = p \/ (p = FirstOf(group) /\ t.platform = 0)}
        <5>. HIDE DEF p
        <5>. QED  BY <2>2, <4>1, PartHas
      <4>. HIDE DEF part
      <4>4. ToSet(part) = {r}  BY <2>3, <2>4, <4>3
      <4>. QED  BY <2>2, <2>3, <4>2, <4>3, <4>4, ReducedIsLikeOne
    <3>. QED  BY <3>1, <3>2
  <2>6. IsRow(r)  BY DEF Keyed
  <2>. QED  BY <2>2, <2>5, <2>6, LikeRows DEF IdsOf
<1>4. IdsOf(ToSet(rows)) \subseteq IdsOf(ToSet(D))  BY <1>3 DEF IdsOf
<1>. QED  BY <1>2, <1>4 DEF D

\* Where the rows of a name are of several platforms and some of none, those
\* of the platforms are the surest there are.
SidesAreSure(q) ==
    \A g, u, v \in ToSet(q) :
        /\ g.fact = u.fact /\ g.schema = u.schema /\ v.fact = u.fact /\ v.schema = u.schema
        /\ g.platform = 0 /\ u.platform # 0 /\ v.platform # 0 /\ u.platform # v.platform
        => u.confidence = 100

LEMMA DedupeIsApart ==
    ASSUME NEW rows, Keyed(rows), SidesAreSure(Qualified(rows))
    PROVE  Apart(Dedupe(rows))
<1>. DEFINE q == Qualified(rows)
            D == Dedupe(rows)
<1>. SUFFICES ASSUME NEW d \in ToSet(D), NEW e \in ToSet(D),
                     d.fact = e.fact, d.schema = e.schema, d # e
              PROVE  d.platform # 0 /\ e.platform # 0 /\ d.platform # e.platform
  BY DEF Apart
<1>1. PICK k \in KeysOf(q) : d \in KeptOf(GroupOf(q, k))  BY KeyGroups
<1>2. PICK l \in KeysOf(q) : e \in KeptOf(GroupOf(q, l))  BY KeyGroups
<1>3. \A x \in KeysOf(q) :
         /\ GroupOf(q, x) \in Seq(ToSet(q)) /\ GroupOf(q, x) # <<>>
         /\ ToSet(GroupOf(q, x)) = {r \in ToSet(q) : <<r.fact, r.schema>> = x}
         /\ \A r \in ToSet(GroupOf(q, x)) : IsRow(r)
  BY KeyGroups
<1>. HIDE DEF q, D
<1>4. k = l
  <2>1. ASSUME NEW x \in KeysOf(q), NEW f \in KeptOf(GroupOf(q, x))
        PROVE  x = <<f.fact, f.schema>>
    <3>1. PICK r \in ToSet(GroupOf(q, x)) : Like(f, r)  BY <1>3, KeptIsOfGroup
    <3>2. f.fact = r.fact /\ f.schema = r.schema  BY <1>3, <3>1, LikeRows
    <3>. QED  BY <1>3, <3>1, <3>2
  <2>. QED  BY <1>1, <1>2, <2>1
<1>. DEFINE group == GroupOf(q, k)
<1>5. /\ group \in Seq(ToSet(q)) /\ group # <<>>
      /\ ToSet(group) = {r \in ToSet(q) : <<r.fact, r.schema>> = k}
      /\ \A r \in ToSet(group) : IsRow(r)
      /\ d \in KeptOf(group) /\ e \in KeptOf(group)
  BY <1>1, <1>2, <1>3, <1>4
<1>. HIDE DEF group
<1>6. PlatformsOf(group) # {}  BY <1>5, KeptIsNotEmpty
<1>7. PICK p \in PlatformsOf(group) : d = Reduce(PartOf(group, p))  BY <1>5, <1>6, KeptIsNotEmpty
<1>8. PICK t \in PlatformsOf(group) : e = Reduce(PartOf(group, t))  BY <1>5, <1>6, KeptIsNotEmpty
<1>9. p # t /\ p # 0 /\ t # 0  BY <1>7, <1>8 DEF PlatformsOf
<1>10. ASSUME NEW x \in PlatformsOf(group), NEW y \in PlatformsOf(group), x # y
       PROVE  Reduce(PartOf(group, x)).platform = x
  <2>1. PICK u \in ToSet(group) : u.platform = x /\ x # 0  BY DEF PlatformsOf
  <2>2. PICK v \in ToSet(group) : v.platform = y /\ y # 0  BY DEF PlatformsOf
  <2>3. ASSUME NEW g \in ToSet(group), g.platform = 0  PROVE g.confidence <= u.confidence
    <3>1. /\ g \in ToSet(q) /\ u \in ToSet(q) /\ v \in ToSet(q)
          /\ g.fact = u.fact /\ g.schema = u.schema /\ v.fact = u.fact /\ v.schema = u.schema
      BY <1>5
    <3>2. u.confidence = 100  BY <1>10, <2>1, <2>2, <2>3, <3>1 DEF SidesAreSure, q
    <3>3. g.confidence \in 0..100  BY <1>5 DEF IsRow
    <3>4. \A z \in 0..100 : z <= 100  OBVIOUS
    <3>. QED  BY <3>2, <3>3, <3>4
  <2>4. Backed(group, x)  BY <2>1, <2>3 DEF Backed
  <2>5. PICK r \in ToSet(group) : r.platform = x /\ Like(Reduce(PartOf(group, x)), r)
    BY <1>5, <2>4, BackedIsKept
  <2>. QED  BY <1>5, <2>5, LikeRows
<1>11. d.platform = p /\ e.platform = t  BY <1>7, <1>8, <1>9, <1>10
<1>. QED  BY <1>9, <1>11

-----------------------------------------------------------------------------
(***************************************************************************)
(* What the rows are told between the merges: a platform where they have   *)
(* none, and a store.  Rows that differ in neither their platform, nor     *)
(* their store, nor the clients they name are told the same.               *)
(***************************************************************************)
ToldBy(config, clients) ==
    {ResolveClientRef(config, c) : c \in clients} \cup {SingleDatastoreRef(config)}

LEMMA OnlyIsOne ==
    ASSUME NEW S
    PROVE  Only(S) \in S \/ Only(S) = Nothing
<1>1. Cardinality({}) # 1  BY FS_EmptySet
<1>. QED  BY <1>1 DEF Only

LEMMA MatchedIsResolved ==
    ASSUME NEW row, NEW resolved
    PROVE  MatchClient(row, resolved) \in resolved \/ MatchClient(row, resolved) = Nothing
<1>1. \A S \in SUBSET resolved : Only(S) \in resolved \/ Only(S) = Nothing  BY OnlyIsOne
<1>. DEFINE Named_(x) == {c \in resolved : c.name = x}
            Fits == {c \in resolved : row.platform = 0 \/ c.engine \in {0, row.platform}}
            Kind == {c \in resolved : row.platform # 0 /\ c.engine = row.platform}
<1>2. MatchClient(row, resolved) = Only(Fits) \/ MatchClient(row, resolved) = Only(Kind)
      \/ \E x : MatchClient(row, resolved) = Only(Named_(x))
  BY DEF MatchClient
<1>3. Fits \in SUBSET resolved /\ Kind \in SUBSET resolved /\ \A x : Named_(x) \in SUBSET resolved  OBVIOUS
<1>. HIDE DEF Fits, Kind, Named_
<1>. QED  BY <1>1, <1>2, <1>3

\* What a row keeps, whatever it is told.
Kin(r, u) ==
    /\ IsRow(r) /\ r.id = u.id /\ r.fact = u.fact /\ r.schema = u.schema /\ r.confidence = u.confidence
    /\ r.data = u.data /\ r.through = u.through
    /\ u.platform # 0 => r.platform = u.platform

LEMMA StampedStore ==
    ASSUME NEW r, IsRow(r), NEW store
    PROVE  LET told == StampDatastoreInstance(r, store)
           IN  Kin(told, r) /\ told.platform = r.platform /\ told.store \in {r.store, store}
<1>1. Kin(r, r)  BY DEF Kin
<1>2. LET told == [r EXCEPT !.store = store]
      IN  Kin(told, r) /\ told.platform = r.platform /\ told.store = store
  BY DEF Kin, IsRow, RowFields
<1>. QED  BY <1>1, <1>2 DEF StampDatastoreInstance

LEMMA StampedPlatform ==
    ASSUME NEW r, IsRow(r), NEW p
    PROVE  LET told == [r EXCEPT !.platform = p]
           IN  IsRow(told) /\ (r.platform = 0 => Kin(told, r)) /\ told.platform = p /\ told.store = r.store
  BY DEF Kin, IsRow, RowFields

PlatformTold(resolved, r) ==
    IF r.data /\ MatchClient(r, resolved) # Nothing /\ r.platform = 0
    THEN MatchClient(r, resolved).store.platform ELSE r.platform

LEMMA AppliedClient ==
    ASSUME NEW r, IsRow(r), NEW client
    PROVE  LET told == ApplyClientInstance(r, client)
           IN  /\ Kin(told, r)
               /\ told.platform = IF client # Nothing /\ r.platform = 0 THEN client.store.platform ELSE r.platform
               /\ told.store = r.store \/ (client # Nothing /\ told.store = client.store)
<1>. DEFINE told == ApplyClientInstance(r, client)
            s == StampDatastoreInstance(r, client.store)
<1>1. CASE client = Nothing
  <2>1. told = r /\ Kin(r, r)  BY <1>1 DEF ApplyClientInstance, Kin
  <2>. QED  BY <1>1, <2>1
<1>2. CASE client # Nothing
  <2>1. Kin(s, r) /\ s.platform = r.platform /\ s.store \in {r.store, client.store}  BY StampedStore
  <2>2. told = IF r.platform = 0 THEN [s EXCEPT !.platform = client.store.platform] ELSE s
    BY <1>2 DEF ApplyClientInstance
  <2>. HIDE DEF told, s
  <2>3. CASE r.platform = 0
    <3>. DEFINE u == [s EXCEPT !.platform = client.store.platform]
    <3>1. IsRow(s)  BY <2>1 DEF Kin
    <3>2. IsRow(u) /\ (s.platform = 0 => Kin(u, s)) /\ u.platform = client.store.platform /\ u.store = s.store
      BY <3>1, StampedPlatform
    <3>3. told = u  BY <2>2, <2>3
    <3>. HIDE DEF u
    <3>4. Kin(u, s)  BY <2>1, <2>3, <3>2
    <3>5. Kin(u, r)  BY <2>1, <2>3, <3>4 DEF Kin
    <3>. QED  BY <1>2, <2>1, <2>3, <3>2, <3>3, <3>5 DEF told
  <2>4. CASE r.platform # 0
    BY <1>2, <2>1, <2>2, <2>4 DEF told
  <2>. QED  BY <2>3, <2>4
<1>. QED  BY <1>1, <1>2

LEMMA PropagatedRows ==
    ASSUME NEW rows, Keyed(rows), NEW config, NEW resolved, NEW i \in DOMAIN rows
    PROVE  LET told == PropagateClientInstances(config, resolved, rows)
           IN  /\ DOMAIN told = DOMAIN rows /\ Kin(told[i], rows[i])
               /\ told[i].platform = PlatformTold(resolved, rows[i])
               /\ told[i].store \in {rows[i].store, SingleDatastoreRef(config)} \cup {c.store : c \in resolved}
<1>. DEFINE told == PropagateClientInstances(config, resolved, rows)
            r == rows[i]
            client == MatchClient(r, resolved)
            a == ApplyClientInstance(r, client)
            b == StampDatastoreInstance(a, SingleDatastoreRef(config))
<1>1. IsRow(r)  BY KeyedRows
<1>2. DOMAIN told = DOMAIN rows /\ told[i] = IF r.data THEN b ELSE r
  BY DEF PropagateClientInstances
<1>3. /\ Kin(a, r)
      /\ a.platform = IF client # Nothing /\ r.platform = 0 THEN client.store.platform ELSE r.platform
      /\ a.store = r.store \/ (client # Nothing /\ a.store = client.store)
  <2>. HIDE DEF client, r
  <2>. QED  BY <1>1, AppliedClient
<1>4. client \in resolved \/ client = Nothing  BY MatchedIsResolved
<1>5. Kin(b, a) /\ b.platform = a.platform /\ b.store \in {a.store, SingleDatastoreRef(config)}
  <2>1. IsRow(a)  BY <1>3 DEF Kin
  <2>. HIDE DEF a
  <2>. QED  BY <2>1, StampedStore
<1>6. Kin(r, r)  BY <1>1 DEF Kin
<1>7. PlatformTold(resolved, r) =
         IF r.data /\ client # Nothing /\ r.platform = 0 THEN client.store.platform ELSE r.platform
  BY DEF PlatformTold
<1>. HIDE DEF told, r, client, a, b
<1>8. CASE r.data
  <2>1. Kin(b, r)  BY <1>3, <1>5 DEF Kin
  <2>2. b.store \in {r.store, SingleDatastoreRef(config)} \cup {c.store : c \in resolved}
    BY <1>3, <1>4, <1>5
  <2>3. b.platform = PlatformTold(resolved, r)  BY <1>3, <1>5, <1>7, <1>8
  <2>. QED  BY <1>2, <1>8, <2>1, <2>2, <2>3 DEF told, r
<1>9. CASE ~ r.data
  <2>1. told[i] = r  BY <1>2, <1>9
  <2>2. r.platform = PlatformTold(resolved, r)  BY <1>7, <1>9
  <2>. QED  BY <1>2, <1>6, <2>1, <2>2 DEF told, r
<1>. QED  BY <1>8, <1>9

LEMMA StampedRows ==
    ASSUME NEW rows, Keyed(rows), NEW configured, NEW i \in DOMAIN rows
    PROVE  LET told == Stamp(rows, configured)
           IN  /\ DOMAIN told = DOMAIN rows /\ Kin(told[i], rows[i]) /\ told[i].store = rows[i].store
               /\ told[i].platform = IF configured # 0 /\ rows[i].data /\ rows[i].platform = 0
                                     THEN configured ELSE rows[i].platform
<1>. DEFINE told == Stamp(rows, configured)
            r == rows[i]
            u == [r EXCEPT !.platform = configured]
<1>1. IsRow(r)  BY KeyedRows
<1>2. /\ DOMAIN told = DOMAIN rows
      /\ told[i] = IF configured # 0 /\ r.data /\ r.platform = 0 THEN u ELSE r
  BY DEF Stamp
<1>3. IsRow(u) /\ (r.platform = 0 => Kin(u, r)) /\ u.platform = configured /\ u.store = r.store
  BY <1>1, StampedPlatform
<1>4. Kin(r, r)  BY <1>1 DEF Kin
<1>. QED  BY <1>2, <1>3, <1>4

LEMMA ResolvedStores ==
    ASSUME NEW config, NEW clients, NEW found \in DetectClients(clients),
           NEW c \in Resolved(config, MergeClients(found))
    PROVE  c.store \in ToldBy(config, clients)
<1>1. \A i \in DOMAIN found : found[i] \in clients  BY DEF DetectClients, SetToSeqs
<1>2. MergeClients(found) \subseteq clients  BY <1>1 DEF MergeClients
<1>3. \E k \in MergeClients(found) : c.store = ResolveClientRef(config, k)  BY DEF Resolved
<1>. QED  BY <1>2, <1>3 DEF ToldBy

\* The rows that the second merge is given: those found, each of which keeps
\* what it has, and those derived, which are told alike if they are of one
\* class.
LEMMA PreparedRows ==
    ASSUME code \in Sources, Keyed(dependencies), IdsOf(ToSet(dependencies)) \subseteq IdsOf(code.found),
           NEW p, NEW found \in DetectClients(code.clients),
           NEW resolved, resolved = Resolved(code.config, MergeClients(found)),
           NEW rows, rows = PropagateClientInstances(code.config, resolved,
                               Stamp(Augment(dependencies, p), InferConfigDBPlatform(code.config)))
    PROVE  /\ Keyed(rows)
           /\ \A d \in ToSet(dependencies) : \E r \in ToSet(rows) : Kin(r, d)
           /\ \A r \in ToSet(rows) :
                 \/ \E d \in ToSet(dependencies) : Kin(r, d)
                 \/ \E s \in DOMAIN Repository : Kin(r, DerivedRow(s, p))
           /\ \A r, q \in ToSet(rows) : \A s, t \in DOMAIN Repository :
                 Kin(r, DerivedRow(s, p)) /\ Kin(q, DerivedRow(t, p)) /\ ClassOf[s] = ClassOf[t] =>
                    r.platform = q.platform
           /\ \A r \in ToSet(rows) :
                 r.store \in {Nothing} \cup ToldBy(code.config, code.clients) \cup {d.store : d \in ToSet(dependencies)}
<1>. DEFINE all == Augment(dependencies, p)
            configured == InferConfigDBPlatform(code.config)
            stamped == Stamp(all, configured)
            calls == CallsOfRepositories \ Named(dependencies)
<1>0. \A s : /\ DerivedRow(s, p).id = Repository[s].id /\ DerivedRow(s, p).store = Nothing
            /\ DerivedRow(s, p).data = TRUE /\ DerivedRow(s, p).platform = p
            /\ DerivedRow(s, p).through = <<ClassOf[s]>>
  BY DEF DerivedRow
<1>1. Keyed(all) /\ ToSet(all) = ToSet(dependencies) \cup {DerivedRow(s, p) : s \in calls}
  BY AugmentIsKeyed
<1>2. calls \subseteq DOMAIN Repository  BY CallsAreOfRepositories
<1>. HIDE DEF all, configured, calls
<1>3. Keyed(stamped)  BY <1>1, StampIsKeyed
<1>4. \A i \in DOMAIN all :
         /\ DOMAIN stamped = DOMAIN all /\ Kin(stamped[i], all[i]) /\ stamped[i].store = all[i].store
         /\ stamped[i].platform = IF configured # 0 /\ all[i].data /\ all[i].platform = 0
                                  THEN configured ELSE all[i].platform
  BY <1>1, StampedRows
<1>5. DOMAIN stamped = DOMAIN all  BY DEF Stamp
<1>. HIDE DEF stamped
<1>6. Keyed(rows)  BY <1>3, PropagatedIsKeyed DEF stamped, all, configured
<1>7. \A i \in DOMAIN stamped :
         /\ DOMAIN rows = DOMAIN stamped /\ Kin(rows[i], stamped[i])
         /\ rows[i].platform = PlatformTold(resolved, stamped[i])
         /\ rows[i].store \in {stamped[i].store, SingleDatastoreRef(code.config)} \cup {c.store : c \in resolved}
  BY <1>3, PropagatedRows DEF stamped, all, configured
<1>8. DOMAIN rows = DOMAIN stamped  BY DEF PropagateClientInstances, stamped, all, configured
<1>9. \A i \in DOMAIN all : Kin(rows[i], all[i])  BY <1>4, <1>5, <1>7 DEF Kin
<1>10. /\ ToSet(rows) = {rows[i] : i \in DOMAIN all}
       /\ ToSet(all) = {all[i] : i \in DOMAIN all}
  BY <1>5, <1>8 DEF ToSet
<1>11. \A d \in ToSet(dependencies) : \E r \in ToSet(rows) : Kin(r, d)  BY <1>1, <1>9, <1>10
<1>12. \A r \in ToSet(rows) :
          \/ \E d \in ToSet(dependencies) : Kin(r, d)
          \/ \E s \in DOMAIN Repository : Kin(r, DerivedRow(s, p))
  BY <1>1, <1>2, <1>9, <1>10
<1>13. {c.store : c \in resolved} \cup {SingleDatastoreRef(code.config)} \subseteq ToldBy(code.config, code.clients)
  BY ResolvedStores DEF ToldBy
<1>14. \A i \in DOMAIN all : all[i].store \in {Nothing} \cup {d.store : d \in ToSet(dependencies)}
  <2>. QED  BY <1>0, <1>1, <1>10
<1>15. \A r \in ToSet(rows) :
          r.store \in {Nothing} \cup ToldBy(code.config, code.clients) \cup {d.store : d \in ToSet(dependencies)}
  BY <1>4, <1>5, <1>7, <1>10, <1>13, <1>14
<1>16. ASSUME NEW r \in ToSet(rows), NEW q \in ToSet(rows), NEW s \in DOMAIN Repository, NEW t \in DOMAIN Repository,
              Kin(r, DerivedRow(s, p)), Kin(q, DerivedRow(t, p)), ClassOf[s] = ClassOf[t]
       PROVE  r.platform = q.platform
  <2>1. PICK i \in DOMAIN all : r = rows[i]  BY <1>10
  <2>2. PICK j \in DOMAIN all : q = rows[j]  BY <1>10
  <2>3. ASSUME NEW n \in DOMAIN all, NEW v \in DOMAIN Repository, Kin(rows[n], DerivedRow(v, p))
        PROVE  all[n] = DerivedRow(v, p)
    <3>1. rows[n].id = Repository[v].id  BY <1>0, <2>3 DEF Kin
    <3>2. all[n].id = Repository[v].id  BY <1>9, <3>1 DEF Kin
    <3>3. all[n] \notin ToSet(dependencies)
      <4>1. IdsOf(code.found) \cap {Repository[x].id : x \in DOMAIN Repository} = {}  BY SourcesAre
      <4>. QED  BY <3>2, <4>1 DEF IdsOf
    <3>4. PICK x \in calls : all[n] = DerivedRow(x, p)  BY <1>1, <1>10, <3>3
    <3>5. Repository[x].id = Repository[v].id  BY <1>0, <3>2, <3>4
    <3>6. x = v  BY <1>2, <3>5, RunAssumption
    <3>. QED  BY <3>4, <3>6
  <2>4. all[i] = DerivedRow(s, p) /\ all[j] = DerivedRow(t, p)  BY <1>16, <2>1, <2>2, <2>3
  <2>5. /\ all[i].data = all[j].data /\ all[i].platform = all[j].platform /\ all[i].through = all[j].through
    BY <1>0, <1>16, <2>4
  <2>6. /\ stamped[i].data = stamped[j].data /\ stamped[i].platform = stamped[j].platform
        /\ stamped[i].through = stamped[j].through
    BY <1>4, <2>5 DEF Kin
  <2>7. MatchClient(stamped[i], resolved) = MatchClient(stamped[j], resolved)  BY <2>6 DEF MatchClient
  <2>8. PlatformTold(resolved, stamped[i]) = PlatformTold(resolved, stamped[j])
    BY <2>6, <2>7 DEF PlatformTold
  <2>. QED  BY <1>5, <1>7, <2>1, <2>2, <2>8
<1>. QED  BY <1>6, <1>11, <1>12, <1>15, <1>16

-----------------------------------------------------------------------------
(***************************************************************************)
(* The rows of the run.                                                    *)
(***************************************************************************)
\* The methods of repositories that stand for one fact are of one class.
FactsAreOfOneClass ==
    \A s, t \in DOMAIN Repository : Repository[s].fact = Repository[t].fact => ClassOf[s] = ClassOf[t]

TellsOf(found, D) ==
    \A r \in found : r.platform # 0 =>
        \E d \in D : /\ d.fact = r.fact /\ d.platform = r.platform /\ d.confidence = 100
                     /\ r.schema \in {"", d.schema}

SureOf(D) == \A d \in D : d.platform # 0 => d.confidence = 100

\* Ids and facts are those of a row that was found, or of a method.
OfCode(c, D) ==
    \A d \in D :
        \/ \E r \in c.found : d.id = r.id /\ d.fact = r.fact
        \/ \E s \in DOMAIN Repository : d.id = Repository[s].id /\ d.fact = Repository[s].fact

StoresAreTold ==
    \A d \in ToSet(dependencies) : d.store \in {Nothing} \cup ToldBy(code.config, code.clients)

\* An exposure waits, is being connected, or is connected with rows there are.
AccountedFor(x) ==
    \/ x \in ToSet(jobs)
    \/ \E w \in Workers : worker[w].pc # "idle" /\ worker[w].exposure = x
    \/ /\ DOMAIN results[x] = {"linked", "truncated", "crowded"}
       /\ results[x].linked \subseteq IdsOf(ToSet(dependencies))

RowsInv ==
    /\ OfCode(code, ToSet(dependencies)) /\ StoresAreTold
    /\ phase = "derivation" =>
          /\ Apart(dependencies) /\ Stable(dependencies)
          /\ SureOf(ToSet(dependencies)) /\ TellsOf(code.found, ToSet(dependencies))
    /\ phase \in {"connections", "reconcile"} =>
          /\ TellsOf(code.found, ToSet(dependencies))
          /\ FactsAreOfOneClass => Apart(dependencies) /\ Stable(dependencies)
    /\ event = "completed" =>
          phase \in {"write", "artifacts", "done"} /\ TellsOf(code.found, ToSet(dependencies))
    /\ phase = "connections" => \A x \in Exposures : AccountedFor(x)
    /\ phase \in {"index", "discovery", "derivation", "connections"} => connections = {}
    /\ phase \in {"derivation", "connections", "reconcile"} => exposures = Exposures
    /\ exposures \subseteq Exposures
    /\ phase # "done" => Keyed(dependencies)
    /\ \A c \in connections : c[1] \in exposures
    /\ \A c \in connections : \E x, d : c = <<x, d>>
    /\ phase # "done" => \A c \in connections : c[2] \in IdsOf(ToSet(dependencies))
    /\ FactsAreOfOneClass => \A u \in unresolved : u[1] # "connection"

LEMMA MergeTells ==
    ASSUME NEW rows, Keyed(rows), NEW found, TellsOf(found, ToSet(rows))
    PROVE  TellsOf(found, ToSet(Dedupe(rows)))
<1>. SUFFICES ASSUME NEW r \in found, r.platform # 0
              PROVE  \E d \in ToSet(Dedupe(rows)) :
                        /\ d.fact = r.fact /\ d.platform = r.platform /\ d.confidence = 100
                        /\ r.schema \in {"", d.schema}
  BY DEF TellsOf
<1>1. PICK u \in ToSet(rows) :
         /\ u.fact = r.fact /\ u.platform = r.platform /\ u.confidence = 100 /\ r.schema \in {"", u.schema}
  BY DEF TellsOf
<1>2. PICK d \in ToSet(Dedupe(rows)) :
         /\ d.fact = u.fact /\ d.platform = u.platform /\ d.confidence = 100 /\ u.schema \in {"", d.schema}
  BY <1>1, SureRowsStay
<1>. QED  BY <1>1, <1>2

\* What a row of a merge has from the rows it is made of.
LEMMA MergedRows ==
    ASSUME NEW rows, Keyed(rows), NEW d \in ToSet(Dedupe(rows))
    PROVE  /\ \E u \in ToSet(rows) :
                 d.id = u.id /\ d.fact = u.fact /\ d.platform = u.platform /\ d.confidence = u.confidence
           /\ \E u \in ToSet(rows) : d.store = u.store
<1>. DEFINE q == Qualified(rows)
<1>1. (\E r \in ToSet(q) : Like(d, r)) /\ (\E u \in ToSet(rows) : d.store = u.store)  BY DedupeRows
<1>2. PICK r \in ToSet(q) : Like(d, r)  BY <1>1
<1>3. PICK u \in ToSet(rows) : QualifiedAs(rows, u, r)  BY QualifiedRows
<1>4. IsRow(u) /\ Namesakes(r, u)  BY <1>3 DEF Keyed, QualifiedAs
<1>5. IsRow(r) /\ r.id = u.id /\ r.fact = u.fact /\ r.platform = u.platform /\ r.confidence = u.confidence
  BY <1>4, NamesakeRows
<1>6. d.id = r.id /\ d.fact = r.fact /\ d.platform = r.platform /\ d.confidence = r.confidence
  BY <1>2, <1>5 DEF Like, RowFields
<1>. QED  BY <1>1, <1>5, <1>6

LEMMA MergeIsOfCode ==
    ASSUME NEW rows, Keyed(rows), NEW c, OfCode(c, ToSet(rows))
    PROVE  OfCode(c, ToSet(Dedupe(rows)))
<1>1. \A d \in ToSet(Dedupe(rows)) : \E u \in ToSet(rows) : d.id = u.id /\ d.fact = u.fact
  BY MergedRows
<1>. QED  BY <1>1 DEF OfCode

\* The rows that were found, merged.
LEMMA FoundRows ==
    ASSUME NEW c \in Sources, NEW D, D = Dedupe(ById(c.found))
    PROVE  /\ Keyed(D) /\ Apart(D) /\ Stable(D) /\ SureOf(ToSet(D)) /\ TellsOf(c.found, ToSet(D))
           /\ OfCode(c, ToSet(D)) /\ \A d \in ToSet(D) : d.store = Nothing
<1>. DEFINE rows == ById(c.found)
<1>1. /\ IsFiniteSet(c.found) /\ \A r \in c.found : IsRow(r)
      /\ \A r, q \in c.found : r.id = q.id => r = q
  BY SourcesAre
<1>2. Keyed(rows) /\ ToSet(rows) = c.found  BY <1>1, ByIdIsKeyed
<1>3. \A r \in c.found : r.store = Nothing /\ (r.platform # 0 => r.confidence = 100)  BY RunAssumption
<1>. HIDE DEF rows
<1>4. SidesAreSure(Qualified(rows))
  <2>1. \A r \in ToSet(Qualified(rows)) : \E u \in ToSet(rows) : QualifiedAs(rows, u, r)
    BY <1>2, QualifiedRows
  <2>2. ASSUME NEW r \in ToSet(Qualified(rows)), r.platform # 0  PROVE r.confidence = 100
    <3>1. PICK u \in c.found : QualifiedAs(rows, u, r)  BY <1>2, <2>1
    <3>2. r.platform = u.platform /\ r.confidence = u.confidence
      BY <1>1, <3>1, NamesakeRows DEF QualifiedAs
    <3>. QED  BY <1>3, <2>2, <3>2
  <2>. QED  BY <2>2 DEF SidesAreSure
<1>5. Keyed(Dedupe(rows)) /\ Apart(Dedupe(rows)) /\ Stable(Dedupe(rows))
  BY <1>2, <1>4, DedupeIsKeyed, DedupeIsApart, DedupeIsStable
<1>6. TellsOf(c.found, ToSet(Dedupe(rows)))
  <2>1. TellsOf(c.found, ToSet(rows))  BY <1>2, <1>3 DEF TellsOf
  <2>. QED  BY <1>2, <2>1, MergeTells
<1>7. OfCode(c, ToSet(Dedupe(rows)))
  <2>1. OfCode(c, ToSet(rows))  BY <1>2 DEF OfCode
  <2>. QED  BY <1>2, <2>1, MergeIsOfCode
<1>8. \A d \in ToSet(Dedupe(rows)) : d.store = Nothing /\ (d.platform # 0 => d.confidence = 100)
  <2>1. \A d \in ToSet(Dedupe(rows)) :
           /\ \E u \in ToSet(rows) : d.platform = u.platform /\ d.confidence = u.confidence
           /\ \E u \in ToSet(rows) : d.store = u.store
    BY <1>2, MergedRows
  <2>. QED  BY <1>2, <1>3, <2>1
<1>. QED  BY <1>5, <1>6, <1>7, <1>8 DEF SureOf, rows

\* The rows that the second merge is given.
LEMMA DerivedRows ==
    ASSUME code \in Sources, Keyed(dependencies), IdsOf(ToSet(dependencies)) \subseteq IdsOf(code.found),
           Apart(dependencies), Stable(dependencies), SureOf(ToSet(dependencies)),
           TellsOf(code.found, ToSet(dependencies)), OfCode(code, ToSet(dependencies)), StoresAreTold,
           NEW p, NEW found \in DetectClients(code.clients),
           NEW resolved, resolved = Resolved(code.config, MergeClients(found)),
           NEW rows, rows = PropagateClientInstances(code.config, resolved,
                               Stamp(Augment(dependencies, p), InferConfigDBPlatform(code.config)))
    PROVE  /\ Keyed(rows) /\ TellsOf(code.found, ToSet(rows)) /\ OfCode(code, ToSet(rows))
           /\ \A r \in ToSet(rows) : r.store \in {Nothing} \cup ToldBy(code.config, code.clients)
           /\ FactsAreOfOneClass => SidesAreSure(Qualified(rows))
<1>. DEFINE D == ToSet(dependencies)
            Derived(s) == DerivedRow(s, p)
<1>0. \A s : /\ Derived(s).id = Repository[s].id /\ Derived(s).fact = Repository[s].fact
            /\ Derived(s).schema = "" /\ Derived(s).confidence = 97
  BY DEF DerivedRow
<1>1. /\ Keyed(rows)
      /\ \A d \in D : \E r \in ToSet(rows) : Kin(r, d)
      /\ \A r \in ToSet(rows) :
            (\E d \in D : Kin(r, d)) \/ (\E s \in DOMAIN Repository : Kin(r, Derived(s)))
      /\ \A r, q \in ToSet(rows) : \A s, t \in DOMAIN Repository :
            Kin(r, Derived(s)) /\ Kin(q, Derived(t)) /\ ClassOf[s] = ClassOf[t] => r.platform = q.platform
      /\ \A r \in ToSet(rows) :
            r.store \in {Nothing} \cup ToldBy(code.config, code.clients) \cup {d.store : d \in D}
  BY PreparedRows
<1>2. \A r \in ToSet(rows) : r.store \in {Nothing} \cup ToldBy(code.config, code.clients)
  BY <1>1 DEF StoresAreTold
<1>. HIDE DEF D, Derived
<1>3. TellsOf(code.found, ToSet(rows))
  <2>. SUFFICES ASSUME NEW r \in code.found, r.platform # 0
                PROVE  \E u \in ToSet(rows) :
                          /\ u.fact = r.fact /\ u.platform = r.platform /\ u.confidence = 100
                          /\ r.schema \in {"", u.schema}
    BY DEF TellsOf
  <2>1. PICK d \in D :
           /\ d.fact = r.fact /\ d.platform = r.platform /\ d.confidence = 100 /\ r.schema \in {"", d.schema}
    BY DEF TellsOf, D
  <2>2. PICK u \in ToSet(rows) : Kin(u, d)  BY <1>1
  <2>. QED  BY <2>1, <2>2 DEF Kin
<1>4. OfCode(code, ToSet(rows))
  <2>1. \A r \in ToSet(rows) : \A u : Kin(r, u) => r.id = u.id /\ r.fact = u.fact  BY DEF Kin
  <2>. SUFFICES ASSUME NEW r \in ToSet(rows)
                PROVE  \/ \E x \in code.found : r.id = x.id /\ r.fact = x.fact
                       \/ \E s \in DOMAIN Repository : r.id = Repository[s].id /\ r.fact = Repository[s].fact
    BY DEF OfCode
  <2>2. CASE \E d \in D : Kin(r, d)
    <3>1. PICK d \in D : Kin(r, d)  BY <2>2
    <3>2. r.id = d.id /\ r.fact = d.fact  BY <2>1, <3>1
    <3>. QED  BY <3>2 DEF OfCode, D
  <2>3. CASE \E s \in DOMAIN Repository : Kin(r, Derived(s))
    <3>1. PICK s \in DOMAIN Repository : Kin(r, Derived(s))  BY <2>3
    <3>2. r.id = Derived(s).id /\ r.fact = Derived(s).fact  BY <2>1, <3>1
    <3>. QED  BY <1>0, <3>2
  <2>. QED  BY <1>1, <2>2, <2>3
<1>5. ASSUME FactsAreOfOneClass  PROVE SidesAreSure(Qualified(rows))
  <2>. DEFINE q == Qualified(rows)
              Of(r, u) == IF u.schema = "" /\ Cardinality(Schemas(rows, u.fact)) = 1
                          THEN r.schema \in Schemas(rows, u.fact) ELSE r.schema = u.schema
  <2>1. \A fact : Schemas(rows, fact) = Schemas(dependencies, fact)
    <3>. SUFFICES ASSUME NEW fact  PROVE Schemas(rows, fact) = Schemas(dependencies, fact)
      OBVIOUS
    <3>1. ASSUME NEW s, s # "", NEW r \in ToSet(rows), r.fact = fact, r.schema = s
          PROVE  \E d \in D : d.fact = fact /\ d.schema = s
      <4>1. ~ \E x \in DOMAIN Repository : Kin(r, Derived(x))  BY <1>0, <3>1 DEF Kin
      <4>2. PICK d \in D : Kin(r, d)  BY <1>1, <4>1
      <4>. QED  BY <3>1, <4>2 DEF Kin
    <3>2. ASSUME NEW d \in D, d.fact = fact
          PROVE  \E r \in ToSet(rows) : r.fact = fact /\ r.schema = d.schema
      <4>1. PICK r \in ToSet(rows) : Kin(r, d)  BY <1>1
      <4>. QED  BY <3>2, <4>1 DEF Kin
    <3>3. \A s : s \in Schemas(rows, fact) => s \in Schemas(dependencies, fact)  BY <3>1 DEF Schemas, D
    <3>4. \A s : s \in Schemas(dependencies, fact) => s \in Schemas(rows, fact)  BY <3>2 DEF Schemas, D
    <3>. QED  BY <3>3, <3>4
  \* What a row of q is.
  <2>2. ASSUME NEW r \in ToSet(q)
        PROVE  \/ \E d \in D : /\ d.fact = r.fact /\ d.schema = r.schema /\ d.id = r.id
                               /\ r.confidence = d.confidence /\ (d.platform # 0 => r.platform = d.platform)
               \/ \E s \in DOMAIN Repository : \E u \in ToSet(rows) :
                     Kin(u, Derived(s)) /\ r.platform = u.platform /\ r.fact = Repository[s].fact
    <3>1. PICK u \in ToSet(rows) : QualifiedAs(rows, u, r)  BY <1>1, QualifiedRows
    <3>2. r.fact = u.fact /\ r.platform = u.platform /\ r.confidence = u.confidence /\ r.id = u.id
      <4>1. IsRow(u)  BY <1>1 DEF Keyed
      <4>. QED  BY <3>1, <4>1, NamesakeRows DEF QualifiedAs
    <3>3. CASE \E d \in D : Kin(u, d)
      <4>1. PICK d \in D : Kin(u, d)  BY <3>3
      <4>2. /\ u.id = d.id /\ u.fact = d.fact /\ u.schema = d.schema /\ u.confidence = d.confidence
            /\ d.platform # 0 => u.platform = d.platform
        BY <4>1 DEF Kin
      <4>3. u.schema # "" \/ Cardinality(Schemas(rows, u.fact)) # 1
        BY <2>1, <4>2 DEF Stable, D
      <4>4. r = u  BY <3>1, <4>3 DEF QualifiedAs
      <4>. QED  BY <4>2, <4>4
    <3>4. CASE \E s \in DOMAIN Repository : Kin(u, Derived(s))
      <4>1. PICK s \in DOMAIN Repository : Kin(u, Derived(s))  BY <3>4
      <4>2. u.fact = Repository[s].fact  BY <1>0, <4>1 DEF Kin
      <4>. QED  BY <3>2, <4>1, <4>2
    <3>. QED  BY <1>1, <3>3, <3>4
  <2>. HIDE DEF q
  \* Rows that were derived for one fact are of one platform.
  <2>3. ASSUME NEW s \in DOMAIN Repository, NEW t \in DOMAIN Repository, Repository[s].fact = Repository[t].fact,
               NEW u \in ToSet(rows), NEW v \in ToSet(rows), Kin(u, Derived(s)), Kin(v, Derived(t))
        PROVE  u.platform = v.platform
    <3>1. ClassOf[s] = ClassOf[t]  BY <1>5, <2>3 DEF FactsAreOfOneClass
    <3>. QED  BY <1>1, <2>3, <3>1
  <2>4. Keyed(q)  BY <1>1, QualifiedIsKeyed DEF q
  <2>5. \A r, u \in ToSet(q) : r.id = u.id => r = u  BY <2>4, KeyedRows
  <2>6. \A d, e \in D : d.fact = e.fact /\ d.schema = e.schema /\ d # e => d.platform # 0 /\ e.platform # 0
    BY DEF Apart, D
  <2>7. \A d \in D : d.platform # 0 => d.confidence = 100  BY DEF SureOf, D
  <2>. SUFFICES ASSUME NEW g \in ToSet(q), NEW u \in ToSet(q), NEW v \in ToSet(q),
                       g.fact = u.fact, g.schema = u.schema, v.fact = u.fact, v.schema = u.schema,
                       g.platform = 0, u.platform # 0, v.platform # 0, u.platform # v.platform
                PROVE  u.confidence = 100
    BY DEF SidesAreSure, q
  <2>. DEFINE IsOf(r, d) == /\ d.fact = r.fact /\ d.schema = r.schema /\ d.id = r.id
                            /\ r.confidence = d.confidence /\ (d.platform # 0 => r.platform = d.platform)
              IsDerived(r, s, w) == Kin(w, Derived(s)) /\ r.platform = w.platform /\ r.fact = Repository[s].fact
  <2>8. \A r \in ToSet(q) : (\E d \in D : IsOf(r, d))
                               \/ (\E s \in DOMAIN Repository : \E w \in ToSet(rows) : IsDerived(r, s, w))
    BY <2>2
  <2>9. ASSUME NEW r \in ToSet(q), NEW x \in ToSet(q), NEW s \in DOMAIN Repository, NEW t \in DOMAIN Repository,
               NEW w \in ToSet(rows), NEW y \in ToSet(rows), IsDerived(r, s, w), IsDerived(x, t, y), r.fact = x.fact
        PROVE  r.platform = x.platform
    <3>1. Repository[s].fact = Repository[t].fact /\ Kin(w, Derived(s)) /\ Kin(y, Derived(t))  BY <2>9
    <3>2. w.platform = y.platform  BY <2>3, <3>1
    <3>. QED  BY <2>9, <3>2
  <2>10. ASSUME NEW r \in ToSet(q), NEW x \in ToSet(q), NEW d \in D, NEW e \in D, IsOf(r, d), IsOf(x, e), r # x,
                r.fact = x.fact, r.schema = x.schema
         PROVE  r.platform # 0 /\ x.platform # 0 /\ r.confidence = 100
    BY <2>5, <2>6, <2>7, <2>10
  <2>. HIDE DEF IsOf, IsDerived
  <2>11. g # u /\ g # v /\ u # v  OBVIOUS
  <2>12. CASE \E d \in D : IsOf(g, d)
    <3>1. ~ \E d \in D : IsOf(u, d)  BY <2>10, <2>11, <2>12
    <3>2. ~ \E d \in D : IsOf(v, d)  BY <2>10, <2>11, <2>12
    <3>. QED  BY <2>8, <2>9, <3>1, <3>2
  <2>13. CASE \E s \in DOMAIN Repository : \E w \in ToSet(rows) : IsDerived(g, s, w)
    <3>1. ~ \E s \in DOMAIN Repository : \E w \in ToSet(rows) : IsDerived(u, s, w)  BY <2>9, <2>13
    <3>2. ~ \E s \in DOMAIN Repository : \E w \in ToSet(rows) : IsDerived(v, s, w)  BY <2>9, <2>13
    <3>3. (\E d \in D : IsOf(u, d)) /\ (\E d \in D : IsOf(v, d))  BY <2>8, <3>1, <3>2
    <3>. QED  BY <2>10, <2>11, <3>3
  <2>. QED  BY <2>8, <2>12, <2>13
<1>. QED  BY <1>1, <1>2, <1>3, <1>4, <1>5

-----------------------------------------------------------------------------
LEMMA RowsPrimed ==
    /\ Keyed(dependencies)' = Keyed(dependencies') /\ Apart(dependencies)' = Apart(dependencies')
    /\ Stable(dependencies)' = Stable(dependencies') /\ ToSet(dependencies)' = ToSet(dependencies')
    /\ SureOf(ToSet(dependencies))' = SureOf(ToSet(dependencies'))
    /\ TellsOf(code.found, ToSet(dependencies))' = TellsOf(code'.found, ToSet(dependencies'))
    /\ OfCode(code, ToSet(dependencies))' = OfCode(code', ToSet(dependencies'))
    /\ StoresAreTold' = \A d \in ToSet(dependencies') : d.store \in {Nothing} \cup ToldBy(code'.config, code'.clients)
    /\ IdsOf(ToSet(dependencies))' = IdsOf(ToSet(dependencies'))
<1>1. ToSet(dependencies)' = ToSet(dependencies')  BY DEF ToSet
<1>2. \A c, k : ToldBy(c, k)' = ToldBy(c, k)  OBVIOUS
<1>3. Keyed(dependencies)' = Keyed(dependencies')  BY <1>1 DEF Keyed
<1>4. Apart(dependencies)' = Apart(dependencies')  BY <1>1 DEF Apart
<1>5. Stable(dependencies)' = Stable(dependencies')  BY <1>1 DEF Stable, Schemas
<1>6. SureOf(ToSet(dependencies))' = SureOf(ToSet(dependencies'))  BY <1>1 DEF SureOf
<1>7. TellsOf(code.found, ToSet(dependencies))' = TellsOf(code'.found, ToSet(dependencies'))  BY <1>1 DEF TellsOf
<1>8. OfCode(code, ToSet(dependencies))' = OfCode(code', ToSet(dependencies'))  BY <1>1 DEF OfCode
<1>9. StoresAreTold' = \A d \in ToSet(dependencies') : d.store \in {Nothing} \cup ToldBy(code'.config, code'.clients)
  BY <1>1 DEF StoresAreTold
<1>10. IdsOf(ToSet(dependencies))' = IdsOf(ToSet(dependencies'))  BY <1>1 DEF IdsOf
<1>. QED  BY <1>1, <1>3, <1>4, <1>5, <1>6, <1>7, <1>8, <1>9, <1>10

LEMMA InitRows == Init => RowsInv
<1>. SUFFICES ASSUME Init  PROVE RowsInv  OBVIOUS
<1>1. ToSet(dependencies) = {} /\ dependencies = <<>>  BY DEF Init, ToSet
<1>2. Keyed(dependencies)  BY <1>1 DEF Keyed
<1>. QED  BY <1>1, <1>2 DEF Init, RowsInv, OfCode, StoresAreTold

\* A set listed has all its members, each once.
LEMMA ListOfSet ==
    ASSUME NEW S, IsFiniteSet(S)
    PROVE  LET list == SetToSeq(S)
           IN  /\ list \in Seq(S) /\ DOMAIN list = 1..Cardinality(S) /\ ToSet(list) = S
               /\ \A i, j \in 1..Cardinality(S) : list[i] = list[j] => i = j
<1>. DEFINE n == Cardinality(S)
            list == SetToSeq(S)
<1>1. n \in Nat /\ ExistsBijection(1..n, S)  BY FS_CardinalityType
<1>2. PICK f : f \in Bijection(1..n, S)  BY <1>1 DEF ExistsBijection
<1>3. f \in [1..n -> S] /\ IsInjective(f)
  BY <1>2 DEF Bijection, Injection, IsInjective
<1>4. list = CHOOSE h \in [1..n -> S] : IsInjective(h)  BY DEF SetToSeq
<1>5. IsFiniteSet(1..n) /\ Cardinality(1..n) = n  BY <1>1, FS_Interval
<1>. HIDE DEF n, list
<1>6. list \in [1..n -> S] /\ IsInjective(list)  BY <1>3, <1>4
<1>7. list \in Injection(1..n, S)  BY <1>6 DEF Injection, IsInjective
<1>8. list \in Surjection(1..n, S)  BY <1>5, <1>7, FS_Injection DEF n
<1>9. ToSet(list) = S  BY <1>6, <1>8 DEF Surjection, ToSet
<1>10. \A i, j \in 1..n : list[i] = list[j] => i = j  BY <1>6 DEF IsInjective
<1>. QED  BY <1>1, <1>6, <1>9, <1>10 DEF n, list

LEMMA DiscoverRows ==
    ASSUME RunInv, RowsInv, Discover
    PROVE  RowsInv'
<1>1. /\ phase = "discovery" /\ code \in Sources /\ code' = code
      /\ UNCHANGED <<connections, unresolved>>
      /\ exposures' = IF cancelled THEN {} ELSE Exposures
      /\ dependencies' = (IF cancelled THEN <<>> ELSE Dedupe(ById(code.found)))
      /\ phase' = IF cancelled THEN "write" ELSE "derivation"
      /\ event' = IF cancelled THEN "cancelled" ELSE event
  BY DEF RunInv, Discover, connecting
<1>2. connections = {} /\ event # "completed" /\ (FactsAreOfOneClass => \A u \in unresolved : u[1] # "connection")
  BY <1>1 DEF RowsInv
<1>3. CASE cancelled
  <2>1. ToSet(dependencies') = {} /\ dependencies' = <<>>  BY <1>1, <1>3 DEF ToSet
  <2>2. Keyed(dependencies')  BY <2>1 DEF Keyed
  <2>3. OfCode(code, {})  BY DEF OfCode
  <2>. QED  BY <1>1, <1>2, <1>3, <2>1, <2>2, <2>3, RowsPrimed DEF RowsInv
<1>4. CASE ~cancelled
  <2>1. dependencies' = Dedupe(ById(code.found)) /\ phase' = "derivation" /\ event' = event /\ exposures' = Exposures
    BY <1>1, <1>4
  <2>2. LET D == dependencies'
        IN  /\ Keyed(D) /\ Apart(D) /\ Stable(D) /\ SureOf(ToSet(D)) /\ TellsOf(code.found, ToSet(D))
            /\ OfCode(code, ToSet(D)) /\ \A d \in ToSet(D) : d.store = Nothing
    BY <1>1, <2>1, FoundRows
  <2>. QED  BY <1>1, <1>2, <2>1, <2>2, RowsPrimed DEF RowsInv
<1>. QED  BY <1>3, <1>4

LEMMA DeriveRows ==
    ASSUME RunInv, RowsInv, Derive
    PROVE  RowsInv'
<1>1. /\ phase = "derivation" /\ code \in Sources /\ code' = code
      /\ Keyed(dependencies) /\ IdsOf(ToSet(dependencies)) \subseteq IdsOf(code.found)
      /\ UNCHANGED <<exposures, connections, event>>
  BY DEF RunInv, Derive
<1>2. /\ Apart(dependencies) /\ Stable(dependencies) /\ SureOf(ToSet(dependencies))
      /\ TellsOf(code.found, ToSet(dependencies)) /\ OfCode(code, ToSet(dependencies)) /\ StoresAreTold
      /\ connections = {} /\ exposures = Exposures /\ event # "completed"
      /\ FactsAreOfOneClass => \A u \in unresolved : u[1] # "connection"
  BY <1>1 DEF RowsInv
<1>3. PICK p, found, resolved :
         /\ found \in DetectClients(code.clients) /\ resolved = Resolved(code.config, MergeClients(found))
         /\ dependencies' = Dedupe(PropagateClientInstances(code.config, resolved,
                               Stamp(Augment(dependencies, p), InferConfigDBPlatform(code.config))))
  BY DEF Derive
<1>. DEFINE rows == PropagateClientInstances(code.config, resolved,
                       Stamp(Augment(dependencies, p), InferConfigDBPlatform(code.config)))
            D == dependencies'
<1>4. /\ Keyed(rows) /\ TellsOf(code.found, ToSet(rows)) /\ OfCode(code, ToSet(rows))
      /\ \A r \in ToSet(rows) : r.store \in {Nothing} \cup ToldBy(code.config, code.clients)
      /\ FactsAreOfOneClass => SidesAreSure(Qualified(rows))
  BY <1>1, <1>2, <1>3, DerivedRows
<1>5. D = Dedupe(rows)  BY <1>3
<1>. HIDE DEF rows
<1>6. /\ Keyed(D) /\ TellsOf(code.found, ToSet(D)) /\ OfCode(code, ToSet(D)) /\ Stable(D)
      /\ FactsAreOfOneClass => Apart(D)
  BY <1>4, <1>5, DedupeIsKeyed, MergeTells, MergeIsOfCode, DedupeIsApart, DedupeIsStable
<1>7. \A d \in ToSet(D) : d.store \in {Nothing} \cup ToldBy(code.config, code.clients)
  BY <1>4, <1>5, MergedRows
<1>8. CASE D = <<>>
  <2>1. phase' = "reconcile" /\ unresolved' = unresolved  BY <1>8 DEF Derive
  <2>. QED  BY <1>1, <1>2, <1>6, <1>7, <2>1, RowsPrimed DEF RowsInv
<1>9. CASE D # <<>>
  <2>1. /\ phase' = "connections" /\ jobs' = SetToSeq(Exposures)
        /\ unresolved' = {<<"dependency", r.id>> : r \in {d \in ToSet(D) : d.at = {}}}
    BY <1>9 DEF Derive
  <2>2. ToSet(jobs') = Exposures  BY <2>1, ListOfSet, RunAssumption
  <2>3. \A x \in Exposures : AccountedFor(x)'
    <3>1. ToSet(jobs)' = ToSet(jobs')  BY DEF ToSet
    <3>. QED  BY <2>2, <3>1 DEF AccountedFor
  <2>4. \A u \in unresolved' : u[1] # "connection"  BY <2>1
  <2>. QED  BY <1>1, <1>2, <1>6, <1>7, <2>1, <2>3, <2>4, RowsPrimed DEF RowsInv
<1>. QED  BY <1>8, <1>9

LEMMA CollectRows ==
    ASSUME RunInv, RowsInv, Collect
    PROVE  RowsInv'
<1>1. /\ phase = "connections" /\ phase' = "reconcile" /\ jobs = <<>> /\ \A w \in Workers : worker[w].pc = "idle"
      /\ UNCHANGED <<code, dependencies, exposures, event>>
      /\ connections' = UNION {{<<x, d>> : d \in results[x].linked} : x \in Exposures}
      /\ unresolved' = unresolved \cup {<<"exposure", x>> : x \in {y \in Exposures : results[y].truncated}}
  BY DEF Collect
<1>2. ToSet(jobs) = {}  BY <1>1 DEF ToSet
<1>3. \A x \in Exposures : results[x].linked \subseteq IdsOf(ToSet(dependencies))
  BY <1>1, <1>2 DEF RowsInv, AccountedFor
<1>4. \A c \in connections' : /\ c[1] \in Exposures /\ c[2] \in IdsOf(ToSet(dependencies))
                              /\ \E x, d : c = <<x, d>>
  BY <1>1, <1>3
<1>5. FactsAreOfOneClass => \A u \in unresolved' : u[1] # "connection"
  BY <1>1 DEF RowsInv
<1>. QED  BY <1>1, <1>4, <1>5, RowsPrimed DEF RowsInv, StoresAreTold

LEMMA ReconcileRows ==
    ASSUME RunInv, RowsInv, Reconcile
    PROVE  RowsInv'
<1>. DEFINE D == dependencies'
<1>1. /\ phase = "reconcile" /\ phase' = "write" /\ D = Dedupe(dependencies)
      /\ UNCHANGED <<code, exposures>>
      /\ connections' = {c \in connections : c[2] \in Kept(D)}
      /\ unresolved' = unresolved \cup {<<"connection", c>> : c \in {d \in connections : d[2] \notin Kept(D)}}
  BY DEF Reconcile
<1>2. Kept(D) = IdsOf(ToSet(D))  BY DEF Kept, IdsOf
<1>3. /\ Keyed(dependencies) /\ TellsOf(code.found, ToSet(dependencies)) /\ OfCode(code, ToSet(dependencies))
      /\ StoresAreTold /\ exposures = Exposures
      /\ FactsAreOfOneClass => Apart(dependencies) /\ Stable(dependencies)
      /\ FactsAreOfOneClass => \A u \in unresolved : u[1] # "connection"
      /\ \A c \in connections : /\ c[1] \in exposures /\ c[2] \in IdsOf(ToSet(dependencies))
                                /\ \E x, d : c = <<x, d>>
  BY <1>1 DEF RowsInv
<1>. HIDE DEF D
<1>4. /\ Keyed(D) /\ TellsOf(code.found, ToSet(D)) /\ OfCode(code, ToSet(D))
  BY <1>1, <1>3, DedupeIsKeyed, MergeTells, MergeIsOfCode
<1>5. \A d \in ToSet(D) : d.store \in {Nothing} \cup ToldBy(code.config, code.clients)
  BY <1>1, <1>3, MergedRows DEF StoresAreTold
<1>6. ASSUME FactsAreOfOneClass  PROVE \A u \in unresolved' : u[1] # "connection"
  <2>1. IdsOf(ToSet(D)) = IdsOf(ToSet(dependencies))  BY <1>1, <1>3, <1>6, ApartStays
  <2>2. unresolved' = unresolved  BY <1>1, <1>2, <1>3, <2>1
  <2>. QED  BY <1>3, <1>6, <2>2
<1>7. \A c \in connections' : /\ c[1] \in exposures /\ c[2] \in IdsOf(ToSet(D)) /\ \E x, d : c = <<x, d>>
  BY <1>1, <1>2, <1>3
<1>. QED  BY <1>1, <1>3, <1>4, <1>5, <1>6, <1>7, RowsPrimed DEF RowsInv, D

LEMMA OtherStagesKeepRows ==
    ASSUME RowsInv, IndexFails \/ BuildIndex \/ WriteManifest \/ WriteArtifacts
    PROVE  RowsInv'
<1>1. UNCHANGED <<code, dependencies, exposures, connections, unresolved>>
  BY DEF IndexFails, BuildIndex, WriteManifest, WriteArtifacts, output
<1>2. \/ phase = "index" /\ phase' \in {"discovery", "done"}
      \/ phase \in {"write", "artifacts"} /\ phase' \in {"artifacts", "done"}
  BY DEF IndexFails, BuildIndex, WriteManifest, WriteArtifacts, output
<1>3. event' = event \/ event' # "completed"
  BY DEF IndexFails, BuildIndex, WriteManifest, WriteArtifacts, output
<1>4. event' = event \/ phase = "index"
  BY DEF IndexFails, BuildIndex, WriteManifest, WriteArtifacts, output
<1>5. phase = "index" => connections = {} /\ event # "completed"  BY DEF RowsInv
<1>. QED  BY <1>1, <1>2, <1>3, <1>4, <1>5, RowsPrimed DEF RowsInv, StoresAreTold

\* What RowsInv says while workers connect.
LEMMA ConnectingRows ==
    ASSUME RowsInv, phase = "connections",
           UNCHANGED <<code, phase, dependencies, exposures, connections, unresolved, event>>,
           \A x \in Exposures : AccountedFor(x)'
    PROVE  RowsInv'
  BY RowsPrimed DEF RowsInv, StoresAreTold

LEMMA StillAtWork ==
    ASSUME NEW w \in Workers, NEW u, worker' = [worker EXCEPT ![w] = u], DOMAIN worker = Workers,
           worker[w].pc # "idle" => u.pc # "idle" /\ u.exposure = worker[w].exposure,
           ToSet(jobs') = ToSet(jobs), UNCHANGED <<dependencies, results>>,
           NEW x \in Exposures, AccountedFor(x)
    PROVE  AccountedFor(x)'
<1>1. ToSet(jobs)' = ToSet(jobs)  BY DEF ToSet
<1>2. IdsOf(ToSet(dependencies))' = IdsOf(ToSet(dependencies))  BY RowsPrimed
<1>3. \A t \in Workers : worker[t].pc # "idle" =>
         worker'[t].pc # "idle" /\ worker'[t].exposure = worker[t].exposure
  OBVIOUS
<1>. QED  BY <1>1, <1>2, <1>3 DEF AccountedFor

LEMMA WorkerKeepsRows ==
    ASSUME RunInv, RowsInv, NEW w \in Workers, WorkerStep(w)
    PROVE  RowsInv'
<1>. DEFINE v == worker[w]
<1>1. /\ UNCHANGED <<code, phase, dependencies, exposures, connections, unresolved, event>>
      /\ v.pc # "idle" \/ phase = "connections"
  BY DEF WorkerStep, Take, NextEntry, Walk, LinkNext, Compare, Copy, Store, output
<1>2. phase = "connections"  BY <1>1, AtWork
<1>3. DOMAIN worker = Workers /\ DOMAIN results = Exposures  BY DEF RunInv
<1>4. \A x \in Exposures : AccountedFor(x)  BY <1>2 DEF RowsInv
<1>5. IdsOf(ToSet(dependencies))' = IdsOf(ToSet(dependencies))  BY <1>1, RowsPrimed
<1>6. jobs \in Seq(Exposures)  BY <1>2 DEF RunInv, ConnectingFits
<1>7. ASSUME v.pc # "idle"
      PROVE  /\ DOMAIN v = WorkerFields /\ v.exposure \in Exposures
             /\ v.linked \subseteq IdsOf(ToSet(dependencies))
  <2>1. WorkerFits(code.graph, ToSet(dependencies), targets, cancelled, v)  BY <1>7, AtWork
  <2>2. Sound(code.graph, ToSet(dependencies), v.exposure, v.linked)  BY <2>1 DEF WorkerFits
  <2>. QED  BY <2>1, <2>2 DEF WorkerFits, Sound, IdsOf
<1>8. CASE Walk(w) \/ LinkNext(w) \/ Compare(w) \/ Copy(w) \/ Store(w)
  <2>1. v.pc # "idle" /\ UNCHANGED <<jobs, results>>
    BY <1>8 DEF Walk, LinkNext, Compare, Copy, Store
  <2>2. DOMAIN v = WorkerFields  BY <1>7, <2>1
  <2>3. PICK u : worker' = [worker EXCEPT ![w] = u] /\ u.pc # "idle" /\ u.exposure = v.exposure
    <3>. DEFINE next == WalkStep(code.graph, IsTarget, v.walk, cancelled)
                s == Head(v.links).symbol
                SameFor(u) == u.pc # "idle" /\ u.exposure = v.exposure
    <3>0. \A l, rows : SameFor(Linked(v, l, rows))  BY <2>2 DEF Linked, WorkerFields
    <3>1. CASE Walk(w)
      <4>. DEFINE u == Walking(v, next, Foreign(v.exposure, next))
      <4>1. worker' = [worker EXCEPT ![w] = u]  BY <3>1 DEF Walk, Walking, Become
      <4>2. \A n, met : SameFor(Walking(v, n, met))
        <5>. SUFFICES ASSUME NEW n, NEW met  PROVE SameFor(Walking(v, n, met))  OBVIOUS
        <5>1. CASE n.done  BY <2>2, <5>1 DEF Walking, WorkerFields
        <5>2. CASE ~n.done  BY <2>1, <2>2, <5>2 DEF Walking, WorkerFields
        <5>. QED  BY <5>1, <5>2
      <4>. QED  BY <4>1, <4>2
    <3>2. CASE LinkNext(w)
      <4>. DEFINE u == [v EXCEPT !.pc = "sort", !.i = 2, !.j = 2]
      <4>1. \/ worker' = [worker EXCEPT ![w] = u]
            \/ worker' = [worker EXCEPT ![w] = Linked(v, Head(v.links), Chosen(s))]
        BY <3>2 DEF LinkNext, Become
      <4>2. SameFor(u)  BY <2>2 DEF WorkerFields
      <4>. DEFINE linking == Linked(v, Head(v.links), Chosen(s))
      <4>3. SameFor(linking)  BY <3>0
      <4>. HIDE DEF u, linking
      <4>4. worker' = [worker EXCEPT ![w] = u] \/ worker' = [worker EXCEPT ![w] = linking]
        BY <4>1 DEF u, linking
      <4>. QED  BY <4>2, <4>3, <4>4
    <3>3. CASE Compare(w)
      <4>. DEFINE u == [v EXCEPT !.pc = "copy", !.held = targets[s][v.j]]
                  t == [v EXCEPT !.i = @ + 1, !.j = v.i + 1]
      <4>1. \/ worker' = [worker EXCEPT ![w] = Linked(v, Head(v.links), {targets[s][1]})]
            \/ worker' = [worker EXCEPT ![w] = u]
            \/ worker' = [worker EXCEPT ![w] = t]
        BY <3>3 DEF Compare, Become
      <4>2. SameFor(u) /\ SameFor(t)  BY <2>1, <2>2 DEF WorkerFields
      <4>. DEFINE linking == Linked(v, Head(v.links), {targets[s][1]})
      <4>3. SameFor(linking)  BY <3>0
      <4>. HIDE DEF u, t, linking
      <4>4. \/ worker' = [worker EXCEPT ![w] = u] \/ worker' = [worker EXCEPT ![w] = t]
            \/ worker' = [worker EXCEPT ![w] = linking]
        BY <4>1 DEF u, t, linking
      <4>. QED  BY <4>2, <4>3, <4>4
    <3>4. CASE Copy(w)
      <4>. DEFINE u == [v EXCEPT !.pc = "store"]
      <4>1. worker' = [worker EXCEPT ![w] = u]  BY <3>4 DEF Copy, Become
      <4>2. SameFor(u)  BY <2>2 DEF WorkerFields
      <4>. QED  BY <4>1, <4>2
    <3>5. CASE Store(w)
      <4>. DEFINE u == [v EXCEPT !.pc = "sort", !.j = @ - 1, !.held = None]
      <4>1. worker' = [worker EXCEPT ![w] = u]  BY <3>5 DEF Store, Become
      <4>2. SameFor(u)  BY <2>2 DEF WorkerFields
      <4>. QED  BY <4>1, <4>2
    <3>. QED  BY <1>8, <3>1, <3>2, <3>3, <3>4, <3>5
  <2>4. ToSet(jobs') = ToSet(jobs)  BY <2>1
  <2>5. \A x \in Exposures : AccountedFor(x)'
    BY <1>1, <1>3, <1>4, <2>1, <2>3, <2>4, StillAtWork
  <2>. QED  BY <1>1, <1>2, <2>5, ConnectingRows
<1>9. CASE Take(w)
  <2>1. jobs # <<>> /\ jobs' = Tail(jobs) /\ v.pc = "idle"  BY <1>9 DEF Take
  <2>0. PICK x \in Exposures : x = Head(jobs)  BY <1>6, <2>1, TailHas
  <2>2. ToSet(jobs) \subseteq {x} \cup ToSet(jobs') /\ ToSet(jobs)' = ToSet(jobs')
    BY <1>6, <2>0, <2>1, TailHas DEF ToSet
  <2>3. ASSUME NEW y \in Exposures, y # x  PROVE AccountedFor(y)'
    <3>1. AccountedFor(y)  BY <1>4
    <3>2. results'[y] = results[y]  BY <1>3, <1>9, <2>0, <2>3 DEF Take, Yield
    <3>3. \A t \in Workers : worker[t].pc # "idle" => worker'[t] = worker[t]
      BY <1>3, <1>9, <2>1 DEF Take, Become
    <3>. QED  BY <1>5, <2>2, <2>3, <3>1, <3>2, <3>3 DEF AccountedFor
  <2>4. AccountedFor(x)'
    <3>1. CASE cancelled
      <4>1. results'[x] = [linked |-> {}, truncated |-> FALSE, crowded |-> {}]
        BY <1>3, <1>9, <2>0, <3>1 DEF Take, Yield, Idle
      <4>. QED  BY <4>1 DEF AccountedFor
    <3>2. CASE ~cancelled
      <4>1. worker'[w].pc # "idle" /\ worker'[w].exposure = x
        BY <1>3, <1>9, <2>0, <3>2 DEF Take, Become, Idle
      <4>. QED  BY <4>1 DEF AccountedFor
    <3>. QED  BY <3>1, <3>2
  <2>. QED  BY <1>1, <1>2, <2>3, <2>4, ConnectingRows
<1>10. CASE NextEntry(w)
  <2>0. PICK x : x = v.exposure  OBVIOUS
  <2>1. v.pc = "link" /\ jobs' = jobs  BY <1>10 DEF NextEntry
  <2>2. ToSet(jobs)' = ToSet(jobs)  BY <2>1 DEF ToSet
  <2>3. /\ DOMAIN v = WorkerFields /\ x \in Exposures /\ v.linked \subseteq IdsOf(ToSet(dependencies))
    BY <1>7, <2>0, <2>1
  <2>4. CASE v.entries = <<>> \/ cancelled
    <3>1. /\ \/ results' = [results EXCEPT ![x] = [linked |-> v.linked, truncated |-> v.truncated, crowded |-> v.crowded]]
             \/ results' = [results EXCEPT ![x] = [linked |-> {}, truncated |-> FALSE, crowded |-> {}]]
          /\ worker' = [worker EXCEPT ![w] = Idle]
      BY <1>10, <2>0, <2>4 DEF NextEntry, Become, Yield, Idle
    <3>2. /\ DOMAIN results'[x] = {"linked", "truncated", "crowded"} /\ results'[x].linked \subseteq IdsOf(ToSet(dependencies))
          /\ \A y \in Exposures : y # x => results'[y] = results[y]
          /\ \A t \in Workers : t # w => worker'[t] = worker[t]
      BY <1>3, <2>3, <3>1
    <3>3. ASSUME NEW y \in Exposures, y # x  PROVE AccountedFor(y)'
      BY <1>4, <1>5, <2>0, <2>2, <3>2, <3>3 DEF AccountedFor
    <3>4. AccountedFor(x)'  BY <1>5, <3>2 DEF AccountedFor
    <3>. QED  BY <1>1, <1>2, <3>3, <3>4, ConnectingRows
  <2>5. CASE ~ (v.entries = <<>> \/ cancelled)
    <3>1. results' = results  BY <1>10, <2>5 DEF NextEntry
    <3>2. PICK u : worker' = [worker EXCEPT ![w] = u] /\ u.pc # "idle" /\ u.exposure = v.exposure
      <4>. DEFINE u == [v EXCEPT !.pc = "walk", !.entries = Tail(@), !.walk = StartWalk(Head(v.entries))]
      <4>1. worker' = [worker EXCEPT ![w] = u]  BY <1>10, <2>5 DEF NextEntry, Become
      <4>2. u.pc # "idle" /\ u.exposure = v.exposure  BY <2>3 DEF WorkerFields
      <4>. QED  BY <4>1, <4>2
    <3>3. ToSet(jobs') = ToSet(jobs)  BY <2>1
    <3>4. \A y \in Exposures : AccountedFor(y)'
      BY <1>1, <1>3, <1>4, <3>1, <3>2, <3>3, StillAtWork
    <3>. QED  BY <1>1, <1>2, <3>4, ConnectingRows
  <2>. QED  BY <2>4, <2>5
<1>. QED  BY <1>8, <1>9, <1>10 DEF WorkerStep

LEMMA NextKeepsRows ==
    ASSUME RunInv, RowsInv, [Next]_vars
    PROVE  RowsInv'
<1>1. CASE Cancel \/ UNCHANGED vars
  <2>1. UNCHANGED <<code, phase, dependencies, jobs, worker, results, exposures, connections, unresolved, event>>
    BY <1>1 DEF Cancel, vars, connecting, output
  <2>2. ToSet(jobs)' = ToSet(jobs) /\ IdsOf(ToSet(dependencies))' = IdsOf(ToSet(dependencies))
    BY <2>1, RowsPrimed DEF ToSet
  <2>3. \A x \in Exposures : AccountedFor(x)' <=> AccountedFor(x)
    BY <2>1, <2>2 DEF AccountedFor
  <2>. QED  BY <2>1, <2>3, RowsPrimed DEF RowsInv, StoresAreTold
<1>2. CASE Stage
  BY <1>2, DiscoverRows, DeriveRows, CollectRows, ReconcileRows, OtherStagesKeepRows DEF Stage
<1>3. ASSUME NEW w \in Workers, WorkerStep(w)  PROVE RowsInv'
  BY <1>3, WorkerKeepsRows
<1>. QED  BY <1>1, <1>2, <1>3 DEF Next

\* A connection leads from an exposure of the run to a row of its result, and
\* every platform a detector was sure of has a row in each of the three merges.
THEOREM RowsInvariance == Spec => []RowsInv
<1>1. Init => RowsInv  BY InitRows
<1>2. RunInv /\ RowsInv /\ [Next]_vars => RowsInv'  BY NextKeepsRows
<1>. QED  BY <1>1, <1>2, RunInvariance, PTL DEF Spec

\* Nothing the detectors found is lost in three merges: every data store they
\* named is named by a row of the result for the same fact; and no connection
\* is dropped for want of its row (dedupeDependencies, reconcile), if the
\* methods of repositories that stand for one fact are of one class.
THEOREM FoundIsKept ==
    Spec => [](/\ event = "completed" =>
                     \A r \in code.found : r.platform # 0 =>
                        \E d \in ToSet(dependencies) :
                           d.fact = r.fact /\ d.platform = r.platform /\ r.schema \in {"", d.schema}
               /\ FactsAreOfOneClass => \A u \in unresolved : u[1] # "connection")
<1>1. RowsInv => /\ event = "completed" =>
                     \A r \in code.found : r.platform # 0 =>
                        \E d \in ToSet(dependencies) :
                           d.fact = r.fact /\ d.platform = r.platform /\ r.schema \in {"", d.schema}
                 /\ FactsAreOfOneClass => \A u \in unresolved : u[1] # "connection"
  BY DEF RowsInv, TellsOf
<1>. QED  BY <1>1, RowsInvariance, PTL

-----------------------------------------------------------------------------
(***************************************************************************)
(* The document.                                                           *)
(***************************************************************************)
OfObject(items, object) == {i \in DOMAIN items : items[i].object = object}

\* The items of an object are numbered apart, and no further than there are.
Counted(items) ==
    /\ items \in Seq(ToSet(items))
    /\ \A i \in DOMAIN items : items[i].n \in 1..Cardinality(OfObject(items, items[i].object))
    /\ \A i, j \in DOMAIN items : items[i].object = items[j].object /\ items[i].n = items[j].n => i = j

\* A run of items of an object, numbered on from those there are.
NumberedFrom(run, items, object) ==
    /\ run \in Seq(ToSet(run))
    /\ \A i \in DOMAIN run : run[i].object = object /\ run[i].n = Ordinal(items, object) + i - 1

\* A list that is two lists, one after the other.
Joins(a, b, c) ==
    /\ Len(a) \in Nat /\ DOMAIN a = 1..Len(a) /\ Len(b) \in Nat /\ DOMAIN b = 1..Len(b)
    /\ DOMAIN c = 1..(Len(a) + Len(b)) /\ Len(c) = Len(a) + Len(b)
    /\ \A i \in DOMAIN a : c[i] = a[i]
    /\ \A i \in DOMAIN b : c[Len(a) + i] = b[i]
    /\ \A i \in DOMAIN c : i \in DOMAIN a \/ \E j \in DOMAIN b : i = Len(a) + j
    /\ ToSet(c) = ToSet(a) \cup ToSet(b)
    /\ c \in Seq(ToSet(c))

LEMMA Joined ==
    ASSUME NEW a, a \in Seq(ToSet(a)), NEW b, b \in Seq(ToSet(b)), NEW c, c = a \o b
    PROVE  Joins(a, b, c)
<1>1. Len(a) \in Nat /\ DOMAIN a = 1..Len(a) /\ Len(b) \in Nat /\ DOMAIN b = 1..Len(b)  OBVIOUS
<1>2. DOMAIN c = 1..(Len(a) + Len(b)) /\ Len(c) = Len(a) + Len(b)  OBVIOUS
<1>3. \A i \in DOMAIN a : c[i] = a[i]  BY <1>1
<1>4. \A i \in DOMAIN b : c[Len(a) + i] = b[i]  BY <1>1
<1>5. \A i \in DOMAIN c : i \in DOMAIN a \/ \E j \in DOMAIN b : i = Len(a) + j
  <2>. SUFFICES ASSUME NEW i \in DOMAIN c, i \notin DOMAIN a  PROVE \E j \in DOMAIN b : i = Len(a) + j  OBVIOUS
  <2>1. i - Len(a) \in DOMAIN b /\ i = Len(a) + (i - Len(a))  BY <1>1, <1>2
  <2>. QED  BY <2>1
<1>6. \A i \in DOMAIN b : Len(a) + i \in DOMAIN c  BY <1>1, <1>2
<1>7. \A i \in DOMAIN a : i \in DOMAIN c  BY <1>1, <1>2
<1>8. ToSet(c) = ToSet(a) \cup ToSet(b)
  <2>1. ToSet(a) = {a[i] : i \in DOMAIN a} /\ ToSet(b) = {b[i] : i \in DOMAIN b} /\ ToSet(c) = {c[i] : i \in DOMAIN c}
    BY DEF ToSet
  <2>2. \A x \in ToSet(c) : x \in ToSet(a) \cup ToSet(b)  BY <1>3, <1>4, <1>5, <2>1
  <2>3. \A x \in ToSet(a) \cup ToSet(b) : x \in ToSet(c)  BY <1>3, <1>4, <1>6, <1>7, <2>1
  <2>. QED  BY <2>2, <2>3
<1>9. c \in Seq(ToSet(c))
  <2>. DEFINE S == ToSet(c)
  <2>1. ToSet(a) \subseteq S /\ ToSet(b) \subseteq S  BY <1>8
  <2>. HIDE DEF S
  <2>2. a \in Seq(S) /\ b \in Seq(S)  BY <2>1, SeqMonotonic
  <2>3. c \in Seq(S)  BY <2>2
  <2>. QED  BY <2>3 DEF S
<1>. QED  BY <1>1, <1>2, <1>3, <1>4, <1>5, <1>8, <1>9 DEF Joins

LEMMA CountOf ==
    ASSUME NEW items, items \in Seq(ToSet(items)), NEW object
    PROVE  IsFiniteSet(OfObject(items, object)) /\ Cardinality(OfObject(items, object)) \in Nat
<1>1. DOMAIN items = 1..Len(items) /\ Len(items) \in Nat  OBVIOUS
<1>2. IsFiniteSet(1..Len(items))  BY <1>1, FS_Interval
<1>3. OfObject(items, object) \in SUBSET (1..Len(items))  BY <1>1 DEF OfObject
<1>. QED  BY <1>2, <1>3, FS_Subset, FS_CardinalityType

LEMMA NumberingGoesOn ==
    ASSUME NEW items, Counted(items), NEW object, NEW run, NumberedFrom(run, items, object),
           NEW all, all = items \o run
    PROVE  Counted(all) /\ ToSet(all) = ToSet(items) \cup ToSet(run)
<1>. DEFINE N == Len(items)
            k == Len(run)
            C(o) == Cardinality(OfObject(items, o))
            D(o) == Cardinality(OfObject(all, o))
<1>1. items \in Seq(ToSet(items)) /\ run \in Seq(ToSet(run))  BY DEF Counted, NumberedFrom
<1>2. /\ N \in Nat /\ DOMAIN items = 1..N /\ k \in Nat /\ DOMAIN run = 1..k /\ DOMAIN all = 1..(N + k)
      /\ \A i \in DOMAIN items : all[i] = items[i]
      /\ \A i \in DOMAIN run : all[N + i] = run[i]
      /\ \A i \in DOMAIN all : i \in DOMAIN items \/ \E j \in DOMAIN run : i = N + j
      /\ ToSet(all) = ToSet(items) \cup ToSet(run) /\ all \in Seq(ToSet(all))
  <2>1. Joins(items, run, all)  BY <1>1, Joined
  <2>. QED  BY <2>1 DEF Joins
<1>3. \A o : C(o) \in Nat /\ IsFiniteSet(OfObject(items, o))  BY <1>1, CountOf
<1>4. \A i \in DOMAIN run : run[i].object = object /\ run[i].n = C(object) + i
  <2>1. \A i \in DOMAIN run : run[i].object = object /\ run[i].n = (1 + C(object)) + i - 1
    BY DEF NumberedFrom, Ordinal, OfObject
  <2>2. \A c, i \in Nat : (1 + c) + i - 1 = c + i  OBVIOUS
  <2>3. \A i \in DOMAIN run : i \in Nat  BY <1>2
  <2>. HIDE DEF C
  <2>. QED  BY <1>3, <2>1, <2>2, <2>3
<1>. HIDE DEF N, k
<1>40. \A i \in DOMAIN all : i \notin DOMAIN items => all[i].object = object
  <2>. SUFFICES ASSUME NEW i \in DOMAIN all, i \notin DOMAIN items  PROVE all[i].object = object  OBVIOUS
  <2>1. PICK j \in DOMAIN run : i = N + j  BY <1>2
  <2>. HIDE DEF C
  <2>. QED  BY <1>2, <1>4, <2>1
<1>5. \A o : o # object => OfObject(all, o) = OfObject(items, o)
  <2>. SUFFICES ASSUME NEW o, o # object  PROVE OfObject(all, o) = OfObject(items, o)  OBVIOUS
  <2>1. \A i \in OfObject(all, o) : i \in OfObject(items, o)  BY <1>2, <1>40 DEF OfObject
  <2>2. \A i \in DOMAIN items : i \in DOMAIN all  BY <1>2
  <2>3. \A i \in OfObject(items, o) : i \in OfObject(all, o)  BY <1>2, <2>2 DEF OfObject
  <2>. QED  BY <2>1, <2>3
<1>6. D(object) = C(object) + k
  <2>. DEFINE new == (N + 1)..(N + k)
  <2>1. \A j \in 1..k : N + j \in new  BY <1>2
  <2>2. \A i \in new : i \notin 1..N /\ i \in 1..(N + k)  BY <1>2
  <2>3. OfObject(all, object) = OfObject(items, object) \cup new
    <3>1. \A i \in OfObject(all, object) : i \in OfObject(items, object) \cup new  BY <1>2, <2>1 DEF OfObject
    <3>2. \A i \in new : i \in OfObject(all, object)  BY <1>2, <1>40, <2>2 DEF OfObject
    <3>3. \A i \in DOMAIN items : i \in DOMAIN all  BY <1>2
    <3>4. \A i \in OfObject(items, object) : i \in OfObject(all, object)  BY <1>2, <3>3 DEF OfObject
    <3>. QED  BY <3>1, <3>2, <3>4
  <2>4. OfObject(items, object) \cap new = {}  BY <1>2 DEF OfObject
  <2>5. IsFiniteSet(new) /\ Cardinality(new) = k
    <3>1. N + 1 \in Int /\ N + k \in Int  BY <1>2
    <3>2. IsFiniteSet(new) /\ Cardinality(new) = IF N + 1 > N + k THEN 0 ELSE (N + k) - (N + 1) + 1
      BY <3>1, FS_Interval
    <3>3. (IF N + 1 > N + k THEN 0 ELSE (N + k) - (N + 1) + 1) = k  BY <1>2
    <3>. QED  BY <3>2, <3>3
  <2>. HIDE DEF new
  <2>6. Cardinality(OfObject(items, object) \cup new) = C(object) + Cardinality(new) - Cardinality({})
    BY <1>3, <2>4, <2>5, FS_Union
  <2>7. Cardinality({}) = 0  BY FS_EmptySet
  <2>8. \A c \in Nat : c + k - 0 = c + k  BY <1>2
  <2>. HIDE DEF C
  <2>. QED  BY <1>3, <2>3, <2>5, <2>6, <2>7, <2>8
<1>7. ASSUME NEW i \in DOMAIN items
      PROVE  all[i].n \in 1..C(all[i].object) /\ C(all[i].object) <= D(all[i].object)
  <2>1. all[i] = items[i] /\ items[i].n \in 1..C(items[i].object)  BY <1>2 DEF Counted
  <2>2. CASE items[i].object = object
    <3>1. C(object) <= C(object) + k
      <4>. HIDE DEF C
      <4>. QED  BY <1>2, <1>3
    <3>. QED  BY <1>6, <2>1, <2>2, <3>1
  <2>3. CASE items[i].object # object
    <3>1. C(items[i].object) = D(items[i].object)  BY <1>5, <2>3
    <3>2. C(items[i].object) <= C(items[i].object)
      <4>. HIDE DEF C
      <4>. QED  BY <1>3
    <3>. QED  BY <2>1, <3>1, <3>2
  <2>. QED  BY <2>2, <2>3
<1>8. ASSUME NEW j \in DOMAIN run
      PROVE  all[N + j].object = object /\ all[N + j].n = C(object) + j /\ all[N + j].n \in 1..D(object)
  <2>1. all[N + j].object = object /\ all[N + j].n = C(object) + j  BY <1>2, <1>4
  <2>2. \A c \in Nat : c + j \in 1..(c + k)  BY <1>2
  <2>. HIDE DEF C, D
  <2>. QED  BY <1>3, <1>6, <2>1, <2>2
<1>9. ASSUME NEW i \in DOMAIN all  PROVE all[i].n \in 1..D(all[i].object)
  <2>1. CASE i \in DOMAIN items
    <3>. HIDE DEF C, D
    <3>1. all[i].n \in 1..C(all[i].object) /\ C(all[i].object) <= D(all[i].object)  BY <1>7, <2>1
    <3>2. C(all[i].object) \in Nat  BY <1>3
    <3>3. D(all[i].object) \in Nat
      <4>1. D(all[i].object) = C(all[i].object) \/ D(all[i].object) = C(object) + k
        BY <1>5, <1>6 DEF C, D
      <4>. QED  BY <1>2, <1>3, <4>1
    <3>. QED  BY <3>1, <3>2, <3>3
  <2>2. CASE \E j \in DOMAIN run : i = N + j  BY <1>8, <2>2
  <2>. QED  BY <1>2, <2>1, <2>2
<1>10. ASSUME NEW i \in DOMAIN items, NEW j \in DOMAIN run, all[i].object = all[N + j].object
       PROVE  all[i].n # all[N + j].n
  <2>1. all[i].object = object /\ all[N + j].n = C(object) + j  BY <1>8, <1>10
  <2>2. all[i].n \in 1..C(object)  BY <1>7, <2>1
  <2>3. j \in Nat /\ 1 <= j  BY <1>2
  <2>. HIDE DEF C
  <2>. QED  BY <1>3, <2>1, <2>2, <2>3
<1>11. ASSUME NEW i \in DOMAIN run, NEW j \in DOMAIN run, all[N + i].n = all[N + j].n  PROVE i = j
  <2>1. C(object) + i = C(object) + j  BY <1>8, <1>11
  <2>2. i \in Nat /\ j \in Nat  BY <1>2
  <2>. HIDE DEF C
  <2>. QED  BY <1>3, <2>1, <2>2
<1>12. ASSUME NEW i \in DOMAIN all, NEW j \in DOMAIN all, all[i].object = all[j].object, all[i].n = all[j].n
       PROVE  i = j
  <2>1. CASE i \in DOMAIN items /\ j \in DOMAIN items  BY <1>2, <1>12, <2>1 DEF Counted
  <2>2. CASE i \in DOMAIN items /\ j \notin DOMAIN items
    <3>1. PICK h \in DOMAIN run : j = N + h  BY <1>2, <2>2
    <3>. QED  BY <1>10, <1>12, <2>2, <3>1
  <2>3. CASE i \notin DOMAIN items /\ j \in DOMAIN items
    <3>1. PICK h \in DOMAIN run : i = N + h  BY <1>2, <2>3
    <3>. QED  BY <1>10, <1>12, <2>3, <3>1
  <2>4. CASE i \notin DOMAIN items /\ j \notin DOMAIN items
    <3>1. PICK h \in DOMAIN run : i = N + h  BY <1>2, <2>4
    <3>2. PICK l \in DOMAIN run : j = N + l  BY <1>2, <2>4
    <3>. QED  BY <1>11, <1>12, <3>1, <3>2
  <2>. QED  BY <2>1, <2>2, <2>3, <2>4
<1>. QED  BY <1>2, <1>9, <1>12 DEF Counted

DocFields == {"objects", "names", "observations", "evidence", "flows"}
ObjectsIn(items) == {b.object : b \in ToSet(items)}

LEMMA RunIsNumbered ==
    ASSUME NEW items, NEW object, NEW list, list \in Seq(ToSet(list)), NEW run, DOMAIN run = DOMAIN list,
           run = [i \in DOMAIN list |-> run[i]],
           \A i \in DOMAIN list : run[i].object = object /\ run[i].n = Ordinal(items, object) + i - 1
    PROVE  /\ NumberedFrom(run, items, object)
           /\ ObjectsIn(run) \subseteq {object}
           /\ list # <<>> => ObjectsIn(run) = {object}
<1>1. DOMAIN list = 1..Len(list) /\ Len(list) \in Nat  OBVIOUS
<1>2. ToSet(run) = {run[i] : i \in DOMAIN list}  BY DEF ToSet
<1>3. run \in Seq(ToSet(run))
  <2>1. run \in [1..Len(list) -> ToSet(run)]  BY <1>1, <1>2
  <2>. QED  BY <1>1, <2>1
<1>4. \A b \in ToSet(run) : b.object = object  BY <1>2
<1>5. ObjectsIn(run) \subseteq {object}  BY <1>4 DEF ObjectsIn
<1>6. ASSUME list # <<>>  PROVE object \in ObjectsIn(run)
  <2>1. 1 \in DOMAIN list  BY <1>1, <1>6
  <2>2. run[1] \in ToSet(run)  BY <1>2, <2>1
  <2>. QED  BY <1>4, <2>2 DEF ObjectsIn
<1>. QED  BY <1>3, <1>5, <1>6 DEF NumberedFrom

LEMMA ObserveKeeps ==
    ASSUME NEW doc, DOMAIN doc = DocFields, Counted(doc.observations), Counted(doc.evidence),
           NEW object, NEW places, places \in Seq(ToSet(places)), places # <<>>,
           NEW d, d = Observe(doc, object, places)
    PROVE  /\ DOMAIN d = DocFields
           /\ d.objects = doc.objects /\ d.names = doc.names /\ d.flows = doc.flows
           /\ Counted(d.observations) /\ Counted(d.evidence)
           /\ ObjectsIn(d.observations) = ObjectsIn(doc.observations) \cup {object}
<1>. DEFINE given == {v.place : v \in ToSet(doc.evidence)}
            new   == {i \in DOMAIN places : places[i] \notin given \cup {places[k] : k \in 1..(i - 1)}}
            fresh == Sublist(places, new)
            first == [i \in DOMAIN places |-> [object |-> object, n |-> Ordinal(doc.observations, object) + i - 1]]
            more  == [i \in DOMAIN fresh |->
                         [object |-> object, n |-> Ordinal(doc.evidence, object) + i - 1, place |-> fresh[i]]]
<1>1. d = [doc EXCEPT !.observations = @ \o first, !.evidence = @ \o more]  BY DEF Observe
<1>2. fresh \in Seq(ToSet(fresh))
  <2>. DEFINE S == {places[i] : i \in new}
  <2>1. new \in SUBSET DOMAIN places  OBVIOUS
  <2>. HIDE DEF new
  <2>2. fresh \in Seq(S) /\ ToSet(fresh) = S  BY <2>1, SublistHasItems
  <2>. QED  BY <2>2
<1>3. /\ NumberedFrom(first, doc.observations, object) /\ ObjectsIn(first) = {object}
  <2>1. /\ DOMAIN first = DOMAIN places /\ first = [i \in DOMAIN places |-> first[i]]
        /\ \A i \in DOMAIN places :
              first[i].object = object /\ first[i].n = Ordinal(doc.observations, object) + i - 1
    OBVIOUS
  <2>. HIDE DEF first
  <2>. QED  BY <2>1, RunIsNumbered, SMTT(20)
<1>. HIDE DEF fresh
<1>4. NumberedFrom(more, doc.evidence, object)
  <2>1. /\ DOMAIN more = DOMAIN fresh /\ more = [i \in DOMAIN fresh |-> more[i]]
        /\ \A i \in DOMAIN fresh :
              more[i].object = object /\ more[i].n = Ordinal(doc.evidence, object) + i - 1
    OBVIOUS
  <2>. HIDE DEF more
  <2>. QED  BY <1>2, <2>1, RunIsNumbered
<1>. HIDE DEF first, more
<1>5. PICK all : all = doc.observations \o first  OBVIOUS
<1>6. PICK known : known = doc.evidence \o more  OBVIOUS
<1>7. Counted(all) /\ ToSet(all) = ToSet(doc.observations) \cup ToSet(first)
  BY <1>3, <1>5, NumberingGoesOn
<1>8. Counted(known)  BY <1>4, <1>6, NumberingGoesOn
<1>9. ObjectsIn(all) = ObjectsIn(doc.observations) \cup ObjectsIn(first)  BY <1>7 DEF ObjectsIn
<1>10. d = [doc EXCEPT !.observations = all, !.evidence = known]
  <2>1. d = [doc EXCEPT !.observations = doc.observations \o first, !.evidence = doc.evidence \o more]
    BY <1>1
  <2>. QED  BY <1>5, <1>6, <2>1
<1>11. /\ DOMAIN d = DocFields
       /\ d.objects = doc.objects /\ d.names = doc.names /\ d.flows = doc.flows
       /\ d.observations = all /\ d.evidence = known
  BY <1>10 DEF DocFields
<1>. QED  BY <1>3, <1>7, <1>8, <1>9, <1>11

\* Objects have ids of their own, each has been observed, and what was
\* observed is numbered.
WellFormed(doc) ==
    /\ DOMAIN doc = DocFields
    /\ doc.objects \in Seq(ToSet(doc.objects))
    /\ \A i, j \in DOMAIN doc.objects : doc.objects[i].id = doc.objects[j].id => i = j
    /\ Counted(doc.observations) /\ Counted(doc.evidence)
    /\ ObjectsIn(doc.observations) = Ids(doc)

\* What a document tells of the entities that were added to it.
Entails(o, e) == (e.object = o.id /\ e.group = o.group) \/ (e.resource = o.id /\ o.id # None /\ o.group = "resource")

Describes(doc, entities) ==
    /\ doc.flows = {}
    /\ doc.names = {<<e.entity, e.object>> : e \in entities}
    /\ \A e \in entities : e.object \in Ids(doc)
    /\ \A o \in ToSet(doc.objects) : \E e \in entities : Entails(o, e)

\* A list with one more item.
Extends(list, x, more) ==
    /\ more \in Seq(ToSet(more))
    /\ ToSet(more) = ToSet(list) \cup {x}
    /\ DOMAIN list = 1..Len(list) /\ Len(list) \in Nat
    /\ DOMAIN more = 1..(Len(list) + 1)
    /\ more[Len(list) + 1] = x
    /\ \A i \in DOMAIN list : more[i] = list[i]

LEMMA OneMore ==
    ASSUME NEW list, list \in Seq(ToSet(list)), NEW x, NEW more, more = Append(list, x)
    PROVE  Extends(list, x, more)
<1>1. DOMAIN list = 1..Len(list) /\ Len(list) \in Nat  OBVIOUS
<1>2. DOMAIN more = 1..(Len(list) + 1)  OBVIOUS
<1>3. more[Len(list) + 1] = x /\ \A i \in DOMAIN list : more[i] = list[i]  BY <1>1
<1>4. /\ Len(list) + 1 \in DOMAIN more
      /\ \A i \in DOMAIN list : i \in DOMAIN more
      /\ \A i \in DOMAIN more : i = Len(list) + 1 \/ i \in DOMAIN list
  BY <1>1, <1>2
<1>5. ToSet(more) = ToSet(list) \cup {x}
  <2>1. ToSet(more) = {more[i] : i \in DOMAIN more} /\ ToSet(list) = {list[i] : i \in DOMAIN list}
    BY DEF ToSet
  <2>. QED  BY <1>3, <1>4, <2>1
<1>6. more \in Seq(ToSet(more))
  <2>1. more \in Seq(ToSet(list) \cup {x})
    <3>. DEFINE S == ToSet(list) \cup {x}
    <3>1. ToSet(list) \subseteq S /\ x \in S  OBVIOUS
    <3>. HIDE DEF S
    <3>2. list \in Seq(S)  BY <3>1, SeqMonotonic
    <3>3. more \in Seq(S)  BY <3>1, <3>2
    <3>. QED  BY <3>3 DEF S
  <2>. QED  BY <1>5, <2>1
<1>. QED  BY <1>1, <1>2, <1>3, <1>5, <1>6 DEF Extends

LEMMA AddObjectKeeps ==
    ASSUME NEW doc, WellFormed(doc), NEW object, object \notin Ids(doc), NEW group,
           NEW places, places \in Seq(ToSet(places)), places # <<>>, NEW d, d = AddObject(doc, object, group, places)
    PROVE  /\ WellFormed(d) /\ d.names = doc.names /\ d.flows = doc.flows
           /\ ToSet(d.objects) = ToSet(doc.objects) \cup {[id |-> object, group |-> group]}
           /\ Ids(d) = Ids(doc) \cup {object}
<1>. DEFINE new == [id |-> object, group |-> group]
<1>1. PICK more : more = Append(doc.objects, new)  OBVIOUS
<1>2. PICK with : with = [doc EXCEPT !.objects = more]  OBVIOUS
<1>3. d = Observe(with, object, places)  BY <1>1, <1>2 DEF AddObject
<1>4. /\ DOMAIN with = DocFields /\ with.objects = more /\ with.names = doc.names /\ with.flows = doc.flows
      /\ with.observations = doc.observations /\ with.evidence = doc.evidence
  BY <1>2 DEF WellFormed, DocFields
<1>5. Counted(with.observations) /\ Counted(with.evidence)  BY <1>4 DEF WellFormed
<1>6. /\ DOMAIN d = DocFields
      /\ d.objects = more /\ d.names = doc.names /\ d.flows = doc.flows
      /\ Counted(d.observations) /\ Counted(d.evidence)
      /\ ObjectsIn(d.observations) = ObjectsIn(doc.observations) \cup {object}
  BY <1>3, <1>4, <1>5, ObserveKeeps
<1>. DEFINE n == Len(doc.objects)
<1>7. /\ more \in Seq(ToSet(more)) /\ ToSet(more) = ToSet(doc.objects) \cup {new}
      /\ DOMAIN doc.objects = 1..n /\ n \in Nat /\ DOMAIN more = 1..(n + 1)
      /\ more[n + 1] = new /\ \A i \in DOMAIN doc.objects : more[i] = doc.objects[i]
  <2>1. doc.objects \in Seq(ToSet(doc.objects))  BY DEF WellFormed
  <2>. HIDE DEF new
  <2>2. Extends(doc.objects, new, more)  BY <1>1, <2>1, OneMore
  <2>. QED  BY <2>2 DEF Extends
<1>8. new.id = object  OBVIOUS
<1>. HIDE DEF new, n
<1>9. Ids(d) = Ids(doc) \cup {object}  BY <1>6, <1>7, <1>8 DEF Ids
<1>10. \A i \in DOMAIN doc.objects : more[i].id \in Ids(doc) /\ more[i].id # object
  <2>1. \A i \in DOMAIN doc.objects : doc.objects[i] \in ToSet(doc.objects)  BY DEF ToSet
  <2>2. \A i \in DOMAIN doc.objects : doc.objects[i].id \in Ids(doc)  BY <2>1 DEF Ids
  <2>. QED  BY <1>7, <2>2
<1>11. \A i \in DOMAIN more : i = n + 1 \/ i \in DOMAIN doc.objects  BY <1>7
<1>12. ASSUME NEW i \in DOMAIN more, NEW j \in DOMAIN more, more[i].id = more[j].id  PROVE i = j
  <2>1. CASE i \in DOMAIN doc.objects /\ j \in DOMAIN doc.objects  BY <1>7, <1>12, <2>1 DEF WellFormed
  <2>2. CASE ~(i \in DOMAIN doc.objects /\ j \in DOMAIN doc.objects)
    BY <1>7, <1>8, <1>10, <1>11, <1>12, <2>2
  <2>. QED  BY <2>1, <2>2
<1>13. ObjectsIn(d.observations) = Ids(d)  BY <1>6, <1>9 DEF WellFormed
<1>14. WellFormed(d)  BY <1>6, <1>7, <1>12, <1>13 DEF WellFormed
<1>. QED  BY <1>6, <1>7, <1>9, <1>14 DEF new

LEMMA AddEntityKeeps ==
    ASSUME NEW doc, NEW S, WellFormed(doc), Describes(doc, S), NEW e, e.places \in Seq(ToSet(e.places)), e.places # <<>>,
           NEW d, d = AddEntity(doc, e)
    PROVE  WellFormed(d) /\ Describes(d, S \cup {e})
<1>1. PICK named : named = [doc EXCEPT !.names = @ \cup {<<e.entity, e.object>>}]  OBVIOUS
<1>2. /\ DOMAIN named = DocFields /\ named.objects = doc.objects /\ named.flows = {}
      /\ named.observations = doc.observations /\ named.evidence = doc.evidence
      /\ named.names = {<<x.entity, x.object>> : x \in S \cup {e}}
  BY <1>1 DEF WellFormed, DocFields, Describes
<1>3. Ids(named) = Ids(doc)  BY <1>2 DEF Ids
<1>4. WellFormed(named)  BY <1>2, <1>3 DEF WellFormed
<1>5. CASE e.object \in Ids(doc)
  <2>1. d = Observe(named, e.object, e.places)  BY <1>1, <1>5 DEF AddEntity
  <2>2. /\ DOMAIN d = DocFields
        /\ d.objects = doc.objects /\ d.names = named.names /\ d.flows = {}
        /\ Counted(d.observations) /\ Counted(d.evidence)
        /\ ObjectsIn(d.observations) = ObjectsIn(named.observations) \cup {e.object}
    <3>1. DOMAIN named = DocFields /\ Counted(named.observations) /\ Counted(named.evidence)
      BY <1>4 DEF WellFormed
    <3>. QED  BY <1>2, <2>1, <3>1, ObserveKeeps
  <2>3. Ids(d) = Ids(doc)  BY <2>2 DEF Ids
  <2>4. ObjectsIn(d.observations) = Ids(d)  BY <1>3, <1>4, <1>5, <2>2, <2>3 DEF WellFormed
  <2>5. WellFormed(d)  BY <2>2, <2>4 DEF WellFormed
  <2>6. \A x \in S \cup {e} : x.object \in Ids(d)  BY <1>5, <2>3 DEF Describes
  <2>7. \A o \in ToSet(d.objects) : \E x \in S \cup {e} : Entails(o, x)  BY <2>2 DEF Describes
  <2>. QED  BY <1>2, <2>2, <2>5, <2>6, <2>7 DEF Describes
<1>6. CASE e.object \notin Ids(doc)
  <2>1. PICK with : with = AddObject(named, e.object, e.group, e.places)  OBVIOUS
  <2>2. d = EnsureResource(with, e)  BY <1>1, <1>6, <2>1 DEF AddEntity
  <2>3. /\ WellFormed(with) /\ with.names = named.names /\ with.flows = {}
        /\ ToSet(with.objects) = ToSet(doc.objects) \cup {[id |-> e.object, group |-> e.group]}
        /\ Ids(with) = Ids(doc) \cup {e.object}
    BY <1>2, <1>3, <1>4, <1>6, <2>1, AddObjectKeeps
  <2>4. Entails([id |-> e.object, group |-> e.group], e)  BY DEF Entails
  <2>5. \A o \in ToSet(with.objects) : \E x \in S \cup {e} : Entails(o, x)  BY <2>3, <2>4 DEF Describes
  <2>6. \A x \in S \cup {e} : x.object \in Ids(with)  BY <2>3 DEF Describes
  <2>7. Describes(with, S \cup {e})  BY <1>2, <2>3, <2>5, <2>6 DEF Describes
  <2>8. CASE e.resource = None \/ e.resource \in Ids(with)
    <3>1. d = with  BY <2>2, <2>8 DEF EnsureResource
    <3>. QED  BY <2>3, <2>7, <3>1
  <2>9. CASE ~(e.resource = None \/ e.resource \in Ids(with))
    <3>1. d = AddObject(with, e.resource, "resource", e.places)  BY <2>2, <2>9 DEF EnsureResource
    <3>2. /\ WellFormed(d) /\ d.names = with.names /\ d.flows = with.flows
          /\ ToSet(d.objects) = ToSet(with.objects) \cup {[id |-> e.resource, group |-> "resource"]}
          /\ Ids(d) = Ids(with) \cup {e.resource}
      BY <2>3, <2>9, <3>1, AddObjectKeeps
    <3>3. Entails([id |-> e.resource, group |-> "resource"], e)  BY <2>9 DEF Entails
    <3>4. \A o \in ToSet(d.objects) : \E x \in S \cup {e} : Entails(o, x)  BY <2>5, <3>2, <3>3
    <3>. QED  BY <2>7, <3>2, <3>4 DEF Describes
  <2>. QED  BY <2>8, <2>9
<1>. QED  BY <1>5, <1>6

\* Adding entities is a chain too: one after the other.
IsAdding(made, list, n) ==
    made = [S \in SUBSET (1..n) |-> IF S = {} THEN NewDocument ELSE AddEntity(made[S \ {Max(S)}], list[Max(S)])]

LEMMA AddingExists ==
    ASSUME NEW list, NEW n \in Nat
    PROVE  \E made : IsAdding(made, list, n)
<1>. DEFINE T == {k \in 0..n : \E made : IsAdding(made, list, k)}
<1>1. 0 \in T
  <2>. DEFINE made == [S \in SUBSET (1..0) |-> NewDocument]
  <2>1. \A S \in SUBSET (1..0) : S = {}  OBVIOUS
  <2>2. made = [S \in SUBSET (1..0) |-> IF S = {} THEN NewDocument ELSE AddEntity(made[S \ {Max(S)}], list[Max(S)])]
    BY <2>1
  <2>. HIDE DEF made
  <2>3. IsAdding(made, list, 0)  BY <2>2 DEF IsAdding
  <2>. QED  BY <2>3
<1>2. ASSUME NEW m \in T, m < n  PROVE m + 1 \in T
  <2>1. PICK made : IsAdding(made, list, m)  OBVIOUS
  <2>2. m \in Nat  OBVIOUS
  <2>. DEFINE more == [S \in SUBSET (1..m + 1) |->
                          IF m + 1 \in S THEN AddEntity(made[S \ {m + 1}], list[m + 1]) ELSE made[S]]
  <2>3. \A S \in SUBSET (1..m) :
            made[S] = IF S = {} THEN NewDocument ELSE AddEntity(made[S \ {Max(S)}], list[Max(S)])
    BY <2>1 DEF IsAdding
  <2>4. \A S \in SUBSET (1..m) : S \in SUBSET (1..m + 1) /\ m + 1 \notin S  BY <2>2
  <2>5. \A S \in SUBSET (1..m) : more[S] = made[S]  BY <2>4
  <2>6. ASSUME NEW S \in SUBSET (1..m + 1)
        PROVE  more[S] = IF S = {} THEN NewDocument ELSE AddEntity(more[S \ {Max(S)}], list[Max(S)])
    <3>1. CASE m + 1 \in S
      <4>0. m + 1 \in Nat /\ S # {}  BY <2>2, <3>1
      <4>1. Max(S) \in S /\ \A k \in S : k <= Max(S)  BY <4>0, MaxIsGreatest
      <4>2. Max(S) = m + 1
        <5>1. Max(S) \in 1..m + 1 /\ m + 1 <= Max(S)  BY <3>1, <4>1
        <5>. QED  BY <2>2, <5>1
      <4>3. S \ {m + 1} \in SUBSET (1..m)  BY <2>2
      <4>. QED  BY <2>5, <3>1, <4>2, <4>3
    <3>2. CASE m + 1 \notin S
      <4>1. S \in SUBSET (1..m)  BY <2>2, <3>2
      <4>2. S # {} => Max(S) \in S  BY <2>2, <4>1, MaxIsGreatest
      <4>3. S \ {Max(S)} \in SUBSET (1..m)  BY <4>1
      <4>. QED  BY <2>3, <2>5, <4>1, <4>3
    <3>. QED  BY <3>1, <3>2
  <2>7. more = [S \in SUBSET (1..m + 1) |-> more[S]]  OBVIOUS
  <2>. HIDE DEF more
  <2>8. more = [S \in SUBSET (1..m + 1) |->
                   IF S = {} THEN NewDocument ELSE AddEntity(more[S \ {Max(S)}], list[Max(S)])]
    BY <2>6, <2>7
  <2>9. IsAdding(more, list, m + 1)  BY <2>8 DEF IsAdding
  <2>. QED  BY <1>2, <2>9
<1>3. T \in SUBSET (0..n)  OBVIOUS
<1>4. n \in T
  <2>. HIDE DEF T
  <2>1. T = 0..n  BY <1>1, <1>2, <1>3, SoOfAll
  <2>. QED  BY <2>1
<1>. QED  BY <1>4


AllAdded(list) == FoldLeft(AddEntity, NewDocument, list)

Adds(made, list) ==
    /\ made[0] = NewDocument
    /\ \A i \in 0..Len(list) : i < Len(list) => made[i + 1] = AddEntity(made[i], list[i + 1])

LEMMA AddingIsAChain ==
    ASSUME NEW S, NEW list \in Seq(S)
    PROVE  \E made : Adds(made, list) /\ AllAdded(list) = made[Len(list)]
<1>. DEFINE n == Len(list)
            Iter == CHOOSE made : IsAdding(made, list, n)
            made == [i \in 0..n |-> Iter[1..i]]
<1>1. n \in Nat /\ DOMAIN list = 1..n  OBVIOUS
<1>2. AllAdded(list) = Iter[1..n]
  <2>1. AllAdded(list) = (CHOOSE iter : IsAdding(iter, list, n))[DOMAIN list]
    BY <1>1 DEF AllAdded, FoldLeft, MapThenFoldSet, IsAdding
  <2>. QED  BY <1>1, <2>1
<1>3. IsAdding(Iter, list, n)  BY <1>1, AddingExists
<1>. HIDE DEF n, Iter
<1>4. \A U \in SUBSET (1..n) :
          Iter[U] = IF U = {} THEN NewDocument ELSE AddEntity(Iter[U \ {Max(U)}], list[Max(U)])
  BY <1>3 DEF IsAdding
<1>5. made[0] = NewDocument
  <2>1. 1..0 = {} /\ 0 \in 0..n  BY <1>1
  <2>. QED  BY <1>1, <1>4, <2>1
<1>6. ASSUME NEW i \in 0..n, i < n
      PROVE  made[i + 1] = AddEntity(made[i], list[i + 1])
  <2>1. i \in Nat /\ i + 1 \in 0..n  BY <1>1, <1>6
  <2>2. 1..(i + 1) \in SUBSET (1..n) /\ i + 1 \in 1..(i + 1) /\ (1..(i + 1)) \ {i + 1} = 1..i
    <3>1. \A k : k \in (1..(i + 1)) \ {i + 1} <=> k \in 1..i  BY <2>1
    <3>2. (1..(i + 1)) \ {i + 1} = 1..i  BY <3>1
    <3>3. \A k \in 1..(i + 1) : k \in 1..n  BY <1>1, <1>6, <2>1
    <3>. QED  BY <2>1, <3>2, <3>3
  <2>3. Max(1..(i + 1)) = i + 1
    <3>1. 1..(i + 1) # {}  BY <2>2
    <3>2. Max(1..(i + 1)) \in 1..(i + 1) /\ \A k \in 1..(i + 1) : k <= Max(1..(i + 1))
      BY <1>1, <2>2, <3>1, MaxIsGreatest
    <3>3. i + 1 <= Max(1..(i + 1)) /\ Max(1..(i + 1)) <= i + 1 /\ Max(1..(i + 1)) \in Nat
      BY <2>1, <2>2, <3>2
    <3>. QED  BY <2>1, <3>3
  <2>4. Iter[1..(i + 1)] = AddEntity(Iter[1..i], list[i + 1])  BY <1>4, <2>2, <2>3
  <2>5. made[i + 1] = Iter[1..(i + 1)] /\ made[i] = Iter[1..i]  BY <2>1
  <2>. QED  BY <2>4, <2>5
<1>7. made[n] = Iter[1..n]  BY <1>1
<1>8. Adds(made, list)  BY <1>5, <1>6 DEF Adds, n
<1>. HIDE DEF made
<1>. QED  BY <1>2, <1>7, <1>8 DEF n

\* Every entity has a place.
HavePlaces(entities) == \A e \in entities : e.places \in Seq(ToSet(e.places)) /\ e.places # <<>>

LEMMA NothingAdded == WellFormed(NewDocument) /\ Describes(NewDocument, {})
<1>. DEFINE doc == NewDocument
<1>1. /\ DOMAIN doc = DocFields
      /\ doc.objects = <<>> /\ doc.names = {} /\ doc.observations = <<>> /\ doc.evidence = <<>> /\ doc.flows = {}
  BY DEF NewDocument, DocFields
<1>. HIDE DEF doc
<1>2. ToSet(<<>>) = {} /\ DOMAIN <<>> = {} /\ <<>> \in Seq({})  BY DEF ToSet
<1>3. ObjectsIn(doc.observations) = {} /\ Ids(doc) = {}  BY <1>1, <1>2 DEF ObjectsIn, Ids
<1>4. Counted(doc.observations) /\ Counted(doc.evidence)  BY <1>1, <1>2 DEF Counted
<1>5. WellFormed(doc)  BY <1>1, <1>2, <1>3, <1>4 DEF WellFormed
<1>6. Describes(doc, {})  BY <1>1, <1>2 DEF Describes
<1>. QED  BY <1>5, <1>6 DEF doc

\* Whatever is added, the document keeps its form and tells it.
LEMMA AllAddedFits ==
    ASSUME NEW list, list \in Seq(ToSet(list)), HavePlaces(ToSet(list))
    PROVE  WellFormed(AllAdded(list)) /\ Describes(AllAdded(list), ToSet(list))
<1>1. PICK made : Adds(made, list) /\ AllAdded(list) = made[Len(list)]  BY AddingIsAChain
<1>. DEFINE n == Len(list)
            Some(k) == {list[i] : i \in 1..k}
            T == {k \in 0..n : WellFormed(made[k]) /\ Describes(made[k], Some(k))}
<1>2. n \in Nat /\ DOMAIN list = 1..n /\ \A i \in 1..n : list[i] \in ToSet(list)  BY DEF ToSet
<1>3. 0 \in T
  <2>1. Some(0) = {} /\ 0 \in 0..n  BY <1>2
  <2>2. made[0] = NewDocument  BY <1>1 DEF Adds
  <2>. QED  BY <2>1, <2>2, NothingAdded
<1>4. ASSUME NEW k \in T, k < n  PROVE k + 1 \in T
  <2>1. k + 1 \in 0..n /\ k + 1 \in 1..n /\ k \in Nat /\ k \in 0..n  BY <1>2, <1>4
  <2>2. made[k + 1] = AddEntity(made[k], list[k + 1])  BY <1>1, <1>4, <2>1 DEF Adds
  <2>3. Some(k + 1) = Some(k) \cup {list[k + 1]}
    <3>1. \A i : i \in 1..(k + 1) <=> i \in 1..k \/ i = k + 1  BY <2>1
    <3>. QED  BY <3>1
  <2>4. list[k + 1].places \in Seq(ToSet(list[k + 1].places)) /\ list[k + 1].places # <<>>
    BY <1>2, <2>1 DEF HavePlaces
  <2>5. PICK S : S = Some(k)  OBVIOUS
  <2>6. WellFormed(made[k]) /\ Describes(made[k], S)  BY <2>5
  <2>7. PICK e : e = list[k + 1]  OBVIOUS
  <2>8. WellFormed(made[k + 1]) /\ Describes(made[k + 1], S \cup {e})
    BY <2>2, <2>4, <2>6, <2>7, AddEntityKeeps
  <2>9. Some(k + 1) = S \cup {e}  BY <2>3, <2>5, <2>7
  <2>. QED  BY <2>1, <2>8, <2>9
<1>5. n \in T
  <2>. HIDE DEF T
  <2>1. T \in SUBSET (0..n)  BY DEF T
  <2>2. T = 0..n  BY <1>2, <1>3, <1>4, <2>1, SoOfAll
  <2>. QED  BY <1>2, <2>2
<1>6. Some(n) = ToSet(list)  BY <1>2 DEF ToSet
<1>. QED  BY <1>1, <1>5, <1>6

\* What the groups of entities with one object are.
Alike(g, h) == g = h \/ {g, h} = {"command", "execution"}

Classed(offered, needed) ==
    /\ \A e \in offered : e.group \in Entrypoints
    /\ \A e \in needed : e.group \in Dependents \cup {"execution"}
    /\ \A a, b \in offered \cup needed :
          a.object \notin {None, b.resource} /\ (a.object = b.object => Alike(a.group, b.group))
    /\ \A a, b \in needed : a.entity = b.entity => a = b

\* Connections lead from what is offered to what is needed.
Leads(offered, needed, ends) ==
    \A c \in ends : \A e \in offered \cup needed :
        (e.entity = c[1] => e \in offered) /\ (e.entity = c[2] => e \in needed)

LEMMA AlikeGroups ==
    ASSUME NEW g, NEW h, Alike(g, h)
    PROVE  /\ g \in Entrypoints => h \in Entrypoints \cup {"execution"} /\ h \notin Dependents \cup {"resource"}
           /\ g \in Dependents => h = g
           /\ g = "execution" => h \notin Dependents
           /\ g \in Dependents \cup {"execution"} => h \notin Entrypoints \ {"command"}
<1>1. g = h \/ (g \in {"command", "execution"} /\ h \in {"command", "execution"})  BY DEF Alike
<1>. QED  BY <1>1 DEF Entrypoints, Dependents

\* Entities with one object put it into one group, but for commands.
LEMMA ObjectsAreOfEntities ==
    ASSUME NEW doc, NEW offered, NEW needed, Describes(doc, offered \cup needed), Classed(offered, needed),
           NEW o \in ToSet(doc.objects), NEW e \in offered \cup needed, e.object = o.id
    PROVE  Alike(e.group, o.group)
<1>1. PICK x \in offered \cup needed : Entails(o, x)  BY DEF Describes
<1>2. e.object # x.resource /\ (e.object = x.object => Alike(e.group, x.group))  BY DEF Classed
<1>3. x.object = o.id /\ x.group = o.group  BY <1>1, <1>2 DEF Entails
<1>. QED  BY <1>2, <1>3

LEMMA IdsAreOfObjects ==
    ASSUME NEW doc, NEW i
    PROVE  i \in Ids(doc) <=> \E o \in ToSet(doc.objects) : o.id = i
BY DEF Ids

LEMMA NoneIsNoObject ==
    ASSUME NEW doc, NEW offered, NEW needed, Describes(doc, offered \cup needed), Classed(offered, needed)
    PROVE  None \notin Ids(doc)
<1>. SUFFICES ASSUME NEW o \in ToSet(doc.objects), o.id = None  PROVE FALSE  BY IdsAreOfObjects
<1>1. PICK x \in offered \cup needed : Entails(o, x)  BY DEF Describes
<1>2. x.object # None  BY DEF Classed
<1>. QED  BY <1>1, <1>2 DEF Entails

\* What is read back of the entities of a document.
LEMMA EntitiesAreRead ==
    ASSUME NEW doc, NEW offered, NEW needed, Describes(doc, offered \cup needed), Classed(offered, needed),
           NEW e \in offered \cup needed
    PROVE  /\ e \in offered => e.object \in ReadExposures(doc)
           /\ e \in needed /\ e.group # "execution" => e.object \in ReadDependencies(doc)
           /\ e.object \in ReadDependencies(doc) => e \in needed /\ e.group # "execution"
<1>1. e.object \in Ids(doc)  BY DEF Describes
<1>2. PICK o \in ToSet(doc.objects) : o.id = e.object  BY <1>1, IdsAreOfObjects
<1>3. Alike(e.group, o.group)  BY <1>2, ObjectsAreOfEntities
<1>4. ASSUME e \in offered  PROVE e.object \in ReadExposures(doc)
  <2>1. e.group \in Entrypoints  BY <1>4 DEF Classed
  <2>2. o.group \in Entrypoints \cup {"execution"}  BY <1>3, <2>1, AlikeGroups
  <2>. QED  BY <1>2, <2>2 DEF ReadExposures
<1>5. ASSUME e \in needed, e.group # "execution"  PROVE e.object \in ReadDependencies(doc)
  <2>1. e.group \in Dependents  BY <1>5 DEF Classed
  <2>2. o.group \in Dependents  BY <1>3, <2>1, AlikeGroups
  <2>. QED  BY <1>2, <2>2 DEF ReadDependencies
<1>6. ASSUME e.object \in ReadDependencies(doc)  PROVE e \in needed /\ e.group # "execution"
  <2>1. PICK p \in ToSet(doc.objects) : p.id = e.object /\ p.group \in Dependents
    BY <1>6 DEF ReadDependencies
  <2>2. Alike(e.group, p.group)  BY <2>1, ObjectsAreOfEntities
  <2>3. e.group \notin Entrypoints /\ e.group # "execution"  BY <2>1, <2>2, AlikeGroups
  <2>. QED  BY <2>3 DEF Classed
<1>. QED  BY <1>4, <1>5, <1>6

MeaningOf(entities, e) == {x.object : x \in {y \in entities : y.entity = e}}

\* What flows a document has.
FlowsTell(d, entities, offered, ends) ==
    /\ \A f \in d.flows :
          \/ \E c \in ends : f.entry \in MeaningOf(entities, c[1]) /\ f.to \in MeaningOf(entities, c[2])
          \/ f.to = None /\ \E x \in offered : f.entry \in MeaningOf(entities, x.entity)
    /\ \A c \in ends : \A a \in MeaningOf(entities, c[1]), b \in MeaningOf(entities, c[2]) :
          \E f \in d.flows : f.entry = a /\ f.to = b
    /\ \A x \in offered : \A a \in MeaningOf(entities, x.entity) : \E f \in d.flows : f.entry = a

LEMMA ObjectsAreMeanings ==
    ASSUME NEW doc, NEW entities, doc.names = {<<e.entity, e.object>> : e \in entities}, NEW entity
    PROVE  ObjectOf(doc, entity) = MeaningOf(entities, entity)
<1>1. \A o : o \in ObjectOf(doc, entity) <=> \E p \in doc.names : p[1] = entity /\ p[2] = o
  BY DEF ObjectOf
<1>2. \A o : o \in MeaningOf(entities, entity) <=> \E e \in entities : e.entity = entity /\ e.object = o
  BY DEF MeaningOf
<1>3. ASSUME NEW o, NEW p \in doc.names, p[1] = entity, p[2] = o
      PROVE  \E e \in entities : e.entity = entity /\ e.object = o
  <2>1. PICK e \in entities : p = <<e.entity, e.object>>  OBVIOUS
  <2>2. p[1] = e.entity /\ p[2] = e.object  BY <2>1
  <2>. QED  BY <1>3, <2>2
<1>4. ASSUME NEW e \in entities
      PROVE  \E p \in doc.names : p[1] = e.entity /\ p[2] = e.object
  <2>1. PICK p : p = <<e.entity, e.object>>  OBVIOUS
  <2>2. p \in doc.names  BY <2>1
  <2>. QED  BY <2>1, <2>2
<1>. DEFINE O == ObjectOf(doc, entity)
            M == MeaningOf(entities, entity)
<1>5. \A o \in O : o \in M  BY <1>1, <1>2, <1>3
<1>6. \A o \in M : o \in O
  <2>. SUFFICES ASSUME NEW o \in M  PROVE o \in O  OBVIOUS
  <2>1. PICK e \in entities : e.entity = entity /\ e.object = o  BY <1>2
  <2>2. \E p \in doc.names : p[1] = entity /\ p[2] = o  BY <1>4, <2>1
  <2>. QED  BY <1>1, <2>2
<1>. HIDE DEF O, M
<1>7. O = M  BY <1>5, <1>6
<1>. QED  BY <1>7 DEF O, M

LEMMA FlowsAreAdded ==
    ASSUME NEW doc, NEW entities, WellFormed(doc), Describes(doc, entities),
           NEW exposed, NEW offered, offered = ToSet(exposed), NEW ends,
           NEW d, d = AddTraces(AddFlows(doc, ends), exposed)
    PROVE  /\ d.objects = doc.objects /\ d.observations = doc.observations /\ d.evidence = doc.evidence
           /\ FlowsTell(d, entities, offered, ends)
<1>. DEFINE linking == UNION {[entry : ObjectOf(doc, c[1]), to : ObjectOf(doc, c[2])] : c \in ends}
<1>1. PICK flowing : flowing = [doc EXCEPT !.flows = linking]  OBVIOUS
<1>2. AddFlows(doc, ends) = flowing
  <2>1. doc.flows = {}  BY DEF Describes
  <2>2. doc.flows \cup linking = linking  BY <2>1
  <2>. HIDE DEF linking
  <2>3. flowing = [doc EXCEPT !.flows = doc.flows \cup linking]  BY <1>1, <2>2
  <2>. QED  BY <2>3 DEF AddFlows, linking
<1>. HIDE DEF linking
<1>3. /\ DOMAIN flowing = DocFields /\ flowing.flows = linking
      /\ flowing.objects = doc.objects /\ flowing.names = doc.names
      /\ flowing.observations = doc.observations /\ flowing.evidence = doc.evidence
  BY <1>1 DEF WellFormed, DocFields
<1>. DEFINE entries == UNION {ObjectOf(flowing, e.entity) : e \in offered}
            traces == [entry : entries \ FlowedFrom(flowing), to : {None}]
<1>4. d = [flowing EXCEPT !.flows = @ \cup traces]  BY <1>2 DEF AddTraces
<1>5. /\ d.objects = doc.objects /\ d.observations = doc.observations /\ d.evidence = doc.evidence
      /\ d.flows = linking \cup traces
  <2>. HIDE DEF traces
  <2>. QED  BY <1>3, <1>4 DEF DocFields
<1>6. \A e : ObjectOf(doc, e) = MeaningOf(entities, e) /\ ObjectOf(flowing, e) = MeaningOf(entities, e)
  <2>1. doc.names = {<<e.entity, e.object>> : e \in entities}  BY DEF Describes
  <2>2. flowing.names = {<<e.entity, e.object>> : e \in entities}  BY <1>3, <2>1
  <2>. QED  BY <2>1, <2>2, ObjectsAreMeanings
<1>7. \A f : f \in linking <=>
                \E c \in ends : f \in [entry : MeaningOf(entities, c[1]), to : MeaningOf(entities, c[2])]
  BY <1>6 DEF linking
<1>8. \A a : a \in entries <=> \E x \in offered : a \in MeaningOf(entities, x.entity)
  BY <1>6
<1>. HIDE DEF entries
<1>9. ASSUME NEW f \in d.flows
      PROVE  \/ \E c \in ends : f.entry \in MeaningOf(entities, c[1]) /\ f.to \in MeaningOf(entities, c[2])
             \/ f.to = None /\ \E x \in offered : f.entry \in MeaningOf(entities, x.entity)
  <2>1. CASE f \in linking  BY <1>7, <2>1
  <2>2. CASE f \in traces  BY <1>8, <2>2
  <2>. QED  BY <1>5, <2>1, <2>2
<1>10. ASSUME NEW c \in ends, NEW a \in MeaningOf(entities, c[1]), NEW b \in MeaningOf(entities, c[2])
       PROVE  \E f \in d.flows : f.entry = a /\ f.to = b
  <2>1. PICK f : f = [entry |-> a, to |-> b]  OBVIOUS
  <2>2. f \in [entry : MeaningOf(entities, c[1]), to : MeaningOf(entities, c[2])]  BY <2>1
  <2>3. f \in d.flows  BY <1>5, <1>7, <2>2
  <2>. QED  BY <2>1, <2>3
<1>11. ASSUME NEW x \in offered, NEW a \in MeaningOf(entities, x.entity)
       PROVE  \E f \in d.flows : f.entry = a
  <2>1. a \in entries  BY <1>8
  <2>2. CASE a \in FlowedFrom(flowing)
    <3>1. PICK g \in flowing.flows : g.entry = a  BY <2>2 DEF FlowedFrom
    <3>. QED  BY <1>3, <1>5, <3>1
  <2>3. CASE a \notin FlowedFrom(flowing)
    <3>1. PICK f : f = [entry |-> a, to |-> None]  OBVIOUS
    <3>2. f \in traces  BY <2>1, <2>3, <3>1
    <3>. QED  BY <1>5, <3>1, <3>2
  <2>. QED  BY <2>2, <2>3
<1>. QED  BY <1>5, <1>9, <1>10, <1>11 DEF FlowsTell

LEMMA CountedIsNumbered ==
    ASSUME NEW items, Counted(items)
    PROVE  Numbered(items)
<1>. DEFINE names == [i \in DOMAIN items |-> <<items[i].object, items[i].n>>]
<1>1. ASSUME NEW i \in DOMAIN names, NEW j \in DOMAIN names, names[i] = names[j]  PROVE i = j
  <2>1. i \in DOMAIN items /\ j \in DOMAIN items  OBVIOUS
  <2>2. <<items[i].object, items[i].n>> = <<items[j].object, items[j].n>>  BY <1>1
  <2>3. items[i].object = items[j].object /\ items[i].n = items[j].n  BY <2>2
  <2>. QED  BY <2>1, <2>3 DEF Counted
<1>. HIDE DEF names
<1>2. IsInjective(names)  BY <1>1 DEF IsInjective
<1>. QED  BY <1>2 DEF Numbered, names

\* A document is in order, but for how its ids look.
LEMMA DocumentIsValid ==
    ASSUME NEW doc, NEW offered, NEW needed, WellFormed(doc), Describes(doc, offered \cup needed),
           Classed(offered, needed), NEW ends, Leads(offered, needed, ends),
           NEW d, d.objects = doc.objects, d.observations = doc.observations, d.evidence = doc.evidence,
           FlowsTell(d, offered \cup needed, offered, ends),
           Ids(d) \cap Refused = {}, \A f \in d.flows : <<f.entry, f.to>> \notin Refused
    PROVE  Valid(d)
<1>. DEFINE S == offered \cup needed
<1>1. Ids(d) = Ids(doc)  BY DEF Ids
<1>2. ValidObjects(d)
  <2>. DEFINE ids == [i \in DOMAIN d.objects |-> d.objects[i].id]
  <2>1. \A i, j \in DOMAIN doc.objects : doc.objects[i].id = doc.objects[j].id => i = j  BY DEF WellFormed
  <2>2. \A i, j \in DOMAIN ids : ids[i] = ids[j] => i = j  BY <2>1
  <2>. HIDE DEF ids
  <2>3. IsInjective(ids)  BY <2>2 DEF IsInjective
  <2>. QED  BY <2>3 DEF ValidObjects, ids
<1>3. ValidPlaces(d)
  <2>1. Numbered(d.observations) /\ Numbered(d.evidence)  BY CountedIsNumbered DEF WellFormed
  <2>2. ObjectsIn(d.observations) = Ids(d)  BY <1>1 DEF WellFormed
  <2>3. \A o : o \in ObjectsIn(d.observations) <=> \E b \in ToSet(d.observations) : b.object = o
    BY DEF ObjectsIn
  <2>. QED  BY <2>1, <2>2, <2>3 DEF ValidPlaces
<1>4. \A e : MeaningOf(S, e) \subseteq Ids(d)  BY <1>1 DEF MeaningOf, Describes
<1>5. ASSUME NEW f \in d.flows  PROVE ValidFlow(d, f)
  <2>1. \/ \E c \in ends : f.entry \in MeaningOf(S, c[1]) /\ f.to \in MeaningOf(S, c[2])
        \/ f.to = None /\ \E x \in offered : f.entry \in MeaningOf(S, x.entity)
    BY DEF FlowsTell
  <2>. HIDE DEF S
  <2>2. f.entry \in Ids(d) /\ f.to \in Ids(d) \cup {None}  BY <1>4, <2>1
  <2>. QED  BY <2>2 DEF ValidFlow
<1>6. ASSUME NEW o \in ToSet(d.objects), o.group \in Entrypoints
      PROVE  \E f \in d.flows : f.entry = o.id
  <2>1. PICK e \in S : Entails(o, e)  BY DEF Describes
  <2>2. o.group # "resource"  BY <1>6 DEF Entrypoints
  <2>3. e.object = o.id /\ e.group = o.group  BY <2>1, <2>2 DEF Entails
  <2>4. e \in offered
    <3>1. \A g \in Dependents \cup {"execution"} : g \notin Entrypoints  BY DEF Entrypoints, Dependents
    <3>. QED  BY <1>6, <2>3, <3>1 DEF Classed
  <2>5. o.id \in MeaningOf(S, e.entity)  BY <2>3 DEF MeaningOf
  <2>. HIDE DEF S
  <2>. QED  BY <2>4, <2>5 DEF FlowsTell, S
<1>7. EntriesFlow(d)  BY <1>6 DEF EntriesFlow
<1>. QED  BY <1>2, <1>3, <1>5, <1>7 DEF Valid

ToldOf(entities, ends, executed) ==
    UNION {MeaningOf(entities, c[1]) \X MeaningOf(entities, c[2]) : c \in {k \in ends : k[2] \notin executed}}
ExecutedOf(needed) == {e.entity : e \in {n \in needed : n.group = "execution"}}

\* The connections of a run are what is read back of its flows.
LEMMA ConnectionsAreRead ==
    ASSUME NEW doc, NEW offered, NEW needed, Describes(doc, offered \cup needed), Classed(offered, needed),
           NEW ends, Leads(offered, needed, ends),
           NEW d, d.objects = doc.objects, FlowsTell(d, offered \cup needed, offered, ends),
           NEW executed, executed = ExecutedOf(needed)
    PROVE  ReadConnections(d) = ToldOf(offered \cup needed, ends, executed)
<1>. DEFINE S == offered \cup needed
            Told == UNION {MeaningOf(S, c[1]) \X MeaningOf(S, c[2]) : c \in {k \in ends : k[2] \notin executed}}
<1>1. ReadExposures(d) = ReadExposures(doc) /\ ReadDependencies(d) = ReadDependencies(doc)
  BY DEF ReadExposures, ReadDependencies
<1>2. \A e : \A a : a \in MeaningOf(S, e) <=> \E x \in S : x.entity = e /\ x.object = a  BY DEF MeaningOf
<1>3. \A i \in ReadDependencies(d) : i \in Ids(doc)  BY <1>1 DEF ReadDependencies, Ids
<1>4. None \notin ReadDependencies(d)  BY <1>3, NoneIsNoObject
<1>. HIDE DEF S
<1>5. ASSUME NEW t \in ReadConnections(d)  PROVE t \in Told
  <2>1. PICK f \in d.flows :
           t = <<f.entry, f.to>> /\ f.entry \in ReadExposures(d) /\ f.to \in ReadDependencies(d)
    BY DEF ReadConnections
  <2>2. f.to # None  BY <1>4, <2>1
  <2>3. PICK c \in ends : f.entry \in MeaningOf(S, c[1]) /\ f.to \in MeaningOf(S, c[2])
    BY <2>2 DEF FlowsTell, S
  <2>4. PICK y \in S : y.entity = c[2] /\ y.object = f.to  BY <1>2, <2>3
  <2>5. y \in needed /\ y.group # "execution"  BY <1>1, <2>1, <2>4, EntitiesAreRead DEF S
  <2>6. c[2] \notin executed  BY <2>4, <2>5 DEF Classed, ExecutedOf
  <2>7. <<f.entry, f.to>> \in MeaningOf(S, c[1]) \X MeaningOf(S, c[2])  BY <2>3
  <2>. QED  BY <2>1, <2>6, <2>7
<1>6. ASSUME NEW t \in Told  PROVE t \in ReadConnections(d)
  <2>1. PICK c \in ends : c[2] \notin executed /\ t \in MeaningOf(S, c[1]) \X MeaningOf(S, c[2])  OBVIOUS
  <2>2. PICK a \in MeaningOf(S, c[1]), b \in MeaningOf(S, c[2]) : t = <<a, b>>  BY <2>1
  <2>3. PICK x \in S : x.entity = c[1] /\ x.object = a  BY <1>2
  <2>4. PICK y \in S : y.entity = c[2] /\ y.object = b  BY <1>2
  <2>5. x \in offered /\ y \in needed  BY <2>3, <2>4 DEF Leads, S
  <2>6. y.group # "execution"  BY <2>1, <2>4, <2>5 DEF ExecutedOf
  <2>7. a \in ReadExposures(d) /\ b \in ReadDependencies(d)
    BY <1>1, <2>3, <2>4, <2>5, <2>6, EntitiesAreRead DEF S
  <2>8. \E f \in d.flows : f.entry = a /\ f.to = b
    <3>1. \A p \in MeaningOf(S, c[1]), q \in MeaningOf(S, c[2]) : \E f \in d.flows : f.entry = p /\ f.to = q
      BY DEF FlowsTell, S
    <3>. QED  BY <3>1
  <2>. QED  BY <2>2, <2>7, <2>8 DEF ReadConnections
<1>. HIDE DEF Told
<1>7. ReadConnections(d) = Told  BY <1>5, <1>6
<1>. QED  BY <1>7 DEF ToldOf, Told, S

\* A document tells what it is built of.
LEMMA DocumentTells ==
    ASSUME NEW exposed, exposed \in Seq(ToSet(exposed)), NEW needing, needing \in Seq(ToSet(needing)),
           NEW offered, offered = ToSet(exposed), NEW needed, needed = ToSet(needing),
           HavePlaces(offered \cup needed), Classed(offered, needed),
           NEW ends, Leads(offered, needed, ends), NEW d, d = BuildDocument(exposed, needing, ends)
    PROVE  TellsTheResult(d, exposed, needing, ends)
<1>1. PICK list : list = exposed \o needing  OBVIOUS
<1>2. ToSet(list) = offered \cup needed /\ list \in Seq(ToSet(list))
  <2>1. Joins(exposed, needing, list)  BY <1>1, Joined
  <2>. QED  BY <2>1 DEF Joins
<1>3. PICK doc : doc = AllAdded(list)  OBVIOUS
<1>4. WellFormed(doc) /\ Describes(doc, offered \cup needed)
  <2>1. HavePlaces(ToSet(list))  BY <1>2
  <2>2. WellFormed(AllAdded(list)) /\ Describes(AllAdded(list), ToSet(list))  BY <1>2, <2>1, AllAddedFits
  <2>. QED  BY <1>2, <1>3, <2>2
<1>5. d = AddTraces(AddFlows(doc, ends), exposed)  BY <1>1, <1>3 DEF BuildDocument, AllAdded
<1>6. /\ d.objects = doc.objects /\ d.observations = doc.observations /\ d.evidence = doc.evidence
      /\ FlowsTell(d, offered \cup needed, offered, ends)
  BY <1>4, <1>5, FlowsAreAdded
<1>7. \/ Valid(d)
      \/ Ids(d) \cap Refused # {} \/ \E f \in d.flows : <<f.entry, f.to>> \in Refused
  BY <1>4, <1>6, DocumentIsValid
<1>8. ReadExposures(d) = ReadExposures(doc) /\ ReadDependencies(d) = ReadDependencies(doc)
  BY <1>6 DEF ReadExposures, ReadDependencies
<1>9. PICK executed : executed = ExecutedOf(needed)  OBVIOUS
<1>10. \A e \in offered : e.object \in ReadExposures(d)  BY <1>4, <1>8, EntitiesAreRead
<1>11. \A e \in needed : e.entity \in executed \/ e.object \in ReadDependencies(d)
  <2>1. \A e \in needed : e.group = "execution" => e.entity \in executed  BY <1>9 DEF ExecutedOf
  <2>2. \A e \in needed : e.group # "execution" => e.object \in ReadDependencies(d)
    BY <1>4, <1>8, EntitiesAreRead
  <2>. QED  BY <2>1, <2>2
<1>12. ReadConnections(d) = ToldOf(offered \cup needed, ends, executed)
  BY <1>4, <1>6, <1>9, ConnectionsAreRead
<1>13. ToSet(exposed \o needing) = offered \cup needed  BY <1>1, <1>2
<1>. QED  BY <1>7, <1>9, <1>10, <1>11, <1>12, <1>13
  DEF TellsTheResult, ToldOf, ExecutedOf, MeaningOf

-----------------------------------------------------------------------------
\* The entities of a run, and where its connections lead.
LEMMA EntityHas ==
    ASSUME NEW m, NEW kind, NEW id, NEW meant, NEW e, e = Entity(m, kind, id, meant)
    PROVE  /\ e.entity = <<kind, id>> /\ e.entity[1] = kind /\ e.entity[2] = id
           /\ e.object = m[meant].object /\ e.group = m[meant].group
           /\ e.resource = m[meant].resource /\ e.places = Places[id]
BY DEF Entity

LEMMA EntitiesOffered ==
    ASSUME NEW m, exposures \subseteq Exposures
    PROVE  /\ Exposed(m) \in Seq(ToSet(Exposed(m)))
           /\ ToSet(Exposed(m)) = {Entity(m, "exposure", x, x) : x \in exposures}
<1>. DEFINE list == SetToSeq(exposures)
            n == Cardinality(exposures)
            E(x) == Entity(m, "exposure", x, x)
<1>1. IsFiniteSet(exposures)  BY RunAssumption, FS_Subset
<1>2. n \in Nat  BY <1>1, FS_CardinalityType
<1>3. DOMAIN list = 1..n /\ ToSet(list) = exposures  BY <1>1, ListOfSet
<1>4. Exposed(m) = [i \in 1..n |-> E(list[i])]  BY DEF Exposed
<1>. HIDE DEF list, n, E
<1>5. ToSet(Exposed(m)) = {E(list[i]) : i \in 1..n}  BY <1>4 DEF ToSet
<1>6. exposures = {list[i] : i \in 1..n}  BY <1>3 DEF ToSet
<1>7. ToSet(Exposed(m)) = {E(x) : x \in exposures}  BY <1>5, <1>6
<1>8. Exposed(m) \in Seq(ToSet(Exposed(m)))
  <2>1. Exposed(m) \in [1..n -> ToSet(Exposed(m))]  BY <1>4, <1>5
  <2>. QED  BY <1>2, <2>1
<1>. QED  BY <1>7, <1>8 DEF E

LEMMA EntitiesNeeded ==
    ASSUME NEW m, Keyed(dependencies)
    PROVE  /\ Needed(m) \in Seq(ToSet(Needed(m)))
           /\ ToSet(Needed(m)) = {Entity(m, "dependency", r.id, r.fact) : r \in ToSet(dependencies)}
<1>. DEFINE n == Len(dependencies)
            E(r) == Entity(m, "dependency", r.id, r.fact)
<1>1. DOMAIN dependencies = 1..n /\ n \in Nat  BY KeyedRows
<1>2. Needed(m) = [i \in 1..n |-> E(dependencies[i])]  BY <1>1 DEF Needed
<1>. HIDE DEF n, E
<1>3. ToSet(Needed(m)) = {E(dependencies[i]) : i \in 1..n}  BY <1>2 DEF ToSet
<1>4. ToSet(dependencies) = {dependencies[i] : i \in 1..n}  BY <1>1 DEF ToSet
<1>5. ToSet(Needed(m)) = {E(r) : r \in ToSet(dependencies)}  BY <1>3, <1>4
<1>6. Needed(m) \in Seq(ToSet(Needed(m)))
  <2>1. Needed(m) \in [1..n -> ToSet(Needed(m))]  BY <1>2, <1>3
  <2>. QED  BY <1>1, <2>1
<1>. QED  BY <1>5, <1>6 DEF E

LEMMA RowsOfCode ==
    ASSUME NEW c \in Sources, NEW D, OfCode(c, D), NEW d \in D
    PROVE  d.id \in RowIds /\ d.fact \in Facts
<1>1. CASE \E r \in c.found : d.id = r.id /\ d.fact = r.fact  BY <1>1 DEF RowIds, Facts
<1>2. CASE \E s \in DOMAIN Repository : d.id = Repository[s].id /\ d.fact = Repository[s].fact
  BY <1>2 DEF RowIds, Facts
<1>. QED  BY <1>1, <1>2 DEF OfCode

LEMMA ResultIsTold ==
    ASSUME RunInv, RowsInv, phase = "artifacts", NEW m \in Meanings
    PROVE  TellsTheResult(Document(m), Exposed(m), Needed(m), Flowing)
<1>. DEFINE D == ToSet(dependencies)
            X(x) == Entity(m, "exposure", x, x)
            N(r) == Entity(m, "dependency", r.id, r.fact)
<1>1. /\ code \in Sources /\ exposures \subseteq Exposures /\ Keyed(dependencies) /\ OfCode(code, D)
      /\ \A c \in connections : \E x, d : c = <<x, d>>
  BY DEF RunInv, RowsInv
<1>2. PICK offered : offered = ToSet(Exposed(m))  OBVIOUS
<1>3. PICK needed : needed = ToSet(Needed(m))  OBVIOUS
<1>4. Exposed(m) \in Seq(ToSet(Exposed(m))) /\ offered = {X(x) : x \in exposures}
  BY <1>1, <1>2, EntitiesOffered
<1>5. Needed(m) \in Seq(ToSet(Needed(m))) /\ needed = {N(r) : r \in D}  BY <1>1, <1>3, EntitiesNeeded
<1>6. \A r \in D : r.id \in RowIds /\ r.fact \in Facts  BY <1>1, RowsOfCode
<1>. HIDE DEF D
<1>7. ASSUME NEW e \in offered
      PROVE  \E x \in Exposures : /\ e = X(x) /\ e.entity[1] = "exposure" /\ e.places = Places[x]
                                  /\ e.object = m[x].object /\ e.group = m[x].group /\ e.resource = m[x].resource
  <2>1. PICK x \in exposures : e = X(x)  BY <1>4
  <2>. QED  BY <1>1, <2>1, EntityHas
<1>8. ASSUME NEW e \in needed
      PROVE  \E r \in D :
                /\ e = N(r) /\ e.entity[1] = "dependency" /\ e.entity[2] = r.id /\ e.places = Places[r.id]
                /\ e.object = m[r.fact].object /\ e.group = m[r.fact].group /\ e.resource = m[r.fact].resource
  <2>1. PICK r \in D : e = N(r)  BY <1>5
  <2>. QED  BY <2>1, EntityHas
<1>9. \A e \in offered \cup needed : \E x \in Exposures \cup RowIds : e.places = Places[x]
  BY <1>6, <1>7, <1>8
<1>10. \A e \in offered \cup needed : \E a \in Exposures \cup Facts :
          e.object = m[a].object /\ e.group = m[a].group /\ e.resource = m[a].resource
  BY <1>6, <1>7, <1>8
<1>11. /\ \A e \in offered : \E x \in Exposures : e.group = m[x].group
       /\ \A e \in needed : \E f \in Facts : e.group = m[f].group
  BY <1>6, <1>7, <1>8
<1>12. ASSUME NEW a \in needed, NEW b \in needed, a.entity = b.entity  PROVE a = b
  <2>1. PICK r \in D : a = N(r) /\ a.entity[2] = r.id  BY <1>8
  <2>2. PICK q \in D : b = N(q) /\ b.entity[2] = q.id  BY <1>8
  <2>3. r.id = q.id  BY <1>12, <2>1, <2>2
  <2>4. r = q  BY <1>1, <2>3, KeyedRows DEF D
  <2>. QED  BY <2>1, <2>2, <2>4
<1>13. HavePlaces(offered \cup needed)
  <2>1. \A x \in Exposures \cup RowIds : Places[x] \in Seq(ToSet(Places[x])) /\ Places[x] # <<>>
    BY DocumentAssumption
  <2>. QED  BY <1>9, <2>1 DEF HavePlaces
<1>14. Classed(offered, needed)
  <2>1. /\ \A x \in Exposures : m[x].group \in Entrypoints
        /\ \A f \in Facts : m[f].group \in Dependents \cup {"execution"}
        /\ \A a, b \in Exposures \cup Facts :
              /\ m[a].object \notin {None, m[b].resource}
              /\ m[a].object = m[b].object => Alike(m[a].group, m[b].group)
    BY DocumentAssumption DEF Alike
  <2>2. \A e \in offered : e.group \in Entrypoints  BY <1>11, <2>1
  <2>3. \A e \in needed : e.group \in Dependents \cup {"execution"}  BY <1>11, <2>1
  <2>4. \A a, b \in offered \cup needed :
           a.object \notin {None, b.resource} /\ (a.object = b.object => Alike(a.group, b.group))
    BY <1>10, <2>1
  <2>. QED  BY <1>12, <2>2, <2>3, <2>4 DEF Classed
<1>15. Leads(offered, needed, Flowing)
  <2>1. ASSUME NEW c \in Flowing  PROVE c[1][1] = "exposure" /\ c[2][1] = "dependency"
    <3>1. PICK k \in connections : c = <<<<"exposure", k[1]>>, <<"dependency", k[2]>>>>  BY DEF Flowing
    <3>. QED  BY <3>1
  <2>2. \A e \in offered : e.entity[1] = "exposure"  BY <1>7
  <2>3. \A e \in needed : e.entity[1] = "dependency"  BY <1>8
  <2>4. "exposure" # "dependency"  OBVIOUS
  <2>. QED  BY <2>1, <2>2, <2>3, <2>4 DEF Leads
<1>16. Document(m) = BuildDocument(Exposed(m), Needed(m), Flowing)  BY DEF Document
<1>. QED  BY <1>2, <1>3, <1>4, <1>5, <1>13, <1>14, <1>15, <1>16, DocumentTells

\* Nothing found is lost on its way to the workspace: every data store the
\* detectors named is told of by a row of the result, no connection loses its
\* row, and the document that is written tells each exposure, dependency and
\* connection of the result, whatever they mean (reconcile, protocol.go,
\* validate.go); if the methods of repositories that stand for one fact are of
\* one class.
THEOREM FoundReachesTheWorkspace == FactsAreOfOneClass => (Spec => []NothingFoundIsLost)
<1>. SUFFICES ASSUME FactsAreOfOneClass  PROVE Spec => []NothingFoundIsLost  OBVIOUS
<1>1. RunInv /\ RowsInv => NothingFoundIsLost
  <2>. SUFFICES ASSUME RunInv, RowsInv  PROVE NothingFoundIsLost  OBVIOUS
  <2>1. event = "completed" =>
           /\ \A u \in unresolved : u[1] # "connection"
           /\ \A r \in code.found : r.platform # 0 =>
                 \E d \in ToSet(dependencies) :
                    d.fact = r.fact /\ d.platform = r.platform /\ r.schema \in {"", d.schema}
    BY DEF RowsInv, TellsOf
  <2>2. phase = "artifacts" => \A m \in Meanings : TellsTheResult(Document(m), Exposed(m), Needed(m), Flowing)
    BY ResultIsTold
  <2>. QED  BY <2>1, <2>2 DEF NothingFoundIsLost
<1>. QED  BY <1>1, RunInvariance, RowsInvariance, PTL

-----------------------------------------------------------------------------
(***************************************************************************)
(* The record of production.                                               *)
(***************************************************************************)
LEMMA SoleOf ==
    ASSUME NEW S, IsFiniteSet(S)
    PROVE  /\ Cardinality(S) = 1 => \E x : S = {x} /\ Only(S) = x
           /\ \A x : S = {x} => Cardinality(S) = 1
<1>1. Cardinality(S) = 1 <=> \E x : S = {x}  BY FS_Singleton
<1>2. Cardinality(S) = 1 => Only(S) = CHOOSE x \in S : TRUE  BY DEF Only
<1>. QED  BY <1>1, <1>2

\* The value that decides is the only one of the first environments that have
\* a single one.
LEMMA DecidedBy ==
    ASSUME NEW said, NEW rules, DOMAIN rules \subseteq Nat, \A i \in DOMAIN rules : IsFiniteSet(Values(In(said, rules[i])))
    PROVE  \/ /\ Decided(said, rules) = Nothing
              /\ \A i \in DOMAIN rules : Cardinality(Values(In(said, rules[i]))) # 1
           \/ \E i \in DOMAIN rules :
                 /\ Values(In(said, rules[i])) = {Decided(said, rules)}
                 /\ \A j \in DOMAIN rules : j < i => Cardinality(Values(In(said, rules[j]))) # 1
<1>. DEFINE agreed == {i \in DOMAIN rules : Cardinality(Values(In(said, rules[i]))) = 1}
<1>1. CASE agreed = {}
  <2>1. Decided(said, rules) = Nothing  BY <1>1 DEF Decided
  <2>. QED  BY <1>1, <2>1
<1>2. CASE agreed # {}
  <2>1. agreed \subseteq Nat  OBVIOUS
  <2>. HIDE DEF agreed
  <2>2. PICK m \in agreed : \A i \in agreed : m <= i  BY <1>2, <2>1, SomeIsLeast
  <2>3. Min(agreed) \in agreed /\ \A i \in agreed : Min(agreed) <= i  BY <2>2 DEF Min
  <2>. DEFINE k == Min(agreed)
              V == Values(In(said, rules[k]))
  <2>4. Decided(said, rules) = Only(V)  BY <1>2 DEF Decided, agreed
  <2>. HIDE DEF k
  <2>5. k \in DOMAIN rules /\ Cardinality(V) = 1 /\ k \in Nat  BY <2>1, <2>3 DEF k, agreed
  <2>6. PICK x : V = {x} /\ Only(V) = x  BY <2>5, SoleOf
  <2>7. \A j \in DOMAIN rules : j < k => Cardinality(Values(In(said, rules[j]))) # 1
    <3>. SUFFICES ASSUME NEW j \in agreed, j < k  PROVE FALSE  BY DEF agreed
    <3>1. k <= j /\ j \in Nat  BY <2>1, <2>3 DEF k
    <3>. QED  BY <2>5, <3>1
  <2>. QED  BY <2>4, <2>5, <2>6, <2>7
<1>. QED  BY <1>1, <1>2

EntriesOf(config, key) == {e \in ToSet(config) : e.key = key}
OfProduction(e) == EnvironmentOf(e) \in Production

LEMMA SaidEntries ==
    ASSUME NEW config, NEW key
    PROVE  /\ \A e \in EntriesOf(config, key) : \E s \in Said(config, key) :
                 s.profile = EnvironmentOf(e) /\ s.value = e.value
           /\ \A s \in Said(config, key) : \E e \in EntriesOf(config, key) :
                 s.profile = EnvironmentOf(e) /\ s.value = e.value
<1>. DEFINE S(e) == [profile |-> EnvironmentOf(e), value |-> e.value]
<1>1. \A e : S(e).profile = EnvironmentOf(e) /\ S(e).value = e.value  OBVIOUS
<1>2. Said(config, key) = {S(e) : e \in EntriesOf(config, key)}  BY DEF Said, EntriesOf
<1>. HIDE DEF S
<1>. QED  BY <1>1, <1>2

LEMMA ValuesSaid ==
    ASSUME NEW config, config \in Seq(ToSet(config)), NEW key, NEW profiles
    PROVE  /\ Values(In(Said(config, key), profiles)) =
                 {e.value : e \in {x \in EntriesOf(config, key) : EnvironmentOf(x) \in profiles}}
           /\ IsFiniteSet(Values(In(Said(config, key), profiles)))
<1>. DEFINE S == {x \in EntriesOf(config, key) : EnvironmentOf(x) \in profiles}
            T == {e.value : e \in S}
            f == [e \in S |-> e.value]
<1>1. Values(In(Said(config, key), profiles)) = T
  <2>. DEFINE said == Said(config, key)
  <2>1. /\ \A e \in EntriesOf(config, key) : \E s \in said : s.profile = EnvironmentOf(e) /\ s.value = e.value
        /\ \A s \in said : \E e \in EntriesOf(config, key) : s.profile = EnvironmentOf(e) /\ s.value = e.value
    BY SaidEntries
  <2>. HIDE DEF said
  <2>2. \A v : v \in Values(In(said, profiles)) <=> \E s \in said : s.profile \in profiles /\ s.value = v
    BY DEF Values, In
  <2>3. \A v : v \in T <=> \E e \in EntriesOf(config, key) : EnvironmentOf(e) \in profiles /\ e.value = v
    OBVIOUS
  <2>. HIDE DEF S, T
  <2>4. \A v : v \in Values(In(said, profiles)) <=> v \in T  BY <2>1, <2>2, <2>3
  <2>. QED  BY <2>4 DEF said
<1>2. IsFiniteSet(ToSet(config))
  <2>1. Len(config) \in Nat /\ DOMAIN config = 1..Len(config)  OBVIOUS
  <2>2. IsFiniteSet(1..Len(config))  BY <2>1, FS_Interval
  <2>3. config \in Surjection(1..Len(config), ToSet(config))
    BY <2>1 DEF Surjection, ToSet
  <2>. QED  BY <2>2, <2>3, FS_Surjection
<1>3. IsFiniteSet(S)  BY <1>2, FS_Subset DEF EntriesOf
<1>4. f \in Surjection(S, T)  BY DEF Surjection
<1>5. IsFiniteSet(T)  BY <1>3, <1>4, FS_Surjection
<1>. QED  BY <1>1, <1>5

\* What is read of a key is what all environments say, or what production
\* says, or production says nothing.
Decisive(entries, value) ==
    IF value = Nothing
    THEN (\A e \in entries : ~OfProduction(e)) /\ ~ \E u : {e.value : e \in entries} = {u}
    ELSE /\ \E e \in entries : e.value = value
         /\ \/ \A e \in entries : e.value = value
            \/ \E e \in entries : OfProduction(e) /\ e.value = value
            \/ \A e \in entries : ~OfProduction(e)

LEMMA ConfigValueDecides ==
    ASSUME NEW config, SpeaksPlainly(config), ActiveProfile(config) = {}, NEW key,
           NEW value, value = ConfigValue(config, key)
    PROVE  Decisive(EntriesOf(config, key), value)
<1>. DEFINE said == Said(config, key)
            all == {s.profile : s \in said}
            rules == <<all, ActiveProfile(config), {"prod"}, {"production"}, {"live"}>>
            E == EntriesOf(config, key)
            V(profiles) == {e.value : e \in {x \in E : EnvironmentOf(x) \in profiles}}
<1>1. config \in Seq(ToSet(config))  BY DEF SpeaksPlainly
<1>2. \A profiles : Values(In(said, profiles)) = V(profiles) /\ IsFiniteSet(Values(In(said, profiles)))
  BY <1>1, ValuesSaid
<1>3. value = Decided(said, rules)  BY DEF ConfigValue
<1>4. DOMAIN rules = 1..5 /\ rules[1] = all /\ rules[2] = {} /\ rules[3] = {"prod"} /\ rules[4] = {"production"}
      /\ rules[5] = {"live"}
  OBVIOUS
<1>5. V(all) = {e.value : e \in E}
  <2>1. \A e \in E : EnvironmentOf(e) \in all  BY SaidEntries
  <2>. QED  BY <2>1
<1>6. \A e \in E : e.value # Nothing  BY DEF SpeaksPlainly, EntriesOf
<1>7. \A e, f \in E : EnvironmentOf(e) = EnvironmentOf(f) => e.value = f.value
  BY DEF SpeaksPlainly, EntriesOf
<1>8. \A e \in E : \A p : EnvironmentOf(e) = p => V({p}) = {e.value}
  BY <1>7
<1>9. 1 \in DOMAIN rules /\ 3 \in DOMAIN rules /\ 4 \in DOMAIN rules /\ DOMAIN rules \subseteq Nat  BY <1>4
<1>. HIDE DEF E, rules, said
<1>10. \/ value = Nothing /\ \A i \in DOMAIN rules : Cardinality(Values(In(said, rules[i]))) # 1
       \/ \E i \in DOMAIN rules :
             /\ Values(In(said, rules[i])) = {value}
             /\ \A j \in DOMAIN rules : j < i => Cardinality(Values(In(said, rules[j]))) # 1
  BY <1>2, <1>3, <1>9, DecidedBy
<1>11. \A i \in DOMAIN rules : Cardinality(Values(In(said, rules[i]))) # 1 => ~ \E x : V(rules[i]) = {x}
  BY <1>2, SoleOf
<1>12. ASSUME ~ (\E x : V({"prod"}) = {x}), ~ (\E x : V({"production"}) = {x}), NEW e \in E
       PROVE  ~OfProduction(e)
  BY <1>8, <1>12 DEF OfProduction, Production
<1>13. CASE \A i \in DOMAIN rules : Cardinality(Values(In(said, rules[i]))) # 1
  <2>1. \A i \in DOMAIN rules : Values(In(said, rules[i])) # {value}  BY <1>2, <1>13, SoleOf
  <2>2. value = Nothing  BY <1>10, <2>1
  <2>3. (~ \E x : V(all) = {x}) /\ (~ \E x : V({"prod"}) = {x}) /\ (~ \E x : V({"production"}) = {x})
    <3>1. ~ \E x : V(rules[1]) = {x}  BY <1>9, <1>11, <1>13
    <3>2. ~ \E x : V(rules[3]) = {x}  BY <1>9, <1>11, <1>13
    <3>3. ~ \E x : V(rules[4]) = {x}  BY <1>9, <1>11, <1>13
    <3>. QED  BY <1>4, <3>1, <3>2, <3>3, ZenonT(20)
  <2>4. \A e \in E : ~OfProduction(e)  BY <1>12, <2>3
  <2>5. ~ \E x : {e.value : e \in E} = {x}  BY <1>5, <2>3
  <2>. QED  BY <2>2, <2>4, <2>5 DEF E, Decisive
<1>14. ASSUME NEW i \in DOMAIN rules, Values(In(said, rules[i])) = {value},
              \A j \in DOMAIN rules : j < i => Cardinality(Values(In(said, rules[j]))) # 1
       PROVE  /\ value # Nothing /\ \E e \in E : e.value = value
              /\ \/ \A e \in E : e.value = value
                 \/ \E e \in E : OfProduction(e) /\ e.value = value
                 \/ \A e \in E : ~OfProduction(e)
  <2>1. V(rules[i]) = {value}  BY <1>2, <1>14
  <2>2. PICK e \in E : EnvironmentOf(e) \in rules[i] /\ e.value = value
    <3>1. value \in V(rules[i])  BY <2>1
    <3>. QED  BY <3>1
  <2>3. i = 1 \/ i = 2 \/ i = 3 \/ i = 4 \/ i = 5  BY <1>4
  <2>4. CASE i = 1
    <3>1. \A f \in E : f.value \in {value}  BY <1>4, <1>5, <2>1, <2>4
    <3>. QED  BY <1>6, <2>2, <3>1
  <2>5. CASE i = 2  BY <1>4, <2>2, <2>5
  <2>6. CASE i = 3 \/ i = 4
    <3>1. OfProduction(e)  BY <1>4, <2>2, <2>6 DEF OfProduction, Production
    <3>. QED  BY <1>6, <2>2, <3>1
  <2>7. CASE i = 5
    <3>1. 3 < i /\ 4 < i  BY <2>7
    <3>2. (~ \E x : V({"prod"}) = {x}) /\ (~ \E x : V({"production"}) = {x})
      <4>1. ~ \E x : V(rules[3]) = {x}  BY <1>9, <1>11, <1>14, <3>1
      <4>2. ~ \E x : V(rules[4]) = {x}  BY <1>9, <1>11, <1>14, <3>1
      <4>. QED  BY <1>4, <4>1, <4>2
    <3>. QED  BY <1>6, <1>12, <2>2, <3>2
  <2>. QED  BY <2>3, <2>4, <2>5, <2>6, <2>7
<1>. QED  BY <1>10, <1>13, <1>14 DEF E, Decisive

\* A variable set to constants is followed no further.
LEMMA PlaceholderIsFollowedOnce ==
    ASSUME NEW config, NEW v, v # Nothing, NEW default, NEW w, w = Lookup(config, v),
           w = Nothing \/ w.variable = Nothing
    PROVE  ResolvePlaceholder(config, v, default) = IF w = Nothing THEN default ELSE w.name
<1>. DEFINE start == [platform |-> 0, url |-> FALSE, name |-> Nothing, variable |-> v, fallback |-> default]
            next == ValueOf(start, w)
<1>1. ~Settled(start) /\ start.variable = v  BY DEF Settled
<1>2. Settled(next) /\ next.name = IF w = Nothing THEN default ELSE w.name
  BY DEF Settled, ValueOf
<1>3. ResolvePlaceholder(config, v, default) =
         CHOOSE name \in {IF Settled(x) THEN x.name ELSE Nothing :
            x \in Follow(config, Follow(config, Follow(config, Follow(config, Follow(config, Follow(config, {start}))))))} : TRUE
  BY DEF ResolvePlaceholder
<1>4. Follow(config, {start}) = {next}  BY <1>1 DEF Follow
<1>. HIDE DEF start, next
<1>5. Follow(config, {next}) = {next}  BY <1>2 DEF Follow
<1>6. ResolvePlaceholder(config, v, default) =
         CHOOSE name \in {IF Settled(x) THEN x.name ELSE Nothing : x \in {next}} : TRUE
  BY <1>3, <1>4, <1>5
<1>7. {IF Settled(x) THEN x.name ELSE Nothing : x \in {next}} = {next.name}  BY <1>2
<1>8. (CHOOSE name \in {next.name} : TRUE) = next.name  OBVIOUS
<1>. QED  BY <1>2, <1>6, <1>7, <1>8

HitsOf(config, v) == {i \in DOMAIN config : config[i].name = v}
NoneIsATemplate(config, v) == \A i \in HitsOf(config, v) : config[i].value.name # ""
IsDocument(config, i, j) == config[j].path = config[i].path /\ config[j].document # ""

\* What is read of a variable by its name is what all entries for it say, or
\* an entry of production.
LEMMA EnvValueDecides ==
    ASSUME NEW config, config \in Seq(ToSet(config)), NEW v, NoneIsATemplate(config, v), NEW w,
           w = EnvConfigValue(config, v), w # Nothing
    PROVE  \/ HitsOf(config, v) # {} /\ \A i \in HitsOf(config, v) : config[i].value = w
           \/ \E i \in HitsOf(config, v) : OfProduction(config[i]) /\ config[i].value = w
<1>1. Len(config) \in Nat /\ DOMAIN config = 1..Len(config)  OBVIOUS
<1>. DEFINE hits == HitsOf(config, v)
            Documents(i) == {j \in hits : j <= i /\ IsDocument(config, i, j)}
            P(i) == IF Documents(i) = {} THEN config[i].stem ELSE config[Max(Documents(i))].document
            S(i) == [profile |-> P(i), value |-> config[i].value]
            said == SaidOfVariable(config, v)
            all == {config[i].value : i \in hits}
            prod == {config[i].value : i \in {h \in hits : P(h) \in Production}}
<1>2. hits \subseteq 1..Len(config) /\ \A i \in hits : i \in Nat
  <2>1. hits \subseteq 1..Len(config)  BY <1>1 DEF HitsOf
  <2>2. \A i \in 1..Len(config) : i \in Nat  BY <1>1
  <2>. HIDE DEF hits
  <2>. QED  BY <2>1, <2>2
<1>3. said = {S(i) : i \in hits}  BY DEF SaidOfVariable, HitsOf, NoneIsATemplate, IsDocument
<1>4. \A i : S(i).profile = P(i) /\ S(i).value = config[i].value  OBVIOUS
<1>5. IsFiniteSet(all) /\ IsFiniteSet(prod)
  <2>1. IsFiniteSet(1..Len(config))  BY <1>1, FS_Interval
  <2>. DEFINE T == {h \in hits : P(h) \in Production}
              f == [i \in hits |-> config[i].value]
              g == [i \in T |-> config[i].value]
  <2>2. IsFiniteSet(hits) /\ IsFiniteSet(T)
    <3>1. hits \in SUBSET (1..Len(config)) /\ T \in SUBSET hits  BY <1>2
    <3>. QED  BY <2>1, <3>1, FS_Subset
  <2>3. f \in Surjection(hits, all) /\ g \in Surjection(T, prod)  BY DEF Surjection
  <2>. HIDE DEF all, prod, T
  <2>. QED  BY <2>2, <2>3, FS_Surjection
<1>6. \A i \in hits : P(i) \in Production => \E j \in hits : OfProduction(config[j]) /\ P(j) \in Production
  <2>. SUFFICES ASSUME NEW i \in hits, P(i) \in Production
                PROVE  \E j \in hits : OfProduction(config[j]) /\ P(j) \in Production
    OBVIOUS
  <2>1. "" \notin Production  BY DEF Production
  <2>. HIDE DEF hits
  <2>2. CASE Documents(i) = {}
    <3>1. config[i].document = ""
      <4>1. i <= i  BY <1>2
      <4>2. ~IsDocument(config, i, i)  BY <2>2, <4>1
      <4>. QED  BY <4>2 DEF IsDocument
    <3>2. OfProduction(config[i])  BY <2>2, <3>1 DEF OfProduction, EnvironmentOf
    <3>. QED  BY <3>2
  <2>3. CASE Documents(i) # {}
    <3>. DEFINE m == Max(Documents(i))
                n == Len(config)
    <3>1. m \in Documents(i) /\ \A k \in Documents(i) : k <= m
      <4>1. Documents(i) \in SUBSET (1..n) /\ n \in Nat  BY <1>1, <1>2
      <4>. HIDE DEF Documents, n
      <4>. QED  BY <2>3, <4>1, MaxIsGreatest
    <3>2. P(i) = config[m].document  BY <2>3
    <3>. HIDE DEF m
    <3>3. m \in hits /\ m \in Nat /\ i \in Nat /\ m <= i /\ IsDocument(config, i, m)
      BY <1>2, <3>1
    <3>4. OfProduction(config[m]) /\ IsDocument(config, m, m)
      BY <3>2, <3>3 DEF OfProduction, EnvironmentOf, IsDocument
    <3>5. m \in Documents(m) /\ \A k \in Documents(m) : k <= m /\ k \in Nat
      <4>1. m <= m  BY <3>3
      <4>. QED  BY <1>2, <3>3, <3>4, <4>1
    <3>6. Max(Documents(m)) = m
      <4>. DEFINE D == Documents(m)
      <4>1. D \in SUBSET (1..n) /\ n \in Nat  BY <1>1, <1>2
      <4>2. m \in D /\ \A k \in D : k <= m /\ k \in Nat  BY <3>5
      <4>. HIDE DEF D, n
      <4>3. Max(D) \in D /\ \A k \in D : k <= Max(D)  BY <4>1, <4>2, MaxIsGreatest
      <4>4. Max(D) <= m /\ m <= Max(D) /\ Max(D) \in Nat  BY <4>2, <4>3
      <4>5. Max(D) = m  BY <3>3, <4>4
      <4>. QED  BY <4>5 DEF D
    <3>7. P(m) = config[m].document  BY <3>5, <3>6
    <3>. QED  BY <3>2, <3>3, <3>4, <3>7
  <2>. QED  BY <2>2, <2>3
<1>. HIDE DEF hits, P, S, said
<1>7. Values(said) = all
  <2>1. \A x : x \in Values(said) <=> x \in all  BY <1>3, <1>4 DEF Values
  <2>. QED  BY <2>1
<1>8. Values(In(said, {"production", "prod"})) = prod
  <2>1. \A x : x \in Values(In(said, {"production", "prod"})) <=> \E s \in said : s.profile \in Production /\ s.value = x
    BY DEF Values, In, Production
  <2>2. \A x : x \in prod <=> \E i \in hits : P(i) \in Production /\ config[i].value = x  OBVIOUS
  <2>. HIDE DEF prod
  <2>3. \A x : (\E s \in said : s.profile \in Production /\ s.value = x)
                 <=> \E i \in hits : P(i) \in Production /\ config[i].value = x
    BY <1>3, <1>4
  <2>4. \A x : x \in Values(In(said, {"production", "prod"})) <=> x \in prod  BY <2>1, <2>2, <2>3
  <2>. QED  BY <2>4
<1>9. w = IF Cardinality(all) = 1 THEN Only(all) ELSE Only(prod)
  BY <1>7, <1>8 DEF EnvConfigValue, said
<1>10. CASE Cardinality(all) = 1
  <2>. HIDE DEF all
  <2>1. all = {w}  BY <1>5, <1>9, <1>10, SoleOf
  <2>. QED  BY <2>1 DEF all, hits
<1>11. CASE Cardinality(all) # 1
  <2>. HIDE DEF all, prod
  <2>1. Cardinality(prod) = 1  BY <1>9, <1>11 DEF Only
  <2>2. prod = {w}  BY <1>5, <1>9, <1>11, <2>1, SoleOf
  <2>3. PICK i \in hits : P(i) \in Production  BY <2>2 DEF prod
  <2>4. PICK j \in hits : OfProduction(config[j]) /\ P(j) \in Production  BY <1>6, <2>3
  <2>5. config[j].value \in prod  BY <2>4 DEF prod
  <2>. QED  BY <2>2, <2>4, <2>5 DEF hits
<1>. QED  BY <1>10, <1>11

\* The variables that stand in the place of a database.
VariablesOf(config) == {e.value.variable : e \in {x \in ToSet(config) : x.value.url}} \ {Nothing}
Constant(value) == value.variable = Nothing /\ value.name \notin {Nothing, ""}

LEMMA VariablesAreConstant ==
    ASSUME NEW config, SpeaksPlainly(config), NEW v \in VariablesOf(config),
           NEW e \in ToSet(config), e.key = v \/ e.name = v
    PROVE  Constant(e.value)
BY DEF SpeaksPlainly, VariablesOf, Constant

LEMMA SaidIsOfEntries ==
    ASSUME NEW config, NEW key
    PROVE  Said(config, key) = {} <=> EntriesOf(config, key) = {}
BY SaidEntries

LEMMA VariablesAre ==
    ASSUME NEW config, NEW key, NEW v
    PROVE  v \in Variables(config, key) <=>
             v # Nothing /\ \E e \in EntriesOf(config, key) : e.value.url /\ e.value.variable = v
<1>1. v \in Variables(config, key) <=>
         v # Nothing /\ \E s \in Said(config, key) : s.value.url /\ s.value.variable = v
  BY DEF Variables, Urls
<1>. QED  BY <1>1, SaidEntries

\* What sets a variable has it for its key or, if it is one of an environment,
\* for the end of its key.
LEMMA SettingIsOfEntries ==
    ASSUME NEW config, NEW v
    PROVE  /\ Said(config, v) \subseteq Setting(config, v)
           /\ \A u \in Setting(config, v) : \E e \in ToSet(config) :
                 /\ e.key = v \/ (v \in EnvVariables /\ e.name = v)
                 /\ u = [profile |-> EnvironmentOf(e), value |-> e.value]
           /\ \A e \in ToSet(config) : v \in EnvVariables /\ e.name = v =>
                 [profile |-> EnvironmentOf(e), value |-> e.value] \in Setting(config, v)
BY DEF Said, Setting

\* What a variable is set to is what it is set to in production, if it is, and
\* if that is not shadowed.
LEMMA VariableIsSet ==
    ASSUME NEW config, SpeaksPlainly(config), ActiveProfile(config) = {}, NEW v \in VariablesOf(config),
           NEW key, v \in Variables(config, key), ~Shadowed(config, key),
           NEW w, w = Lookup(config, v), w # Nothing
    PROVE  /\ Constant(w)
           /\ \A u \in Setting(config, v) : u.profile \in Production =>
                 \E t \in Setting(config, v) : t.profile \in Production /\ t.value = w
<1>. DEFINE named == {x \in ToSet(config) : x.name = v}
            T(e) == [profile |-> EnvironmentOf(e), value |-> e.value]
<1>1. v # Nothing  BY DEF VariablesOf
<1>0. ASSUME Said(config, v) # {}, NEW u \in Setting(config, v), u.profile \in Production
      PROVE  \E s \in Said(config, v) : s.profile \in Production
  BY <1>0 DEF Shadowed
<1>2. CASE ConfigValue(config, v) # Nothing
  <2>1. w = ConfigValue(config, v)  BY <1>2 DEF Lookup
  <2>2. /\ \E e \in EntriesOf(config, v) : e.value = w
        /\ \/ \A e \in EntriesOf(config, v) : e.value = w
           \/ \E e \in EntriesOf(config, v) : OfProduction(e) /\ e.value = w
           \/ \A e \in EntriesOf(config, v) : ~OfProduction(e)
    <3>1. Decisive(EntriesOf(config, v), w)  BY <2>1, ConfigValueDecides
    <3>. QED  BY <1>2, <2>1, <3>1 DEF Decisive
  <2>3. PICK e \in EntriesOf(config, v) : e.value = w  BY <2>2
  <2>4. Constant(w)  BY <2>3, VariablesAreConstant DEF EntriesOf
  <2>5. Said(config, v) # {} /\ Said(config, v) \subseteq Setting(config, v)
    BY <2>3, SaidIsOfEntries, SettingIsOfEntries
  <2>6. ASSUME NEW u \in Said(config, v), u.profile \in Production
        PROVE  \E t \in Said(config, v) : t.profile \in Production /\ t.value = w
    <3>1. PICK f \in EntriesOf(config, v) : u.profile = EnvironmentOf(f)  BY SaidEntries
    <3>2. OfProduction(f)  BY <2>6, <3>1 DEF OfProduction
    <3>3. PICK g \in EntriesOf(config, v) : OfProduction(g) /\ g.value = w  BY <2>2, <3>2
    <3>4. PICK t \in Said(config, v) : t.profile = EnvironmentOf(g) /\ t.value = g.value  BY SaidEntries
    <3>. QED  BY <3>3, <3>4 DEF OfProduction
  <2>. QED  BY <1>0, <2>4, <2>5, <2>6
<1>3. CASE ConfigValue(config, v) = Nothing
  <2>1. w = EnvConfigValue(config, v) /\ v \in EnvVariables  BY <1>3 DEF Lookup
  <2>2. config \in Seq(ToSet(config))  BY DEF SpeaksPlainly
  <2>3. \A i \in HitsOf(config, v) : config[i] \in ToSet(config) /\ config[i].name = v
    BY <2>2 DEF HitsOf, ToSet
  <2>4. \A i \in HitsOf(config, v) : Constant(config[i].value)  BY <2>3, VariablesAreConstant
  <2>5. NoneIsATemplate(config, v)  BY <2>4 DEF NoneIsATemplate, Constant
  <2>6. \/ HitsOf(config, v) # {} /\ \A i \in HitsOf(config, v) : config[i].value = w
        \/ \E i \in HitsOf(config, v) : OfProduction(config[i]) /\ config[i].value = w
    BY <2>1, <2>2, <2>5, EnvValueDecides
  <2>7. Constant(w)  BY <2>4, <2>6
  <2>8. \A e \in EntriesOf(config, v) : ~OfProduction(e)
    <3>1. Decisive(EntriesOf(config, v), ConfigValue(config, v))  BY ConfigValueDecides
    <3>. QED  BY <1>3, <3>1 DEF Decisive
  <2>9. CASE Said(config, v) # {}
    <3>1. \A u \in Said(config, v) : u.profile \notin Production  BY <2>8, SaidEntries DEF OfProduction
    <3>2. \A u \in Setting(config, v) : u.profile \notin Production  BY <1>0, <2>9, <3>1
    <3>. QED  BY <2>7, <3>2
  <2>10. CASE Said(config, v) = {}
    <3>1. /\ \A u \in Setting(config, v) : \E e \in named : u = T(e)
          /\ \A e \in named : T(e) \in Setting(config, v)
      <4>1. \A e \in ToSet(config) : e.key # v  BY <2>10, SaidIsOfEntries DEF EntriesOf
      <4>. QED  BY <2>1, <4>1, SettingIsOfEntries
    <3>2. \A e : T(e).profile = EnvironmentOf(e) /\ T(e).value = e.value  OBVIOUS
    <3>. HIDE DEF T
    <3>3. \A e \in named : \E i \in HitsOf(config, v) : e = config[i]
      BY <2>2 DEF HitsOf, ToSet
    <3>4. \A i \in HitsOf(config, v) : config[i] \in named  BY <2>3
    <3>5. ASSUME NEW e \in named, OfProduction(e)
          PROVE  \E f \in named : OfProduction(f) /\ f.value = w
      <4>1. PICK i \in HitsOf(config, v) : e = config[i]  BY <3>3
      <4>2. PICK j \in HitsOf(config, v) : OfProduction(config[j]) /\ config[j].value = w
        BY <2>6, <3>5, <4>1
      <4>. QED  BY <3>4, <4>2
    <3>6. \A u \in Setting(config, v) : \E e \in named : u = T(e)  BY <3>1
    <3>7. \A e \in named : T(e) \in Setting(config, v)  BY <3>1
    <3>. HIDE DEF named
    <3>8. ASSUME NEW u \in Setting(config, v), u.profile \in Production
          PROVE  \E t \in Setting(config, v) : t.profile \in Production /\ t.value = w
      <4>1. PICK e \in named : u = T(e)  BY <3>6
      <4>2. OfProduction(e)  BY <3>2, <3>8, <4>1 DEF OfProduction
      <4>3. PICK f \in named : OfProduction(f) /\ f.value = w  BY <3>5, <4>2
      <4>4. T(f) \in Setting(config, v) /\ T(f).profile \in Production /\ T(f).value = w
        BY <3>2, <3>7, <4>3 DEF OfProduction
      <4>. QED  BY <4>4
    <3>. QED  BY <2>7, <3>8
  <2>. QED  BY <2>9, <2>10
<1>. QED  BY <1>2, <1>3

Blanks == {"", Nothing}

LEMMA NothingIsBlank == Nothing \in Blanks
BY DEF Blanks

LEMMA PlainEntries ==
    ASSUME NEW config, SpeaksPlainly(config), NEW key, NEW e \in EntriesOf(config, key), NEW f \in EntriesOf(config, key)
    PROVE  /\ e.value.variable # Nothing => f.value = e.value /\ e.value.name = Nothing
           /\ e.value.url /\ f.value.url => e.value.platform = f.value.platform
<1>1. e \in ToSet(config) /\ f \in ToSet(config) /\ e.key = f.key  BY DEF EntriesOf
<1>. QED  BY <1>1 DEF SpeaksPlainly

LEMMA UsesAre ==
    ASSUME NEW config, NEW key, NEW profiles, NEW x
    PROVE  x \in UsesInAny(config, key, profiles) <=>
             /\ x \notin Blanks
             /\ \E e \in EntriesOf(config, key) :
                   /\ e.value.url
                   /\ \/ EnvironmentOf(e) \in profiles /\ x = e.value.name
                      \/ /\ e.value.variable # Nothing
                         /\ \E u \in Setting(config, e.value.variable) : u.profile \in profiles /\ u.value.name = x
<1>. DEFINE Spoken(p) == {s.value.name : s \in {t \in Said(config, key) : t.value.url /\ t.profile = p}}
            Set(p, v) == {t.value.name : t \in {u \in Setting(config, v) : u.profile = p}}
            Placed(p) == UNION {Set(p, v) : v \in Variables(config, key)}
<1>1. \A p : Uses(config, key, p) = (Spoken(p) \cup Placed(p)) \ Blanks
  BY DEF Uses, Blanks
<1>2. \A p : x \in Spoken(p) <=> \E e \in EntriesOf(config, key) : e.value.url /\ EnvironmentOf(e) = p /\ x = e.value.name
  <2>1. \A p : x \in Spoken(p) <=> \E s \in Said(config, key) : s.value.url /\ s.profile = p /\ x = s.value.name
    OBVIOUS
  <2>. QED  BY <2>1, SaidEntries
<1>3. \A v : v \in Variables(config, key) <=>
          v # Nothing /\ \E e \in EntriesOf(config, key) : e.value.url /\ e.value.variable = v
  <2>1. \A v : v \in Variables(config, key) <=>
           v # Nothing /\ \E s \in Said(config, key) : s.value.url /\ s.value.variable = v
    BY DEF Variables, Urls
  <2>. QED  BY <2>1, SaidEntries
<1>4. \A p, v : x \in Set(p, v) <=> \E u \in Setting(config, v) : u.profile = p /\ u.value.name = x
  OBVIOUS
<1>. HIDE DEF Set, Spoken
<1>5. \A p : x \in Placed(p) <=> \E v \in Variables(config, key) : x \in Set(p, v)
  OBVIOUS
<1>. HIDE DEF Placed
<1>6. x \in UsesInAny(config, key, profiles) <=> \E p \in profiles : x \in Uses(config, key, p)
  BY DEF UsesInAny
<1>7. x \in UsesInAny(config, key, profiles) <=>
         x \notin Blanks /\ \E p \in profiles : x \in Spoken(p) \/ x \in Placed(p)
  BY <1>1, <1>6
<1>8. (\E p \in profiles : x \in Spoken(p)) <=>
         \E e \in EntriesOf(config, key) : e.value.url /\ EnvironmentOf(e) \in profiles /\ x = e.value.name
  BY <1>2
<1>9. (\E p \in profiles : x \in Placed(p)) <=>
         \E e \in EntriesOf(config, key) :
            /\ e.value.url /\ e.value.variable # Nothing
            /\ \E u \in Setting(config, e.value.variable) : u.profile \in profiles /\ u.value.name = x
  <2>1. \A p : x \in Placed(p) <=>
            \E v \in Variables(config, key) : \E u \in Setting(config, v) : u.profile = p /\ u.value.name = x
    BY <1>4, <1>5
  <2>2. ASSUME NEW p \in profiles, x \in Placed(p)
        PROVE  \E e \in EntriesOf(config, key) :
                  /\ e.value.url /\ e.value.variable # Nothing
                  /\ \E u \in Setting(config, e.value.variable) : u.profile \in profiles /\ u.value.name = x
    <3>1. PICK v \in Variables(config, key) : \E u \in Setting(config, v) : u.profile = p /\ u.value.name = x
      BY <2>1, <2>2
    <3>2. PICK e \in EntriesOf(config, key) : v # Nothing /\ e.value.url /\ e.value.variable = v  BY <1>3, <3>1
    <3>3. \E u \in Setting(config, e.value.variable) : u.profile \in profiles /\ u.value.name = x
      BY <3>1, <3>2
    <3>. QED  BY <3>2, <3>3
  <2>3. ASSUME NEW e \in EntriesOf(config, key), e.value.url /\ e.value.variable # Nothing,
               NEW u, u \in Setting(config, e.value.variable), u.profile \in profiles /\ u.value.name = x
        PROVE  \E p \in profiles : x \in Placed(p)
    <3>1. e.value.variable \in Variables(config, key)  BY <1>3, <2>3
    <3>2. x \in Placed(u.profile)  BY <2>1, <2>3, <3>1
    <3>. QED  BY <2>3, <3>2
  <2>. QED  BY <2>2, <2>3
<1>. QED  BY <1>7, <1>8, <1>9

\* What is named in some environment is named by an entry that is no variable,
\* and is neither a key nor told by the name of a variable.
LEMMA UsesAreNames ==
    ASSUME NEW config, SpeaksPlainly(config), NEW key, NEW profiles, NEW x \in UsesInAny(config, key, profiles)
    PROVE  /\ x \notin Blanks
           /\ \A e \in ToSet(config) : x # e.key
           /\ \A v \in VariablesOf(config) : x # NameIn[v]
<1>1. x \notin Blanks /\ x # Nothing
  <2>1. x \notin Blanks  BY UsesAre
  <2>. QED  BY <2>1, NothingIsBlank
<1>. DEFINE naming == {e \in ToSet(config) : e.value.url \/ e.key \in VariablesOf(config) \/ e.name \in VariablesOf(config)}
<1>2. \E e \in naming : x = e.value.name
  <2>1. PICK e \in EntriesOf(config, key) :
                   /\ e.value.url
                   /\ \/ EnvironmentOf(e) \in profiles /\ x = e.value.name
                      \/ /\ e.value.variable # Nothing
                         /\ \E u \in Setting(config, e.value.variable) : u.profile \in profiles /\ u.value.name = x
    BY UsesAre
  <2>2. e \in naming  BY <2>1 DEF EntriesOf
  <2>3. CASE x = e.value.name  BY <2>2, <2>3
  <2>4. CASE e.value.variable # Nothing /\ \E u \in Setting(config, e.value.variable) : u.value.name = x
    <3>1. PICK u \in Setting(config, e.value.variable) : u.value.name = x  BY <2>4
    <3>2. e.value.variable \in VariablesOf(config)  BY <2>1, <2>4 DEF VariablesOf, EntriesOf
    <3>3. \E f \in ToSet(config) :
             /\ f.key = e.value.variable \/ f.name = e.value.variable
             /\ u = [profile |-> EnvironmentOf(f), value |-> f.value]
      BY <3>1, SettingIsOfEntries
    <3>4. PICK f \in ToSet(config) : (f.key = e.value.variable \/ f.name = e.value.variable) /\ f.value = u.value
      BY <3>3
    <3>5. f \in naming  BY <3>2, <3>4
    <3>. QED  BY <3>1, <3>4, <3>5
  <2>. QED  BY <2>1, <2>3, <2>4
<1>3. PICK e \in naming : x = e.value.name  BY <1>2
<1>4. x \notin {f.key : f \in ToSet(config)} \cup {NameIn[v] : v \in VariablesOf(config)}
  BY <1>1, <1>3 DEF SpeaksPlainly, VariablesOf
<1>. QED  BY <1>1, <1>4

\* A store that a URL names is not of another environment, if it is the URL of
\* all, or one of production, or production has none.
LEMMA StoreOfUrl ==
    ASSUME NEW config, SpeaksPlainly(config), ActiveProfile(config) = {}, NEW key, NEW e \in EntriesOf(config, key),
           ~Shadowed(config, key),
           \/ \A f \in EntriesOf(config, key) : f.value.url => f.value = e.value
           \/ \E f \in EntriesOf(config, key) : OfProduction(f) /\ f.value = e.value
           \/ \A f \in EntriesOf(config, key) : ~OfProduction(f)
    PROVE  ~OfAnotherEnvironment(config, DbStore(e.value.platform, DatabaseOf(config, e.value), key))
<1>. DEFINE database == DatabaseOf(config, e.value)
            store == DbStore(e.value.platform, database, key)
            v == e.value.variable
            production == UsesInAny(config, key, Production)
            others == UsesInAny(config, key, Environments(config) \ Production)
<1>1. store.source = key /\ store.name = IF database = Nothing THEN key ELSE database  BY DEF DbStore
<1>. HIDE DEF database
<1>2. SUFFICES ASSUME Cardinality(production) = 1, store.name \in others, store.name \notin production,
                      store.name \notin Defaults(config, key)
               PROVE  FALSE
  <2>. HIDE DEF production, others
  <2>1. ~(/\ Cardinality(production) = 1
          /\ store.name \in others /\ store.name \notin production /\ store.name \notin Defaults(config, key))
    BY <1>2
  <2>. HIDE DEF store
  <2>2. ~OfAnotherEnvironment(config, store)  BY <1>1, <2>1 DEF OfAnotherEnvironment, production, others
  <2>. QED  BY <2>2 DEF store, database
<1>. HIDE DEF store
<1>3. e \in ToSet(config) /\ e.key = key  BY DEF EntriesOf
<1>4. database # Nothing /\ store.name = database  BY <1>1, <1>2, <1>3, UsesAreNames
<1>5. database \notin Blanks /\ \A x \in VariablesOf(config) : database # NameIn[x]
  BY <1>2, <1>4, UsesAreNames
<1>6. e.value.url /\ e.value.name # ""  BY <1>4 DEF DatabaseOf, database
<1>7. PICK x : x \in production
  <2>1. production # {}  BY <1>2, FS_EmptySet
  <2>. QED  BY <2>1
<1>8. CASE v = Nothing
  <2>1. database = e.value.name  BY <1>6, <1>8 DEF DatabaseOf, database
  <2>2. \A f \in EntriesOf(config, key) : f.value.variable = Nothing
    BY <1>8, PlainEntries
  <2>3. PICK f \in EntriesOf(config, key) : f.value.url /\ OfProduction(f)
    BY <1>7, <2>2, UsesAre DEF OfProduction
  <2>4. PICK g \in EntriesOf(config, key) : OfProduction(g) /\ g.value = e.value  BY <2>3
  <2>5. g.value.url /\ EnvironmentOf(g) \in Production /\ database = g.value.name
    BY <1>6, <2>1, <2>4 DEF OfProduction
  <2>6. database \in production  BY <1>5, <2>5, UsesAre
  <2>. QED  BY <1>2, <1>4, <2>6
<1>9. CASE v # Nothing
  <2>1. v \in VariablesOf(config) /\ v \in Variables(config, key)
    BY <1>3, <1>6, <1>9, VariablesAre DEF VariablesOf
  <2>2. PICK w : w = Lookup(config, v)  OBVIOUS
  <2>3. w = Nothing \/ w.variable = Nothing
    <3>1. w # Nothing => Constant(w)  BY <2>1, <2>2, VariableIsSet
    <3>. QED  BY <3>1 DEF Constant
  <2>4. ResolvePlaceholder(config, v, e.value.fallback) = IF w = Nothing THEN e.value.fallback ELSE w.name
    BY <1>9, <2>2, <2>3, PlaceholderIsFollowedOnce
  <2>5. e.value.fallback \in Defaults(config, key)
    <3>1. PICK s \in Said(config, key) : s.value = e.value  BY SaidEntries
    <3>. QED  BY <1>6, <3>1 DEF Defaults, Urls
  <2>6. database # e.value.fallback  BY <1>2, <1>4, <2>5
  <2>7. w # Nothing /\ database = w.name
    <3>. DEFINE resolved == ResolvePlaceholder(config, v, e.value.fallback)
    <3>1. database = IF resolved = Nothing THEN NameIn[v] ELSE IF resolved = "" THEN Nothing ELSE resolved
      BY <1>6, <1>9 DEF DatabaseOf, database
    <3>2. database = resolved  BY <1>4, <1>5, <2>1, <3>1
    <3>. QED  BY <2>4, <2>6, <3>2
  <2>8. \A f \in EntriesOf(config, key) : f.value = e.value
    BY <1>9, PlainEntries
  <2>9. e.value.name = Nothing  BY <1>9, PlainEntries
  <2>10. PICK u \in Setting(config, v) : u.profile \in Production
    <3>1. x # Nothing
      <4>1. x \notin Blanks  BY <1>7, UsesAre
      <4>. QED  BY <4>1, NothingIsBlank
    <3>. QED  BY <1>7, <2>8, <2>9, <3>1, UsesAre
  <2>11. PICK t \in Setting(config, v) : t.profile \in Production /\ t.value = w
    BY <2>1, <2>2, <2>7, <2>10, VariableIsSet
  <2>12. database \in production  BY <1>5, <1>6, <1>9, <2>7, <2>11, UsesAre
  <2>. QED  BY <1>2, <1>4, <2>12
<1>. QED  BY <1>8, <1>9

\* Where production says nothing and the rest do not agree, production names
\* no database.
LEMMA NothingInProduction ==
    ASSUME NEW config, SpeaksPlainly(config), NEW key, \A e \in EntriesOf(config, key) : ~OfProduction(e),
           ~ \E u : {e.value : e \in EntriesOf(config, key)} = {u}, NEW store, store.source = key
    PROVE  ~OfAnotherEnvironment(config, store)
<1>1. \A e \in EntriesOf(config, key) : e.value.variable = Nothing
  <2>. SUFFICES ASSUME NEW e \in EntriesOf(config, key), e.value.variable # Nothing  PROVE FALSE  OBVIOUS
  <2>1. \A f \in EntriesOf(config, key) : f.value = e.value  BY PlainEntries
  <2>2. {f.value : f \in EntriesOf(config, key)} = {e.value}  BY <2>1
  <2>. QED  BY <2>2
<1>2. \A x : x \notin UsesInAny(config, key, Production)  BY <1>1, UsesAre DEF OfProduction
<1>3. UsesInAny(config, key, Production) = {}  BY <1>2
<1>. QED  BY <1>3, FS_EmptySet DEF OfAnotherEnvironment

LEMMA ToldIsOfProduction ==
    ASSUME NEW config, SpeaksPlainly(config), ActiveProfile(config) = {}, NEW clients,
           NEW store \in ToldBy(config, clients), store # Nothing, ~Shadowed(config, store.source)
    PROVE  ~OfAnotherEnvironment(config, store)
<1>1. ASSUME NEW c \in clients, store = ResolveClientRef(config, c)  PROVE ~OfAnotherEnvironment(config, store)
  <2>. DEFINE value == ConfigValue(config, c.anchor)
              groups == <<{"production", "prod"}, {"stage", "staging"}, {""}, {"dev", "local"},
                    {s.profile : s \in Said(config, c.anchor)}>>
  <2>0. Decisive(EntriesOf(config, c.anchor), value)  BY ConfigValueDecides
  <2>1. CASE value = Nothing
    <3>1. /\ \A e \in EntriesOf(config, c.anchor) : ~OfProduction(e)
          /\ ~ \E u : {e.value : e \in EntriesOf(config, c.anchor)} = {u}
      BY <2>0, <2>1 DEF Decisive
    <3>2. store = ConfiguredFromProfiles(config, c.anchor)  BY <1>1, <2>1 DEF ResolveClientRef
    <3>3. \E platform, database : store = DbStore(platform, database, c.anchor)
      BY <3>2 DEF ConfiguredFromProfiles
    <3>4. store.source = c.anchor  BY <3>3 DEF DbStore
    <3>. QED  BY <3>1, <3>4, NothingInProduction
  <2>2. CASE value # Nothing
    <3>1. store = DbStore(value.platform, DatabaseOf(config, value), c.anchor)  BY <1>1, <2>2 DEF ResolveClientRef
    <3>2. /\ \E e \in EntriesOf(config, c.anchor) : e.value = value
          /\ \/ \A e \in EntriesOf(config, c.anchor) : e.value = value
             \/ \E e \in EntriesOf(config, c.anchor) : OfProduction(e) /\ e.value = value
             \/ \A e \in EntriesOf(config, c.anchor) : ~OfProduction(e)
      BY <2>0, <2>2 DEF Decisive
    <3>. HIDE DEF value
    <3>3. PICK e \in EntriesOf(config, c.anchor) : e.value = value  BY <3>2
    <3>4. \/ \A f \in EntriesOf(config, c.anchor) : f.value.url => f.value = e.value
          \/ \E f \in EntriesOf(config, c.anchor) : OfProduction(f) /\ f.value = e.value
          \/ \A f \in EntriesOf(config, c.anchor) : ~OfProduction(f)
      BY <3>2, <3>3
    <3>5. ~Shadowed(config, c.anchor)  BY <3>1 DEF DbStore
    <3>. QED  BY <3>1, <3>3, <3>4, <3>5, StoreOfUrl
  <2>. QED  BY <2>1, <2>2
<1>2. ASSUME store = SingleDatastoreRef(config)  PROVE ~OfAnotherEnvironment(config, store)
  <2>. DEFINE hits == {i \in DOMAIN config : config[i].value.platform # 0 /\ config[i].value.url}
              first == config[Min(hits)]
              values == {config[i].value : i \in hits}
  <2>1. config \in Seq(ToSet(config))  BY DEF SpeaksPlainly
  <2>2. Cardinality(values) = 1 /\ store = DbStore(first.value.platform, DatabaseOf(config, first.value), first.key)
    BY <1>2 DEF SingleDatastoreRef
  <2>3. hits # {} /\ hits \subseteq Nat
    <3>1. DOMAIN config = 1..Len(config) /\ Len(config) \in Nat  BY <2>1
    <3>2. values = {} => Cardinality(values) = 0  BY FS_EmptySet
    <3>3. values # {}
      <4>1. Cardinality(values) = 1  BY <2>2
      <4>. HIDE DEF values
      <4>2. Cardinality(values) # 0  BY <4>1
      <4>. QED  BY <3>2, <4>2
    <3>. QED  BY <3>1, <3>3
  <2>4. Min(hits) \in hits
    <3>. HIDE DEF hits
    <3>1. PICK m \in hits : \A i \in hits : m <= i  BY <2>3, SomeIsLeast
    <3>. QED  BY <3>1 DEF Min
  <2>5. IsFiniteSet(values)
    <3>. DEFINE n == Len(config)
    <3>1. n \in Nat /\ DOMAIN config = 1..n  BY <2>1
    <3>2. IsFiniteSet(1..n)  BY <3>1, FS_Interval
    <3>3. hits \in SUBSET (1..n)  BY <3>1
    <3>4. IsFiniteSet(hits)  BY <3>2, <3>3, FS_Subset
    <3>. DEFINE f == [i \in hits |-> config[i].value]
    <3>5. f \in Surjection(hits, values)  BY DEF Surjection
    <3>. HIDE DEF values, hits
    <3>. QED  BY <3>4, <3>5, FS_Surjection
  <2>6. \A i \in hits : config[i].value = first.value
    <3>1. PICK u : values = {u}
      <4>. HIDE DEF values
      <4>. QED  BY <2>2, <2>5, SoleOf
    <3>2. \A i \in hits : config[i].value = u  BY <3>1
    <3>. HIDE DEF hits
    <3>. QED  BY <2>4, <3>2
  <2>. DEFINE key == first.key
  <2>7. first \in ToSet(config) /\ first.value.platform # 0 /\ first.value.url
    BY <2>1, <2>4 DEF ToSet
  <2>8. first \in EntriesOf(config, key)  BY <2>7 DEF EntriesOf
  <2>9. ASSUME NEW f \in EntriesOf(config, key), f.value.url  PROVE f.value = first.value
    <3>1. f.value.platform # 0
      <4>. HIDE DEF first
      <4>. QED  BY <2>7, <2>8, <2>9, PlainEntries
    <3>2. PICK i \in DOMAIN config : f = config[i]  BY <2>1 DEF EntriesOf, ToSet
    <3>3. i \in hits  BY <2>9, <3>1, <3>2
    <3>. HIDE DEF hits
    <3>. QED  BY <2>6, <3>2, <3>3
  <2>. HIDE DEF first
  <2>10. ~OfAnotherEnvironment(config, DbStore(first.value.platform, DatabaseOf(config, first.value), key))
    <3>1. ~Shadowed(config, key)  BY <2>2 DEF DbStore, first
    <3>. QED  BY <2>8, <2>9, <3>1, StoreOfUrl
  <2>. QED  BY <2>2, <2>10
<1>. QED  BY <1>1, <1>2 DEF ToldBy

\* Where every repository speaks plainly production is the record.
THEOREM ProductionIsTold ==
    (\A c \in Sources : SpeaksPlainly(c.config)) => (Spec => []ProductionIsTheRecord)
<1>. SUFFICES ASSUME \A c \in Sources : SpeaksPlainly(c.config)  PROVE Spec => []ProductionIsTheRecord  OBVIOUS
<1>1. RunInv /\ RowsInv => ProductionIsTheRecord
  <2>. SUFFICES ASSUME RunInv, RowsInv, ActiveProfile(code.config) = {},
                       NEW d \in ToSet(dependencies), d.store # Nothing, ~Shadowed(code.config, d.store.source)
                PROVE  ~OfAnotherEnvironment(code.config, d.store)
    BY DEF ProductionIsTheRecord
  <2>1. code \in Sources  BY DEF RunInv
  <2>2. d.store \in ToldBy(code.config, code.clients)  BY DEF RowsInv, StoresAreTold
  <2>. QED  BY <2>1, <2>2, ToldIsOfProduction
<1>. QED  BY <1>1, RunInvariance, RowsInvariance, PTL
=============================================================================
