---------------------------- MODULE Stores_proofs ----------------------------
(***************************************************************************)
(* The cache: that its list and its map stay in step.  The key database:   *)
(* which ids it hands out across crashes, resets and failing deletes, for  *)
(* every range of ids, and what its readings of the database find,         *)
(* whatever keys are there.  Archives: what is loaded is what was saved.   *)
(* Numbered files: that numbers and names belong together.  (Directories   *)
(* have a module of their own, Directories_proofs.)                        *)
(***************************************************************************)
EXTENDS Stores, CommonLemmas

Nodes == [key : Keys, id : Nat]
Slots == [value : Values, iterator : Nat]

Distinct(list) == \A i, j \in 1..Len(list) : i # j => list[i].id # list[j].id

\* A map and a list in step: typing, each node has its entry and each entry its
\* node, no two nodes have the same address, as many nodes as entries.
Typed(map, list) ==
  /\ map = [k \in DOMAIN map |-> map[k]]
  /\ DOMAIN map \subseteq Keys
  /\ \A k \in DOMAIN map : map[k] \in Slots
  /\ list \in Seq(Nodes)
NodesHaveEntries(map, list) ==
  \A i \in 1..Len(list) : list[i].key \in DOMAIN map /\ map[list[i].key].iterator = list[i].id
EntriesHaveNodes(map, list) ==
  \A k \in DOMAIN map : \E i \in 1..Len(list) : list[i] = [key |-> k, id |-> map[k].iterator]
Counted(map, list) == IsFiniteSet(DOMAIN map) /\ Cardinality(DOMAIN map) = Len(list)

InStep(map, list) ==
  /\ Typed(map, list) /\ Distinct(list)
  /\ NodesHaveEntries(map, list) /\ EntriesHaveNodes(map, list)
  /\ Counted(map, list)

Without(map, key) == [k \in DOMAIN map \ {key} |-> map[k]]
With(map, key, entry) == [k \in DOMAIN map \cup {key} |-> IF k = key THEN entry ELSE map[k]]
-----------------------------------------------------------------------------
\* Erasing through an iterator takes out its node and no other.
LEMMA EraseTakesOne ==
  ASSUME NEW list \in Seq(Nodes), Distinct(list), NEW n \in 1..Len(list)
  PROVE  LET rest == Erase(list, list[n].id)
         IN  /\ rest \in Seq(Nodes)
             /\ Len(rest) = Len(list) - 1
             /\ \A i \in 1..Len(rest) : rest[i] = IF i < n THEN list[i] ELSE list[i + 1]
<1> DEFINE place == CHOOSE i \in 1..Len(list) : list[i].id = list[n].id
<1>1. place = n
  BY DEF Distinct
<1>2. Erase(list, list[n].id) =
        [i \in 1..Len(list) - 1 |-> IF i < n THEN list[i] ELSE list[i + 1]]
  BY <1>1 DEF Erase
<1>3. \A i \in 1..Len(list) - 1 : (IF i < n THEN list[i] ELSE list[i + 1]) \in Nodes
  OBVIOUS
<1>4. Len(list) - 1 \in Nat
  OBVIOUS
<1> QED BY <1>2, <1>3, <1>4

\* n + 1 addresses do not fit on n nodes.
LEMMA OneTooMany ==
  ASSUME NEW n \in Nat, NEW f \in [0..n -> 1..n]
  PROVE  \E x, y \in 0..n : x # y /\ f[x] = f[y]
<1>1. IsFiniteSet(0..n) /\ Cardinality(0..n) = n + 1
  BY FS_Interval
<1>2. IsFiniteSet(1..n) /\ Cardinality(1..n) = n
  <2>1. /\ IsFiniteSet(1..n)
        /\ Cardinality(1..n) = IF 1 > n THEN 0 ELSE n - 1 + 1
    BY FS_Interval
  <2> QED BY <2>1
<1>3. Cardinality(1..n) < Cardinality(0..n)
  BY <1>1, <1>2
<1> QED BY <1>1, <1>2, <1>3, FS_PigeonHole

\* There is always an address that no node has: n nodes do not fill 0..n.
LEMMA FreshIdIsFresh ==
  ASSUME NEW list \in Seq(Nodes)
  PROVE  FreshId(list) \in Nat /\ \A i \in 1..Len(list) : list[i].id # FreshId(list)
<1> DEFINE n == Len(list)
           Free(id) == \A i \in 1..n : list[i].id # id
<1>1. n \in Nat
  OBVIOUS
<1>2. \E id \in 0..n : Free(id)
  <2> SUFFICES ASSUME \A id \in 0..n : \E i \in 1..n : list[i].id = id PROVE FALSE
    OBVIOUS
  <2> DEFINE nodeOf == [id \in 0..n |-> CHOOSE i \in 1..n : list[i].id = id]
  <2>1. nodeOf \in [0..n -> 1..n] /\ \A id \in 0..n : list[nodeOf[id]].id = id
    OBVIOUS
  <2> HIDE DEF nodeOf
  <2>2. \E x, y \in 0..n : x # y /\ nodeOf[x] = nodeOf[y]
    BY <1>1, <2>1, OneTooMany
  <2> QED BY <2>1, <2>2
<1>3. FreshId(list) \in 0..n /\ Free(FreshId(list))
  BY <1>2 DEF FreshId
<1> QED BY <1>3

LEMMA PushBackAddsOne ==
  ASSUME NEW list \in Seq(Nodes), NEW key \in Keys
  PROVE  LET longer == PushBack(list, key)
         IN  /\ longer \in Seq(Nodes)
             /\ Len(longer) = Len(list) + 1
             /\ \A i \in 1..Len(list) : longer[i] = list[i]
             /\ longer[Len(list) + 1] = [key |-> key, id |-> FreshId(list)]
<1>1. [key |-> key, id |-> FreshId(list)] \in Nodes
  BY FreshIdIsFresh DEF Nodes
<1> QED BY <1>1 DEF PushBack

\* A key taken out of the map, and its node out of the list.
LEMMA TakenOut ==
  ASSUME NEW map, NEW list, InStep(map, list), NEW key \in DOMAIN map
  PROVE  InStep(Without(map, key), Erase(list, map[key].iterator))
<1> DEFINE less == Without(map, key)
           rest == Erase(list, map[key].iterator)
<1>1. list \in Seq(Nodes) /\ Distinct(list)
  BY DEF InStep, Typed
<1>2. PICK n \in 1..Len(list) : list[n] = [key |-> key, id |-> map[key].iterator]
  BY DEF InStep, EntriesHaveNodes
<1>3. /\ rest \in Seq(Nodes)
      /\ Len(rest) = Len(list) - 1
      /\ \A i \in 1..Len(rest) : rest[i] = IF i < n THEN list[i] ELSE list[i + 1]
  BY <1>1, <1>2, EraseTakesOne
<1>4. /\ DOMAIN less = DOMAIN map \ {key} /\ less = [k \in DOMAIN less |-> less[k]]
      /\ \A k \in DOMAIN less : less[k] = map[k]
  BY DEF Without
<1> HIDE DEF less, rest
<1>5. Typed(less, rest)
  BY <1>3, <1>4 DEF InStep, Typed
<1>6. Distinct(rest)
  <2> SUFFICES ASSUME NEW i \in 1..Len(rest), NEW j \in 1..Len(rest), i # j
               PROVE  rest[i].id # rest[j].id
    BY DEF Distinct
  <2> DEFINE from(p) == IF p < n THEN p ELSE p + 1
  <2>1. from(i) \in 1..Len(list) /\ from(j) \in 1..Len(list) /\ from(i) # from(j)
    BY <1>1, <1>3
  <2>2. rest[i] = list[from(i)] /\ rest[j] = list[from(j)]
    BY <1>3
  <2> HIDE DEF from
  <2> QED BY <1>1, <2>1, <2>2 DEF Distinct
<1>7. NodesHaveEntries(less, rest)
  <2> SUFFICES ASSUME NEW i \in 1..Len(rest)
               PROVE  rest[i].key \in DOMAIN less /\ less[rest[i].key].iterator = rest[i].id
    BY DEF NodesHaveEntries
  <2>1. PICK j \in 1..Len(list) : j # n /\ rest[i] = list[j]
    <3>1. CASE i < n
      BY <1>1, <1>3, <3>1
    <3>2. CASE i >= n
      <4>1. i + 1 \in 1..Len(list) /\ i + 1 # n /\ rest[i] = list[i + 1]
        BY <1>1, <1>3, <3>2
      <4> QED BY <4>1
    <3> QED BY <1>1, <1>3, <3>1, <3>2
  <2>2. list[j].key \in DOMAIN map /\ map[list[j].key].iterator = list[j].id
    BY DEF InStep, NodesHaveEntries
  <2>3. list[j].id # list[n].id
    BY <1>1, <2>1 DEF Distinct
  <2>4. list[j].key # key
    BY <1>2, <2>2, <2>3
  <2> QED BY <1>4, <2>1, <2>2, <2>4
<1>8. EntriesHaveNodes(less, rest)
  <2> SUFFICES ASSUME NEW k \in DOMAIN less
               PROVE  \E i \in 1..Len(rest) : rest[i] = [key |-> k, id |-> less[k].iterator]
    BY DEF EntriesHaveNodes
  <2>1. PICK j \in 1..Len(list) : list[j] = [key |-> k, id |-> map[k].iterator]
    BY <1>4 DEF InStep, EntriesHaveNodes
  <2>2. j # n
    BY <1>2, <1>4, <2>1
  <2>3. CASE j < n
    <3>1. j \in 1..Len(rest) /\ rest[j] = list[j]
      BY <1>1, <1>3, <2>3
    <3> QED BY <1>4, <2>1, <3>1
  <2>4. CASE j > n
    <3>1. j - 1 \in 1..Len(rest) /\ rest[j - 1] = list[j]
      BY <1>1, <1>3, <2>4
    <3> QED BY <1>4, <2>1, <3>1
  <2> QED BY <1>1, <2>2, <2>3, <2>4
<1>9. Counted(less, rest)
  BY <1>3, <1>4, FS_RemoveElement DEF InStep, Counted
<1> QED BY <1>5, <1>6, <1>7, <1>8, <1>9 DEF InStep, less, rest

\* A key put into the map, and its node at the back of the list.
LEMMA PutIn ==
  ASSUME NEW map, NEW list, InStep(map, list), NEW key \in Keys, key \notin DOMAIN map,
         NEW value \in Values
  PROVE  InStep(With(map, key, [value |-> value, iterator |-> FreshId(list)]), PushBack(list, key))
<1> DEFINE entry == [value |-> value, iterator |-> FreshId(list)]
           more == With(map, key, entry)
           longer == PushBack(list, key)
<1>1. list \in Seq(Nodes) /\ Distinct(list)
  BY DEF InStep, Typed
<1>2. FreshId(list) \in Nat /\ \A i \in 1..Len(list) : list[i].id # FreshId(list)
  BY <1>1, FreshIdIsFresh
<1>3. /\ longer \in Seq(Nodes)
      /\ Len(longer) = Len(list) + 1
      /\ \A i \in 1..Len(list) : longer[i] = list[i]
      /\ longer[Len(list) + 1] = [key |-> key, id |-> FreshId(list)]
  BY <1>1, PushBackAddsOne
<1>4. /\ DOMAIN more = DOMAIN map \cup {key} /\ more[key] = entry
      /\ \A k \in DOMAIN map : more[k] = map[k]
      /\ more = [k \in DOMAIN more |-> more[k]]
  BY DEF With
<1>5. entry \in Slots /\ entry.iterator = FreshId(list)
  BY <1>2 DEF Slots
<1>6. Len(list) \in Nat
  BY <1>1
<1> HIDE DEF entry, more, longer
<1>7. Typed(more, longer)
  BY <1>3, <1>4, <1>5 DEF InStep, Typed
<1>8. Distinct(longer)
  BY <1>1, <1>2, <1>3, <1>6 DEF Distinct
<1>9. NodesHaveEntries(more, longer)
  <2> SUFFICES ASSUME NEW i \in 1..Len(longer)
               PROVE  longer[i].key \in DOMAIN more /\ more[longer[i].key].iterator = longer[i].id
    BY DEF NodesHaveEntries
  <2>1. CASE i = Len(list) + 1
    BY <1>3, <1>4, <1>5, <2>1
  <2>2. CASE i \in 1..Len(list)
    BY <1>3, <1>4, <2>2 DEF InStep, NodesHaveEntries
  <2> QED BY <1>3, <1>6, <2>1, <2>2
<1>10. EntriesHaveNodes(more, longer)
  <2> SUFFICES ASSUME NEW k \in DOMAIN more
               PROVE  \E i \in 1..Len(longer) : longer[i] = [key |-> k, id |-> more[k].iterator]
    BY DEF EntriesHaveNodes
  <2>1. CASE k = key
    <3>1. Len(list) + 1 \in 1..Len(longer)
      BY <1>3, <1>6
    <3> QED BY <1>3, <1>4, <1>5, <2>1, <3>1
  <2>2. CASE k \in DOMAIN map
    <3>1. PICK i \in 1..Len(list) : list[i] = [key |-> k, id |-> map[k].iterator]
      BY <2>2 DEF InStep, EntriesHaveNodes
    <3>2. i \in 1..Len(longer) /\ longer[i] = list[i]
      BY <1>3, <1>6
    <3> QED BY <1>4, <2>2, <3>1, <3>2
  <2> QED BY <1>4, <2>1, <2>2
<1>11. Counted(more, longer)
  <2>1. IsFiniteSet(DOMAIN map) /\ Cardinality(DOMAIN map) = Len(list)
    BY DEF InStep, Counted
  <2>2. /\ IsFiniteSet(DOMAIN map \cup {key})
        /\ Cardinality(DOMAIN map \cup {key}) = Cardinality(DOMAIN map) + 1
    BY <2>1, FS_AddElement
  <2> QED BY <1>3, <1>4, <2>1, <2>2 DEF Counted
<1> QED BY <1>7, <1>8, <1>9, <1>10, <1>11 DEF InStep, more, longer, entry

\* A key moved to the back, with a new value.
Moved(map, list, key, value) ==
  [k \in DOMAIN map \cup {key} |->
     IF k = key THEN [value |-> value, iterator |-> list[Len(list)].id] ELSE map[k]]

LEMMA MovedToBack ==
  ASSUME NEW map, NEW list, InStep(map, list), NEW key \in DOMAIN map, NEW value \in Values
  PROVE  LET longer == PushBack(Erase(list, map[key].iterator), key)
         IN  InStep(Moved(map, longer, key, value), longer) /\ Len(longer) = Len(list)
<1> DEFINE less == Without(map, key)
           rest == Erase(list, map[key].iterator)
           longer == PushBack(rest, key)
           entry == [value |-> value, iterator |-> FreshId(rest)]
<1>1. key \in Keys /\ list \in Seq(Nodes) /\ Distinct(list)
  BY DEF InStep, Typed
<1>2. InStep(less, rest)
  BY TakenOut
<1>3. rest \in Seq(Nodes)
  BY <1>2 DEF InStep, Typed
<1>4. key \notin DOMAIN less
  BY DEF Without
<1>5. InStep(With(less, key, entry), longer)
  BY <1>1, <1>2, <1>4, PutIn
<1>6. Len(longer) = Len(rest) + 1 /\ longer[Len(longer)] = [key |-> key, id |-> FreshId(rest)]
  BY <1>1, <1>3, PushBackAddsOne
<1>7. Len(rest) = Len(list) - 1
  BY <1>2, FS_RemoveElement DEF InStep, Counted, Without
<1>8. Moved(map, longer, key, value) = With(less, key, entry)
  BY <1>6 DEF Moved, With, Without
<1> QED BY <1>1, <1>5, <1>6, <1>7, <1>8

\* The front of the list evicted: its key is the only one that leaves.
LEMMA FrontEvicted ==
  ASSUME NEW map, NEW list, InStep(map, list), Len(list) > 0
  PROVE  LET shorter == SubSeq(list, 2, Len(list))
             front == list[1].key
         IN  /\ front \in DOMAIN map
             /\ DOMAIN map \ (KeysOf(list) \ KeysOf(shorter)) = DOMAIN map \ {front}
             /\ InStep(Without(map, front), shorter)
             /\ Len(shorter) = Len(list) - 1
             /\ shorter = Erase(list, map[front].iterator)
<1> DEFINE shorter == SubSeq(list, 2, Len(list))
           front == list[1].key
<1>1. list \in Seq(Nodes) /\ Distinct(list) /\ Len(list) \in Nat /\ 1 \in 1..Len(list)
  BY DEF InStep, Typed
<1>2. front \in DOMAIN map /\ map[front].iterator = list[1].id
  BY <1>1 DEF InStep, NodesHaveEntries
<1>3. /\ Len(shorter) = Len(list) - 1
      /\ shorter \in Seq(Nodes)
      /\ \A i \in 1..Len(shorter) : shorter[i] = list[i + 1]
  <2>1. /\ shorter \in Seq(Nodes)
        /\ Len(shorter) = IF 2 <= Len(list) THEN Len(list) - 2 + 1 ELSE 0
        /\ \A i \in 1..Len(list) - 2 + 1 : shorter[i] = list[2 + i - 1]
    BY <1>1, SubSeqProperties
  <2> HIDE DEF shorter
  <2>2. Len(shorter) = Len(list) - 1
    <3> DEFINE n == Len(list)
    <3>1. n \in Nat /\ n > 0
      BY <1>1
    <3>2. Len(shorter) = IF 2 <= n THEN n - 2 + 1 ELSE 0
      BY <2>1
    <3> HIDE DEF n
    <3>3. Len(shorter) = n - 1
      BY <3>1, <3>2
    <3> QED BY <3>3 DEF n
  <2>3. ASSUME NEW i \in 1..Len(shorter) PROVE shorter[i] = list[i + 1]
    <3>1. i \in 1..Len(list) - 2 + 1 /\ 2 + i - 1 = i + 1
      BY <1>1, <2>2
    <3> QED BY <2>1, <3>1
  <2> QED BY <2>1, <2>2, <2>3
<1>4. shorter = Erase(list, list[1].id)
  <2>1. /\ Erase(list, list[1].id) \in Seq(Nodes)
        /\ Len(Erase(list, list[1].id)) = Len(list) - 1
        /\ \A i \in 1..Len(Erase(list, list[1].id)) : Erase(list, list[1].id)[i] = list[i + 1]
    BY <1>1, EraseTakesOne
  <2> QED BY <1>3, <2>1
<1>5. InStep(Without(map, front), shorter)
  BY <1>2, <1>4, TakenOut
<1>6. \A i \in 1..Len(shorter) : shorter[i].key # front
  BY <1>5 DEF InStep, NodesHaveEntries, Without
<1>7. KeysOf(list) \ KeysOf(shorter) = {front}
  <2>1. front \in KeysOf(list) /\ front \notin KeysOf(shorter)
    BY <1>1, <1>6 DEF KeysOf
  <2>2. ASSUME NEW i \in 1..Len(list), i # 1 PROVE list[i].key \in KeysOf(shorter)
    <3>1. i - 1 \in 1..Len(shorter) /\ shorter[i - 1] = list[i]
      BY <1>1, <1>3, <2>2
    <3> QED BY <3>1 DEF KeysOf
  <2> QED BY <2>1, <2>2 DEF KeysOf
<1> QED BY <1>2, <1>3, <1>4, <1>5, <1>7
-----------------------------------------------------------------------------
\* The order of use that a list stands for: the keys before each key.
Before(list) ==
  {<<list[p[1]].key, list[p[2]].key>> :
     p \in {q \in (1..Len(list)) \X (1..Len(list)) : q[1] < q[2]}}

LEMMA BeforeMember ==
  ASSUME NEW list, NEW a, NEW b
  PROVE  <<a, b>> \in Before(list) <=>
           \E i, j \in 1..Len(list) : i < j /\ list[i].key = a /\ list[j].key = b
<1>1. ASSUME NEW i \in 1..Len(list), NEW j \in 1..Len(list), i < j
      PROVE  <<list[i].key, list[j].key>> \in Before(list)
  <2>1. <<i, j>> \in {q \in (1..Len(list)) \X (1..Len(list)) : q[1] < q[2]}
    BY <1>1
  <2> QED BY <2>1 DEF Before
<1>2. ASSUME <<a, b>> \in Before(list)
      PROVE  \E i, j \in 1..Len(list) : i < j /\ list[i].key = a /\ list[j].key = b
  BY <1>2 DEF Before
<1> QED BY <1>1, <1>2

\* No two nodes have the same key, and the keys are those of the map.
LEMMA KeysOnce ==
  ASSUME NEW map, NEW list, InStep(map, list)
  PROVE  /\ KeysOf(list) = DOMAIN map
         /\ \A i, j \in 1..Len(list) : list[i].key = list[j].key => i = j
         /\ Before(list) \subseteq (DOMAIN map) \X (DOMAIN map)
<1>1. KeysOf(list) = DOMAIN map
  <2>1. ASSUME NEW k \in DOMAIN map PROVE k \in KeysOf(list)
    <3>1. PICK i \in 1..Len(list) : list[i] = [key |-> k, id |-> map[k].iterator]
      BY DEF InStep, EntriesHaveNodes
    <3> QED BY <3>1 DEF KeysOf
  <2> QED BY <2>1 DEF InStep, NodesHaveEntries, KeysOf
<1>2. ASSUME NEW i \in 1..Len(list), NEW j \in 1..Len(list), list[i].key = list[j].key
      PROVE  i = j
  BY <1>2 DEF InStep, NodesHaveEntries, Distinct
<1>3. Before(list) \subseteq (DOMAIN map) \X (DOMAIN map)
  BY DEF Before, InStep, NodesHaveEntries
<1> QED BY <1>1, <1>2, <1>3

\* Two orders on the same keys that agree on every pair are the same.
LEMMA SameOrder ==
  ASSUME NEW U, NEW A \in SUBSET (U \X U), NEW other \in SUBSET (U \X U),
         \A a, b \in U : <<a, b>> \in A <=> <<a, b>> \in other
  PROVE  A = other
OBVIOUS

\* Erasing a node takes its key out of the order.
LEMMA ErasedOrder ==
  ASSUME NEW map, NEW list, InStep(map, list), NEW key \in DOMAIN map
  PROVE  LET rest == DOMAIN map \ {key}
         IN  Before(Erase(list, map[key].iterator)) = Before(list) \cap (rest \X rest)
<1> DEFINE rest == DOMAIN map \ {key}
           less == Erase(list, map[key].iterator)
<1>1. list \in Seq(Nodes) /\ Distinct(list) /\ Len(list) \in Nat
  BY DEF InStep, Typed
<1>2. PICK n \in 1..Len(list) : list[n] = [key |-> key, id |-> map[key].iterator]
  BY DEF InStep, EntriesHaveNodes
<1>3. /\ Len(less) = Len(list) - 1
      /\ \A i \in 1..Len(less) : less[i] = IF i < n THEN list[i] ELSE list[i + 1]
  <2>1. less = Erase(list, list[n].id)
    BY <1>2
  <2> HIDE DEF less
  <2> QED BY <1>1, <2>1, EraseTakesOne
<1>4. \A i \in 1..Len(list) : list[i].key \in DOMAIN map /\ (list[i].key = key <=> i = n)
  BY <1>2, KeysOnce DEF InStep, NodesHaveEntries
<1>5. InStep(Without(map, key), less) /\ DOMAIN Without(map, key) = rest
  BY TakenOut DEF Without
<1>6. Before(less) \subseteq rest \X rest
  BY <1>5, KeysOnce
<1> HIDE DEF less
<1>7. ASSUME NEW a \in rest, NEW b \in rest, <<a, b>> \in Before(less)
      PROVE  <<a, b>> \in Before(list)
  <2>1. PICK i \in 1..Len(less), j \in 1..Len(less) :
          i < j /\ less[i].key = a /\ less[j].key = b
    BY <1>7, BeforeMember
  <2> DEFINE from(p) == IF p < n THEN p ELSE p + 1
  <2>2. /\ from(i) \in 1..Len(list) /\ from(j) \in 1..Len(list) /\ from(i) < from(j)
        /\ less[i] = list[from(i)] /\ less[j] = list[from(j)]
    BY <1>1, <1>3, <2>1
  <2> HIDE DEF from
  <2> QED BY <2>1, <2>2, BeforeMember
<1>8. ASSUME NEW a \in rest, NEW b \in rest, <<a, b>> \in Before(list)
      PROVE  <<a, b>> \in Before(less)
  <2>1. PICK i \in 1..Len(list), j \in 1..Len(list) :
          i < j /\ list[i].key = a /\ list[j].key = b
    BY <1>8, BeforeMember
  <2>2. i # n /\ j # n
    BY <1>4, <2>1
  <2> DEFINE to(p) == IF p < n THEN p ELSE p - 1
  <2>3. /\ to(i) \in 1..Len(less) /\ to(j) \in 1..Len(less) /\ to(i) < to(j)
        /\ less[to(i)] = list[i] /\ less[to(j)] = list[j]
    BY <1>1, <1>3, <2>1, <2>2
  <2> HIDE DEF to
  <2> QED BY <2>1, <2>3, BeforeMember
<1>9. Before(list) \cap (rest \X rest) \in SUBSET (rest \X rest)
  OBVIOUS
<1>10. \A a, b \in rest : <<a, b>> \in Before(less) <=> <<a, b>> \in Before(list) \cap (rest \X rest)
  BY <1>7, <1>8
<1> HIDE DEF rest
<1>11. Before(less) = Before(list) \cap (rest \X rest)
  BY <1>6, <1>9, <1>10, SameOrder
<1> QED BY <1>11 DEF less, rest

\* A key pushed to the back comes after all that are there.
LEMMA PushedOrder ==
  ASSUME NEW map, NEW list, InStep(map, list), NEW key \in Keys
  PROVE  Before(PushBack(list, key)) = Before(list) \cup ((DOMAIN map) \X {key})
<1> DEFINE longer == PushBack(list, key)
           U == DOMAIN map \cup {key}
<1>1. list \in Seq(Nodes) /\ Len(list) \in Nat
  BY DEF InStep, Typed
<1>2. /\ Len(longer) = Len(list) + 1
      /\ \A i \in 1..Len(list) : longer[i] = list[i]
      /\ longer[Len(list) + 1].key = key
  <2>1. /\ Len(longer) = Len(list) + 1
        /\ \A i \in 1..Len(list) : longer[i] = list[i]
        /\ longer[Len(list) + 1] = [key |-> key, id |-> FreshId(list)]
    BY <1>1, PushBackAddsOne
  <2> HIDE DEF longer
  <2> QED BY <2>1
<1>3. KeysOf(list) = DOMAIN map /\ Before(list) \subseteq (DOMAIN map) \X (DOMAIN map)
  BY KeysOnce
<1> HIDE DEF longer
<1>4. \A i \in 1..Len(longer) : longer[i].key \in U
  BY <1>1, <1>2, <1>3 DEF KeysOf
<1>5. Before(longer) \in SUBSET (U \X U)
  BY <1>4 DEF Before
<1>6. Before(list) \cup ((DOMAIN map) \X {key}) \in SUBSET (U \X U)
  BY <1>3
<1>7. ASSUME NEW a \in U, NEW b \in U, <<a, b>> \in Before(longer)
      PROVE  <<a, b>> \in Before(list) \cup ((DOMAIN map) \X {key})
  <2>1. PICK i \in 1..Len(longer), j \in 1..Len(longer) :
          i < j /\ longer[i].key = a /\ longer[j].key = b
    BY <1>7, BeforeMember
  <2>2. i \in 1..Len(list)
    BY <1>1, <1>2, <2>1
  <2>3. CASE j \in 1..Len(list)
    BY <1>2, <2>1, <2>2, <2>3, BeforeMember
  <2>4. CASE j = Len(list) + 1
    BY <1>2, <1>3, <2>1, <2>2, <2>4 DEF KeysOf
  <2> QED BY <1>1, <1>2, <2>1, <2>3, <2>4
<1>8. ASSUME NEW a \in U, NEW b \in U, <<a, b>> \in Before(list) \cup ((DOMAIN map) \X {key})
      PROVE  <<a, b>> \in Before(longer)
  <2>1. CASE <<a, b>> \in Before(list)
    <3>1. PICK i \in 1..Len(list), j \in 1..Len(list) :
            i < j /\ list[i].key = a /\ list[j].key = b
      BY <2>1, BeforeMember
    <3>2. i \in 1..Len(longer) /\ j \in 1..Len(longer)
      BY <1>1, <1>2
    <3> QED BY <1>2, <3>1, <3>2, BeforeMember
  <2>2. CASE a \in DOMAIN map /\ b = key
    <3>1. PICK i \in 1..Len(list) : list[i].key = a
      BY <1>3, <2>2 DEF KeysOf
    <3>2. i \in 1..Len(longer) /\ Len(list) + 1 \in 1..Len(longer) /\ i < Len(list) + 1
      BY <1>1, <1>2
    <3> QED BY <1>2, <2>2, <3>1, <3>2, BeforeMember
  <2>3. <<a, b>> \in Before(list) \/ <<a, b>> \in (DOMAIN map) \X {key}
    BY <1>8
  <2>4. <<a, b>> \in (DOMAIN map) \X {key} => a \in DOMAIN map /\ b = key
    OBVIOUS
  <2> QED BY <2>1, <2>2, <2>3, <2>4
<1>9. \A a, b \in U : <<a, b>> \in Before(longer) <=> <<a, b>> \in Before(list) \cup ((DOMAIN map) \X {key})
  BY <1>7, <1>8
<1> HIDE DEF U
<1>10. Before(longer) = Before(list) \cup ((DOMAIN map) \X {key})
  BY <1>5, <1>6, <1>9, SameOrder
<1> QED BY <1>10 DEF longer

\* The order once a key has been used and only the keys in kept are left.
AfterUseOf(order, kept, key) ==
  LET rest == kept \ {key}
  IN  (order \cap (rest \X rest)) \cup (rest \X {key})

LEMMA MovedOrder ==
  ASSUME NEW map, NEW list, InStep(map, list), NEW key \in DOMAIN map
  PROVE  Before(PushBack(Erase(list, map[key].iterator), key))
           = AfterUseOf(Before(list), DOMAIN map, key)
<1>1. key \in Keys
  BY DEF InStep, Typed
<1>2. InStep(Without(map, key), Erase(list, map[key].iterator))
  BY TakenOut
<1>3. Before(PushBack(Erase(list, map[key].iterator), key))
        = Before(Erase(list, map[key].iterator)) \cup ((DOMAIN Without(map, key)) \X {key})
  BY <1>1, <1>2, PushedOrder
<1>4. DOMAIN Without(map, key) = DOMAIN map \ {key}
  BY DEF Without
<1>5. Before(Erase(list, map[key].iterator))
        = Before(list) \cap ((DOMAIN map \ {key}) \X (DOMAIN map \ {key}))
  BY ErasedOrder
<1> QED BY <1>3, <1>4, <1>5 DEF AfterUseOf
-----------------------------------------------------------------------------
IInv == InStep(cache_, usage_) /\ Len(usage_) <= MaxSize

LEMMA EmptyInStep == InStep(<<>>, <<>>)
BY FS_EmptySet DEF InStep, Typed, Distinct, NodesHaveEntries, EntriesHaveNodes, Counted

\* Room for a new key: either there is some, or the key before all others goes.
LEMMA RoomMade ==
  ASSUME IInv, NEW key \in Keys, key \notin DOMAIN cache_
  PROVE  LET list == EvictUntilRoom
             kept == DOMAIN cache_ \ (KeysOf(usage_) \ KeysOf(list))
         IN  /\ kept \subseteq DOMAIN cache_
             /\ InStep([k \in kept |-> cache_[k]], list)
             /\ Len(list) \in Nat /\ Len(list) < MaxSize
             /\ Before(list) = Before(usage_) \cap (kept \X kept)
             /\ \/ kept = DOMAIN cache_ /\ Cardinality(DOMAIN cache_) < MaxSize
                \/ \E oldest \in DOMAIN cache_ :
                      /\ Cardinality(DOMAIN cache_) = MaxSize
                      /\ \A other \in DOMAIN cache_ \ {oldest} : <<oldest, other>> \in Before(usage_)
                      /\ kept = DOMAIN cache_ \ {oldest}
<1> USE MaxSizeAssumption
<1> DEFINE list == EvictUntilRoom
           kept == DOMAIN cache_ \ (KeysOf(usage_) \ KeysOf(list))
           less == [k \in kept |-> cache_[k]]
<1>1. /\ usage_ \in Seq(Nodes) /\ Len(usage_) \in Nat
      /\ Cardinality(DOMAIN cache_) = Len(usage_)
      /\ InStep(cache_, usage_)
  BY DEF IInv, InStep, Typed, Counted
<1>2. CASE Len(usage_) < MaxSize
  <2>1. list = usage_
    BY <1>1, <1>2 DEF EvictUntilRoom
  <2>2. kept = DOMAIN cache_
    BY <2>1
  <2>3. less = cache_
    <3>1. cache_ = [k \in DOMAIN cache_ |-> cache_[k]]
      BY DEF IInv, InStep, Typed
    <3> QED BY <2>2, <3>1
  <2>4. Before(list) = Before(usage_) \cap (kept \X kept)
    <3>1. Before(usage_) \subseteq (DOMAIN cache_) \X (DOMAIN cache_)
      BY <1>1, KeysOnce
    <3> QED BY <2>1, <2>2, <3>1
  <2> QED BY <1>1, <1>2, <2>1, <2>2, <2>3, <2>4
<1>3. CASE Len(usage_) = MaxSize
  <2> DEFINE front == usage_[1].key
  <2>1. list = SubSeq(usage_, 2, Len(usage_))
    BY <1>1, <1>3 DEF EvictUntilRoom
  <2>2. /\ front \in DOMAIN cache_
        /\ kept = DOMAIN cache_ \ {front}
        /\ InStep(Without(cache_, front), list)
        /\ Len(list) = Len(usage_) - 1
        /\ list = Erase(usage_, cache_[front].iterator)
    BY <1>1, <1>3, <2>1, FrontEvicted
  <2>3. less = Without(cache_, front)
    BY <2>2 DEF Without
  <2>4. Before(list) = Before(usage_) \cap (kept \X kept)
    <3> HIDE DEF kept, list, front
    <3> QED BY <1>1, <2>2, ErasedOrder
  <2>5. ASSUME NEW other \in DOMAIN cache_ \ {front}
        PROVE  <<front, other>> \in Before(usage_)
    <3>0. other \in KeysOf(usage_)
      BY <1>1, <2>5, KeysOnce
    <3>1. PICK i \in 1..Len(usage_) : usage_[i].key = other
      BY <3>0 DEF KeysOf
    <3>2. 1 \in 1..Len(usage_) /\ 1 < i
      BY <1>1, <3>1
    <3> QED BY <3>1, <3>2, BeforeMember
  <2>6. Len(list) \in Nat /\ Len(list) < MaxSize
    BY <1>1, <1>3, <2>2
  <2> HIDE DEF kept, list, front
  <2>7. /\ kept \subseteq DOMAIN cache_ /\ InStep(less, list)
        /\ \E oldest \in DOMAIN cache_ :
              /\ Cardinality(DOMAIN cache_) = MaxSize
              /\ \A other \in DOMAIN cache_ \ {oldest} : <<oldest, other>> \in Before(usage_)
              /\ kept = DOMAIN cache_ \ {oldest}
    BY <1>1, <1>3, <2>2, <2>3, <2>5
  <2> QED BY <2>4, <2>6, <2>7 DEF kept, list
<1> QED BY <1>1, <1>2, <1>3 DEF IInv

LEMMA PutNewPreserves ==
  ASSUME IInv, NEW key \in Keys, NEW value \in Values, PutNew(key, value)
  PROVE  IInv'
<1> DEFINE list == EvictUntilRoom
           kept == DOMAIN cache_ \ (KeysOf(usage_) \ KeysOf(list))
           less == [k \in kept |-> cache_[k]]
           entry == [value |-> value, iterator |-> FreshId(list)]
<1>1. key \notin DOMAIN cache_
  BY DEF PutNew
<1>2. /\ kept \subseteq DOMAIN cache_
      /\ InStep(less, list) /\ Len(list) \in Nat /\ Len(list) < MaxSize
  BY <1>1, RoomMade
<1>3. list \in Seq(Nodes)
  BY <1>2 DEF InStep, Typed
<1>4. usage_' = PushBack(list, key)
  BY DEF PutNew
<1>5. Len(usage_') = Len(list) + 1 /\ usage_'[Len(usage_')] = [key |-> key, id |-> FreshId(list)]
  BY <1>2, <1>3, <1>4, PushBackAddsOne
<1>6. InStep(With(less, key, entry), usage_')
  <2>1. key \notin DOMAIN less
    BY <1>1
  <2> QED BY <1>2, <1>4, <2>1, PutIn
<1>7. cache_' = With(less, key, entry)
  BY <1>5 DEF PutNew, Store, With
<1> QED BY <1>2, <1>5, <1>6, <1>7, MaxSizeAssumption DEF IInv

LEMMA MovePreserves ==
  ASSUME IInv, NEW key \in DOMAIN cache_, NEW value \in Values,
         usage_' = PushBack(Erase(usage_, cache_[key].iterator), key),
         cache_' = Moved(cache_, usage_', key, value)
  PROVE  IInv'
BY MovedToBack DEF IInv

LEMMA NextInv == IInv /\ [Next]_vars => IInv'
<1> SUFFICES ASSUME IInv, [Next]_vars PROVE IInv'
  OBVIOUS
<1>1. ASSUME NEW key \in Keys, NEW value \in Values, PutExisting(key, value) PROVE IInv'
  BY <1>1, MovePreserves DEF PutExisting, Store, Moved
<1>2. ASSUME NEW key \in Keys, NEW value \in Values, PutNew(key, value) PROVE IInv'
  BY <1>2, PutNewPreserves
<1>3. ASSUME NEW key \in Keys, GetHit(key) PROVE IInv'
  <2>1. key \in DOMAIN cache_ /\ usage_' = PushBack(Erase(usage_, cache_[key].iterator), key)
    BY <1>3 DEF GetHit, Hit
  <2>2. \A k \in DOMAIN cache_ : cache_[k] \in Slots
    BY DEF IInv, InStep, Typed
  <2>3. cache_[key].value \in Values
    BY <2>1, <2>2 DEF Slots
  <2>4. cache_' = Moved(cache_, usage_', key, cache_[key].value)
    <3> DEFINE it == usage_'[Len(usage_')].id
    <3>1. cache_' = [k \in DOMAIN cache_ |->
                       IF k = key THEN [cache_[key] EXCEPT !.iterator = it] ELSE cache_[k]]
      BY <1>3, <2>1 DEF GetHit, Hit
    <3> HIDE DEF it
    <3>2. [cache_[key] EXCEPT !.iterator = it] = [value |-> cache_[key].value, iterator |-> it]
      BY <2>1, <2>2 DEF Slots
    <3>3. DOMAIN cache_ = DOMAIN cache_ \cup {key}
      BY <2>1
    <3> QED BY <3>1, <3>2, <3>3 DEF Moved, it
  <2> QED BY <2>1, <2>3, <2>4, MovePreserves
<1>4. ASSUME NEW key \in Keys, GetMiss(key) PROVE IInv'
  BY <1>4 DEF GetMiss, IInv
<1>5. ASSUME NEW key \in Keys, Remove(key) PROVE IInv'
  <2>1. /\ key \in DOMAIN cache_
        /\ usage_' = Erase(usage_, cache_[key].iterator)
        /\ cache_' = Without(cache_, key)
    BY <1>5 DEF Remove, Without
  <2>2. InStep(cache_, usage_)' 
    BY <2>1, TakenOut DEF IInv
  <2>3. Len(usage_') = Len(usage_) - 1
    BY <2>1, <2>2, FS_RemoveElement DEF IInv, InStep, Counted, Without
  <2> QED BY <2>2, <2>3, MaxSizeAssumption DEF IInv, InStep, Typed
<1>6. CASE Clear
  BY <1>6, EmptyInStep, MaxSizeAssumption DEF Clear, IInv
<1>7. CASE UNCHANGED vars
  BY <1>7 DEF vars, IInv
<1> QED BY <1>1, <1>2, <1>3, <1>4, <1>5, <1>6, <1>7 DEF Next
-----------------------------------------------------------------------------
\* The inductive invariant: the map and the list are in step, within max_size_.
THEOREM Invariance == Spec => []IInv
<1>1. Init => IInv
  BY EmptyInStep, MaxSizeAssumption DEF Init, IInv
<1> QED BY <1>1, NextInv, PTL DEF Spec

\* Every iterator the map holds leads to the node of its own key, so that put, get
\* and remove never erase another key's node or through a dead iterator.
THEOREM IteratorsStayValid == Spec => []IteratorsValid
<1>1. IInv => IteratorsValid
  BY DEF IInv, InStep, EntriesHaveNodes, Counted, IteratorsValid
<1> QED BY <1>1, Invariance, PTL

\* However put, get, remove and clear alternate, the cache holds at most max_size_ keys.
THEOREM NeverTooLarge == Spec => []SizeBounded
<1>1. IInv => SizeBounded
  BY DEF IInv, InStep, Counted, SizeBounded
<1> QED BY <1>1, Invariance, PTL
-----------------------------------------------------------------------------
\* What each operation does to the order of use.
OrderAfter(kept, key) == AfterUseOf(Before(usage_), kept, key)

LEMMA UseExisting ==
  ASSUME IInv, NEW key \in DOMAIN cache_,
         usage_' = PushBack(Erase(usage_, cache_[key].iterator), key)
  PROVE  Before(usage_') = OrderAfter(DOMAIN cache_, key)
BY MovedOrder DEF IInv, OrderAfter

LEMMA UseNew ==
  ASSUME IInv, NEW key \in Keys, NEW value, PutNew(key, value)
  PROVE  LET kept == DOMAIN cache_ \ (KeysOf(usage_) \ KeysOf(EvictUntilRoom))
         IN  Before(usage_') = OrderAfter(kept, key)
<1> DEFINE list == EvictUntilRoom
           kept == DOMAIN cache_ \ (KeysOf(usage_) \ KeysOf(list))
<1>1. key \notin DOMAIN cache_ /\ usage_' = PushBack(list, key)
  BY DEF PutNew
<1>2. /\ kept \subseteq DOMAIN cache_
      /\ InStep([k \in kept |-> cache_[k]], list)
      /\ Before(list) = Before(usage_) \cap (kept \X kept)
  BY <1>1, RoomMade
<1> HIDE DEF list, kept
<1>3. DOMAIN [k \in kept |-> cache_[k]] = kept
  OBVIOUS
<1>4. Before(usage_') = Before(list) \cup (kept \X {key})
  BY <1>1, <1>2, <1>3, PushedOrder
<1>5. kept \ {key} = kept
  BY <1>1, <1>2
<1> QED BY <1>2, <1>4, <1>5 DEF OrderAfter, AfterUseOf, kept, list

LEMMA UseErased ==
  ASSUME IInv, NEW key \in DOMAIN cache_, usage_' = Erase(usage_, cache_[key].iterator)
  PROVE  LET rest == DOMAIN cache_ \ {key}
         IN  Before(usage_') = Before(usage_) \cap (rest \X rest)
BY ErasedOrder DEF IInv
-----------------------------------------------------------------------------
\* The reference a client keeps: while its entry lives, every key used after its
\* own has been counted; once the entry is dead max_size_ keys have been.
RefInv ==
  /\ ref \in [key : Keys \cup {NoKey}, live : BOOLEAN, others : SUBSET Keys]
  /\ IsFiniteSet(ref.others)
  /\ ref.live => /\ ref.key \in DOMAIN cache_
                 /\ \A k : <<ref.key, k>> \in Before(usage_) => k \in ref.others
  /\ ref.key # NoKey /\ ~ref.live => Cardinality(ref.others) >= MaxSize

\* The reference after a use of key, when only the keys in kept have stayed and
\* the key of the reference, if it has not, was before all others in a full cache.
LEMMA UsedKeepsRef ==
  ASSUME IInv, RefInv, NEW key \in Keys, NEW kept \in SUBSET DOMAIN cache_,
         ref' = Used(key, kept),
         Before(usage_') = OrderAfter(kept, key),
         DOMAIN cache_' = kept \cup {key},
         \/ kept = DOMAIN cache_
         \/ /\ key \notin DOMAIN cache_
            /\ \E oldest \in DOMAIN cache_ :
                  /\ Cardinality(DOMAIN cache_) = MaxSize
                  /\ \A other \in DOMAIN cache_ \ {oldest} : <<oldest, other>> \in Before(usage_)
                  /\ kept = DOMAIN cache_ \ {oldest}
  PROVE  RefInv'
<1>1. /\ ref \in [key : Keys \cup {NoKey}, live : BOOLEAN, others : SUBSET Keys]
      /\ IsFiniteSet(ref.others)
  BY DEF RefInv
<1>2. /\ ref'.key = ref.key
      /\ ref'.live = (ref.live /\ ref.key \in kept)
      /\ ref'.others = IF ~ref.live THEN ref.others
                       ELSE IF key = ref.key THEN {} ELSE ref.others \cup {key}
      /\ ref' \in [key : Keys \cup {NoKey}, live : BOOLEAN, others : SUBSET Keys]
  BY <1>1 DEF Used
<1>3. IsFiniteSet(ref'.others)
  BY <1>1, <1>2, FS_EmptySet, FS_AddElement
<1>4. ASSUME ref'.live
      PROVE  /\ ref'.key \in DOMAIN cache_'
             /\ \A k : <<ref'.key, k>> \in Before(usage_') => k \in ref'.others
  <2>1. ref.live /\ ref.key \in kept
    BY <1>2, <1>4
  <2>2. ASSUME NEW k, <<ref.key, k>> \in Before(usage_')
        PROVE  key # ref.key /\ (<<ref.key, k>> \in Before(usage_) \/ k = key)
    BY <2>2 DEF OrderAfter, AfterUseOf
  <2> QED BY <1>2, <2>1, <2>2 DEF RefInv
<1>5. ASSUME ref'.key # NoKey, ~ref'.live
      PROVE  Cardinality(ref'.others) >= MaxSize
  <2>1. CASE ~ref.live
    BY <1>2, <1>5, <2>1 DEF RefInv
  <2>2. CASE ref.live
    <3>1. ref.key \in DOMAIN cache_ /\ ref.key \notin kept
      BY <1>2, <1>5, <2>2 DEF RefInv
    <3>2. /\ key \notin DOMAIN cache_ /\ Cardinality(DOMAIN cache_) = MaxSize
          /\ \A other \in DOMAIN cache_ \ {ref.key} : <<ref.key, other>> \in Before(usage_)
      BY <3>1
    <3>3. DOMAIN cache_ \ {ref.key} \subseteq ref.others
      BY <2>2, <3>2 DEF RefInv
    <3>4. (DOMAIN cache_ \ {ref.key}) \cup {key} \subseteq ref'.others
      BY <1>2, <2>2, <3>1, <3>2, <3>3
    <3>5. IsFiniteSet(DOMAIN cache_)
      BY DEF IInv, InStep, Counted
    <3>6. /\ IsFiniteSet(DOMAIN cache_ \ {ref.key})
          /\ Cardinality(DOMAIN cache_ \ {ref.key}) = MaxSize - 1
      BY <3>1, <3>2, <3>5, FS_RemoveElement
    <3>7. Cardinality((DOMAIN cache_ \ {ref.key}) \cup {key}) = MaxSize
      BY <3>2, <3>6, FS_AddElement, MaxSizeAssumption
    <3>8. /\ Cardinality((DOMAIN cache_ \ {ref.key}) \cup {key}) <= Cardinality(ref'.others)
      BY <1>3, <3>4, FS_Subset
    <3>9. Cardinality(ref'.others) \in Nat
      BY <1>3, FS_CardinalityType
    <3> QED BY <3>7, <3>8, <3>9, MaxSizeAssumption
  <2> QED BY <1>1, <2>1, <2>2
<1> QED BY <1>2, <1>3, <1>4, <1>5 DEF RefInv

LEMMA NextRefInv == IInv /\ RefInv /\ [Next]_vars => RefInv'
<1> SUFFICES ASSUME IInv, RefInv, [Next]_vars PROVE RefInv'
  OBVIOUS
<1>1. ASSUME NEW key \in Keys, NEW value \in Values, PutExisting(key, value) PROVE RefInv'
  <2>1. /\ key \in DOMAIN cache_ /\ ref' = Used(key, DOMAIN cache_)
        /\ usage_' = PushBack(Erase(usage_, cache_[key].iterator), key)
        /\ DOMAIN cache_' = DOMAIN cache_ \cup {key}
    BY <1>1 DEF PutExisting, Store
  <2> QED BY <2>1, UseExisting, UsedKeepsRef
<1>2. ASSUME NEW key \in Keys, NEW value \in Values, PutNew(key, value) PROVE RefInv'
  <2> DEFINE kept == DOMAIN cache_ \ (KeysOf(usage_) \ KeysOf(EvictUntilRoom))
  <2>1. /\ key \notin DOMAIN cache_ /\ ref' = Used(key, kept)
        /\ DOMAIN cache_' = kept \cup {key}
    BY <1>2 DEF PutNew, Store
  <2>2. Before(usage_') = OrderAfter(kept, key)
    BY <1>2, UseNew
  <2>3. /\ kept \subseteq DOMAIN cache_
        /\ \/ kept = DOMAIN cache_
           \/ \E oldest \in DOMAIN cache_ :
                 /\ Cardinality(DOMAIN cache_) = MaxSize
                 /\ \A other \in DOMAIN cache_ \ {oldest} : <<oldest, other>> \in Before(usage_)
                 /\ kept = DOMAIN cache_ \ {oldest}
    BY <2>1, RoomMade
  <2> HIDE DEF kept
  <2> QED BY <2>1, <2>2, <2>3, UsedKeepsRef
<1>3. ASSUME NEW key \in Keys, GetHit(key) PROVE RefInv'
  <2>1. /\ key \in DOMAIN cache_
        /\ usage_' = PushBack(Erase(usage_, cache_[key].iterator), key)
        /\ DOMAIN cache_' = DOMAIN cache_ \cup {key}
    BY <1>3 DEF GetHit, Hit
  <2>2. Before(usage_') = OrderAfter(DOMAIN cache_, key)
    BY <2>1, UseExisting
  <2>3. CASE ref' = Used(key, DOMAIN cache_)
    BY <2>1, <2>2, <2>3, UsedKeepsRef
  <2>4. CASE ref' = [key |-> key, live |-> TRUE, others |-> {}]
    <3>1. ASSUME NEW k PROVE <<key, k>> \notin Before(usage_')
      BY <2>2 DEF OrderAfter, AfterUseOf
    <3>2. ref'.key = key /\ ref'.live = TRUE /\ ref'.others = {}
      BY <2>4
    <3>3. ref' \in [key : Keys \cup {NoKey}, live : BOOLEAN, others : SUBSET Keys]
      BY <2>4
    <3> QED BY <2>1, <3>1, <3>2, <3>3, FS_EmptySet DEF RefInv
  <2> QED BY <1>3, <2>3, <2>4 DEF GetHit
<1>4. ASSUME UNCHANGED <<cache_, usage_, ref>> PROVE RefInv'
  BY <1>4 DEF RefInv
<1>5. ASSUME ref' = NoReference PROVE RefInv'
  <2>1. ref'.key = NoKey /\ ref'.live = FALSE /\ ref'.others = {}
    BY <1>5 DEF NoReference
  <2>2. ref' \in [key : Keys \cup {NoKey}, live : BOOLEAN, others : SUBSET Keys]
    BY <1>5 DEF NoReference
  <2> QED BY <2>1, <2>2, FS_EmptySet DEF RefInv
<1>6. ASSUME NEW key \in Keys, Remove(key), ref' = ref, ref.key # key PROVE RefInv'
  <2>1. /\ key \in DOMAIN cache_ /\ usage_' = Erase(usage_, cache_[key].iterator)
        /\ DOMAIN cache_' = DOMAIN cache_ \ {key}
    BY <1>6 DEF Remove
  <2>2. Before(usage_') \subseteq Before(usage_)
    BY <2>1, UseErased
  <2> QED BY <1>6, <2>1, <2>2 DEF RefInv
<1>7. ASSUME NEW key \in Keys, Remove(key) PROVE RefInv'
  BY <1>5, <1>6, <1>7 DEF Remove, DropReference
<1>8. CASE Clear
  <2>1. CASE ref.key \in Keys
    BY <1>5, <1>8, <2>1 DEF Clear, DropReference
  <2>2. CASE ref.key \notin Keys
    <3>1. ref' = ref /\ ~ref.live
      BY <1>8, <2>2 DEF Clear, DropReference, RefInv, IInv, InStep, Typed
    <3> QED BY <3>1 DEF RefInv
  <2> QED BY <2>1, <2>2
<1> QED BY <1>1, <1>2, <1>3, <1>4, <1>7, <1>8 DEF Next, GetMiss, vars
-----------------------------------------------------------------------------
\* The abstract map and order are those of the cache and its list.
Content(map) == [k \in DOMAIN map |-> map[k].value]

LEMMA RecencyCardinality == \A s : Recency!Cardinality(s) = Cardinality(s)
BY DEF Recency!Cardinality, Cardinality

LEMMA ContentOf ==
  ASSUME NEW map
  PROVE  DOMAIN Content(map) = DOMAIN map /\ \A k \in DOMAIN map : Content(map)[k] = map[k].value
BY DEF Content

\* The operations of RecencyMap in these terms.
LEMMA PutImplements ==
  ASSUME NEW key \in Keys, NEW value \in Values, NEW kept \in SUBSET DOMAIN cache_,
         Before(usage_') = OrderAfter(kept, key),
         Content(cache_') = [k \in kept \cup {key} |-> IF k = key THEN value ELSE Content(cache_)[k]],
         UNCHANGED answer,
         \/ kept = DOMAIN cache_ /\ (key \in DOMAIN cache_ \/ Cardinality(DOMAIN cache_) < MaxSize)
         \/ /\ key \notin DOMAIN cache_
            /\ \E oldest \in DOMAIN cache_ :
                  /\ Cardinality(DOMAIN cache_) = MaxSize
                  /\ \A other \in DOMAIN cache_ \ {oldest} : <<oldest, other>> \in Before(usage_)
                  /\ kept = DOMAIN cache_ \ {oldest}
  PROVE  Recency!Next
<1>1. Recency!Held = DOMAIN cache_
  BY ContentOf DEF Recency!Held, Content
<1>2. Recency!Kept(kept, key)
  <2>1. ~(MaxSize < MaxSize)
    BY MaxSizeAssumption
  <2> QED BY <1>1, <2>1, RecencyCardinality DEF Recency!Kept, Before
<1>3. Recency!AfterUse(kept, key) = OrderAfter(kept, key)
  BY DEF Recency!AfterUse, OrderAfter, AfterUseOf, Before
<1>4. Recency!Put(key, value)
  BY <1>1, <1>2, <1>3 DEF Recency!Put, Before, Content
<1> QED BY <1>4 DEF Recency!Next

LEMMA GetImplements ==
  ASSUME NEW key \in Keys,
         IF key \in DOMAIN cache_
           THEN /\ answer' = Content(cache_)[key]
                /\ Before(usage_') = OrderAfter(DOMAIN cache_, key)
                /\ Content(cache_') = Content(cache_)
           ELSE answer' = NoValue /\ UNCHANGED <<cache_, usage_>>
  PROVE  Recency!Next
<1>1. Recency!Held = DOMAIN cache_
  BY ContentOf DEF Recency!Held, Content
<1>2. Recency!AfterUse(DOMAIN cache_, key) = OrderAfter(DOMAIN cache_, key)
  BY DEF Recency!AfterUse, OrderAfter, AfterUseOf, Before
<1>3. Recency!Get(key)
  BY <1>1, <1>2 DEF Recency!Get, Before, Content
<1> QED BY <1>3 DEF Recency!Next

LEMMA ForgetImplements ==
  ASSUME NEW keys, (\E key \in Keys : keys = {key}) \/ keys = DOMAIN cache_,
         Content(cache_') = [k \in DOMAIN cache_ \ keys |-> Content(cache_)[k]],
         Before(usage_') = Before(usage_) \cap ((DOMAIN cache_ \ keys) \X (DOMAIN cache_ \ keys)),
         UNCHANGED answer
  PROVE  Recency!Next
<1>1. Recency!Held = DOMAIN cache_
  BY ContentOf DEF Recency!Held, Content
<1>2. CASE keys = DOMAIN cache_
  <2>1. Recency!Forget(Recency!Held)
    BY <1>1, <1>2 DEF Recency!Forget, Before, Content
  <2> QED BY <2>1 DEF Recency!Next
<1>3. ASSUME NEW key \in Keys, keys = {key} PROVE Recency!Next
  <2>1. Recency!Forget({key})
    BY <1>1, <1>3 DEF Recency!Forget, Before, Content
  <2> QED BY <2>1 DEF Recency!Next
<1> QED BY <1>2, <1>3

LEMMA StepRecency == IInv /\ [Next]_vars => [Recency!Next]_(Recency!vars)
<1> SUFFICES ASSUME IInv, [Next]_vars PROVE Recency!Next \/ UNCHANGED Recency!vars
  OBVIOUS
<1>1. ASSUME NEW key \in Keys, NEW value \in Values, PutExisting(key, value) PROVE Recency!Next
  <2>1. /\ key \in DOMAIN cache_ /\ UNCHANGED answer
        /\ usage_' = PushBack(Erase(usage_, cache_[key].iterator), key)
        /\ cache_' = Store(DOMAIN cache_, key, [value |-> value, iterator |-> usage_'[Len(usage_')].id])
    BY <1>1 DEF PutExisting
  <2>2. Content(cache_')
          = [k \in DOMAIN cache_ \cup {key} |-> IF k = key THEN value ELSE Content(cache_)[k]]
    BY <2>1 DEF Store, Content
  <2> QED BY <2>1, <2>2, UseExisting, PutImplements
<1>2. ASSUME NEW key \in Keys, NEW value \in Values, PutNew(key, value) PROVE Recency!Next
  <2> DEFINE kept == DOMAIN cache_ \ (KeysOf(usage_) \ KeysOf(EvictUntilRoom))
  <2>1. /\ key \notin DOMAIN cache_ /\ UNCHANGED answer
        /\ cache_' = Store(kept, key, [value |-> value, iterator |-> usage_'[Len(usage_')].id])
    BY <1>2 DEF PutNew
  <2>2. Before(usage_') = OrderAfter(kept, key)
    BY <1>2, UseNew
  <2>3. /\ kept \subseteq DOMAIN cache_
        /\ \/ kept = DOMAIN cache_ /\ Cardinality(DOMAIN cache_) < MaxSize
           \/ \E oldest \in DOMAIN cache_ :
                 /\ Cardinality(DOMAIN cache_) = MaxSize
                 /\ \A other \in DOMAIN cache_ \ {oldest} : <<oldest, other>> \in Before(usage_)
                 /\ kept = DOMAIN cache_ \ {oldest}
    BY <2>1, RoomMade
  <2> HIDE DEF kept
  <2>4. Content(cache_') = [k \in kept \cup {key} |-> IF k = key THEN value ELSE Content(cache_)[k]]
    BY <2>1, <2>3 DEF Store, Content
  <2> QED BY <2>1, <2>2, <2>3, <2>4, PutImplements
<1>3. ASSUME NEW key \in Keys, GetHit(key) PROVE Recency!Next
  <2>1. /\ key \in DOMAIN cache_ /\ answer' = cache_[key].value
        /\ usage_' = PushBack(Erase(usage_, cache_[key].iterator), key)
        /\ cache_' = [cache_ EXCEPT ![key].iterator = usage_'[Len(usage_')].id]
    BY <1>3 DEF GetHit, Hit
  <2>2. Content(cache_') = Content(cache_)
    <3>1. \A k \in DOMAIN cache_ : cache_[k] \in Slots
      BY DEF IInv, InStep, Typed
    <3>2. DOMAIN cache_' = DOMAIN cache_
      BY <2>1
    <3>3. ASSUME NEW k \in DOMAIN cache_ PROVE cache_'[k].value = cache_[k].value
      BY <2>1, <3>1 DEF Slots
    <3> QED BY <3>2, <3>3 DEF Content
  <2>3. answer' = Content(cache_)[key]
    BY <2>1 DEF Content
  <2> QED BY <2>1, <2>2, <2>3, UseExisting, GetImplements
<1>4. ASSUME NEW key \in Keys, GetMiss(key) PROVE Recency!Next
  BY <1>4, GetImplements DEF GetMiss
<1>5. ASSUME NEW key \in Keys, Remove(key) PROVE Recency!Next
  <2>1. /\ key \in DOMAIN cache_ /\ UNCHANGED answer
        /\ usage_' = Erase(usage_, cache_[key].iterator)
        /\ cache_' = [k \in DOMAIN cache_ \ {key} |-> cache_[k]]
    BY <1>5 DEF Remove
  <2>2. Content(cache_') = [k \in DOMAIN cache_ \ {key} |-> Content(cache_)[k]]
    BY <2>1 DEF Content
  <2> QED BY <2>1, <2>2, UseErased, ForgetImplements
<1>6. CASE Clear
  <2>1. cache_' = <<>> /\ usage_' = <<>> /\ UNCHANGED answer
    BY <1>6 DEF Clear
  <2>2. Before(usage_') = {}
    BY <2>1 DEF Before
  <2>3. Content(cache_') = [k \in DOMAIN cache_ \ DOMAIN cache_ |-> Content(cache_)[k]]
    BY <2>1 DEF Content
  <2> QED BY <2>1, <2>2, <2>3, ForgetImplements
<1>7. CASE UNCHANGED vars
  BY <1>7 DEF vars, Recency!vars
<1> QED BY <1>1, <1>2, <1>3, <1>4, <1>5, <1>6, <1>7 DEF Next
-----------------------------------------------------------------------------
\* The inductive invariant of the reference, beside that of map and list.
THEOREM ReferenceInvariance == Spec => []RefInv
<1>1. Init => RefInv
  <2> SUFFICES ASSUME Init PROVE RefInv
    OBVIOUS
  <2>1. ref.key = NoKey /\ ref.live = FALSE /\ ref.others = {}
    BY DEF Init, NoReference
  <2>2. ref \in [key : Keys \cup {NoKey}, live : BOOLEAN, others : SUBSET Keys]
    BY DEF Init, NoReference
  <2> QED BY <2>1, <2>2, FS_EmptySet DEF RefInv
<1> QED BY <1>1, NextRefInv, Invariance, PTL DEF Spec

\* A reference get returned lives until the client removes its key or max_size_
\* other keys have been put or got.
THEOREM ReferenceLives == Spec => []ReferenceOutlivesOthers
<1>1. RefInv => ReferenceOutlivesOthers
  BY DEF RefInv, ReferenceOutlivesOthers
<1> QED BY <1>1, ReferenceInvariance, PTL

\* The cache implements the map that forgets the least recently used key.
THEOREM Implements == Spec => ImplementsRecencyMap
<1>1. Init => Recency!Init
  <2> SUFFICES ASSUME Init PROVE Recency!Init
    OBVIOUS
  <2>1. cache_ = <<>> /\ usage_ = <<>> /\ answer = NoValue
    BY DEF Init
  <2>2. Before(usage_) = {} /\ Content(cache_) = <<>>
    BY <2>1 DEF Before, Content
  <2> QED BY <2>1, <2>2 DEF Recency!Init, Before, Content
<1> QED BY <1>1, StepRecency, Invariance, PTL DEF Spec, ImplementsRecencyMap, Recency!Spec

\* Both together are what the run checks: the cache forgets the key that was not
\* used for the longest time, and a reference has max_size_ uses of others to live.
THEOREM ForgetsOldest == Spec => CacheForgetsOldest
BY Implements, ReferenceLives, PTL DEF CacheForgetsOldest
-----------------------------------------------------------------------------
\* The key database.
KeyDBTyped ==
  /\ db \in {"closed", "open", "broken"}
  /\ at \in [Threads -> {"idle", "scan", "insert"}]
  /\ keyId \in [Threads -> Nat]
  /\ owned \in [Threads -> SUBSET Nat]

\* What is in memory belongs to an open database: nothing survives reset() or the
\* end of the process.
ClosedIsEmpty ==
  db # "open" => key_id_set_ = {} /\ \A t \in Threads : at[t] = "idle" /\ owned[t] = {}

KeyDBInv == KeyDBTyped /\ ClosedIsEmpty /\ K!DeletedIsFree

\* The steps of KeyDB, as the proofs below split them.
LEMMA KeyDBActions ==
  ASSUME [K!Next]_(K!vars)
  PROVE  \/ K!Open \/ K!OpenFails \/ K!Reset \/ UNCHANGED K!vars
         \/ \E t \in Threads :
              \/ K!DrawRandom(t) \/ K!BeginScan(t) \/ K!ScanUsed(t) \/ K!ScanFree(t)
              \/ K!ScanEnds(t) \/ K!Insert(t)
              \/ \E id \in owned[t] \cup stored :
                   K!PutValue(t, id) \/ K!DelValue(t, id) \/ K!DelValueFails(t, id)
BY DEF K!Next, K!Thread

LEMMA KeyDBInit == K!Init => KeyDBInv
BY DEF K!Init, KeyDBInv, KeyDBTyped, ClosedIsEmpty, K!DeletedIsFree

\* Everything deleted in the set leaves every thread's ids as well, and every id
\* inserted is a thread's.
LEMMA KeyDBStep == KeyDBInv /\ [K!Next]_(K!vars) => KeyDBInv'
<1> SUFFICES ASSUME KeyDBInv, [K!Next]_(K!vars) PROVE KeyDBInv'
  OBVIOUS
<1> USE DEF KeyDBInv, KeyDBTyped, ClosedIsEmpty, K!DeletedIsFree
<1>1. CASE K!Open
  BY <1>1 DEF K!Open
<1>2. CASE K!OpenFails
  BY <1>2 DEF K!OpenFails, K!memory
<1>3. CASE K!Reset
  BY <1>3 DEF K!Reset, K!Forgotten
<1>4. ASSUME NEW t \in Threads,
             \/ K!DrawRandom(t) \/ K!BeginScan(t) \/ K!ScanUsed(t) \/ K!ScanFree(t) \/ K!ScanEnds(t)
      PROVE  KeyDBInv'
  <2>1. UNCHANGED <<db, stored, key_id_set_, owned>>
    BY <1>4 DEF K!DrawRandom, K!BeginScan, K!ScanUsed, K!ScanFree, K!ScanEnds, K!Goes
  <2>2. db = "open"
    BY <1>4 DEF K!DrawRandom, K!BeginScan, K!ScanUsed, K!ScanFree, K!ScanEnds, K!Idle
  <2>3. PICK to \in {"idle", "scan", "insert"}, id \in Nat : K!Goes(t, to, id)
    BY <1>4, RangeAssumption DEF K!DrawRandom, K!BeginScan, K!ScanUsed, K!ScanFree, K!ScanEnds
  <2> QED BY <2>1, <2>2, <2>3 DEF K!Goes
<1>5. ASSUME NEW t \in Threads, K!Insert(t) PROVE KeyDBInv'
  <2>1. /\ db' = db /\ db = "open" /\ stored' = stored
        /\ at' = [at EXCEPT ![t] = "idle"] /\ keyId' = [keyId EXCEPT ![t] = 0]
        /\ key_id_set_' = key_id_set_ \cup {keyId[t]}
        /\ owned' = [owned EXCEPT ![t] = @ \cup {keyId[t]}]
    BY <1>5 DEF K!Insert, K!Goes
  <2>2. KeyDBTyped'
    BY <2>1
  <2>3. ASSUME NEW x, x = keyId[t] \/ x \in UNION {owned[u] : u \in Threads}
        PROVE  x \in UNION {owned'[u] : u \in Threads}
    <3>1. CASE x = keyId[t]
      <4>1. x \in owned'[t]
        BY <2>1, <3>1
      <4> QED BY <4>1
    <3>2. CASE x \in UNION {owned[u] : u \in Threads}
      <4>1. PICK u \in Threads : x \in owned[u]
        BY <3>2
      <4>2. x \in owned'[u]
        BY <2>1, <4>1
      <4> QED BY <4>2
    <3> QED BY <2>3, <3>1, <3>2
  <2> QED BY <2>1, <2>2, <2>3
<1>6. ASSUME NEW t \in Threads, NEW id \in owned[t] \cup stored, K!PutValue(t, id)
      PROVE  KeyDBInv'
  BY <1>6 DEF K!PutValue, K!memory
<1>7. ASSUME NEW t \in Threads, NEW id \in owned[t] \cup stored,
             K!DelValue(t, id) \/ K!DelValueFails(t, id)
      PROVE  KeyDBInv'
  <2>1. /\ db' = db /\ db = "open" /\ at' = at /\ keyId' = keyId
        /\ owned' = [u \in Threads |-> owned[u] \ {id}]
        /\ key_id_set_' = key_id_set_ \ {id}
        /\ stored' = stored \ {id} \/ stored' = stored
    BY <1>7 DEF K!DelValue, K!DelValueFails, K!Deletes, K!Idle
  <2>2. KeyDBTyped'
    BY <2>1
  <2>3. ASSUME NEW x, x # id, x \in UNION {owned[u] : u \in Threads}
        PROVE  x \in UNION {owned'[u] : u \in Threads}
    <3>1. PICK u \in Threads : x \in owned[u]
      BY <2>3
    <3>2. x \in owned'[u]
      BY <2>1, <2>3, <3>1
    <3> QED BY <3>2
  <2> QED BY <2>1, <2>2, <2>3
<1>8. CASE UNCHANGED K!vars
  BY <1>8 DEF K!vars, K!memory
<1> QED BY <1>1, <1>2, <1>3, <1>4, <1>5, <1>6, <1>7, <1>8, KeyDBActions

\* Whatever the threads do, an id whose key was deleted can be given again: the
\* set holds only ids of stored keys and of clients.
THEOREM DeletedIdsReturn == K!Spec => []K!DeletedIsFree
<1>1. KeyDBInv => K!DeletedIsFree
  BY DEF KeyDBInv
<1> QED BY <1>1, KeyDBInit, KeyDBStep, PTL DEF K!Spec
-----------------------------------------------------------------------------
\* What a single thread can rely on, which several cannot: what is not free is in
\* the set, the id it has chosen still is not, and it has passed over used ids only.
OneThreadInv ==
  /\ undeleted \subseteq stored
  /\ db = "open" => stored \ undeleted \subseteq key_id_set_
  /\ \A t \in Threads :
       /\ owned[t] \subseteq key_id_set_
       /\ at[t] = "insert" => keyId[t] \notin key_id_set_
       /\ at[t] = "scan" => /\ Start <= keyId[t] /\ keyId[t] <= Size + Start
                            /\ Start..keyId[t] - 1 \subseteq key_id_set_

LEMMA OneThreadStep ==
  ASSUME NEW thread, Threads = {thread}, KeyDBInv, OneThreadInv, [K!Next]_(K!vars)
  PROVE  OneThreadInv'
<1> USE RangeAssumption DEF KeyDBInv, KeyDBTyped, ClosedIsEmpty, OneThreadInv
<1>1. CASE K!Open
  BY <1>1 DEF K!Open
<1>2. CASE K!OpenFails
  BY <1>2 DEF K!OpenFails, K!memory
<1>3. CASE K!Reset
  BY <1>3 DEF K!Reset, K!Forgotten
<1>4. ASSUME NEW t \in Threads, K!DrawRandom(t) \/ K!ScanFree(t) PROVE OneThreadInv'
  <2>1. UNCHANGED <<db, stored, undeleted, key_id_set_, owned>>
    BY <1>4 DEF K!DrawRandom, K!ScanFree, K!Goes
  <2>2. PICK id \in Nat : K!Goes(t, "insert", id) /\ id \notin key_id_set_
    BY <1>4 DEF K!DrawRandom, K!ScanFree
  <2>3. at'[thread] = "insert" /\ keyId'[thread] = id
    BY <2>2 DEF K!Goes
  <2> QED BY <2>1, <2>2, <2>3
<1>5. ASSUME NEW t \in Threads, K!BeginScan(t) PROVE OneThreadInv'
  <2>1. /\ UNCHANGED <<db, stored, undeleted, key_id_set_, owned>>
        /\ at'[thread] = "scan" /\ keyId'[thread] = Start
    BY <1>5 DEF K!BeginScan, K!Goes
  <2> QED BY <2>1
<1>6. ASSUME NEW t \in Threads, K!ScanUsed(t) PROVE OneThreadInv'
  <2>1. /\ UNCHANGED <<db, stored, undeleted, key_id_set_, owned>>
        /\ at'[thread] = "scan" /\ keyId'[thread] = keyId[thread] + 1
        /\ at[thread] = "scan" /\ keyId[thread] < Size + Start
        /\ keyId[thread] \in key_id_set_ /\ keyId[thread] \in Nat
    BY <1>6 DEF K!ScanUsed, K!Goes
  <2>2. Start..(keyId[thread] + 1) - 1 \subseteq (Start..keyId[thread] - 1) \cup {keyId[thread]}
    BY <2>1
  <2> QED BY <2>1, <2>2
<1>7. ASSUME NEW t \in Threads, K!ScanEnds(t) PROVE OneThreadInv'
  <2>1. /\ UNCHANGED <<db, stored, undeleted, key_id_set_, owned>>
        /\ at'[thread] = "idle"
    BY <1>7 DEF K!ScanEnds, K!Goes
  <2> QED BY <2>1
<1>8. ASSUME NEW t \in Threads, K!Insert(t) PROVE OneThreadInv'
  <2>1. /\ UNCHANGED <<db, stored, undeleted>>
        /\ at'[thread] = "idle"
        /\ key_id_set_' = key_id_set_ \cup {keyId[thread]}
        /\ owned'[thread] = owned[thread] \cup {keyId[thread]}
    BY <1>8 DEF K!Insert, K!Goes
  <2> QED BY <2>1
<1>9. ASSUME NEW t \in Threads, NEW id \in owned[t] \cup stored, K!PutValue(t, id)
      PROVE  OneThreadInv'
  BY <1>9 DEF K!PutValue, K!memory
<1>10. ASSUME NEW t \in Threads, NEW id \in owned[t] \cup stored,
              K!DelValue(t, id) \/ K!DelValueFails(t, id)
       PROVE  OneThreadInv'
  <2>1. /\ db' = db /\ at'[thread] = "idle"
        /\ owned'[thread] = owned[thread] \ {id}
        /\ key_id_set_' = key_id_set_ \ {id}
    BY <1>10 DEF K!DelValue, K!DelValueFails, K!Deletes, K!Idle
  <2>2. undeleted' \subseteq stored' /\ stored' \ undeleted' \subseteq (stored \ undeleted) \ {id}
    BY <1>10 DEF K!DelValue, K!DelValueFails
  <2> QED BY <2>1, <2>2
<1>11. CASE UNCHANGED K!vars
  BY <1>11 DEF K!vars, K!memory
<1> QED
  BY <1>1, <1>2, <1>3, <1>4, <1>5, <1>6, <1>7, <1>8, <1>9, <1>10, <1>11, KeyDBActions

\* A thread goes from insert to idle, in a database that is open, by Insert only,
\* and from scan to idle only at the end of the range.
LEMMA InsertsFree ==
  ASSUME NEW thread, Threads = {thread}, KeyDBInv, OneThreadInv, [K!Next]_(K!vars),
         NEW t \in Threads, at[t] = "insert"
  PROVE  keyId[t] \notin (stored \ undeleted) \cup UNION {owned[u] : u \in Threads}
<1>1. db = "open" /\ keyId[t] \notin key_id_set_
  BY DEF KeyDBInv, ClosedIsEmpty, OneThreadInv
<1>2. ASSUME keyId[t] \in UNION {owned[u] : u \in Threads} PROVE FALSE
  <2>1. PICK u \in Threads : keyId[t] \in owned[u]
    BY <1>2
  <2> QED BY <1>1, <2>1 DEF OneThreadInv
<1> QED BY <1>1, <1>2 DEF OneThreadInv

LEMMA GivesUpAtTheEnd ==
  ASSUME NEW thread, Threads = {thread}, KeyDBInv, OneThreadInv, [K!Next]_(K!vars),
         NEW t \in Threads, at[t] = "scan", at'[t] = "idle", db' = "open"
  PROVE  Start..Start + Size - 1 \subseteq key_id_set_
<1>1. K!ScanEnds(t)
  <2>1. at[t] # "idle" /\ at[t] # "insert" /\ t = thread /\ \A u \in Threads : u = t
    OBVIOUS
  <2>2. ~K!Open /\ ~K!OpenFails /\ ~K!Reset
    BY DEF KeyDBInv, ClosedIsEmpty, K!Open, K!OpenFails, K!Reset
  <2>3. ~ UNCHANGED K!vars
    BY DEF K!vars, K!memory
  <2>4. ~K!DrawRandom(t) /\ ~K!BeginScan(t) /\ ~K!Insert(t)
    BY DEF K!DrawRandom, K!BeginScan, K!Insert, K!Idle
  <2>5. ~K!ScanUsed(t) /\ ~K!ScanFree(t)
    BY DEF KeyDBInv, KeyDBTyped, K!ScanUsed, K!ScanFree, K!Goes
  <2>6. \A id : ~K!PutValue(t, id) /\ ~K!DelValue(t, id) /\ ~K!DelValueFails(t, id)
    BY DEF K!PutValue, K!DelValue, K!DelValueFails, K!Deletes, K!Idle
  <2> QED BY <2>1, <2>2, <2>3, <2>4, <2>5, <2>6, KeyDBActions
<1>2. /\ keyId[t] \in Nat /\ keyId[t] >= Size + Start /\ keyId[t] <= Size + Start
      /\ Start..keyId[t] - 1 \subseteq key_id_set_
  BY <1>1 DEF K!ScanEnds, OneThreadInv, KeyDBInv, KeyDBTyped
<1>3. keyId[t] - 1 = Start + Size - 1
  BY <1>2, RangeAssumption
<1> QED BY <1>2, <1>3

\* KeyDB used by one thread: across crashes, resets and failing deletes an id that
\* is given is new, the range is given up only when it is full, and deleted ids
\* return to it.  With two threads the first does not hold.
THEOREM GivesOneThreadNewIds ==
  ASSUME NEW CONSTANT thread, Threads = {thread}
  PROVE  K!Spec => GivesNewIds
<1>1. K!Init => KeyDBInv /\ OneThreadInv
  <2>1. K!Init => OneThreadInv
    BY DEF K!Init, OneThreadInv
  <2> QED BY <2>1, KeyDBInit
<1>2. KeyDBInv /\ OneThreadInv /\ [K!Next]_(K!vars) => KeyDBInv' /\ OneThreadInv'
  BY KeyDBStep, OneThreadStep
<1>3. KeyDBInv /\ OneThreadInv /\ [K!Next]_(K!vars) =>
        [\A t \in Threads :
           at[t] = "insert" /\ at'[t] = "idle" /\ db' = "open" =>
             keyId[t] \notin (stored \ undeleted) \cup UNION {owned[u] : u \in Threads}]_(K!vars)
  BY InsertsFree
<1>4. KeyDBInv /\ OneThreadInv /\ [K!Next]_(K!vars) =>
        [\A t \in Threads :
           at[t] = "scan" /\ at'[t] = "idle" /\ db' = "open" =>
             Start..Start + Size - 1 \subseteq key_id_set_]_(K!vars)
  BY GivesUpAtTheEnd
<1>5. KeyDBInv => K!DeletedIsFree
  BY DEF KeyDBInv
<1> QED BY <1>1, <1>2, <1>3, <1>4, <1>5, PTL
        DEF K!Spec, GivesNewIds, K!ReturnsNewId, K!ExhaustedMeansFull
-----------------------------------------------------------------------------
(* ZipManager.                                                             *)

\* The prover does not know that "" is a text.
Parts == STRING \cup {""}
-----------------------------------------------------------------------------
Archives == UNION {[D -> Contents] : D \in {S \in SUBSET Names : IsFiniteSet(S)}}
Entries == [name : Seq(Parts) \ {<<>>}, data : Contents \cup {""}]

\* A name is a sequence of parts, not an empty one.
LEMMA NamesHaveParts == Names \subseteq Seq(Parts) \ {<<>>}
<1>1. STRING \subseteq Parts
  BY DEF Parts
<1> SUFFICES ASSUME NEW name \in Names PROVE name \in Seq(Parts) \ {<<>>}
  OBVIOUS
<1>2. name \in Seq(STRING) /\ name # <<>>
  BY NamesAssumption
<1> QED BY <1>1, <1>2, SeqMonotonic


\* What the entries of a zip say is so, and is not what is left out.
Faithful(rows, was) ==
  \A i \in DOMAIN rows :
    Z!IsDirectory(rows[i].name) \/ (rows[i].name \in Z!Kept(was) /\ rows[i].data = was[rows[i].name])

\* An entry of the name is among them.
Has(rows, name) == \E i \in DOMAIN rows : rows[i].name = name

ZipTyped ==
  /\ archive_ \in Archives
  /\ zip \in [Z!Media -> [entries : Seq(Entries), final : BOOLEAN]]
  /\ saved \in [Z!Media -> Archives]
  /\ job \in {Z!None} \cup [op : {"save"}, medium : Z!Media, rest : Seq(Names)]
                    \cup [op : {"load"}, medium : Z!Media, rest : Seq(Entries)]

WholeWhenFinal ==
  \A m \in Z!Media : zip[m].final =>
     /\ Faithful(zip[m].entries, saved[m])
     /\ \A name \in Z!Kept(saved[m]) : Has(zip[m].entries, name)

SavesTheRest ==
  job.op = "save" =>
     LET z == zip[job.medium]
     IN  /\ ~z.final /\ archive_ = saved[job.medium]
         /\ Faithful(z.entries, archive_)
         /\ \A i \in DOMAIN job.rest : job.rest[i] \in DOMAIN archive_
         /\ \A name \in Z!Kept(archive_) : Has(z.entries, name) \/ \E i \in DOMAIN job.rest : job.rest[i] = name

LoadsTheRest ==
  job.op = "load" =>
     LET was == saved[job.medium]
     IN  /\ zip[job.medium].final
         /\ Faithful(job.rest, was)
         /\ \A name \in DOMAIN archive_ : name \in Z!Kept(was) /\ archive_[name] = was[name]
         /\ \A name \in Z!Kept(was) \ skipped : name \in DOMAIN archive_ \/ Has(job.rest, name)

ZipInv == ZipTyped /\ WholeWhenFinal /\ SavesTheRest /\ LoadsTheRest /\ Z!LoadsWhatWasSaved
-----------------------------------------------------------------------------
\* An archive is a function of finitely many names.
LEMMA ArchiveType ==
  ASSUME NEW a \in Archives
  PROVE  /\ DOMAIN a \subseteq Names /\ IsFiniteSet(DOMAIN a)
         /\ a \in [DOMAIN a -> Contents]
BY DEF Archives

LEMMA IsArchive ==
  ASSUME NEW D, D \subseteq Names, IsFiniteSet(D), NEW a \in [D -> Contents]
  PROVE  a \in Archives
BY DEF Archives

\* A file is added.
LEMMA OneMore ==
  ASSUME NEW a \in Archives, NEW name \in Names, NEW data \in Contents
  PROVE  [n \in DOMAIN a \cup {name} |-> IF n = name THEN data ELSE a[n]] \in Archives
<1>1. DOMAIN a \cup {name} \subseteq Names /\ a \in [DOMAIN a -> Contents]
  BY ArchiveType
<1>2. IsFiniteSet(DOMAIN a \cup {name})
  BY ArchiveType, FS_AddElement
<1>3. [n \in DOMAIN a \cup {name} |-> IF n = name THEN data ELSE a[n]] \in [DOMAIN a \cup {name} -> Contents]
  BY <1>1
<1> QED BY <1>1, <1>2, <1>3, IsArchive

\* A file is removed.
LEMMA OneLess ==
  ASSUME NEW a \in Archives, NEW name
  PROVE  [n \in DOMAIN a \ {name} |-> a[n]] \in Archives
<1>1. DOMAIN a \ {name} \subseteq Names /\ a \in [DOMAIN a -> Contents]
  BY ArchiveType
<1>2. IsFiniteSet(DOMAIN a \ {name})
  BY ArchiveType, FS_RemoveElement
<1>3. [n \in DOMAIN a \ {name} |-> a[n]] \in [DOMAIN a \ {name} -> Contents]
  BY <1>1
<1> QED BY <1>1, <1>2, <1>3, IsArchive

LEMMA EmptyArchive == <<>> \in Archives /\ DOMAIN <<>> = {}
<1>1. <<>> \in [{} -> Contents] /\ DOMAIN <<>> = {}
  BY SMT
<1> QED BY <1>1, IsArchive, FS_EmptySet

\* What is put in order is all there is.
LEMMA InOrder ==
  ASSUME NEW S, IsFiniteSet(S)
  PROVE  /\ Z!SetToSeq(S) \in Seq(S)
         /\ \A x \in S : \E i \in DOMAIN Z!SetToSeq(S) : Z!SetToSeq(S)[i] = x
<1> DEFINE n == Cardinality(S)
           s == Z!SetToSeq(S)
<1>1. n \in Nat /\ \E f \in [1..n -> S] : Z!IsInjective(f)
  <2>1. n \in Nat /\ Bijection(1..n, S) # {}
    BY FS_CardinalityType DEF ExistsBijection
  <2> HIDE DEF n, s
  <2> QED BY <2>1 DEF Bijection, Injection, Z!IsInjective, IsInjective
<1>2. s \in [1..n -> S] /\ IsInjective(s)
  <2>1. Z!Cardinality(S) = n
    BY DEF Z!Cardinality, Cardinality
  <2>2. s = CHOOSE f \in [1..n -> S] : Z!IsInjective(f)
    BY <2>1, Zenon DEF Z!SetToSeq
  <2> HIDE DEF n, s
  <2>3. s \in [1..n -> S] /\ Z!IsInjective(s)
    BY <1>1, <2>2, Zenon
  <2> QED BY <2>3 DEF Z!IsInjective, IsInjective
<1> HIDE DEF s
<1>3. IsFiniteSet(1..n) /\ Cardinality(1..n) = n
  <2>1. 1 \in Int /\ n \in Int
    BY <1>1
  <2>2. IsFiniteSet(1..n) /\ Cardinality(1..n) = IF 1 > n THEN 0 ELSE n - 1 + 1
    BY <2>1, FS_Interval
  <2> QED BY <1>1, <2>2
<1>4. s \in Injection(1..n, S)
  BY <1>2 DEF Injection
<1>5. s \in Surjection(1..n, S)
  BY <1>3, <1>4, FS_Injection
<1>6. s \in Seq(S)
  BY <1>1, <1>2
<1> QED BY <1>2, <1>5, <1>6 DEF Surjection, s
-----------------------------------------------------------------------------
\* Rows behind rows.
LEMMA FaithfulJoined ==
  ASSUME NEW a \in Seq(Entries), NEW b \in Seq(Entries), NEW was,
         Faithful(a, was), Faithful(b, was)
  PROVE  /\ a \o b \in Seq(Entries) /\ Faithful(a \o b, was)
         /\ \A name : Has(a, name) \/ Has(b, name) => Has(a \o b, name)
<1>1. /\ a \o b \in Seq(Entries) /\ Len(a) \in Nat /\ Len(b) \in Nat
      /\ DOMAIN a = 1..Len(a) /\ DOMAIN b = 1..Len(b) /\ DOMAIN (a \o b) = 1..Len(a) + Len(b)
      /\ \A i \in 1..Len(a) : (a \o b)[i] = a[i]
      /\ \A i \in 1..Len(b) : (a \o b)[Len(a) + i] = b[i]
  BY SMT
<1>2. ASSUME NEW i \in DOMAIN (a \o b)
      PROVE  (i \in DOMAIN a /\ (a \o b)[i] = a[i]) \/ \E j \in DOMAIN b : (a \o b)[i] = b[j]
  <2>1. CASE i <= Len(a)
    BY <1>1, <2>1
  <2>2. CASE i > Len(a)
    <3>1. i - Len(a) \in DOMAIN b /\ Len(a) + (i - Len(a)) = i
      BY <1>1, <2>2
    <3> QED BY <1>1, <3>1
  <2> QED BY <1>1, <2>1, <2>2
<1>3. Faithful(a \o b, was)
  BY <1>2, Zenon DEF Faithful
<1>4. ASSUME NEW name, Has(a, name) \/ Has(b, name) PROVE Has(a \o b, name)
  <2>1. CASE Has(a, name)
    BY <1>1, <2>1 DEF Has
  <2>2. CASE Has(b, name)
    <3>1. PICK j \in 1..Len(b) : b[j].name = name
      BY <1>1, <2>2 DEF Has
    <3>2. Len(a) + j \in DOMAIN (a \o b)
      BY <1>1
    <3> QED BY <1>1, <3>1, <3>2 DEF Has
  <2> QED BY <1>4, <2>1, <2>2
<1> QED BY <1>1, <1>3, <1>4

\* One row that tells the truth, and none.
LEMMA OneRow ==
  ASSUME NEW e \in Entries, NEW was,
         Z!IsDirectory(e.name) \/ (e.name \in Z!Kept(was) /\ e.data = was[e.name])
  PROVE  <<e>> \in Seq(Entries) /\ Faithful(<<e>>, was) /\ Has(<<e>>, e.name)
BY DEF Faithful, Has

LEMMA NoRow ==
  ASSUME NEW was
  PROVE  <<>> \in Seq(Entries) /\ Faithful(<<>>, was)
BY DEF Faithful

\* The directory a name begins with has an entry that miniz takes for one.
LEMMA DirectoryRow ==
  ASSUME NEW name \in Names, NEW was
  PROVE  Z!DirectoryEntry(name) \in Seq(Entries) /\ Faithful(Z!DirectoryEntry(name), was)
<1>1. CASE ~Z!HasDirectory(name)
  BY <1>1, NoRow DEF Z!DirectoryEntry
<1>2. CASE Z!HasDirectory(name)
  <2>1. name \in Seq(Parts) /\ Len(name) - 1 \in Nat
    BY <1>2, NamesHaveParts DEF Z!HasDirectory
  <2>2. Z!Front(name) \in Seq(Parts)
    BY <2>1 DEF Z!Front
  <2>3. Z!DirectoryOf(name) \in Seq(Parts) \ {<<>>} /\ Z!Last(Z!DirectoryOf(name)) = ""
    <3>1. \A p \in Parts : /\ Append(Z!Front(name), p) \in Seq(Parts) \ {<<>>}
                           /\ Z!Last(Append(Z!Front(name), p)) = p
      BY <2>2 DEF Z!Last
    <3>2. "" \in Parts
      BY DEF Parts
    <3> QED BY <3>1, <3>2 DEF Z!DirectoryOf
  <2>4. Z!Entry(Z!DirectoryOf(name), "") \in Entries
    BY <2>3 DEF Z!Entry, Entries
  <2>5. Z!Entry(Z!DirectoryOf(name), "").name = Z!DirectoryOf(name)
    BY DEF Z!Entry
  <2>6. Z!DirectoryEntry(name) = <<Z!Entry(Z!DirectoryOf(name), "")>>
    BY <1>2 DEF Z!DirectoryEntry
  <2> QED BY <2>3, <2>4, <2>5, <2>6, OneRow DEF Z!IsDirectory
<1> QED BY <1>1, <1>2

\* One round of writeAllFiles.
LEMMA RowsOf ==
  ASSUME NEW was \in Archives, NEW name \in DOMAIN was
  PROVE  LET row == IF was[name] = "" THEN <<>> ELSE <<Z!Entry(name, was[name])>>
         IN  /\ row \in Seq(Entries) /\ Faithful(row, was)
             /\ name \in Z!Kept(was) => Has(row, name)
<1>1. name \in Names /\ was[name] \in Contents
  BY ArchiveType, NamesHaveParts
<1>2. /\ Z!Entry(name, was[name]) \in Entries
      /\ Z!Entry(name, was[name]).name = name /\ Z!Entry(name, was[name]).data = was[name]
  BY <1>1, NamesHaveParts DEF Z!Entry, Entries
<1>3. CASE was[name] = ""
  BY <1>3, NoRow DEF Z!Kept
<1>4. CASE was[name] # ""
  BY <1>2, <1>4, OneRow DEF Z!Kept
<1> QED BY <1>3, <1>4
-----------------------------------------------------------------------------
\* Nothing is saved at first.
LEMMA ZipInit == Z!Init => ZipInv
<1> SUFFICES ASSUME Z!Init PROVE ZipInv
  OBVIOUS
<1>1. Z!NoZip \in [entries : Seq(Entries), final : BOOLEAN] /\ Z!NoZip.final = FALSE
  BY DEF Z!NoZip
<1>2. job.op = "none" /\ result.op = "none"
  BY DEF Z!Init, Z!None
<1>3. ZipTyped
  BY <1>1, EmptyArchive DEF Z!Init, ZipTyped
<1> QED BY <1>1, <1>2, <1>3
        DEF Z!Init, ZipInv, WholeWhenFinal, SavesTheRest, LoadsTheRest, Z!LoadsWhatWasSaved

\* A call that edits the archive, or a saving that fails.
LEMMA ZipsKept ==
  ASSUME ZipInv, archive_' \in Archives, UNCHANGED <<zip, saved>>, job' = Z!None,
         result'.op # "load" \/ ~zip[result'.medium].final
  PROVE  ZipInv'
<1>1. job'.op = "none"
  BY DEF Z!None
<1>2. ZipTyped' /\ WholeWhenFinal'
  BY DEF ZipInv, ZipTyped, WholeWhenFinal
<1> QED BY <1>1, <1>2 DEF ZipInv, SavesTheRest, LoadsTheRest, Z!LoadsWhatWasSaved

\* addFile, removeFile and clear leave what is saved alone.
LEMMA EditStep ==
  ASSUME ZipInv, \/ \E name \in Names : Z!RemoveFile(name) \/ \E data \in Contents : Z!AddFile(name, data)
                 \/ Z!Clear
  PROVE  ZipInv'
<1>1. job' = Z!None /\ result'.op = "edit" /\ UNCHANGED <<zip, saved>>
  <2>1. Z!Edited /\ UNCHANGED <<zip, saved>>
    BY Zenon DEF Z!RemoveFile, Z!AddFile, Z!Clear
  <2> QED BY <2>1 DEF Z!Edited, Z!Ended
<1>2. archive_' \in Archives
  <2>1. archive_ \in Archives
    BY DEF ZipInv, ZipTyped
  <2>2. CASE Z!Clear
    BY <2>2, EmptyArchive DEF Z!Clear
  <2>3. ASSUME NEW name \in Names, Z!RemoveFile(name) PROVE archive_' \in Archives
    BY <2>1, <2>3, OneLess DEF Z!RemoveFile
  <2>4. ASSUME NEW name \in Names, NEW data \in Contents, Z!AddFile(name, data) PROVE archive_' \in Archives
    BY <2>1, <2>4, OneMore DEF Z!AddFile
  <2> QED BY <2>2, <2>3, <2>4
<1> QED BY <1>1, <1>2, ZipsKept

\* A saving begins with an empty zip and everything still to write.
LEMMA BeginsStep ==
  ASSUME ZipInv, NEW medium \in Z!Media, Z!Begins(medium)
  PROVE  ZipInv'
<1> DEFINE rest == Z!SetToSeq(DOMAIN archive_)
<1>1. archive_ \in Archives /\ DOMAIN archive_ \subseteq Names
  BY ArchiveType DEF ZipInv, ZipTyped
<1>2. /\ rest \in Seq(Names)
      /\ \A i \in DOMAIN rest : rest[i] \in DOMAIN archive_
      /\ \A name \in DOMAIN archive_ : \E i \in DOMAIN rest : rest[i] = name
  <2>1. rest \in Seq(DOMAIN archive_) /\ \A name \in DOMAIN archive_ : \E i \in DOMAIN rest : rest[i] = name
    BY <1>1, InOrder, ArchiveType
  <2> HIDE DEF rest
  <2>2. \A i \in DOMAIN rest : rest[i] \in DOMAIN archive_
    BY <2>1
  <2> QED BY <1>1, <2>1, <2>2, SeqMonotonic
<1> HIDE DEF rest
<1>3. /\ job' = [op |-> "save", medium |-> medium, rest |-> rest]
      /\ zip' = [zip EXCEPT ![medium] = Z!NoZip] /\ saved' = [saved EXCEPT ![medium] = archive_]
      /\ UNCHANGED <<archive_, result>>
  BY DEF Z!Begins, rest
<1>4. /\ Z!NoZip \in [entries : Seq(Entries), final : BOOLEAN] /\ Z!NoZip.final = FALSE
      /\ Z!NoZip.entries = <<>>
  BY DEF Z!NoZip
<1>5. /\ zip \in [Z!Media -> [entries : Seq(Entries), final : BOOLEAN]] /\ saved \in [Z!Media -> Archives]
      /\ zip'[medium] = Z!NoZip /\ saved'[medium] = archive_
      /\ \A m \in Z!Media : m # medium => zip'[m] = zip[m] /\ saved'[m] = saved[m]
  BY <1>3 DEF ZipInv, ZipTyped
<1>6. ZipTyped'
  BY <1>1, <1>2, <1>3, <1>4, <1>5 DEF ZipTyped
<1>7. WholeWhenFinal'
  BY <1>4, <1>5 DEF ZipInv, WholeWhenFinal
<1>8. job'.op = "save" /\ job'.medium = medium /\ job'.rest = rest
  BY <1>3
<1>9. SavesTheRest'
  <2>1. Faithful(<<>>, archive_)
    BY NoRow
  <2> QED BY <1>2, <1>3, <1>4, <1>5, <1>8, <2>1 DEF SavesTheRest, Z!Kept
<1>10. LoadsTheRest' /\ Z!LoadsWhatWasSaved'
  BY <1>8 DEF LoadsTheRest, Z!LoadsWhatWasSaved, Z!None
<1> QED BY <1>6, <1>7, <1>9, <1>10 DEF ZipInv

\* A saving that fails leaves a zip that is not finalized.
LEMMA SaveFailsStep ==
  ASSUME ZipInv, \/ job = Z!None /\ Z!Ended("save", "file", FALSE) /\ UNCHANGED <<archive_, zip, saved>>
                 \/ Z!WriteFails
  PROVE  ZipInv'
<1>1. job' = Z!None /\ result'.op = "save" /\ UNCHANGED <<archive_, zip, saved>>
  BY DEF Z!WriteFails, Z!Ended
<1> QED BY <1>1, ZipsKept DEF ZipInv, ZipTyped

LEMMA SavingJob ==
  ASSUME ZipTyped, job.op = "save"
  PROVE  job \in [op : {"save"}, medium : Z!Media, rest : Seq(Names)]
BY DEF ZipTyped, Z!None

LEMMA LoadingJob ==
  ASSUME ZipTyped, job.op = "load"
  PROVE  job \in [op : {"load"}, medium : Z!Media, rest : Seq(Entries)]
BY DEF ZipTyped, Z!None

\* The file that is written is not to be written any more.
LEMMA WriteFileStep == ASSUME ZipInv, Z!WriteFile PROVE ZipInv'
<1> DEFINE m == job.medium
           name == Head(job.rest)
           rows == zip[m].entries
           row == IF archive_[name] = "" THEN <<>> ELSE <<Z!Entry(name, archive_[name])>>
           all == (rows \o Z!DirectoryEntry(name)) \o row
<1>1. job.op = "save" /\ job.rest # <<>> /\ UNCHANGED <<archive_, result, saved>>
  BY DEF Z!WriteFile
<1>2. job \in [op : {"save"}, medium : Z!Media, rest : Seq(Names)] /\ m \in Z!Media
  BY <1>1, SavingJob DEF ZipInv
<1>3. job' = [op |-> "save", medium |-> m, rest |-> Tail(job.rest)]
  BY <1>2 DEF Z!WriteFile
<1>4. zip' = [zip EXCEPT ![m] = [entries |-> all, final |-> zip[m].final]]
  <2>1. zip' = [zip EXCEPT ![m].entries = all]
    BY DEF Z!WriteFile
  <2>2. zip[m] \in [entries : Seq(Entries), final : BOOLEAN]
    BY <1>2 DEF ZipInv, ZipTyped
  <2> HIDE DEF all, m
  <2>3. [zip[m] EXCEPT !.entries = all] = [entries |-> all, final |-> zip[m].final]
    BY <2>2
  <2> QED BY <2>1, <2>3
<1>5. /\ ~zip[m].final /\ archive_ = saved[m] /\ Faithful(rows, archive_) /\ rows \in Seq(Entries)
      /\ zip[m].final \in BOOLEAN
      /\ \A i \in DOMAIN job.rest : job.rest[i] \in DOMAIN archive_
      /\ \A n \in Z!Kept(archive_) : Has(rows, n) \/ \E i \in DOMAIN job.rest : job.rest[i] = n
      /\ archive_ \in Archives
  BY <1>1, <1>2 DEF ZipInv, SavesTheRest, ZipTyped
<1>6. name \in DOMAIN archive_ /\ name \in Names
  BY <1>1, <1>2, <1>5, ArchiveType
<1> HIDE DEF name
<1>7. /\ row \in Seq(Entries) /\ Faithful(row, archive_)
      /\ name \in Z!Kept(archive_) => Has(row, name)
  BY <1>5, <1>6, RowsOf
<1>8. Z!DirectoryEntry(name) \in Seq(Entries) /\ Faithful(Z!DirectoryEntry(name), archive_)
  BY <1>6, DirectoryRow
<1> HIDE DEF row, rows
<1>9. /\ rows \o Z!DirectoryEntry(name) \in Seq(Entries) /\ Faithful(rows \o Z!DirectoryEntry(name), archive_)
      /\ \A n : Has(rows, n) => Has(rows \o Z!DirectoryEntry(name), n)
  BY <1>5, <1>8, FaithfulJoined
<1>10. /\ all \in Seq(Entries) /\ Faithful(all, archive_)
       /\ \A n : Has(rows \o Z!DirectoryEntry(name), n) \/ Has(row, n) => Has(all, n)
  BY <1>7, <1>9, FaithfulJoined
<1> HIDE DEF all
<1>11. ASSUME NEW n \in Z!Kept(archive_)
       PROVE  Has(all, n) \/ \E i \in DOMAIN Tail(job.rest) : Tail(job.rest)[i] = n
  <2>1. CASE Has(rows, n)
    BY <1>9, <1>10, <2>1
  <2>2. CASE n = name
    BY <1>7, <1>10, <1>11, <2>2
  <2>3. ASSUME NEW i \in DOMAIN job.rest, job.rest[i] = n, n # name
        PROVE  \E j \in DOMAIN Tail(job.rest) : Tail(job.rest)[j] = n
    <3>1. i # 1 /\ i \in 1..Len(job.rest) /\ Len(job.rest) \in Nat
      BY <1>1, <1>2, <2>3 DEF name
    <3>2. i - 1 \in DOMAIN Tail(job.rest) /\ Tail(job.rest)[i - 1] = job.rest[i]
      BY <1>1, <1>2, <3>1
    <3> QED BY <2>3, <3>2
  <2> QED BY <1>5, <2>1, <2>2, <2>3
<1>12. Tail(job.rest) \in Seq(Names) /\ \A i \in DOMAIN Tail(job.rest) : Tail(job.rest)[i] \in DOMAIN archive_
  <2>1. /\ Tail(job.rest) \in Seq(Names)
        /\ \A i \in DOMAIN Tail(job.rest) : i + 1 \in DOMAIN job.rest /\ Tail(job.rest)[i] = job.rest[i + 1]
    BY <1>1, <1>2
  <2> QED BY <1>5, <2>1
<1>13. /\ zip'[m] = [entries |-> all, final |-> FALSE]
       /\ \A k \in Z!Media : k # m => zip'[k] = zip[k]
  BY <1>2, <1>4, <1>5 DEF ZipInv, ZipTyped
<1>14. ZipTyped'
  <2>1. [entries |-> all, final |-> zip[m].final] \in [entries : Seq(Entries), final : BOOLEAN]
    BY <1>5, <1>10
  <2> QED BY <1>1, <1>2, <1>3, <1>4, <1>12, <2>1 DEF ZipInv, ZipTyped
<1>15. WholeWhenFinal'
  BY <1>1, <1>13 DEF ZipInv, WholeWhenFinal
<1>16. job'.op = "save" /\ job'.medium = m /\ job'.rest = Tail(job.rest)
  BY <1>3
<1>17. SavesTheRest'
  BY <1>1, <1>5, <1>10, <1>11, <1>12, <1>13, <1>16 DEF SavesTheRest
<1>18. LoadsTheRest' /\ Z!LoadsWhatWasSaved'
  BY <1>16 DEF LoadsTheRest, Z!LoadsWhatWasSaved, Z!None
<1> QED BY <1>14, <1>15, <1>17, <1>18 DEF ZipInv

\* Setting one field leaves the other.
LEMMA FieldSet ==
  ASSUME NEW E, NEW z \in [entries : E, final : BOOLEAN]
  PROVE  [z EXCEPT !.final = TRUE] = [entries |-> z.entries, final |-> TRUE]
<1> DEFINE x == [z EXCEPT !.final = TRUE]
<1>1. x \in [entries : E, final : BOOLEAN]
  OBVIOUS
<1>2. x.entries = z.entries
  OBVIOUS
<1>3. x.final = TRUE
  OBVIOUS
<1>4. x = [entries |-> x.entries, final |-> x.final]
  <2> HIDE DEF x
  <2> QED BY <1>1
<1> QED BY <1>2, <1>3, <1>4

\* Nothing is left to write: the zip is whole.
LEMMA FinalizeStep == ASSUME ZipInv, Z!Finalize PROVE ZipInv'
<1> DEFINE m == job.medium
<1>1. /\ job.op = "save" /\ job.rest = <<>> /\ UNCHANGED <<archive_, saved>>
      /\ job' = Z!None /\ result'.op = "save"
  BY DEF Z!Finalize, Z!Ended
<1>2. m \in Z!Media
  BY <1>1, SavingJob DEF ZipInv
<1>3. zip' = [zip EXCEPT ![m] = [entries |-> zip[m].entries, final |-> TRUE]]
  <2>1. zip' = [zip EXCEPT ![m].final = TRUE]
    BY DEF Z!Finalize
  <2> DEFINE z == zip[m]
  <2>2. z \in [entries : Seq(Entries), final : BOOLEAN]
    BY <1>2 DEF ZipInv, ZipTyped
  <2>3. [z EXCEPT !.final = TRUE] = [entries |-> z.entries, final |-> TRUE]
    <3> HIDE DEF z
    <3> QED BY <2>2, FieldSet
  <2> QED BY <2>1, <2>3
<1>4. /\ archive_ = saved[m] /\ Faithful(zip[m].entries, archive_) /\ zip[m].entries \in Seq(Entries)
      /\ \A n \in Z!Kept(archive_) : Has(zip[m].entries, n)
  BY <1>1, <1>2 DEF ZipInv, SavesTheRest, ZipTyped
<1>5. /\ zip'[m] = [entries |-> zip[m].entries, final |-> TRUE]
      /\ \A k \in Z!Media : k # m => zip'[k] = zip[k]
  BY <1>2, <1>3 DEF ZipInv, ZipTyped
<1> HIDE DEF m
<1>6. ZipTyped'
  <2>1. [entries |-> zip[m].entries, final |-> TRUE] \in [entries : Seq(Entries), final : BOOLEAN]
    BY <1>4
  <2> QED BY <1>1, <1>3, <2>1 DEF ZipInv, ZipTyped
<1>7. WholeWhenFinal'
  BY <1>1, <1>4, <1>5 DEF ZipInv, WholeWhenFinal
<1>8. job'.op = "none"
  BY <1>1 DEF Z!None
<1> QED BY <1>1, <1>6, <1>7, <1>8 DEF ZipInv, SavesTheRest, LoadsTheRest, Z!LoadsWhatWasSaved
-----------------------------------------------------------------------------
\* A zip without its directory is refused; a whole one is read into an empty archive.
LEMMA LoadStep == ASSUME ZipInv, NEW medium \in Z!Media, Z!Load(medium) PROVE ZipInv'
<1>1. CASE ~zip[medium].final
  <2>1. job' = Z!None /\ result'.medium = medium /\ UNCHANGED <<archive_, zip, saved>>
    BY <1>1 DEF Z!Load, Z!Ended
  <2> QED BY <1>1, <2>1, ZipsKept DEF ZipInv, ZipTyped
<1>2. CASE zip[medium].final
  <2>1. /\ job' = [op |-> "load", medium |-> medium, rest |-> zip[medium].entries]
        /\ archive_' = <<>> /\ UNCHANGED <<zip, saved>>
    BY <1>2 DEF Z!Load
  <2>2. zip[medium].entries \in Seq(Entries)
    BY DEF ZipInv, ZipTyped
  <2>3. ZipTyped'
    BY <2>1, <2>2, EmptyArchive DEF ZipInv, ZipTyped
  <2>4. job'.op = "load" /\ job'.medium = medium /\ job'.rest = zip[medium].entries
    BY <2>1
  <2>5. /\ Faithful(zip[medium].entries, saved[medium])
        /\ \A name \in Z!Kept(saved[medium]) : Has(zip[medium].entries, name)
    BY <1>2 DEF ZipInv, WholeWhenFinal
  <2>6. LoadsTheRest'
    BY <1>2, <2>1, <2>4, <2>5, EmptyArchive DEF LoadsTheRest
  <2>7. WholeWhenFinal'
    BY <2>1 DEF ZipInv, WholeWhenFinal
  <2> QED BY <2>3, <2>4, <2>6, <2>7 DEF ZipInv, SavesTheRest, Z!LoadsWhatWasSaved, Z!None
<1> QED BY <1>1, <1>2

\* One round of readAllFiles: what is read is what was saved.
LEMMA ReadFileStep == ASSUME ZipInv, Z!ReadFile PROVE ZipInv'
<1> DEFINE m == job.medium
           was == saved[m]
           entry == Head(job.rest)
           keeps == Z!IsDirectory(entry.name) \/ entry.name \in DOMAIN archive_
           rows == zip[m].entries
<1>1. job.op = "load" /\ job.rest # <<>> /\ UNCHANGED <<zip, result, saved, skipped>>
  BY DEF Z!ReadFile, Z!ReadsOn
<1>2. job \in [op : {"load"}, medium : Z!Media, rest : Seq(Entries)] /\ m \in Z!Media
  BY <1>1, LoadingJob DEF ZipInv
<1>3. job' = [op |-> "load", medium |-> m, rest |-> Tail(job.rest)]
  BY <1>2 DEF Z!ReadFile, Z!ReadsOn
<1>4. \/ keeps /\ archive_' = archive_
      \/ \E located \in Z!Located(entry.name) :
           /\ ~Z!IsDirectory(located.name) /\ located.name \notin DOMAIN archive_
           /\ archive_' = [n \in DOMAIN archive_ \cup {located.name} |->
                             IF n = located.name THEN located.data ELSE archive_[n]]
  BY DEF Z!ReadFile
<1>5. /\ zip[m].final /\ was \in Archives /\ archive_ \in Archives
      /\ \A i \in DOMAIN job.rest :
           Z!IsDirectory(job.rest[i].name)
             \/ (job.rest[i].name \in Z!Kept(was) /\ job.rest[i].data = was[job.rest[i].name])
      /\ \A name \in DOMAIN archive_ : name \in Z!Kept(was) /\ archive_[name] = was[name]
      /\ \A name \in Z!Kept(was) \ skipped :
           name \in DOMAIN archive_ \/ \E i \in DOMAIN job.rest : job.rest[i].name = name
  BY <1>1, <1>2 DEF ZipInv, LoadsTheRest, ZipTyped, Faithful, Has
<1>6. /\ 1 \in DOMAIN job.rest /\ entry = job.rest[1] /\ Tail(job.rest) \in Seq(Entries)
      /\ \A i \in DOMAIN Tail(job.rest) : i + 1 \in DOMAIN job.rest /\ Tail(job.rest)[i] = job.rest[i + 1]
      /\ \A i \in DOMAIN job.rest : i = 1 \/ (i - 1 \in DOMAIN Tail(job.rest) /\ Tail(job.rest)[i - 1] = job.rest[i])
  BY <1>1, <1>2
<1>7. ASSUME NEW located \in Z!Located(entry.name)
      PROVE  /\ located.name = entry.name
             /\ Z!IsDirectory(located.name) \/ (located.name \in Z!Kept(was) /\ located.data = was[located.name])
  <2>1. Faithful(rows, was)
    BY <1>2, <1>5 DEF ZipInv, WholeWhenFinal
  <2>2. located \in {rows[i] : i \in DOMAIN rows} /\ located.name = entry.name
    BY <1>7 DEF Z!Located, Z!ToSet
  <2> HIDE DEF rows, was, entry
  <2> QED BY <2>1, <2>2 DEF Faithful
<1> HIDE DEF entry, was, m, rows
<1>8. /\ archive_' \in Archives
      /\ \A name \in DOMAIN archive_' : name \in Z!Kept(was) /\ archive_'[name] = was[name]
      /\ DOMAIN archive_ \subseteq DOMAIN archive_'
      /\ Z!IsDirectory(entry.name) \/ entry.name \in DOMAIN archive_'
  <2>1. CASE keeps /\ archive_' = archive_
    BY <1>5, <2>1
  <2>2. ASSUME NEW located \in Z!Located(entry.name), ~Z!IsDirectory(located.name), located.name \notin DOMAIN archive_,
               archive_' = [n \in DOMAIN archive_ \cup {located.name} |->
                              IF n = located.name THEN located.data ELSE archive_[n]]
        PROVE  /\ archive_' \in Archives
               /\ \A name \in DOMAIN archive_' : name \in Z!Kept(was) /\ archive_'[name] = was[name]
               /\ DOMAIN archive_ \subseteq DOMAIN archive_'
               /\ entry.name \in DOMAIN archive_'
    <3>1. located.name = entry.name /\ located.name \in Z!Kept(was) /\ located.data = was[located.name]
      BY <1>7, <2>2
    <3>2. located.name \in Names /\ located.data \in Contents
      BY <1>5, <3>1, ArchiveType DEF Z!Kept
    <3>3. archive_' \in Archives
      BY <1>5, <2>2, <3>2, OneMore
    <3>4. DOMAIN archive_' = DOMAIN archive_ \cup {located.name}
      BY <2>2
    <3>5. ASSUME NEW name \in DOMAIN archive_' PROVE name \in Z!Kept(was) /\ archive_'[name] = was[name]
      <4>1. CASE name = located.name
        BY <2>2, <3>1, <3>4, <4>1
      <4>2. CASE name # located.name
        BY <1>5, <2>2, <3>4, <3>5, <4>2
      <4> QED BY <4>1, <4>2
    <3> QED BY <3>1, <3>3, <3>4, <3>5
  <2> QED BY <1>4, <2>1, <2>2
<1>9. ZipTyped'
  BY <1>1, <1>2, <1>3, <1>6, <1>8 DEF ZipInv, ZipTyped
<1>10. job'.op = "load" /\ job'.medium = m /\ job'.rest = Tail(job.rest)
  BY <1>3
<1>11. Faithful(Tail(job.rest), was)
  BY <1>5, <1>6 DEF Faithful
<1>12. ASSUME NEW name \in Z!Kept(was) \ skipped' PROVE name \in DOMAIN archive_' \/ Has(Tail(job.rest), name)
  <2>1. CASE name \in DOMAIN archive_
    BY <1>8, <2>1
  <2>2. ASSUME NEW i \in DOMAIN job.rest, job.rest[i].name = name
        PROVE  name \in DOMAIN archive_' \/ Has(Tail(job.rest), name)
    <3>1. CASE i = 1
      <4>1. ~Z!IsDirectory(name)
        BY <1>12 DEF Z!Kept
      <4> QED BY <1>6, <1>8, <2>2, <3>1, <4>1
    <3>2. CASE i # 1
      BY <1>6, <2>2, <3>2 DEF Has
    <3> QED BY <3>1, <3>2
  <2> QED BY <1>1, <1>5, <2>1, <2>2
<1>13. LoadsTheRest'
  <2>1. zip'[m].final /\ saved'[m] = was
    BY <1>1, <1>5 DEF was
  <2> QED BY <1>8, <1>10, <1>11, <1>12, <2>1 DEF LoadsTheRest
<1>14. WholeWhenFinal'
  BY <1>1 DEF ZipInv, WholeWhenFinal
<1> QED BY <1>9, <1>10, <1>13, <1>14 DEF ZipInv, SavesTheRest, Z!LoadsWhatWasSaved, Z!None

\* An entry that is passed over is one of those that need not come back.
LEMMA SkipStep == ASSUME ZipInv, Z!SkipEntry PROVE ZipInv'
<1> DEFINE m == job.medium
           was == saved[m]
           entry == Head(job.rest)
<1>1. /\ job.op = "load" /\ job.rest # <<>> /\ UNCHANGED <<archive_, zip, result, saved>>
      /\ skipped' = skipped \cup {entry.name}
  BY DEF Z!SkipEntry, Z!ReadsOn
<1>2. job \in [op : {"load"}, medium : Z!Media, rest : Seq(Entries)] /\ m \in Z!Media
  BY <1>1, LoadingJob DEF ZipInv
<1>3. job' = [op |-> "load", medium |-> m, rest |-> Tail(job.rest)]
  BY <1>2 DEF Z!SkipEntry, Z!ReadsOn
<1>4. /\ zip[m].final /\ Faithful(job.rest, was)
      /\ \A name \in DOMAIN archive_ : name \in Z!Kept(was) /\ archive_[name] = was[name]
      /\ \A name \in Z!Kept(was) \ skipped :
           name \in DOMAIN archive_ \/ \E i \in DOMAIN job.rest : job.rest[i].name = name
  BY <1>1, <1>2 DEF ZipInv, LoadsTheRest, Has
<1>5. /\ entry = job.rest[1] /\ Tail(job.rest) \in Seq(Entries)
      /\ \A i \in DOMAIN Tail(job.rest) : i + 1 \in DOMAIN job.rest /\ Tail(job.rest)[i] = job.rest[i + 1]
      /\ \A i \in DOMAIN job.rest : i = 1 \/ (i - 1 \in DOMAIN Tail(job.rest) /\ Tail(job.rest)[i - 1] = job.rest[i])
  BY <1>1, <1>2
<1> HIDE DEF entry, was, m
<1>6. Faithful(Tail(job.rest), was)
  BY <1>4, <1>5 DEF Faithful
<1>7. ASSUME NEW name \in Z!Kept(was) \ skipped' PROVE name \in DOMAIN archive_' \/ Has(Tail(job.rest), name)
  <2>1. ASSUME NEW i \in DOMAIN job.rest, job.rest[i].name = name PROVE Has(Tail(job.rest), name)
    <3>1. i # 1
      BY <1>1, <1>5, <1>7, <2>1
    <3> QED BY <1>5, <2>1, <3>1 DEF Has
  <2> QED BY <1>1, <1>4, <1>7, <2>1
<1>8. ZipTyped'
  BY <1>1, <1>2, <1>3, <1>5 DEF ZipInv, ZipTyped
<1>9. job'.op = "load" /\ job'.medium = m /\ job'.rest = Tail(job.rest)
  BY <1>3
<1>10. LoadsTheRest'
  <2>1. zip'[m].final /\ saved'[m] = was
    BY <1>1, <1>4 DEF was
  <2> QED BY <1>1, <1>4, <1>6, <1>7, <1>9, <2>1 DEF LoadsTheRest
<1>11. WholeWhenFinal'
  BY <1>1 DEF ZipInv, WholeWhenFinal
<1> QED BY <1>8, <1>9, <1>10, <1>11 DEF ZipInv, SavesTheRest, Z!LoadsWhatWasSaved, Z!None

\* A loading ends: half-way, or with nothing left to read.
LEMMA LoadEnds == ASSUME ZipInv, Z!ReadFails \/ Z!ReadAll PROVE ZipInv'
<1>1. /\ job.op = "load" /\ job' = Z!None /\ UNCHANGED <<archive_, zip, saved, skipped>>
      /\ result' = [op |-> "load", medium |-> job.medium, rc |-> result'.rc]
      /\ result'.rc => job.rest = <<>>
  BY DEF Z!ReadFails, Z!ReadAll, Z!Ended
<1>2. job'.op = "none" /\ result'.medium = job.medium
  BY <1>1 DEF Z!None
<1>3. ZipTyped' /\ WholeWhenFinal'
  BY <1>1 DEF ZipInv, ZipTyped, WholeWhenFinal
<1>4. Z!LoadsWhatWasSaved'
  <2> DEFINE was == saved[job.medium]
  <2>1. /\ \A name \in DOMAIN archive_ : name \in Z!Kept(was) /\ archive_[name] = was[name]
        /\ \A name \in Z!Kept(was) \ skipped : name \in DOMAIN archive_ \/ Has(job.rest, name)
    BY <1>1 DEF ZipInv, LoadsTheRest
  <2>2. job.rest = <<>> => \A name : ~Has(job.rest, name)
    BY DEF Has
  <2>3. result'.rc => \A name \in Z!Kept(was) \ skipped : name \in DOMAIN archive_
    BY <1>1, <2>1, <2>2
  <2> HIDE DEF was
  <2>4. saved'[result'.medium] = was
    BY <1>1, <1>2 DEF was
  <2> QED BY <1>1, <2>1, <2>3, <2>4 DEF Z!LoadsWhatWasSaved
<1> QED BY <1>2, <1>3, <1>4 DEF ZipInv, SavesTheRest, LoadsTheRest

LEMMA ZipStep == ZipInv /\ [Z!Next]_(Z!vars) => ZipInv'
<1> SUFFICES ASSUME ZipInv, [Z!Next]_(Z!vars) PROVE ZipInv'
  OBVIOUS
<1>1. CASE UNCHANGED Z!vars
  BY <1>1 DEF Z!vars, ZipInv, ZipTyped, WholeWhenFinal, SavesTheRest, LoadsTheRest, Z!LoadsWhatWasSaved
<1>2. Z!SaveToFile \/ Z!SaveToMem => ZipInv'
  <2>1. "file" \in Z!Media /\ "memory" \in Z!Media
    BY DEF Z!Media
  <2> QED BY <2>1, BeginsStep, SaveFailsStep DEF Z!SaveToFile, Z!SaveToMem
<1>3. Z!LoadFromFile \/ Z!LoadFromMem => ZipInv'
  <2>1. "file" \in Z!Media /\ "memory" \in Z!Media
    BY DEF Z!Media
  <2> QED BY <2>1, LoadStep DEF Z!LoadFromFile, Z!LoadFromMem
<1> QED BY <1>1, <1>2, <1>3, EditStep, WriteFileStep, SaveFailsStep, FinalizeStep, ReadFileStep, SkipStep, LoadEnds
        DEF Z!Next

\* What a load puts in memory was saved there, whichever entry cannot be written or
\* read, and it is all of that unless the load fails or passes over an entry.
THEOREM LoadsArchives == Z!Spec => []Z!LoadsWhatWasSaved
<1>1. ZipInv => Z!LoadsWhatWasSaved
  BY DEF ZipInv
<1> QED BY <1>1, ZipInit, ZipStep, PTL DEF Z!Spec
-----------------------------------------------------------------------------
(* KeyTable.                                                               *)

\* What stands at a place of a text, -1 behind its end.
CharAt(a, i) == IF i \in DOMAIN a THEN a[i] ELSE -1

\* The same up to a place, and less there.
LessAt(a, b, i) == CharAt(a, i) < CharAt(b, i) /\ \A j \in 1..i - 1 : CharAt(a, j) = CharAt(b, j)

LEMMA CharIsInt == ASSUME NEW a \in Seq(Nat), NEW i \in Nat PROVE CharAt(a, i) \in Int
BY DEF CharAt

\* Two texts begin alike when their characters do.
LEMMA SameStart ==
  ASSUME NEW a \in Seq(Nat), NEW b \in Seq(Nat), NEW n \in Nat, n <= Len(a), n <= Len(b)
  PROVE  SubSeq(a, 1, n) = SubSeq(b, 1, n) <=> \A j \in 1..n : CharAt(a, j) = CharAt(b, j)
<1>1. \A j \in 1..n : /\ CharAt(a, j) = a[j] /\ CharAt(b, j) = b[j]
                      /\ SubSeq(a, 1, n)[j] = a[j] /\ SubSeq(b, 1, n)[j] = b[j]
  BY DEF CharAt
<1>2. /\ Len(SubSeq(a, 1, n)) = n /\ SubSeq(a, 1, n) \in Seq(Nat)
      /\ Len(SubSeq(b, 1, n)) = n /\ SubSeq(b, 1, n) \in Seq(Nat)
  OBVIOUS
<1>3. ASSUME \A j \in 1..n : CharAt(a, j) = CharAt(b, j) PROVE SubSeq(a, 1, n) = SubSeq(b, 1, n)
  <2> DEFINE u == SubSeq(a, 1, n)
             v == SubSeq(b, 1, n)
  <2>1. \A j \in 1..n : u[j] = v[j]
    BY <1>1, <1>3
  <2>2. u \in Seq(Nat) /\ v \in Seq(Nat) /\ Len(u) = n /\ Len(v) = n
    BY <1>2
  <2> HIDE DEF u, v
  <2>3. u = v
    BY <2>1, <2>2
  <2> QED BY <2>3 DEF u, v
<1> QED BY <1>1, <1>3

\* A text is before another one when it is less at some place.
LEMMA PrecedesLess ==
  ASSUME NEW a \in Seq(Nat), NEW b \in Seq(Nat)
  PROVE  B!Precedes(a, b) <=> \E i \in Nat \ {0} : LessAt(a, b, i)
<1> USE DEF CharAt
<1>1. ASSUME Len(a) < Len(b), SubSeq(b, 1, Len(a)) = a PROVE LessAt(a, b, Len(a) + 1)
  <2>1. SubSeq(a, 1, Len(a)) = SubSeq(b, 1, Len(a))
    BY <1>1
  <2>2. \A j \in 1..Len(a) : CharAt(a, j) = CharAt(b, j)
    BY <1>1, <2>1, SameStart
  <2>3. (Len(a) + 1) - 1 = Len(a)
    OBVIOUS
  <2>4. CharAt(a, Len(a) + 1) = -1 /\ CharAt(b, Len(a) + 1) \in Nat
    BY <1>1
  <2> QED BY <2>2, <2>3, <2>4 DEF LessAt
<1>2. ASSUME NEW i \in DOMAIN a \cap DOMAIN b, a[i] < b[i], SubSeq(a, 1, i - 1) = SubSeq(b, 1, i - 1)
      PROVE  LessAt(a, b, i)
  <2>1. i - 1 \in Nat /\ i - 1 <= Len(a) /\ i - 1 <= Len(b)
    OBVIOUS
  <2>2. \A j \in 1..i - 1 : CharAt(a, j) = CharAt(b, j)
    BY <1>2, <2>1, SameStart
  <2> QED BY <1>2, <2>2 DEF LessAt
<1>3. ASSUME NEW i \in Nat \ {0}, LessAt(a, b, i) PROVE B!Precedes(a, b)
  <2>1. i \in DOMAIN b
    BY <1>3 DEF LessAt
  <2>2. CASE i \in DOMAIN a
    <3>1. i - 1 \in Nat /\ i - 1 <= Len(a) /\ i - 1 <= Len(b)
      BY <2>1, <2>2
    <3>2. SubSeq(a, 1, i - 1) = SubSeq(b, 1, i - 1)
      BY <1>3, <3>1, SameStart DEF LessAt
    <3> QED BY <1>3, <2>1, <2>2, <3>2 DEF LessAt, B!Precedes
  <2>3. CASE i \notin DOMAIN a
    <3>1. i > Len(a)
      BY <2>3
    <3>2. i = Len(a) + 1
      <4>1. CASE i > Len(a) + 1
        <5>1. Len(a) + 1 \in 1..i - 1 /\ Len(a) + 1 \in DOMAIN b
          BY <2>1, <4>1
        <5> QED BY <1>3, <5>1 DEF LessAt
      <4> QED BY <3>1, <4>1
    <3>3. SubSeq(a, 1, Len(a)) = SubSeq(b, 1, Len(a)) /\ Len(a) < Len(b)
      <4>1. Len(a) < Len(b) /\ i - 1 = Len(a)
        BY <2>1, <3>2
      <4> QED BY <1>3, <4>1, SameStart DEF LessAt
    <3>4. SubSeq(a, 1, Len(a)) = a
      OBVIOUS
    <3> QED BY <3>3, <3>4 DEF B!Precedes
  <2> QED BY <2>2, <2>3
<1> QED BY <1>1, <1>2, <1>3 DEF B!Precedes

\* The keys are in a total order.
LEMMA PrecedesOrders ==
  ASSUME NEW a \in Seq(Nat), NEW b \in Seq(Nat), NEW c \in Seq(Nat)
  PROVE  /\ ~B!Precedes(a, a)
         /\ B!Precedes(a, b) /\ B!Precedes(b, c) => B!Precedes(a, c)
         /\ a # b => B!Precedes(a, b) \/ B!Precedes(b, a)
<1>1. ~B!Precedes(a, a)
  <2>1. \A i \in Nat \ {0} : ~LessAt(a, a, i)
    BY CharIsInt DEF LessAt
  <2> QED BY <2>1, PrecedesLess
<1>2. ASSUME B!Precedes(a, b), B!Precedes(b, c) PROVE B!Precedes(a, c)
  <2>1. PICK i \in Nat \ {0} : LessAt(a, b, i)
    BY <1>2, PrecedesLess
  <2>2. PICK j \in Nat \ {0} : LessAt(b, c, j)
    BY <1>2, PrecedesLess
  <2>3. CASE i <= j
    <3>1. \A k \in 1..i - 1 : k \in 1..j - 1
      BY <2>3
    <3>2. CharAt(b, i) < CharAt(c, i) \/ CharAt(b, i) = CharAt(c, i)
      <4>1. CASE i = j
        BY <2>2, <4>1 DEF LessAt
      <4>2. CASE i < j
        BY <2>2, <4>2 DEF LessAt
      <4> QED BY <2>3, <4>1, <4>2
    <3>4. CharAt(a, i) \in Int /\ CharAt(b, i) \in Int /\ CharAt(c, i) \in Int
      BY CharIsInt
    <3>5. \A k \in 1..i - 1 : CharAt(a, k) = CharAt(c, k)
      BY <2>1, <2>2, <3>1 DEF LessAt
    <3>6. CharAt(a, i) < CharAt(c, i)
      BY <2>1, <3>2, <3>4 DEF LessAt
    <3>3. LessAt(a, c, i)
      BY <3>5, <3>6 DEF LessAt
    <3> QED BY <3>3, PrecedesLess
  <2>4. CASE j < i
    <3>1. (\A k \in 1..j - 1 : k \in 1..i - 1) /\ j \in 1..i - 1
      BY <2>4
    <3>2. LessAt(a, c, j)
      BY <2>1, <2>2, <3>1, CharIsInt DEF LessAt
    <3> QED BY <3>2, PrecedesLess
  <2> QED BY <2>3, <2>4
<1>3. ASSUME a # b PROVE B!Precedes(a, b) \/ B!Precedes(b, a)
  <2> DEFINE D == {i \in Nat \ {0} : CharAt(a, i) # CharAt(b, i)}
  <2>1. ASSUME D = {} PROVE a = b
    <3>1. \A i \in Nat \ {0} : CharAt(a, i) = CharAt(b, i)
      BY <2>1
    <3>2. Len(a) = Len(b)
      <4>1. CharAt(a, Len(a) + 1) = CharAt(b, Len(a) + 1) /\ CharAt(a, Len(b) + 1) = CharAt(b, Len(b) + 1)
        BY <3>1
      <4> QED BY <4>1 DEF CharAt
    <3>3. \A i \in 1..Len(a) : a[i] = b[i]
      BY <3>1, <3>2 DEF CharAt
    <3> QED BY <3>2, <3>3, SeqEqual
  <2>2. PICK i \in D : \A j \in D : i <= j
    <3>1. D \in SUBSET Nat
      OBVIOUS
    <3> HIDE DEF D
    <3>2. D # {}
      BY <1>3, <2>1
    <3> QED BY <3>1, <3>2, Smallest
  <2>3. \A j \in 1..i - 1 : CharAt(a, j) = CharAt(b, j)
    BY <2>2
  <2>4. LessAt(a, b, i) \/ LessAt(b, a, i)
    BY <2>2, <2>3, CharIsInt DEF LessAt
  <2> QED BY <2>4, PrecedesLess
<1> QED BY <1>1, <1>2, <1>3

\* A text starts with a prefix when its characters do.
LEMMA PrefixStarts ==
  ASSUME NEW k \in Seq(Nat), NEW p \in Seq(Nat)
  PROVE  B!StartsWith(k, p) <=> \A j \in 1..Len(p) : CharAt(k, j) = CharAt(p, j)
<1>1. SubSeq(p, 1, Len(p)) = p
  OBVIOUS
<1>2. CASE Len(k) >= Len(p)
  <2>1. SubSeq(k, 1, Len(p)) = SubSeq(p, 1, Len(p)) <=> \A j \in 1..Len(p) : CharAt(k, j) = CharAt(p, j)
    BY <1>2, SameStart
  <2> QED BY <1>1, <1>2, <2>1 DEF B!StartsWith
<1>3. CASE Len(k) < Len(p)
  <2>1. Len(p) \in 1..Len(p) /\ CharAt(k, Len(p)) = -1 /\ CharAt(p, Len(p)) \in Nat
    BY <1>3 DEF CharAt
  <2>2. CharAt(k, Len(p)) # CharAt(p, Len(p))
    BY <2>1
  <2> QED BY <1>3, <2>1, <2>2 DEF B!StartsWith
<1> QED BY <1>2, <1>3

\* Keys with a prefix stand together, from the prefix on.
LEMMA PrefixStandsTogether ==
  ASSUME NEW p \in Seq(Nat), NEW y \in Seq(Nat), B!StartsWith(y, p)
  PROVE  /\ ~B!Precedes(y, p)
         /\ \A x \in Seq(Nat) : ~B!Precedes(x, p) /\ B!Precedes(x, y) => B!StartsWith(x, p)
<1>1. \A j \in 1..Len(p) : CharAt(y, j) = CharAt(p, j)
  BY PrefixStarts
<1>2. ~B!Precedes(y, p)
  <2> SUFFICES ASSUME NEW i \in Nat \ {0}, LessAt(y, p, i) PROVE FALSE
    BY PrecedesLess
  <2>1. CASE i \in 1..Len(p)
    BY <1>1, <2>1, CharIsInt DEF LessAt
  <2>2. CASE i \notin 1..Len(p)
    <3>1. CharAt(p, i) = -1 /\ (CharAt(y, i) = -1 \/ CharAt(y, i) \in Nat)
      BY <2>2 DEF CharAt
    <3> QED BY <3>1 DEF LessAt
  <2> QED BY <2>1, <2>2
<1>3. ASSUME NEW x \in Seq(Nat), ~B!Precedes(x, p), B!Precedes(x, y), ~B!StartsWith(x, p) PROVE FALSE
  <2> DEFINE D == {j \in 1..Len(p) : CharAt(x, j) # CharAt(p, j)}
  <2>1. PICK i \in D : \A j \in D : i <= j
    <3>1. D \in SUBSET Nat /\ D # {}
      BY <1>3, PrefixStarts
    <3> QED BY <3>1, Smallest
  <2>2. i \in Nat \ {0} /\ \A j \in 1..i - 1 : CharAt(x, j) = CharAt(p, j) /\ CharAt(p, j) = CharAt(y, j)
    BY <1>1, <2>1
  <2>3. CASE CharAt(x, i) < CharAt(p, i)
    BY <1>3, <2>2, <2>3, PrecedesLess DEF LessAt
  <2>4. CASE CharAt(x, i) > CharAt(p, i)
    <3>1. LessAt(y, x, i)
      BY <1>1, <2>1, <2>2, <2>4 DEF LessAt
    <3>2. B!Precedes(y, x)
      BY <2>2, <3>1, PrecedesLess
    <3> QED BY <1>3, <3>2, PrecedesOrders
  <2>5. CharAt(x, i) # CharAt(p, i) /\ CharAt(x, i) \in Int /\ CharAt(p, i) \in Int
    BY <2>1, <2>2, CharIsInt
  <2> HIDE DEF D
  <2> QED BY <2>3, <2>4, <2>5
<1> QED BY <1>2, <1>3
-----------------------------------------------------------------------------
\* Places that come with all the places before them are counted by the last.
LEMMA InitialSegment ==
  ASSUME NEW n \in Nat, NEW I \in SUBSET (1..n), \A i \in I : \A j \in 1..i : j \in I
  PROVE  Cardinality(I) \in 0..n /\ I = 1..Cardinality(I)
<1> DEFINE D == {k \in Nat \ {0} : k \notin I}
<1>1. PICK m \in D : \A k \in D : m <= k
  <2>1. D \in SUBSET Nat /\ n + 1 \in D
    OBVIOUS
  <2> HIDE DEF D
  <2> QED BY <2>1, Smallest
<1>2. m - 1 \in 0..n /\ I = 1..m - 1
  <2>1. n + 1 \in D
    OBVIOUS
  <2>2. ASSUME NEW i \in I PROVE i \in 1..m - 1
    BY <1>1
  <2>3. ASSUME NEW j \in 1..m - 1 PROVE j \in I
    BY <1>1
  <2>4. m \in Nat \ {0} /\ m <= n + 1
    BY <1>1, <2>1
  <2>5. m - 1 \in 0..n
    BY <2>4
  <2>6. I = 1..m - 1
    BY <2>2, <2>3, Zenon
  <2> QED BY <2>5, <2>6
<1>3. Cardinality(1..m - 1) = m - 1
  <2>1. 1 \in Int /\ m - 1 \in Int /\ m - 1 >= 0
    BY <1>2
  <2> QED BY <2>1, FS_Interval
<1> QED BY <1>2, <1>3

LEMMA SameCardinality == \A S : B!Cardinality(S) = Cardinality(S)
BY DEF B!Cardinality, Cardinality

Below(S, k) == {j \in S : B!Precedes(j, k)}
Rank(S, k) == Cardinality(Below(S, k))

\* How many keys are before a key grows with it.
LEMMA RanksGrow ==
  ASSUME NEW S \in SUBSET Seq(Nat), IsFiniteSet(S), NEW l \in S
  PROVE  /\ Rank(S, l) \in 0..Cardinality(S) - 1
         /\ \A k \in S : B!Precedes(k, l) => Rank(S, k) < Rank(S, l)
<1>1. \A k \in S : IsFiniteSet(Below(S, k)) /\ Rank(S, k) \in Nat
  BY FS_Subset, FS_CardinalityType DEF Below, Rank
<1>2. Cardinality(S) \in Nat
  BY FS_CardinalityType
<1>3. Rank(S, l) < Cardinality(S)
  <2>1. Below(S, l) \in SUBSET S /\ l \in S /\ l \notin Below(S, l)
    BY PrecedesOrders DEF Below
  <2>2. Cardinality(Below(S, l)) <= Cardinality(S) /\ Cardinality(Below(S, l)) # Cardinality(S)
    BY <2>1, FS_Subset
  <2> QED BY <1>1, <1>2, <2>2 DEF Rank
<1>4. ASSUME NEW k \in S, B!Precedes(k, l) PROVE Rank(S, k) < Rank(S, l)
  <2>1. Below(S, k) \in SUBSET Below(S, l)
    BY <1>4, PrecedesOrders DEF Below
  <2>2. k \in Below(S, l) /\ k \notin Below(S, k)
    BY <1>4, PrecedesOrders DEF Below
  <2>3. Rank(S, k) <= Rank(S, l) /\ Rank(S, k) # Rank(S, l)
    BY <1>1, <2>1, <2>2, FS_Subset DEF Rank
  <2> QED BY <1>1, <2>3
<1> QED BY <1>1, <1>2, <1>3, <1>4

\* As many ranks as there are keys, and each is some key's.
LEMMA EveryRank ==
  ASSUME NEW S \in SUBSET Seq(Nat), IsFiniteSet(S), NEW i \in 1..Cardinality(S)
  PROVE  \E k \in S : Rank(S, k) = i - 1
<1> DEFINE n == Cardinality(S)
           f == [k \in S |-> Rank(S, k)]
<1>1. n \in Nat
  BY FS_CardinalityType
<1>2. IsFiniteSet(0..n - 1) /\ Cardinality(0..n - 1) = n
  <2>1. 0 \in Int /\ n - 1 \in Int /\ n > 0
    BY <1>1
  <2> HIDE DEF n
  <2> QED BY <1>1, <2>1, FS_Interval
<1>3. f \in [S -> 0..n - 1]
  BY RanksGrow
<1>4. ASSUME NEW k \in S, NEW l \in S, f[k] = f[l] PROVE k = l
  <2>1. ~B!Precedes(k, l) /\ ~B!Precedes(l, k)
    BY <1>4, RanksGrow
  <2> QED BY <2>1, PrecedesOrders
<1>5. f \in Injection(S, 0..n - 1)
  BY <1>3, <1>4 DEF Injection, IsInjective
<1>6. f \in Surjection(S, 0..n - 1)
  BY <1>2, <1>5, FS_Injection
<1>7. i - 1 \in 0..n - 1
  BY <1>1
<1> QED BY <1>6, <1>7 DEF Surjection

\* An iterator goes through the keys from where it starts, each once, in their order.
Kept(start) == {k \in B!Stored : ~B!Precedes(k, start)}

LEMMA Iterates ==
  ASSUME B!Stored \in SUBSET Seq(Nat), IsFiniteSet(B!Stored), NEW start
  PROVE  LET rows == B!From(start)
         IN  /\ rows \in Seq(Kept(start)) /\ rows \in Seq(Seq(Nat)) /\ DOMAIN rows = 1..Len(rows) /\ Len(rows) \in Nat
             /\ \A i, j \in DOMAIN rows : i < j => B!Precedes(rows[i], rows[j])
             /\ \A k \in Kept(start) : \E i \in DOMAIN rows : rows[i] = k
<1> DEFINE S == Kept(start)
           n == Cardinality(S)
           rows == [i \in 1..n |-> CHOOSE k \in S : Rank(S, k) = i - 1]
<1>1. S \in SUBSET Seq(Nat) /\ IsFiniteSet(S) /\ n \in Nat
  BY FS_Subset, FS_CardinalityType DEF Kept
<1>2. B!From(start) = rows
  BY Zenon DEF B!From, Kept, Rank, Below, B!Cardinality, Cardinality
<1> HIDE DEF S
<1>3. \A i \in 1..n : rows[i] \in S /\ Rank(S, rows[i]) = i - 1
  BY <1>1, EveryRank
<1>4. rows \in Seq(S) /\ DOMAIN rows = 1..n /\ Len(rows) = n
  BY <1>1, <1>3
<1> HIDE DEF rows
<1>5. ASSUME NEW k \in S, NEW l \in S, Rank(S, k) < Rank(S, l) PROVE B!Precedes(k, l)
  <2>1. k # l /\ Rank(S, k) \in Int /\ Rank(S, l) \in Int
    BY <1>1, <1>5, RanksGrow
  <2>2. ~B!Precedes(l, k)
    BY <1>1, <1>5, <2>1, RanksGrow
  <2> QED BY <1>1, <2>1, <2>2, PrecedesOrders
<1>6. \A i, j \in 1..n : i < j => B!Precedes(rows[i], rows[j])
  <2> SUFFICES ASSUME NEW i \in 1..n, NEW j \in 1..n, i < j PROVE B!Precedes(rows[i], rows[j])
    OBVIOUS
  <2>1. Rank(S, rows[i]) < Rank(S, rows[j])
    BY <1>1, <1>3
  <2> QED BY <1>3, <1>5, <2>1
<1>7. ASSUME NEW k \in S PROVE \E i \in 1..n : rows[i] = k
  <2>1. Rank(S, k) \in 0..n - 1
    BY <1>1, RanksGrow
  <2> DEFINE i == Rank(S, k) + 1
  <2>2. i \in 1..n /\ i - 1 = Rank(S, k)
    BY <1>1, <2>1
  <2> HIDE DEF i
  <2>3. rows[i] \in S /\ Rank(S, rows[i]) = Rank(S, k)
    BY <1>3, <2>2
  <2>4. ~B!Precedes(rows[i], k) /\ ~B!Precedes(k, rows[i])
    BY <1>1, <2>1, <2>3, RanksGrow
  <2>5. rows[i] = k
    BY <1>1, <2>3, <2>4, PrecedesOrders
  <2> QED BY <2>2, <2>5
<1>8. rows \in Seq(Seq(Nat))
  BY <1>1, <1>4, SeqMonotonic
<1> QED BY <1>1, <1>2, <1>4, <1>6, <1>7, <1>8 DEF S
-----------------------------------------------------------------------------
TableTyped == B!Stored \in SUBSET Seq(Nat) /\ IsFiniteSet(B!Stored)

\* The first rows of the first rows.
LEMMA FirstRows ==
  ASSUME NEW S, NEW s \in Seq(S), NEW n \in 0..Len(s)
  PROVE  /\ SubSeq(s, 1, n) \in Seq(S) /\ Len(SubSeq(s, 1, n)) = n /\ DOMAIN SubSeq(s, 1, n) = 1..n
         /\ \A i \in 1..n : SubSeq(s, 1, n)[i] = s[i]
         /\ \A m \in 0..n : SubSeq(SubSeq(s, 1, n), 1, m) = SubSeq(s, 1, m)
<1>1. /\ SubSeq(s, 1, n) \in Seq(S) /\ Len(SubSeq(s, 1, n)) = n /\ DOMAIN SubSeq(s, 1, n) = 1..n
      /\ \A i \in 1..n : SubSeq(s, 1, n)[i] = s[i]
  OBVIOUS
<1>2. ASSUME NEW m \in 0..n PROVE SubSeq(SubSeq(s, 1, n), 1, m) = SubSeq(s, 1, m)
  <2> DEFINE t == SubSeq(s, 1, n)
  <2>1. /\ SubSeq(s, 1, m) \in Seq(S) /\ Len(SubSeq(s, 1, m)) = m
        /\ \A i \in 1..m : SubSeq(s, 1, m)[i] = s[i]
    OBVIOUS
  <2>2. t \in Seq(S) /\ Len(t) = n /\ \A i \in 1..n : t[i] = s[i]
    BY <1>1
  <2> HIDE DEF t
  <2>3. /\ SubSeq(t, 1, m) \in Seq(S) /\ Len(SubSeq(t, 1, m)) = m
        /\ \A i \in 1..m : SubSeq(t, 1, m)[i] = t[i]
    BY <2>2
  <2>4. \A i \in 1..m : SubSeq(t, 1, m)[i] = SubSeq(s, 1, m)[i]
    BY <2>1, <2>2, <2>3
  <2>5. SubSeq(t, 1, m) = SubSeq(s, 1, m)
    BY <2>1, <2>3, <2>4, SeqEqual
  <2> QED BY <2>5 DEF t
<1> QED BY <1>1, <1>2

\* The leading rows end in front of one that is not wanted.
LEMMA LeadingRows ==
  ASSUME NEW rows \in Seq(Seq(Nat)), NEW wanted
  PROVE  \E m \in 0..Len(rows) : /\ B!Leading(rows, wanted) = SubSeq(rows, 1, m)
                                 /\ \A i \in 1..m : rows[i] \in wanted
                                 /\ m < Len(rows) => rows[m + 1] \notin wanted
<1> DEFINE I == {i \in DOMAIN rows : \A j \in 1..i : rows[j] \in wanted}
           m == Cardinality(I)
<1>1. m \in 0..Len(rows) /\ I = 1..m
  <2>1. Len(rows) \in Nat /\ I \in SUBSET (1..Len(rows))
    OBVIOUS
  <2>2. \A i \in I : \A j \in 1..i : j \in I
    OBVIOUS
  <2> HIDE DEF I
  <2> QED BY <2>1, <2>2, InitialSegment
<1>2. B!Leading(rows, wanted) = SubSeq(rows, 1, m)
  BY SameCardinality DEF B!Leading
<1>3. \A i \in 1..m : i \in I
  BY <1>1
<1>4. \A i \in 1..m : rows[i] \in wanted
  BY <1>3
<1>5. ASSUME m < Len(rows), rows[m + 1] \in wanted PROVE FALSE
  <2>1. m \in Nat /\ m + 1 \in DOMAIN rows
    BY <1>1, <1>5
  <2>2. ASSUME NEW j \in 1..m + 1 PROVE rows[j] \in wanted
    <3> HIDE DEF m
    <3>1. j \in 1..m \/ j = m + 1
      BY <2>1
    <3> QED BY <1>4, <1>5, <3>1
  <2>3. m + 1 \in I
    BY <2>1, <2>2
  <2> HIDE DEF I
  <2> QED BY <1>1, <2>1, <2>3
<1> QED BY <1>1, <1>2, <1>4, <1>5

LEMMA CountType == ASSUME NEW limit \in Nat PROVE B!Count(limit) \in Nat
BY TableAssumption DEF B!Count

LEMMA Lesser == ASSUME NEW a \in Nat, NEW b \in Nat PROVE B!Min({a, b}) = IF a <= b THEN a ELSE b
BY DEF B!Min

\* There are fewer rows than there are keys only when the limit is reached.
LEMMA AtMostRows ==
  ASSUME NEW rows \in Seq(Seq(Nat)), NEW limit \in Nat
  PROVE  \E m \in 0..Len(rows) : /\ B!AtMost(rows, limit) = SubSeq(rows, 1, m)
                                 /\ m < Len(rows) => m = B!Count(limit)
<1> DEFINE c == B!Count(limit)
           m == IF Len(rows) <= c THEN Len(rows) ELSE c
<1>1. c \in Nat /\ Len(rows) \in Nat
  BY CountType
<1>2. B!Min({Len(rows), c}) = m
  BY <1>1, Lesser
<1> HIDE DEF c
<1>3. m \in 0..Len(rows) /\ (m < Len(rows) => m = c)
  BY <1>1
<1>4. B!AtMost(rows, limit) = SubSeq(rows, 1, m)
  BY <1>2 DEF B!AtMost, c
<1> QED BY <1>3, <1>4 DEF c

\* A reading by function stops at a key, which is its last one.
LEMMA RowsUntil ==
  ASSUME NEW rows \in Seq(Seq(Nat)), NEW last
  PROVE  LET upTo == {i \in DOMAIN rows : \A j \in 1..i - 1 : rows[j] # last}
             m == B!Cardinality(upTo)
         IN  /\ m \in 0..Len(rows)
             /\ m < Len(rows) => m > 0 /\ rows[m] = last
<1> DEFINE I == {i \in DOMAIN rows : \A j \in 1..i - 1 : rows[j] # last}
           m == Cardinality(I)
<1>1. m \in 0..Len(rows) /\ I = 1..m
  <2>1. Len(rows) \in Nat /\ I \in SUBSET (1..Len(rows))
    OBVIOUS
  <2>2. \A i \in I : \A j \in 1..i : j \in I
    OBVIOUS
  <2> HIDE DEF I
  <2> QED BY <2>1, <2>2, InitialSegment
<1>2. B!Cardinality(I) = m
  BY SameCardinality
<1>3. ASSUME m < Len(rows) PROVE m > 0 /\ rows[m] = last
  <2>1. m \in Nat /\ m + 1 \in DOMAIN rows /\ m + 1 \notin I
    <3> HIDE DEF I
    <3> QED BY <1>1, <1>3
  <2>2. PICK j \in 1..m : rows[j] = last
    <3>1. m + 1 - 1 = m
      BY <2>1
    <3> HIDE DEF m
    <3> QED BY <2>1, <3>1
  <2>3. m \in I
    <3> HIDE DEF I
    <3> QED BY <1>1, <2>1, <2>2
  <2>4. \A k \in 1..m - 1 : rows[k] # last
    BY <2>3
  <2> HIDE DEF m
  <2>5. j = m
    BY <2>1, <2>2, <2>4
  <2> QED BY <2>1, <2>2, <2>5
<1> HIDE DEF I
<1> QED BY <1>1, <1>2, <1>3 DEF I
-----------------------------------------------------------------------------
Readings == {"seek", "seekUntil", "seekRange", "seekPrefix", "getPrefix", "open"}

Wanted(name, start, end) ==
  CASE name \in {"seek", "seekUntil"} -> {k \in B!Stored : ~B!Precedes(k, start)}
    [] name = "seekRange" -> {k \in B!Stored : ~B!Precedes(k, start) /\ ~B!Precedes(end, k)}
    [] OTHER -> {k \in B!Stored : B!StartsWith(k, start)}

\* A reading gives the first of its rows, all of them unless an error ends it.
LEMMA WordRead ==
  ASSUME NEW name, NEW start, NEW end, NEW limit, NEW rows,
         B!Reads(B!Reading(name, start, end, limit), rows)
  PROVE  /\ UNCHANGED table
         /\ said'.op = name /\ said'.start = start /\ said'.end = end /\ said'.limit = limit
         /\ \E n \in 0..Len(rows) : /\ said'.rows = SubSeq(rows, 1, n)
                                    /\ said'.complete => n = Len(rows)
<1>1. PICK n \in 0..Len(rows) :
        /\ said' = [B!Reading(name, start, end, limit) EXCEPT !.rows = SubSeq(rows, 1, n), !.complete = (n = Len(rows))]
        /\ UNCHANGED table
  BY DEF B!Reads, B!Says
<1> DEFINE c == n = Len(rows)
           r == SubSeq(rows, 1, n)
<1>2. said' = [op |-> name, throws |-> FALSE, start |-> start, end |-> end, limit |-> limit,
               rows |-> r, complete |-> c]
  BY <1>1 DEF B!Reading
<1>3. said'.rows = r /\ said'.complete = c
  <2> HIDE DEF r, c
  <2> QED BY <1>2
<1>4. said'.op = name /\ said'.start = start /\ said'.end = end /\ said'.limit = limit
  <2> HIDE DEF r, c
  <2> QED BY <1>2
<1> QED BY <1>1, <1>3, <1>4

\* A text with a prefix is the prefix and what stands behind it.
LEMMA PrefixAndRest ==
  ASSUME NEW z \in Seq(Nat), NEW p \in Seq(Nat), B!StartsWith(z, p)
  PROVE  z = p \o B!Behind(z, p)
<1> DEFINE k == Len(p)
           n == Len(z)
<1>1. k \in Nat /\ n \in Nat /\ k <= n /\ SubSeq(z, 1, k) = p
  BY DEF B!StartsWith
<1>2. 1 \in 1..n + 1 /\ k \in 1 - 1..n /\ n \in k..n
  BY <1>1
<1>3. SubSeq(z, 1, k) \o SubSeq(z, k + 1, n) = SubSeq(z, 1, n)
  BY <1>2, ConcatAdjacentSubSeq
<1>4. SubSeq(z, 1, n) = z
  BY SubSeqFull
<1> QED BY <1>1, <1>3, <1>4 DEF B!Behind

\* A reading of the first m keys from start, which are wanted, while the next one
\* is not or the limit or the last key is reached, has all it should.
LEMMA ReadsAll ==
  ASSUME TableTyped, NEW name \in Readings, NEW start \in Seq(Nat), NEW end, NEW limit,
         NEW m \in 0..Len(B!From(start)),
         Wanted(name, start, end) \subseteq Kept(start),
         \A i \in 1..m : B!From(start)[i] \in Wanted(name, start, end),
         m < Len(B!From(start)) =>
            \/ m = B!Count(limit)
            \/ name = "seekUntil" /\ m > 0 /\ B!From(start)[m] = end
            \/ \A i \in m + 1..Len(B!From(start)) : B!From(start)[i] \notin Wanted(name, start, end),
         B!Reads(B!Reading(name, start, end, limit), SubSeq(B!From(start), 1, m))
  PROVE  B!RowsAreAll'
<1> DEFINE all == B!From(start)
           wanted == Wanted(name, start, end)
<1>1. /\ all \in Seq(Kept(start)) /\ all \in Seq(Seq(Nat)) /\ DOMAIN all = 1..Len(all) /\ Len(all) \in Nat
      /\ \A i, j \in DOMAIN all : i < j => B!Precedes(all[i], all[j])
      /\ \A k \in Kept(start) : \E i \in DOMAIN all : all[i] = k
  BY Iterates DEF TableTyped
<1> HIDE DEF all
<1>2. m \in 0..Len(all) /\ Len(SubSeq(all, 1, m)) = m /\ \A n \in 0..m : SubSeq(SubSeq(all, 1, m), 1, n) = SubSeq(all, 1, n)
  BY <1>1, FirstRows DEF all
<1>3. /\ UNCHANGED table
      /\ said'.op = name /\ said'.start = start /\ said'.end = end /\ said'.limit = limit
  BY WordRead
<1>4. PICK n \in 0..m : said'.rows = SubSeq(all, 1, n) /\ (said'.complete => n = m)
  <2>1. \E n \in 0..Len(SubSeq(all, 1, m)) :
           /\ said'.rows = SubSeq(SubSeq(all, 1, m), 1, n) /\ (said'.complete => n = Len(SubSeq(all, 1, m)))
    BY WordRead DEF all
  <2> QED BY <1>2, <2>1
<1> DEFINE rows == SubSeq(all, 1, n)
<1>5. rows \in Seq(Seq(Nat)) /\ Len(rows) = n /\ DOMAIN rows = 1..n /\ \A i \in 1..n : rows[i] = all[i]
  <2>1. n \in 0..Len(all)
    BY <1>1, <1>2
  <2> QED BY <1>1, <2>1, FirstRows
<1> HIDE DEF rows
<1>6. \A i \in DOMAIN rows : rows[i] \in wanted
  <2>1. \A i \in 1..m : all[i] \in wanted
    BY DEF all
  <2> HIDE DEF wanted
  <2>2. \A i \in 1..n : i \in 1..m
    BY <1>1, <1>2
  <2> QED BY <1>5, <2>1, <2>2
<1>7. \A i, j \in DOMAIN rows : i < j => B!Precedes(rows[i], rows[j])
  <2>1. n <= Len(all)
    BY <1>1, <1>2
  <2> QED BY <1>1, <1>5, <2>1
<1>8. ASSUME NEW k \in wanted, \A i \in DOMAIN rows : rows[i] # k
      PROVE  \E j \in n + 1..Len(all) : all[j] = k
  <2>1. PICK j \in 1..Len(all) : all[j] = k
    BY <1>1
  <2>2. ~(j \in 1..n)
    BY <1>5, <1>8, <2>1
  <2>3. j \in n + 1..Len(all)
    BY <1>1, <1>2, <2>1, <2>2
  <2> QED BY <2>1, <2>3
<1>9. ASSUME NEW k \in wanted, \A i \in DOMAIN rows : rows[i] # k, NEW i \in DOMAIN rows
      PROVE  B!Precedes(rows[i], k)
  <2>1. PICK j \in n + 1..Len(all) : all[j] = k
    BY <1>8, <1>9
  <2>2. i \in DOMAIN all /\ j \in DOMAIN all /\ i < j
    BY <1>1, <1>2, <1>5, <2>1
  <2> QED BY <1>1, <1>5, <2>1, <2>2
<1>10. ASSUME name = "getPrefix", NEW i \in DOMAIN rows, NEW j \in DOMAIN rows,
              B!Behind(rows[i], start) = B!Behind(rows[j], start)
       PROVE  i = j
  <2>1. rows[i] = rows[j]
    <3>1. rows[i] \in Seq(Nat) /\ rows[j] \in Seq(Nat) /\ B!StartsWith(rows[i], start) /\ B!StartsWith(rows[j], start)
      BY <1>5, <1>6, <1>10 DEF Wanted
    <3> DEFINE x == rows[i]
               y == rows[j]
    <3> HIDE DEF x, y
    <3> QED BY <1>10, <3>1, PrefixAndRest
  <2> QED BY <1>5, <1>7, <2>1, PrecedesOrders
<1>11. ASSUME said'.complete, NEW k \in wanted, \A i \in DOMAIN rows : rows[i] # k
       PROVE  n = B!Count(limit) \/ (name = "seekUntil" /\ n > 0 /\ rows[n] = end)
  <2>1. n = m
    BY <1>4, <1>11
  <2>2. PICK j \in n + 1..Len(all) : all[j] = k
    BY <1>8, <1>11
  <2>3. m < Len(all) /\ ~(\A i \in m + 1..Len(all) : all[i] \notin wanted)
    BY <1>1, <1>2, <2>1, <2>2
  <2> QED BY <1>2, <1>5, <2>1, <2>3 DEF all
<1>12. B!Stored' = B!Stored
  BY <1>3 DEF B!Stored
<1> DEFINE wanted2 == CASE name \in {"seek", "seekUntil"} -> {k \in B!Stored' : ~B!Precedes(k, start)}
                       [] name = "seekRange" -> {k \in B!Stored' : ~B!Precedes(k, start) /\ ~B!Precedes(end, k)}
                       [] OTHER -> {k \in B!Stored' : B!StartsWith(k, start)}
<1>13. wanted2 = wanted
  BY <1>12 DEF Wanted
<1> HIDE DEF wanted, wanted2
<1>14. \A k \in B!Left' : \A i \in DOMAIN rows : rows[i] # k
  BY <1>4 DEF B!Left, B!Range, rows
<1>15. B!Range(rows) \subseteq wanted
  BY <1>6 DEF B!Range
<1>16. name = "getPrefix" => B!IsInjective([i \in DOMAIN rows |-> B!Behind(rows[i], start)])
  BY <1>10 DEF B!IsInjective
<1>17. \A k \in wanted \cap B!Left', i \in DOMAIN rows : B!Precedes(rows[i], k)
  BY <1>9, <1>14
<1>18. said'.complete /\ wanted \cap B!Left' # {} =>
         \/ Len(rows) = B!Count(limit)
         \/ name = "seekUntil" /\ rows # <<>> /\ B!Last(rows) = end
  <2> SUFFICES ASSUME said'.complete, wanted \cap B!Left' # {}
               PROVE  n = B!Count(limit) \/ (name = "seekUntil" /\ rows # <<>> /\ B!Last(rows) = end)
    BY <1>5
  <2>1. n = B!Count(limit) \/ (name = "seekUntil" /\ n > 0 /\ rows[n] = end)
    BY <1>11, <1>14
  <2> QED BY <1>5, <2>1 DEF B!Last
<1>19. said'.rows = rows
  BY <1>4 DEF rows
<1> QED BY <1>3, <1>7, <1>13, <1>15, <1>16, <1>17, <1>18, <1>19 DEF B!RowsAreAll, wanted2
-----------------------------------------------------------------------------
LEMMA AllOrdered ==
  ASSUME TableTyped, NEW start
  PROVE  /\ B!From(start) \in Seq(Seq(Nat)) /\ Len(B!From(start)) \in Nat
         /\ \A i \in 1..Len(B!From(start)) : B!From(start)[i] \in Kept(start) /\ B!From(start)[i] \in Seq(Nat)
         /\ \A i, j \in 1..Len(B!From(start)) : i < j => B!Precedes(B!From(start)[i], B!From(start)[j])
<1> DEFINE all == B!From(start)
<1>1. /\ all \in Seq(Kept(start)) /\ all \in Seq(Seq(Nat)) /\ DOMAIN all = 1..Len(all) /\ Len(all) \in Nat
      /\ \A i, j \in DOMAIN all : i < j => B!Precedes(all[i], all[j])
  BY Iterates DEF TableTyped
<1> HIDE DEF all
<1>2. \A i \in 1..Len(all) : all[i] \in Kept(start)
  BY <1>1
<1>3. \A i \in 1..Len(all) : all[i] \in Seq(Nat)
  BY <1>1
<1> QED BY <1>1, <1>2, <1>3 DEF all

\* Each reading is one of these.
LEMMA SeekReads ==
  ASSUME TableTyped, NEW start \in Texts, NEW limit \in Limits, B!Seek(start, limit)
  PROVE  B!RowsAreAll'
<1>1. start \in Seq(Nat) /\ limit \in Nat
  BY TableAssumption
<1>2. PICK m \in 0..Len(B!From(start)) :
        /\ B!AtMost(B!From(start), limit) = SubSeq(B!From(start), 1, m)
        /\ m < Len(B!From(start)) => m = B!Count(limit)
  BY <1>1, AllOrdered, AtMostRows
<1>3. Wanted("seek", start, start) = Kept(start)
  BY DEF Wanted, Kept
<1>4. B!Reads(B!Reading("seek", start, start, limit), SubSeq(B!From(start), 1, m))
  BY <1>2 DEF B!Seek
<1>5. \A i \in 1..m : B!From(start)[i] \in Kept(start)
  BY AllOrdered
<1> QED BY <1>1, <1>2, <1>3, <1>4, <1>5, ReadsAll DEF Readings

LEMMA SeekUntilReads ==
  ASSUME TableTyped, NEW start \in Texts, NEW last, NEW limit \in Limits, B!SeekUntil(start, last, limit)
  PROVE  B!RowsAreAll'
<1> DEFINE all == B!From(start)
           rows == B!AtMost(all, limit)
           m == B!Cardinality({i \in DOMAIN rows : \A j \in 1..i - 1 : rows[j] # last})
<1>1. start \in Seq(Nat) /\ limit \in Nat
  BY TableAssumption
<1>2. all \in Seq(Seq(Nat)) /\ Len(all) \in Nat
  BY AllOrdered
<1> HIDE DEF all
<1>3. PICK n \in 0..Len(all) : rows = SubSeq(all, 1, n) /\ (n < Len(all) => n = B!Count(limit))
  BY <1>1, <1>2, AtMostRows
<1>4. rows \in Seq(Seq(Nat)) /\ Len(rows) = n /\ (\A i \in 1..n : rows[i] = all[i])
  BY <1>2, <1>3, FirstRows
<1>5. m \in 0..Len(rows) /\ (m < Len(rows) => m > 0 /\ rows[m] = last)
  BY <1>4, RowsUntil
<1>6. B!Reads(B!Reading("seekUntil", start, last, limit), SubSeq(rows, 1, m))
  BY DEF B!SeekUntil, all
<1> HIDE DEF rows, m
<1>7. m \in 0..n /\ m \in 0..Len(all)
  BY <1>2, <1>3, <1>4, <1>5
<1>8. SubSeq(rows, 1, m) = SubSeq(all, 1, m)
  BY <1>2, <1>3, <1>7, FirstRows
<1>9. m < Len(all) => m = B!Count(limit) \/ (m > 0 /\ all[m] = last)
  BY <1>2, <1>3, <1>4, <1>5, <1>7
<1>10. Wanted("seekUntil", start, last) = Kept(start)
  BY DEF Wanted, Kept
<1>11. \A i \in 1..m : all[i] \in Kept(start)
  BY <1>2, <1>7, AllOrdered DEF all
<1>12. "seekUntil" \in Readings
  BY DEF Readings
<1>13. B!Reads(B!Reading("seekUntil", start, last, limit), SubSeq(all, 1, m))
  BY <1>6, <1>8
<1>14. /\ Wanted("seekUntil", start, last) \subseteq Kept(start)
       /\ \A i \in 1..m : all[i] \in Wanted("seekUntil", start, last)
  BY <1>10, <1>11
<1>15. m < Len(all) => \/ m = B!Count(limit)
                       \/ "seekUntil" = "seekUntil" /\ m > 0 /\ all[m] = last
                       \/ \A i \in m + 1..Len(all) : all[i] \notin Wanted("seekUntil", start, last)
  BY <1>9
<1> QED BY <1>1, <1>7, <1>12, <1>13, <1>14, <1>15, ReadsAll DEF all

LEMMA SeekRangeReads ==
  ASSUME TableTyped, NEW start \in Texts, NEW end \in Texts, B!SeekRange(start, end)
  PROVE  B!RowsAreAll'
<1> DEFINE all == B!From(start)
           upTo == {k \in B!Stored : ~B!Precedes(end, k)}
           wanted == Wanted("seekRange", start, end)
<1>1. start \in Seq(Nat) /\ end \in Seq(Nat)
  BY TableAssumption
<1>2. /\ all \in Seq(Seq(Nat)) /\ Len(all) \in Nat
      /\ \A i \in 1..Len(all) : all[i] \in Kept(start) /\ all[i] \in Seq(Nat)
      /\ \A i, j \in 1..Len(all) : i < j => B!Precedes(all[i], all[j])
  BY AllOrdered
<1> HIDE DEF all
<1>3. PICK m \in 0..Len(all) : /\ B!Leading(all, upTo) = SubSeq(all, 1, m)
                               /\ \A i \in 1..m : all[i] \in upTo
                               /\ m < Len(all) => all[m + 1] \notin upTo
  BY <1>2, LeadingRows
<1>4. wanted = Kept(start) \cap upTo
  BY DEF Wanted, Kept
<1>5. \A i \in 1..m : all[i] \in wanted
  BY <1>2, <1>3, <1>4
<1>6. ASSUME m < Len(all), NEW i \in m + 1..Len(all) PROVE all[i] \notin wanted
  <2>1. m + 1 \in 1..Len(all) /\ i \in 1..Len(all)
    BY <1>2, <1>6
  <2>2. B!Precedes(end, all[m + 1])
    BY <1>2, <1>3, <1>6, <2>1 DEF Kept
  <2>3. i = m + 1 \/ B!Precedes(all[m + 1], all[i])
    BY <1>2, <2>1
  <2>4. B!Precedes(end, all[i])
    BY <1>1, <1>2, <2>1, <2>2, <2>3, PrecedesOrders
  <2> QED BY <1>4, <2>4
<1>7. B!Reads(B!Reading("seekRange", start, end, 0), SubSeq(all, 1, m))
  BY <1>3 DEF B!SeekRange, all
<1> QED BY <1>1, <1>4, <1>5, <1>6, <1>7, ReadsAll DEF Readings, all

\* The rows of a prefix end where its keys end.
LEMMA PrefixRowsAre ==
  ASSUME TableTyped, NEW p \in Seq(Nat), NEW name \in {"seekPrefix", "getPrefix", "open"}
  PROVE  /\ Wanted(name, p, p) \subseteq Kept(p)
         /\ \E m \in 0..Len(B!From(p)) :
              /\ B!PrefixRows(p) = SubSeq(B!From(p), 1, m)
              /\ \A i \in 1..m : B!From(p)[i] \in Wanted(name, p, p)
              /\ \A i \in m + 1..Len(B!From(p)) : B!From(p)[i] \notin Wanted(name, p, p)
<1> DEFINE all == B!From(p)
           wanted == {k \in B!Stored : B!StartsWith(k, p)}
<1>1. Wanted(name, p, p) = wanted
  BY DEF Wanted
<1>2. wanted \subseteq Kept(p)
  BY PrefixStandsTogether DEF TableTyped, Kept
<1>3. /\ all \in Seq(Seq(Nat)) /\ Len(all) \in Nat
      /\ \A i \in 1..Len(all) : all[i] \in Kept(p) /\ all[i] \in Seq(Nat)
      /\ \A i, j \in 1..Len(all) : i < j => B!Precedes(all[i], all[j])
  BY AllOrdered
<1> HIDE DEF all
<1>4. PICK m \in 0..Len(all) : /\ B!Leading(all, wanted) = SubSeq(all, 1, m)
                               /\ \A i \in 1..m : all[i] \in wanted
                               /\ m < Len(all) => all[m + 1] \notin wanted
  BY <1>3, LeadingRows
<1>5. ASSUME NEW i \in m + 1..Len(all), all[i] \in wanted PROVE FALSE
  <2>1. m + 1 \in 1..Len(all) /\ i \in 1..Len(all) /\ m < Len(all)
    BY <1>3, <1>5
  <2>2. i = m + 1 \/ B!Precedes(all[m + 1], all[i])
    BY <1>3, <2>1
  <2>3. all[m + 1] \in Kept(p) /\ all[m + 1] \in Seq(Nat) /\ all[i] \in Seq(Nat)
    BY <1>3, <2>1
  <2>4. B!StartsWith(all[m + 1], p)
    BY <1>5, <2>2, <2>3, PrefixStandsTogether DEF Kept
  <2>5. all[m + 1] \in wanted
    BY <2>3, <2>4 DEF Kept
  <2> QED BY <1>4, <2>1, <2>5
<1>6. B!PrefixRows(p) = SubSeq(all, 1, m)
  BY <1>4 DEF B!PrefixRows, all
<1> QED BY <1>1, <1>2, <1>4, <1>5, <1>6 DEF all

LEMMA SeekPrefixReads ==
  ASSUME TableTyped, NEW limit \in Limits, B!SeekPrefix(DbPrefix, limit)
  PROVE  B!RowsAreAll'
<1> DEFINE p == DbPrefix
           all == B!From(p)
           wanted == Wanted("seekPrefix", p, p)
<1>1. p \in Seq(Nat) /\ limit \in Nat /\ all \in Seq(Seq(Nat)) /\ Len(all) \in Nat
  BY TableAssumption, AllOrdered
<1>2. PICK n \in 0..Len(all) : /\ B!PrefixRows(p) = SubSeq(all, 1, n)
                               /\ \A i \in 1..n : all[i] \in wanted
                               /\ \A i \in n + 1..Len(all) : all[i] \notin wanted
  BY <1>1, PrefixRowsAre
<1>3. wanted \subseteq Kept(p)
  BY <1>1, PrefixRowsAre
<1> HIDE DEF all, p
<1>4. SubSeq(all, 1, n) \in Seq(Seq(Nat)) /\ Len(SubSeq(all, 1, n)) = n
  BY <1>1, <1>2, FirstRows
<1>5. PICK m \in 0..n : /\ B!AtMost(SubSeq(all, 1, n), limit) = SubSeq(SubSeq(all, 1, n), 1, m)
                        /\ m < n => m = B!Count(limit)
  BY <1>1, <1>4, AtMostRows
<1>6. SubSeq(SubSeq(all, 1, n), 1, m) = SubSeq(all, 1, m) /\ m \in 0..Len(all)
  BY <1>1, <1>2, <1>5, FirstRows
<1>7. B!Reads(B!Reading("seekPrefix", p, p, limit), SubSeq(all, 1, m))
  BY <1>2, <1>5, <1>6 DEF B!SeekPrefix, p
<1>8. \A i \in 1..m : all[i] \in wanted
  BY <1>1, <1>2, <1>5
<1>9. m < Len(all) => m = B!Count(limit) \/ \A i \in m + 1..Len(all) : all[i] \notin wanted
  BY <1>1, <1>2, <1>5
<1> QED BY <1>1, <1>3, <1>6, <1>7, <1>8, <1>9, ReadsAll DEF Readings, all

LEMMA PrefixReads ==
  ASSUME TableTyped, NEW name \in {"getPrefix", "open"},
         B!Reads(B!Reading(name, DbPrefix, DbPrefix, 0), B!PrefixRows(DbPrefix))
  PROVE  B!RowsAreAll'
<1> DEFINE p == DbPrefix
           all == B!From(p)
           wanted == Wanted(name, p, p)
<1>1. p \in Seq(Nat)
  BY TableAssumption
<1>2. PICK n \in 0..Len(all) : /\ B!PrefixRows(p) = SubSeq(all, 1, n)
                               /\ \A i \in 1..n : all[i] \in wanted
                               /\ \A i \in n + 1..Len(all) : all[i] \notin wanted
  BY <1>1, PrefixRowsAre
<1>3. wanted \subseteq Kept(p)
  BY <1>1, PrefixRowsAre
<1>4. B!Reads(B!Reading(name, p, p, 0), SubSeq(all, 1, n))
  BY <1>2
<1> HIDE DEF p
<1> QED BY <1>1, <1>2, <1>3, <1>4, ReadsAll DEF Readings
-----------------------------------------------------------------------------
Ids == 0..IdSpace - 1

\* One more digit.
Written(f, id) == IF id < 10 THEN <<id>> ELSE Append(f[id \div 10], id % 10)

\* A number and its last digit.
LEMMA Tens ==
  ASSUME NEW id \in Nat, id >= 10
  PROVE  id \div 10 \in 0..id - 1 /\ id % 10 \in 0..9 /\ (id \div 10) * 10 + (id % 10) = id
OBVIOUS

\* std::to_string: there are texts of all numbers up to any one.
LEMMA TextsExist ==
  \A n \in Nat : \E f \in [0..n -> Seq(Nat)] : \A id \in 0..n : f[id] = Written(f, id)
<1> DEFINE Have(n) == \E f \in [0..n -> Seq(Nat)] : \A id \in 0..n : f[id] = Written(f, id)
           D == {n \in Nat : ~Have(n)}
<1> SUFFICES ASSUME D # {} PROVE FALSE
  OBVIOUS
<1>1. PICK n \in D : \A k \in D : n <= k
  <2>1. D \in SUBSET Nat
    OBVIOUS
  <2> HIDE DEF D
  <2> QED BY <2>1, Smallest
<1>2. n \in Nat /\ ~Have(n) /\ \A k \in 0..n - 1 : Have(k)
  <2>1. \A k \in 0..n - 1 : k \in Nat /\ k \notin D
    <3>1. D \in SUBSET Nat
      OBVIOUS
    <3> HIDE DEF D
    <3> QED BY <1>1, <3>1
  <2> HIDE DEF Have
  <2> QED BY <1>1, <2>1
<1>3. CASE n = 0
  <2> DEFINE f == [id \in 0..0 |-> <<0>>]
  <2>1. f \in [0..0 -> Seq(Nat)] /\ \A id \in 0..0 : f[id] = Written(f, id)
    BY DEF Written
  <2> HIDE DEF f
  <2> QED BY <1>2, <1>3, <2>1
<1>4. CASE n # 0
  <2>1. n - 1 \in 0..n - 1
    BY <1>2, <1>4
  <2>2. PICK f \in [0..n - 1 -> Seq(Nat)] : \A id \in 0..n - 1 : f[id] = Written(f, id)
    BY <1>2, <2>1
  <2> DEFINE g == [id \in 0..n |-> IF id = n THEN Written(f, n) ELSE f[id]]
  <2>3. Written(f, n) \in Seq(Nat)
    <3>1. CASE n < 10
      BY <1>2, <3>1 DEF Written
    <3>2. CASE n >= 10
      <4>1. f[n \div 10] \in Seq(Nat) /\ n % 10 \in Nat
        BY <1>2, <3>2, Tens
      <4> QED BY <1>2, <3>2, <4>1 DEF Written
    <3> QED BY <1>2, <3>1, <3>2
  <2>4. g \in [0..n -> Seq(Nat)]
    BY <1>2, <2>3
  <2>5. \A id \in 0..n - 1 : g[id] = f[id]
    BY <1>2
  <2>6. ASSUME NEW id \in 0..n PROVE Written(g, id) = Written(f, id)
    <3>1. id >= 10 => id \div 10 \in 0..n - 1
      BY <1>2, Tens
    <3> HIDE DEF g
    <3> QED BY <2>5, <3>1 DEF Written
  <2>7. g[n] = Written(f, n)
    BY <1>2
  <2> HIDE DEF g
  <2>8. \A id \in 0..n : g[id] = Written(g, id)
    <3> SUFFICES ASSUME NEW id \in 0..n PROVE g[id] = Written(f, id)
      BY <2>6
    <3>1. id = n \/ id \in 0..n - 1
      BY <1>2
    <3> QED BY <2>2, <2>5, <2>7, <3>1
  <2> QED BY <1>2, <2>4, <2>8
<1> QED BY <1>3, <1>4

\* The text of an id is digits, one at least.
LEMMA TextOfId ==
  ASSUME NEW id \in Ids
  PROVE  /\ B!ToText[id] = Written(B!ToText, id)
         /\ B!ToText[id] \in Seq(0..9) \ {<<>>}
<1>1. IdSpace - 1 \in Nat
  BY TableAssumption
<1>2. B!ToText = [k \in Ids |-> Written(B!ToText, k)]
  <2>1. PICK f \in [0..IdSpace - 1 -> Seq(Nat)] : \A k \in 0..IdSpace - 1 : f[k] = Written(f, k)
    BY <1>1, TextsExist
  <2>2. f = [k \in 0..IdSpace - 1 |-> IF k < 10 THEN <<k>> ELSE Append(f[k \div 10], k % 10)]
    BY <2>1 DEF Written
  <2> QED BY <2>2, Zenon DEF B!ToText, Ids, Written
<1> DEFINE D == {k \in Ids : B!ToText[k] \notin Seq(0..9) \ {<<>>}}
<1>3. ASSUME D # {} PROVE FALSE
  <2>1. PICK n \in D : \A k \in D : n <= k
    <3>1. D \in SUBSET Nat
      BY DEF Ids
    <3> HIDE DEF D
    <3> QED BY <1>3, <3>1, Smallest
  <2>2. n \in Nat /\ n \in Ids /\ B!ToText[n] \notin Seq(0..9) \ {<<>>}
    BY <2>1 DEF Ids
  <2>5. B!ToText[n] = Written(B!ToText, n)
    BY <1>2, <2>2, Zenon
  <2>3. CASE n < 10
    BY <2>2, <2>3, <2>5 DEF Written
  <2>4. CASE n >= 10
    <3>1. n \div 10 \in Ids /\ n \div 10 < n /\ n % 10 \in 0..9
      <4>1. n \div 10 \in 0..n - 1 /\ n % 10 \in 0..9
        BY <2>2, <2>4, Tens
      <4>2. n <= IdSpace - 1 /\ IdSpace \in Nat
        BY <2>2, TableAssumption DEF Ids
      <4> HIDE DEF D
      <4> QED BY <2>2, <4>1, <4>2 DEF Ids
    <3>2. B!ToText[n \div 10] \in Seq(0..9)
      BY <2>1, <3>1 DEF Ids
    <3>3. Append(B!ToText[n \div 10], n % 10) \in Seq(0..9) \ {<<>>}
      BY <3>1, <3>2
    <3> QED BY <2>2, <2>4, <2>5, <3>3 DEF Written
  <2> QED BY <2>2, <2>3, <2>4
<1>4. B!ToText[id] \in Seq(0..9) \ {<<>>}
  BY <1>3
<1> QED BY <1>2, <1>4
-----------------------------------------------------------------------------
\* The number that the digits up to a place make.
Counts(v, s, i) == IF i = 0 THEN 0 ELSE v[i - 1] * 10 + s[i]

\* There are numbers that the digits of a text make.
LEMMA CountsExist ==
  ASSUME NEW s \in Seq(Nat)
  PROVE  \A n \in 0..Len(s) : \E v \in [0..n -> Nat] : \A i \in 0..n : v[i] = Counts(v, s, i)
<1> DEFINE Have(n) == \E v \in [0..n -> Nat] : \A i \in 0..n : v[i] = Counts(v, s, i)
           D == {n \in 0..Len(s) : ~Have(n)}
<1> SUFFICES ASSUME D # {} PROVE FALSE
  OBVIOUS
<1>1. PICK n \in D : \A k \in D : n <= k
  <2>1. D \in SUBSET Nat
    OBVIOUS
  <2> HIDE DEF D
  <2> QED BY <2>1, Smallest
<1>2. n \in Nat /\ n <= Len(s) /\ Len(s) \in Nat /\ ~Have(n) /\ \A k \in 0..n - 1 : Have(k)
  <2>1. \A k \in 0..n - 1 : k \in 0..Len(s) /\ k \notin D
    <3>1. D \in SUBSET (0..Len(s)) /\ Len(s) \in Nat
      OBVIOUS
    <3> HIDE DEF D
    <3> QED BY <1>1, <3>1
  <2> HIDE DEF Have
  <2> QED BY <1>1, <2>1
<1>3. CASE n = 0
  <2> DEFINE v == [i \in 0..0 |-> 0]
  <2>1. v \in [0..0 -> Nat] /\ \A i \in 0..0 : v[i] = Counts(v, s, i)
    BY DEF Counts
  <2> HIDE DEF v
  <2> QED BY <1>2, <1>3, <2>1
<1>4. CASE n # 0
  <2>1. n - 1 \in 0..n - 1
    BY <1>2, <1>4
  <2>2. PICK v \in [0..n - 1 -> Nat] : \A i \in 0..n - 1 : v[i] = Counts(v, s, i)
    BY <1>2, <2>1
  <2> DEFINE w == [i \in 0..n |-> IF i = n THEN v[n - 1] * 10 + s[n] ELSE v[i]]
  <2>3. s[n] \in Nat /\ v[n - 1] \in Nat
    BY <1>2, <1>4, <2>1
  <2>4. w \in [0..n -> Nat]
    BY <1>2, <2>3
  <2>5. (\A i \in 0..n - 1 : w[i] = v[i]) /\ w[n] = v[n - 1] * 10 + s[n]
    BY <1>2
  <2> HIDE DEF w
  <2>6. \A i \in 0..n : w[i] = Counts(w, s, i)
    <3> SUFFICES ASSUME NEW i \in 0..n PROVE w[i] = Counts(w, s, i)
      OBVIOUS
    <3>1. CASE i = n
      BY <1>4, <2>1, <2>5, <3>1 DEF Counts
    <3>2. CASE i # n
      <4>1. i \in 0..n - 1 /\ (i # 0 => i - 1 \in 0..n - 1)
        BY <1>2, <3>2
      <4> QED BY <2>2, <2>5, <4>1 DEF Counts
    <3> QED BY <3>1, <3>2
  <2> QED BY <1>2, <2>4, <2>6
<1> QED BY <1>3, <1>4

LEMMA ValueCounts ==
  ASSUME NEW s \in Seq(Nat)
  PROVE  \E v \in [0..Len(s) -> Nat] : /\ \A i \in 0..Len(s) : v[i] = Counts(v, s, i)
                                       /\ B!Value(s) = v[Len(s)]
<1> DEFINE up == CHOOSE upTo : upTo = [i \in 0..Len(s) |-> IF i = 0 THEN 0 ELSE upTo[i - 1] * 10 + s[i]]
<1>1. B!Value(s) = up[Len(s)]
  BY Zenon DEF B!Value
<1>2. Len(s) \in 0..Len(s)
  OBVIOUS
<1>3. PICK v \in [0..Len(s) -> Nat] : \A i \in 0..Len(s) : v[i] = Counts(v, s, i)
  BY <1>2, CountsExist
<1>4. v = [i \in 0..Len(s) |-> IF i = 0 THEN 0 ELSE v[i - 1] * 10 + s[i]]
  BY <1>3 DEF Counts
<1>5. up = [i \in 0..Len(s) |-> IF i = 0 THEN 0 ELSE up[i - 1] * 10 + s[i]]
  BY <1>4, Zenon
<1> HIDE DEF up
<1>6. \A i \in 0..Len(s) : up[i] = Counts(up, s, i)
  BY <1>5, Zenon DEF Counts
<1> DEFINE D == {i \in 0..Len(s) : up[i] \notin Nat}
<1>7. ASSUME D # {} PROVE FALSE
  <2>1. PICK n \in D : \A k \in D : n <= k
    <3>1. D \in SUBSET Nat
      OBVIOUS
    <3> HIDE DEF D
    <3> QED BY <1>7, <3>1, Smallest
  <2>2. n = 0 \/ (n - 1 \in 0..Len(s) /\ n - 1 \notin D /\ s[n] \in Nat)
    BY <2>1
  <2> QED BY <1>6, <2>1, <2>2 DEF Counts
<1>8. up \in [0..Len(s) -> Nat]
  <2>1. \A i \in 0..Len(s) : up[i] \in Nat
    BY <1>7
  <2>2. DOMAIN up = 0..Len(s) /\ up = [i \in 0..Len(s) |-> up[i]]
    BY <1>5
  <2> QED BY <2>1, <2>2
<1> QED BY <1>1, <1>6, <1>8

LEMMA EmptyValue == B!Value(<<>>) = 0
<1>1. <<>> \in Seq(Nat) /\ Len(<<>>) = 0
  OBVIOUS
<1>2. PICK v \in [0..Len(<<>>) -> Nat] : (\A i \in 0..Len(<<>>) : v[i] = Counts(v, <<>>, i)) /\ B!Value(<<>>) = v[Len(<<>>)]
  BY <1>1, ValueCounts
<1> QED BY <1>1, <1>2 DEF Counts

\* One more digit makes ten times the number and the digit.
LEMMA AppendedValue ==
  ASSUME NEW s \in Seq(Nat), NEW d \in Nat
  PROVE  B!Value(Append(s, d)) = B!Value(s) * 10 + d
<1> DEFINE t == Append(s, d)
           n == Len(s)
<1>1. t \in Seq(Nat) /\ Len(t) = n + 1 /\ n \in Nat /\ t[n + 1] = d /\ \A i \in 1..n : t[i] = s[i]
  OBVIOUS
<1> HIDE DEF t
<1>2. PICK v \in [0..n -> Nat] : (\A i \in 0..n : v[i] = Counts(v, s, i)) /\ B!Value(s) = v[n]
  BY ValueCounts
<1>3. PICK w \in [0..n + 1 -> Nat] : (\A i \in 0..n + 1 : w[i] = Counts(w, t, i)) /\ B!Value(t) = w[n + 1]
  BY <1>1, ValueCounts
<1> HIDE DEF n
<1> DEFINE D == {i \in 0..n : v[i] # w[i]}
<1>4. ASSUME D # {} PROVE FALSE
  <2>1. PICK m \in D : \A k \in D : m <= k
    <3>1. D \in SUBSET Nat
      OBVIOUS
    <3> HIDE DEF D
    <3> QED BY <1>4, <3>1, Smallest
  <2>2. m = 0 \/ (m - 1 \in 0..n /\ m - 1 \notin D /\ t[m] = s[m])
    BY <1>1, <2>1
  <2>3. m \in 0..n /\ m \in 0..n + 1 /\ v[m] # w[m]
    BY <1>1, <2>1
  <2> QED BY <1>2, <1>3, <2>2, <2>3 DEF Counts
<1>5. v[n] = w[n]
  <2>1. n \notin D
    <3> HIDE DEF D
    <3> QED BY <1>4
  <2>2. n \in 0..n
    BY <1>1
  <2> QED BY <2>1, <2>2
<1>6. w[n + 1] = w[n] * 10 + d
  <2>1. n + 1 \in 0..n + 1 /\ n + 1 # 0 /\ n + 1 - 1 = n
    BY <1>1
  <2> QED BY <1>1, <1>3, <2>1 DEF Counts
<1> QED BY <1>2, <1>3, <1>5, <1>6 DEF t
-----------------------------------------------------------------------------
\* An id is the number that its digits make.
LEMMA TextHasValue ==
  ASSUME NEW id \in Ids
  PROVE  B!Value(B!ToText[id]) = id
<1> DEFINE D == {k \in Ids : B!Value(B!ToText[k]) # k}
<1> SUFFICES ASSUME D # {} PROVE FALSE
  OBVIOUS
<1>1. PICK n \in D : \A k \in D : n <= k
  <2>1. D \in SUBSET Nat
    BY DEF Ids
  <2> HIDE DEF D
  <2> QED BY <2>1, Smallest
<1>2. n \in Nat /\ n \in Ids /\ B!Value(B!ToText[n]) # n
  BY DEF Ids
<1>3. B!ToText[n] = Written(B!ToText, n)
  BY <1>2, TextOfId
<1>4. CASE n < 10
  <2>1. <<>> \in Seq(Nat) /\ Append(<<>>, n) = <<n>>
    BY <1>2
  <2>2. B!Value(<<n>>) = 0 * 10 + n
    BY <1>2, <2>1, EmptyValue, AppendedValue
  <2> QED BY <1>2, <1>3, <1>4, <2>2 DEF Written
<1>5. CASE n >= 10
  <2> DEFINE q == n \div 10
             r == n % 10
  <2>1. q \in 0..n - 1 /\ r \in 0..9 /\ q * 10 + r = n
    BY <1>2, <1>5, Tens
  <2> HIDE DEF q, r
  <2>2. q \in Ids
    BY <1>2, <2>1, TableAssumption DEF Ids
  <2>3. B!ToText[q] \in Seq(Nat)
    <3>1. B!ToText[q] \in Seq(0..9) /\ 0..9 \subseteq Nat
      BY <2>2, TextOfId
    <3> QED BY <3>1, SeqMonotonic
  <2>4. B!Value(B!ToText[q]) = q
    <3>1. q \notin D
      <4>1. ~(n <= q)
        BY <1>2, <2>1
      <4> HIDE DEF D
      <4> QED BY <1>1, <4>1
    <3> QED BY <2>2, <3>1
  <2>5. B!Value(Append(B!ToText[q], r)) = n
    <3>1. r \in Nat
      BY <2>1
    <3>2. B!Value(Append(B!ToText[q], r)) = B!Value(B!ToText[q]) * 10 + r
      BY <2>3, <3>1, AppendedValue
    <3> QED BY <2>1, <2>4, <3>2
  <2>6. B!ToText[n] = Append(B!ToText[q], r)
    BY <1>2, <1>3, <1>5 DEF Written, q, r
  <2> QED BY <1>2, <2>5, <2>6
<1> QED BY <1>2, <1>4, <1>5

\* The key of an id is the prefix and its digits.
LEMMA KeyIsText ==
  ASSUME NEW id \in Ids
  PROVE  /\ B!KeyOf(id) \in Seq(Nat)
         /\ B!StartsWith(B!KeyOf(id), DbPrefix)
         /\ B!Behind(B!KeyOf(id), DbPrefix) = B!ToText[id]
<1> DEFINE p == DbPrefix
           t == B!ToText[id]
           k == p \o t
<1>1. p \in Seq(Nat) /\ t \in Seq(Nat)
  <2>1. t \in Seq(0..9) /\ 0..9 \subseteq Nat
    BY TextOfId
  <2> QED BY <2>1, TableAssumption, SeqMonotonic
<1> HIDE DEF p, t
<1>2. /\ k \in Seq(Nat) /\ Len(k) = Len(p) + Len(t) /\ Len(p) \in Nat /\ Len(t) \in Nat
      /\ (\A i \in 1..Len(p) : k[i] = p[i]) /\ \A i \in 1..Len(t) : k[Len(p) + i] = t[i]
  BY <1>1
<1> HIDE DEF k
<1>3. SubSeq(k, 1, Len(p)) = p
  <2>1. SubSeq(k, 1, Len(p)) \in Seq(Nat) /\ Len(SubSeq(k, 1, Len(p))) = Len(p)
        /\ \A i \in 1..Len(p) : SubSeq(k, 1, Len(p))[i] = k[i]
    BY <1>2
  <2> QED BY <1>1, <1>2, <2>1, SeqEqual
<1>4. SubSeq(k, Len(p) + 1, Len(k)) = t
  <2> DEFINE u == SubSeq(k, Len(p) + 1, Len(k))
  <2>1. u \in Seq(Nat) /\ Len(u) = Len(t) /\ \A i \in 1..Len(t) : u[i] = k[Len(p) + i]
    BY <1>2
  <2> HIDE DEF u
  <2>2. u = t
    BY <1>1, <1>2, <2>1, SeqEqual
  <2> QED BY <2>2 DEF u
<1>5. B!KeyOf(id) = k
  BY DEF B!KeyOf, k, p, t
<1> QED BY <1>2, <1>3, <1>4, <1>5 DEF B!StartsWith, B!Behind, p, t

\* std::stoul gives the id back.
LEMMA IdIsReadBack ==
  ASSUME NEW id \in Ids
  PROVE  /\ B!Digits(B!Behind(B!KeyOf(id), DbPrefix)) # <<>>
         /\ B!IdOf(B!Behind(B!KeyOf(id), DbPrefix)) = id
<1> DEFINE t == B!ToText[id]
           I == {i \in DOMAIN t : \A j \in 1..i : t[j] < 10}
<1>1. t \in Seq(0..9) \ {<<>>}
  BY TextOfId
<1>2. B!Value(t) = id
  BY TextHasValue
<1> HIDE DEF t
<1>3. I = 1..Len(t) /\ Len(t) \in Nat
  BY <1>1
<1>4. B!Cardinality(I) = Len(t)
  <2>1. 1 \in Int /\ Len(t) \in Int /\ Len(t) >= 0
    BY <1>3
  <2>2. Cardinality(1..Len(t)) = Len(t)
    BY <2>1, FS_Interval
  <2> QED BY <1>3, <2>2, SameCardinality
<1>5. B!Digits(t) = t
  <2>1. B!Digits(t) = SubSeq(t, 1, Len(t))
    BY <1>4 DEF B!Digits
  <2> QED BY <1>1, <2>1, SubSeqFull
<1>6. id % IdSpace = id
  BY TableAssumption DEF Ids
<1>7. B!Behind(B!KeyOf(id), DbPrefix) = t
  BY KeyIsText DEF t
<1> QED BY <1>1, <1>2, <1>5, <1>6, <1>7 DEF B!IdOf

\* What open reads are the ids whose keys are in the database.
LEMMA OpenFinds ==
  ASSUME TableTyped, B!Open
  PROVE  B!OpenFindsEveryId'
<1> DEFINE p == DbPrefix
           all == B!From(p)
           wanted == Wanted("open", p, p)
           used == {id \in KeyIds : B!KeyOf(id) \in B!Stored}
           rows == B!PrefixRows(p)
<1>1. p \in Seq(Nat)
  BY TableAssumption
<1>2. PICK m \in 0..Len(all) : /\ rows = SubSeq(all, 1, m)
                               /\ \A i \in 1..m : all[i] \in wanted
                               /\ \A i \in m + 1..Len(all) : all[i] \notin wanted
  BY <1>1, PrefixRowsAre
<1>3. wanted \subseteq Kept(p) /\ wanted = {k \in B!Stored : B!StartsWith(k, p)}
  BY <1>1, PrefixRowsAre DEF Wanted
<1>4. /\ all \in Seq(Seq(Nat)) /\ DOMAIN all = 1..Len(all) /\ Len(all) \in Nat
      /\ \A k \in Kept(p) : \E i \in DOMAIN all : all[i] = k
  BY Iterates DEF TableTyped
<1> HIDE DEF all
<1>5. /\ rows \in Seq(Seq(Nat)) /\ Len(rows) = m /\ DOMAIN rows = 1..m
      /\ \A i \in 1..m : rows[i] = all[i]
  BY <1>2, <1>4, FirstRows
<1> HIDE DEF rows
<1>6. ASSUME NEW k \in wanted PROVE k \in B!Range(rows)
  <2>1. PICK i \in 1..Len(all) : all[i] = k
    BY <1>3, <1>4
  <2>2. i \in 1..m
    BY <1>2, <1>4, <1>6, <2>1
  <2> QED BY <1>5, <2>1, <2>2 DEF B!Range
<1>7. B!Range(rows) \subseteq wanted
  BY <1>2, <1>5 DEF B!Range
<1>8. B!Range(rows) = wanted
  BY <1>6, <1>7
<1> HIDE DEF wanted
<1>9. KeyIds \subseteq Ids
  BY TableAssumption DEF Ids
<1>10. used \subseteq B!ReadIds(rows)
  <2> SUFFICES ASSUME NEW id \in used PROVE id \in B!ReadIds(rows)
    OBVIOUS
  <2>1. B!KeyOf(id) \in B!Range(rows)
    BY <1>3, <1>8, <1>9, KeyIsText
  <2> QED BY <1>9, <2>1, IdIsReadBack DEF B!ReadIds
<1>11. B!Range(rows) \subseteq {B!KeyOf(id) : id \in KeyIds} => B!ReadIds(rows) = used
  <2> SUFFICES ASSUME B!Range(rows) \subseteq {B!KeyOf(id) : id \in KeyIds}, NEW x \in B!ReadIds(rows)
               PROVE  x \in used
    BY <1>10
  <2>1. PICK key \in B!Range(rows) : x = B!IdOf(B!Behind(key, DbPrefix))
    BY DEF B!ReadIds
  <2>2. PICK id \in KeyIds : key = B!KeyOf(id)
    BY <2>1
  <2>3. x = id
    BY <1>9, <2>1, <2>2, IdIsReadBack
  <2> QED BY <1>3, <1>8, <2>1, <2>2, <2>3
<1>12. UNCHANGED table /\ (said'.complete => said'.rows = rows)
  <2>1. /\ UNCHANGED table
        /\ \E n \in 0..Len(rows) : said'.rows = SubSeq(rows, 1, n) /\ (said'.complete => n = Len(rows))
    BY WordRead DEF B!Open, rows
  <2>2. SubSeq(rows, 1, Len(rows)) = rows
    BY <1>5, SubSeqFull
  <2> QED BY <2>1, <2>2
<1>13. B!Stored' = B!Stored
  BY <1>12 DEF B!Stored
<1>14. {id \in KeyIds : B!KeyOf(id) \in B!Stored'} = used
  BY <1>13
<1> HIDE DEF used
<1>15. ASSUME said'.complete
       PROVE  /\ used \subseteq B!ReadIds(said'.rows)
              /\ B!Range(said'.rows) \subseteq {B!KeyOf(id) : id \in KeyIds} => B!ReadIds(said'.rows) = used
  BY <1>10, <1>11, <1>12, <1>15
<1> QED BY <1>14, <1>15 DEF B!OpenFindsEveryId
-----------------------------------------------------------------------------
TableInv == TableTyped /\ B!RowsAreAll /\ B!OpenFindsEveryId /\ B!AnswersAreTrue

\* The database holds finitely many keys.
LEMMA WithTyped ==
  ASSUME TableTyped, NEW t, DOMAIN t \subseteq B!Stored, NEW key \in Seq(Nat), NEW value
  PROVE  /\ DOMAIN B!With(t, key, value) \in SUBSET Seq(Nat) /\ IsFiniteSet(DOMAIN B!With(t, key, value))
         /\ DOMAIN t \in SUBSET Seq(Nat) /\ IsFiniteSet(DOMAIN t)
<1>1. DOMAIN t \in SUBSET Seq(Nat) /\ IsFiniteSet(DOMAIN t)
  BY FS_Subset DEF TableTyped
<1>2. DOMAIN B!With(t, key, value) = DOMAIN t \cup {key}
  BY DEF B!With
<1> QED BY <1>1, <1>2, FS_AddElement

LEMMA WithoutLess ==
  ASSUME NEW key
  PROVE  DOMAIN B!Without(table, key) \subseteq B!Stored
BY DEF B!Without, B!Stored

\* A call that reads no rows.
LEMMA NoRows ==
  ASSUME said'.op \notin Readings PROVE B!RowsAreAll' /\ B!OpenFindsEveryId'
BY DEF B!RowsAreAll, B!OpenFindsEveryId, Readings

LEMMA Silent ==
  ASSUME said'.op \notin Readings \cup {"getStatus", "containsKey"}
  PROVE  B!RowsAreAll' /\ B!OpenFindsEveryId' /\ B!AnswersAreTrue'
BY NoRows DEF B!AnswersAreTrue

\* Calls that write.
LEMMA WriteStep ==
  ASSUME TableInv, NEW key \in Seq(Nat), NEW value,
         \/ B!Put(key, value) \/ B!OverWrite(key, value) \/ B!Del(key)
         \/ \E id \in KeyIds : key = B!KeyOf(id) /\ (B!PutValue(id, value) \/ B!DelValue(id))
  PROVE  TableInv'
<1>1. TableTyped
  BY DEF TableInv
<1>2. said'.op \in {"put", "overWrite", "del", "putValue", "delValue"}
  BY DEF B!Put, B!OverWrite, B!Del, B!PutValue, B!DelValue, B!Says
<1>3. \E t \in {table, B!Without(table, key)} : table' = t \/ table' = B!With(t, key, value)
  <2>1. CASE B!OverWrite(key, value)
    BY <2>1 DEF B!OverWrite
  <2>2. CASE B!Put(key, value) \/ B!Del(key)
    BY <2>2 DEF B!Put, B!Del
  <2>3. CASE \E id \in KeyIds : key = B!KeyOf(id) /\ (B!PutValue(id, value) \/ B!DelValue(id))
    BY <2>3 DEF B!PutValue, B!DelValue
  <2> QED BY <2>1, <2>2, <2>3
<1>4. PICK t \in {table, B!Without(table, key)} : table' = t \/ table' = B!With(t, key, value)
  BY <1>3
<1>5. DOMAIN t \subseteq B!Stored
  BY WithoutLess DEF B!Stored
<1>6. TableTyped'
  BY <1>1, <1>4, <1>5, WithTyped DEF TableTyped, B!Stored
<1>7. said'.op \notin Readings \cup {"getStatus", "containsKey"}
  BY <1>2 DEF Readings
<1> QED BY <1>6, <1>7, Silent DEF TableInv

\* Calls that read one key.
LEMMA AnswerStep ==
  ASSUME TableInv,
         \/ \E key \in Texts : B!Get(key) \/ B!GetStatus(key)
         \/ \E id \in KeyIds : B!GetValue(id) \/ B!ContainsKey(id)
         \/ \E name \in {"put", "get", "del", "putValue", "getValue", "delValue"} : B!Throws(name)
         \/ B!Return
  PROVE  TableInv'
<1>1. table' = table
  BY DEF B!Get, B!GetStatus, B!GetValue, B!ContainsKey, B!Throws, B!Return
<1>2. TableTyped'
  BY <1>1 DEF TableInv, TableTyped, B!Stored
<1>3. CASE \E key \in Texts : B!Get(key)
  <2>1. said'.op = "get"
    BY <1>3 DEF B!Get, B!Says
  <2> QED BY <1>2, <2>1, Silent DEF TableInv, Readings
<1>4. CASE \E id \in KeyIds : B!GetValue(id)
  <2>1. said'.op = "getValue"
    BY <1>4 DEF B!GetValue, B!Says
  <2> QED BY <1>2, <2>1, Silent DEF TableInv, Readings
<1>5. CASE \E name \in {"put", "get", "del", "putValue", "getValue", "delValue"} : B!Throws(name)
  <2>1. said'.op \in {"put", "get", "del", "putValue", "getValue", "delValue"}
    BY <1>5 DEF B!Throws, B!Says
  <2> QED BY <1>2, <2>1, Silent DEF TableInv, Readings
<1>6. CASE B!Return
  <2>1. said'.op = "none"
    BY <1>6 DEF B!Return, B!NoWord
  <2> QED BY <1>2, <2>1, Silent DEF TableInv, Readings
<1>7. ASSUME NEW key \in Texts, B!GetStatus(key) PROVE TableInv'
  <2>1. PICK error \in BOOLEAN :
          said' = [op |-> "getStatus", throws |-> FALSE, key |-> key, found |-> error \/ key \in B!Stored,
                   value |-> IF error \/ key \notin B!Stored THEN "" ELSE table[key]]
    BY <1>7 DEF B!GetStatus, B!Says
  <2> DEFINE found_ == error \/ key \in B!Stored
             value == IF error \/ key \notin B!Stored THEN "" ELSE table[key]
  <2>2. said'.op = "getStatus" /\ said'.key = key /\ said'.value = value /\ said'.found = found_
    <3> HIDE DEF found_, value
    <3> QED BY <2>1 DEF found_, value
  <2>3. B!Stored' = B!Stored
    BY <1>1 DEF B!Stored
  <2>4. B!AnswersAreTrue'
    BY <1>1, <2>2, <2>3 DEF B!AnswersAreTrue
  <2> QED BY <1>2, <2>2, <2>4, NoRows DEF TableInv, Readings
<1>8. ASSUME NEW id \in KeyIds, B!ContainsKey(id) PROVE TableInv'
  <2>1. PICK error \in BOOLEAN :
          said' = [op |-> "containsKey", throws |-> FALSE, id |-> id, contains |-> ~error /\ B!KeyOf(id) \in B!Stored]
    BY <1>8 DEF B!ContainsKey, B!Says
  <2> DEFINE contains == ~error /\ B!KeyOf(id) \in B!Stored
  <2>2. said'.op = "containsKey" /\ said'.id = id /\ said'.contains = contains
    <3> HIDE DEF contains
    <3> QED BY <2>1 DEF contains
  <2>3. B!Stored' = B!Stored
    BY <1>1 DEF B!Stored
  <2>4. B!AnswersAreTrue'
    BY <1>1, <2>2, <2>3 DEF B!AnswersAreTrue
  <2> QED BY <1>2, <2>2, <2>4, NoRows DEF TableInv, Readings
<1> QED BY <1>3, <1>4, <1>5, <1>6, <1>7, <1>8

\* Calls that read many.
LEMMA ReadStep ==
  ASSUME TableInv,
         \/ \E start \in Texts, limit \in Limits :
              B!Seek(start, limit) \/ B!SeekUntil(start, B!KeyOf(B!Min(KeyIds)), limit)
         \/ \E start, end \in Texts : B!SeekRange(start, end)
         \/ \E limit \in Limits : B!SeekPrefix(DbPrefix, limit)
         \/ B!GetPrefix(DbPrefix) \/ B!Open
  PROVE  TableInv'
<1>1. TableTyped
  BY DEF TableInv
<1>2. B!RowsAreAll'
  BY <1>1, SeekReads, SeekUntilReads, SeekRangeReads, SeekPrefixReads, PrefixReads DEF B!GetPrefix, B!Open
<1>3. said'.op \in Readings /\ UNCHANGED table
  BY WordRead DEF Readings, B!Seek, B!SeekUntil, B!SeekRange, B!SeekPrefix, B!GetPrefix, B!Open
<1>4. B!Open \/ said'.op # "open"
  <2>1. \A start, limit : B!Seek(start, limit) => said'.op = "seek"
    BY WordRead DEF B!Seek
  <2>2. \A start, last, limit : B!SeekUntil(start, last, limit) => said'.op = "seekUntil"
    BY WordRead DEF B!SeekUntil
  <2>3. \A start, end : B!SeekRange(start, end) => said'.op = "seekRange"
    BY WordRead DEF B!SeekRange
  <2>4. \A prefix, limit : B!SeekPrefix(prefix, limit) => said'.op = "seekPrefix"
    BY WordRead DEF B!SeekPrefix
  <2>5. B!GetPrefix(DbPrefix) => said'.op = "getPrefix"
    BY WordRead DEF B!GetPrefix
  <2> QED BY <2>1, <2>2, <2>3, <2>4, <2>5
<1>5. B!OpenFindsEveryId'
  BY <1>1, <1>4, OpenFinds DEF B!OpenFindsEveryId
<1>6. B!AnswersAreTrue'
  BY <1>3 DEF B!AnswersAreTrue, Readings
<1> QED BY <1>1, <1>2, <1>3, <1>5, <1>6 DEF TableInv, TableTyped, B!Stored

LEMMA TableInit == B!Init => TableInv
<1> SUFFICES ASSUME B!Init PROVE TableInv
  OBVIOUS
<1>1. B!Stored = {}
  <2>1. table = <<>>
    BY DEF B!Init
  <2> QED BY <2>1, SMT DEF B!Stored
<1>2. said.op = "none"
  BY DEF B!Init, B!NoWord
<1> QED BY <1>1, <1>2, FS_EmptySet DEF TableInv, TableTyped, B!RowsAreAll, B!OpenFindsEveryId, B!AnswersAreTrue

LEMMA TableStep == TableInv /\ [B!Next]_(B!vars) => TableInv'
<1> SUFFICES ASSUME TableInv, [B!Next]_(B!vars) PROVE TableInv'
  OBVIOUS
<1>1. CASE UNCHANGED B!vars
  BY <1>1 DEF B!vars, TableInv, TableTyped, B!Stored, B!RowsAreAll, B!OpenFindsEveryId, B!AnswersAreTrue,
              B!Left
<1>2. ASSUME NEW key \in Texts, NEW value, B!Put(key, value) \/ B!OverWrite(key, value) \/ B!Del(key)
      PROVE  TableInv'
  BY <1>2, WriteStep, TableAssumption
<1>3. ASSUME NEW id \in KeyIds, NEW value, B!PutValue(id, value) \/ B!DelValue(id) PROVE TableInv'
  <2>1. B!KeyOf(id) \in Seq(Nat)
    BY KeyIsText, TableAssumption DEF Ids
  <2> QED BY <1>3, <2>1, WriteStep
<1> QED BY <1>1, <1>2, <1>3, AnswerStep, ReadStep DEF B!Next

\* Whatever keys are in the database and whichever call meets an error: readings
\* find every key of their range or prefix up to their limit, open reads back every
\* id under which a key is stored, and the answers of the other calls are true.
THEOREM FindsEveryKey == B!Spec => [](B!RowsAreAll /\ B!OpenFindsEveryId /\ B!AnswersAreTrue)
<1>1. TableInv => B!RowsAreAll /\ B!OpenFindsEveryId /\ B!AnswersAreTrue
  BY DEF TableInv
<1> QED BY <1>1, TableInit, TableStep, PTL DEF B!Spec

\* Archives, but for what a load passes over, and the key database give back what
\* was put there: each store keeps its word, so both do.
THEOREM StoresGiveBack == Z!Spec /\ B!Spec => []LoadsWhatWasSaved
BY LoadsArchives, FindsEveryKey, PTL DEF LoadsWhatWasSaved
-----------------------------------------------------------------------------
\* Numbers and their digits.
LEMMA PowersAre ==
  Width \in Nat => \E power \in [0..Width -> Nat] :
    /\ N!Numbers = power[Width]
    /\ power[0] = 1 /\ \A i \in 1..Width : power[i] = 16 * power[i - 1]
<1> SUFFICES ASSUME Width \in Nat
             PROVE  \E power \in [0..Width -> Nat] :
                      /\ N!Numbers = power[Width]
                      /\ power[0] = 1 /\ \A i \in 1..Width : power[i] = 16 * power[i - 1]
  OBVIOUS
<1> DEFINE g == [i \in 1..Width |-> [x \in Nat |-> 16 * x]]
           up == CHOOSE power : power = [n \in 0..Width |-> IF n = 0 THEN 1 ELSE 16 * power[n - 1]]
<1>1. g \in [1..Width -> [Nat -> Nat]] /\ \A i \in 1..Width, x \in Nat : g[i][x] = 16 * x
  OBVIOUS
<1>2. 1 \in Nat
  OBVIOUS
<1> HIDE DEF g
<1>3. PICK f : f \in Iterations(Nat, Width, 1, g)
  BY <1>1, <1>2, Iterated, Zenon
<1>4. f \in [0..Width -> Nat] /\ f[0] = 1 /\ \A i \in 1..Width : i - 1 \in 0..Width /\ f[i] = 16 * f[i - 1]
  <2>1. f \in [0..Width -> Nat] /\ f[0] = 1 /\ \A i \in 1..Width : f[i] = g[i][f[i - 1]]
    BY <1>3 DEF Iterations
  <2>2. \A i \in 1..Width : i - 1 \in 0..Width
    OBVIOUS
  <2> QED BY <1>1, <2>1, <2>2
<1>5. f = [n \in 0..Width |-> IF n = 0 THEN 1 ELSE 16 * f[n - 1]]
  BY <1>4
<1>6. up = [n \in 0..Width |-> IF n = 0 THEN 1 ELSE 16 * up[n - 1]]
  BY <1>5, Zenon
<1>7. N!Numbers = up[Width]
  BY Zenon DEF N!Numbers
<1> HIDE DEF up
<1>8. up[0] = 1 /\ \A i \in 1..Width : up[i] = 16 * up[i - 1]
  BY <1>6
<1>9. \A i \in 0..Width : up[i] \in Nat
  <2> DEFINE D == {i \in 0..Width : up[i] \in Nat}
  <2>1. 0 \in D /\ \A i \in 1..Width : i - 1 \in D => i \in D
    BY <1>8
  <2> HIDE DEF D
  <2>2. \A i \in 0..Width : i \in D
    BY <2>1, UpTo
  <2> QED BY <2>2 DEF D
<1>10. up \in [0..Width -> Nat]
  BY <1>6, <1>9
<1> QED BY <1>7, <1>8, <1>10

LEMMA RestsAre ==
  ASSUME Width \in Nat, NEW iVal \in Nat
  PROVE  \E rest \in [0..Width -> Nat] :
           /\ N!Filename(iVal) =
                [stem |-> [i \in 1..Width |-> N!Capitals[1 + (rest[Width - i] % 16)]], ext |-> FileExt]
           /\ rest[0] = iVal /\ \A i \in 1..Width : rest[i] = rest[i - 1] \div 16
<1> DEFINE g == [i \in 1..Width |-> [x \in Nat |-> x \div 16]]
           up == CHOOSE rest : rest = [n \in 0..Width |-> IF n = 0 THEN iVal ELSE rest[n - 1] \div 16]
<1>1. g \in [1..Width -> [Nat -> Nat]] /\ \A i \in 1..Width, x \in Nat : g[i][x] = x \div 16
  OBVIOUS
<1> HIDE DEF g
<1>3. PICK f : f \in Iterations(Nat, Width, iVal, g)
  BY <1>1, Iterated, Zenon
<1>4. f \in [0..Width -> Nat] /\ f[0] = iVal /\ \A i \in 1..Width : i - 1 \in 0..Width /\ f[i] = f[i - 1] \div 16
  <2>1. f \in [0..Width -> Nat] /\ f[0] = iVal /\ \A i \in 1..Width : f[i] = g[i][f[i - 1]]
    BY <1>3 DEF Iterations
  <2>2. \A i \in 1..Width : i - 1 \in 0..Width
    OBVIOUS
  <2> QED BY <1>1, <2>1, <2>2
<1>5. f = [n \in 0..Width |-> IF n = 0 THEN iVal ELSE f[n - 1] \div 16]
  BY <1>4
<1>6. up = [n \in 0..Width |-> IF n = 0 THEN iVal ELSE up[n - 1] \div 16]
  BY <1>5, Zenon
<1>7. N!Filename(iVal) = [stem |-> [i \in 1..Width |-> N!Capitals[1 + (up[Width - i] % 16)]], ext |-> FileExt]
  BY Zenon DEF N!Filename
<1> HIDE DEF up
<1>8. up[0] = iVal /\ \A i \in 1..Width : up[i] = up[i - 1] \div 16
  BY <1>6
<1>9. \A i \in 0..Width : up[i] \in Nat
  <2> DEFINE D == {i \in 0..Width : up[i] \in Nat}
  <2>1. 0 \in D /\ \A i \in 1..Width : i - 1 \in D => i \in D
    BY <1>8
  <2> HIDE DEF D
  <2>2. \A i \in 0..Width : i \in D
    BY <2>1, UpTo
  <2> QED BY <2>2 DEF D
<1>10. up \in [0..Width -> Nat]
  BY <1>6, <1>9
<1> QED BY <1>7, <1>8, <1>10

LEMMA ValuesAre ==
  ASSUME NEW name, Len(name.stem) \in Nat, \A i \in 1..Len(name.stem) : N!DigitOf(name.stem[i]) \in Nat
  PROVE  \E v \in [0..Len(name.stem) -> Nat] :
           /\ N!IValOf(name) = v[Len(name.stem)]
           /\ v[0] = 0 /\ \A i \in 1..Len(name.stem) : v[i] = 16 * v[i - 1] + N!DigitOf(name.stem[i])
<1> DEFINE w == Len(name.stem)
           g == [i \in 1..w |-> [x \in Nat |-> 16 * x + N!DigitOf(name.stem[i])]]
           up == CHOOSE upTo : upTo = [n \in 0..w |-> IF n = 0 THEN 0 ELSE 16 * upTo[n - 1] + N!DigitOf(name.stem[n])]
<1>1. g \in [1..w -> [Nat -> Nat]] /\ \A i \in 1..w, x \in Nat : g[i][x] = 16 * x + N!DigitOf(name.stem[i])
  OBVIOUS
<1>2. 0 \in Nat /\ w \in Nat
  OBVIOUS
<1> HIDE DEF g
<1>3. PICK f : f \in Iterations(Nat, w, 0, g)
  <2> HIDE DEF w
  <2> QED BY <1>1, <1>2, Iterated, Zenon
<1>4. f \in [0..w -> Nat] /\ f[0] = 0
      /\ \A i \in 1..w : i - 1 \in 0..w /\ f[i] = 16 * f[i - 1] + N!DigitOf(name.stem[i])
  <2>1. f \in [0..w -> Nat] /\ f[0] = 0 /\ \A i \in 1..w : f[i] = g[i][f[i - 1]]
    BY <1>3 DEF Iterations
  <2>2. \A i \in 1..w : i - 1 \in 0..w
    OBVIOUS
  <2> QED BY <1>1, <2>1, <2>2
<1>5. f = [n \in 0..w |-> IF n = 0 THEN 0 ELSE 16 * f[n - 1] + N!DigitOf(name.stem[n])]
  BY <1>4
<1>6. up = [n \in 0..w |-> IF n = 0 THEN 0 ELSE 16 * up[n - 1] + N!DigitOf(name.stem[n])]
  BY <1>5, Zenon
<1>7. N!IValOf(name) = up[w]
  BY Zenon DEF N!IValOf
<1> HIDE DEF up
<1>8. up[0] = 0 /\ \A i \in 1..w : up[i] = 16 * up[i - 1] + N!DigitOf(name.stem[i])
  BY <1>6
<1>9. \A i \in 0..w : up[i] \in Nat
  <2> DEFINE D == {i \in 0..w : up[i] \in Nat}
  <2>1. 0 \in D /\ \A i \in 1..w : i - 1 \in D => i \in D
    BY <1>8
  <2> HIDE DEF D, w
  <2>2. \A i \in 0..w : i \in D
    BY <1>2, <2>1, UpTo
  <2> QED BY <2>2 DEF D
<1>10. up \in [0..w -> Nat]
  BY <1>6, <1>9
<1> QED BY <1>7, <1>8, <1>10

\* A digit, capital or small, has one value.
LEMMA Digits16 ==
  /\ \A d \in 0..15 : N!IsDigit(N!Capitals[1 + d]) /\ N!DigitOf(N!Capitals[1 + d]) = d
  /\ \A c : N!IsDigit(c) => N!DigitOf(c) \in 0..15
<1> DEFINE Alike(c, d) == c \in {N!Capitals[d + 1], N!Small[d + 1]}
<1>1. \A d \in 0..15, e \in 0..15 : Alike(N!Capitals[1 + d], e) <=> e = d
  BY DEF N!Capitals, N!Small
<1>2. \A d \in 0..15 : d + 1 \in 1..16 /\ 1 + d = d + 1
  OBVIOUS
<1>3. \A c : N!IsDigit(c) <=> \E d \in 0..15 : Alike(c, d)
  <2>1. DOMAIN N!Capitals = 1..16 /\ DOMAIN N!Small = 1..16
    BY DEF N!Capitals, N!Small
  <2>2. \A i \in 1..16 : i - 1 \in 0..15 /\ i - 1 + 1 = i
    OBVIOUS
  <2>3. \A c : N!IsDigit(c) <=> \E i \in 1..16 : c = N!Capitals[i] \/ c = N!Small[i]
    BY <2>1 DEF N!IsDigit, N!Range
  <2> QED BY <1>2, <2>2, <2>3
<1>4. \A c : N!DigitOf(c) = CHOOSE d \in 0..15 : Alike(c, d)
  BY Zenon DEF N!DigitOf
<1> HIDE DEF Alike
<1>5. \A c : N!IsDigit(c) => N!DigitOf(c) \in 0..15 /\ Alike(c, N!DigitOf(c))
  BY <1>3, <1>4, Zenon
<1> QED BY <1>1, <1>3, <1>5

LEMMA Split16 == \A a \in Nat : a \div 16 \in Nat /\ a % 16 \in 0..15 /\ 16 * (a \div 16) + (a % 16) = a
OBVIOUS

LEMMA Join16 == \A a \in Nat, d \in 0..15 : (16 * a + d) \div 16 = a /\ (16 * a + d) % 16 = d
OBVIOUS

Stem(name, w) == Len(name.stem) = w /\ \A i \in 1..w : N!IsDigit(name.stem[i])

LEMMA FilenameIs ==
  ASSUME Width \in Nat, NEW iVal \in Nat
  PROVE  \E rest \in [0..Width -> Nat] :
           /\ rest[0] = iVal /\ \A i \in 1..Width : rest[i] = rest[i - 1] \div 16
           /\ Stem(N!Filename(iVal), Width) /\ N!Filename(iVal).ext = FileExt
           /\ \A i \in 1..Width : N!DigitOf(N!Filename(iVal).stem[i]) = rest[Width - i] % 16
           /\ DOMAIN N!Filename(iVal).stem = 1..Width
<1>1. PICK rest \in [0..Width -> Nat] :
           /\ N!Filename(iVal) =
                [stem |-> [i \in 1..Width |-> N!Capitals[1 + (rest[Width - i] % 16)]], ext |-> FileExt]
           /\ rest[0] = iVal /\ \A i \in 1..Width : rest[i] = rest[i - 1] \div 16
  BY RestsAre
<1> DEFINE stem == N!Filename(iVal).stem
<1>2. stem = [i \in 1..Width |-> N!Capitals[1 + (rest[Width - i] % 16)]] /\ N!Filename(iVal).ext = FileExt
  BY <1>1
<1>3. \A i \in 1..Width : rest[Width - i] \in Nat /\ rest[Width - i] % 16 \in 0..15
  <2>1. \A i \in 1..Width : Width - i \in 0..Width
    OBVIOUS
  <2>2. \A i \in 1..Width : rest[Width - i] \in Nat
    BY <2>1
  <2> QED BY <2>2, Split16
<1>4. \A i \in 1..Width : N!IsDigit(stem[i]) /\ N!DigitOf(stem[i]) = rest[Width - i] % 16
  <2> SUFFICES ASSUME NEW i \in 1..Width PROVE N!IsDigit(stem[i]) /\ N!DigitOf(stem[i]) = rest[Width - i] % 16
    OBVIOUS
  <2>1. stem[i] = N!Capitals[1 + (rest[Width - i] % 16)]
    BY <1>2
  <2> HIDE DEF stem
  <2> QED BY <1>3, <2>1, Digits16
<1>5. Len(stem) = Width /\ DOMAIN stem = 1..Width
  BY <1>2
<1> QED BY <1>1, <1>2, <1>4, <1>5 DEF Stem

LEMMA ValueIs ==
  ASSUME Width \in Nat, NEW name, Stem(name, Width)
  PROVE  \E v \in [0..Width -> Nat] :
           /\ N!IValOf(name) = v[Width]
           /\ v[0] = 0 /\ \A i \in 1..Width : v[i] = 16 * v[i - 1] + N!DigitOf(name.stem[i])
<1>1. Len(name.stem) = Width /\ \A i \in 1..Width : N!DigitOf(name.stem[i]) \in 0..15
  BY Digits16 DEF Stem
<1>2. \A i \in 1..Len(name.stem) : N!DigitOf(name.stem[i]) \in Nat
  BY <1>1
<1>3. PICK v \in [0..Len(name.stem) -> Nat] :
           /\ N!IValOf(name) = v[Len(name.stem)]
           /\ v[0] = 0 /\ \A i \in 1..Len(name.stem) : v[i] = 16 * v[i - 1] + N!DigitOf(name.stem[i])
  BY <1>1, <1>2, ValuesAre
<1> QED BY <1>1, <1>3

\* The same digits make the same number.
LEMMA SameValue ==
  ASSUME Width \in Nat, NEW f, NEW g, Stem(f, Width), Stem(g, Width),
         \A i \in 1..Width : N!DigitOf(f.stem[i]) = N!DigitOf(g.stem[i])
  PROVE  N!IValOf(f) = N!IValOf(g)
<1>1. PICK v \in [0..Width -> Nat] :
           /\ N!IValOf(f) = v[Width]
           /\ v[0] = 0 /\ \A i \in 1..Width : v[i] = 16 * v[i - 1] + N!DigitOf(f.stem[i])
  BY ValueIs
<1>2. PICK u \in [0..Width -> Nat] :
           /\ N!IValOf(g) = u[Width]
           /\ u[0] = 0 /\ \A i \in 1..Width : u[i] = 16 * u[i - 1] + N!DigitOf(g.stem[i])
  BY ValueIs
<1> DEFINE D == {i \in 0..Width : v[i] = u[i]}
<1>3. 0 \in D /\ \A i \in 1..Width : i - 1 \in D => i \in D
  BY <1>1, <1>2
<1>4. Width \in 0..Width
  OBVIOUS
<1>5. Width \in D
  <2> HIDE DEF D
  <2> QED BY <1>3, <1>4, UpTo
<1> QED BY <1>1, <1>2, <1>5

\* stoul gives the number back that makeFilename writes.
LEMMA NumberIsReadBack ==
  ASSUME Width \in Nat, NEW iVal \in 0..N!Numbers - 1
  PROVE  N!IValOf(N!Filename(iVal)) = iVal
<1>1. PICK power \in [0..Width -> Nat] :
        N!Numbers = power[Width] /\ power[0] = 1 /\ \A i \in 1..Width : power[i] = 16 * power[i - 1]
  BY PowersAre
<1>2. iVal \in Nat /\ iVal < power[Width]
  BY <1>1
<1>3. PICK rest \in [0..Width -> Nat] :
           /\ rest[0] = iVal /\ \A i \in 1..Width : rest[i] = rest[i - 1] \div 16
           /\ Stem(N!Filename(iVal), Width) /\ N!Filename(iVal).ext = FileExt
           /\ \A i \in 1..Width : N!DigitOf(N!Filename(iVal).stem[i]) = rest[Width - i] % 16
           /\ DOMAIN N!Filename(iVal).stem = 1..Width
  BY <1>2, FilenameIs
<1>4. PICK v \in [0..Width -> Nat] :
           /\ N!IValOf(N!Filename(iVal)) = v[Width]
           /\ v[0] = 0 /\ \A i \in 1..Width : v[i] = 16 * v[i - 1] + (rest[Width - i] % 16)
  BY <1>3, ValueIs
<1>5. \A i \in 0..Width : rest[i] < power[Width - i]
  <2> DEFINE D == {i \in 0..Width : rest[i] < power[Width - i]}
  <2>1. 0 \in D
    BY <1>2, <1>3
  <2>2. ASSUME NEW i \in 1..Width, i - 1 \in D PROVE i \in D
    <3>1. Width - i \in 0..Width /\ Width - (i - 1) \in 1..Width /\ Width - (i - 1) - 1 = Width - i
          /\ i - 1 \in 0..Width
      OBVIOUS
    <3>2. rest[i - 1] \in Nat /\ power[Width - i] \in Nat /\ rest[i - 1] < 16 * power[Width - i]
      BY <1>1, <2>2, <3>1
    <3>3. rest[i] = rest[i - 1] \div 16
      BY <1>3
    <3>4. \A a, b \in Nat : a < 16 * b => a \div 16 < b
      OBVIOUS
    <3>5. rest[i - 1] \div 16 < power[Width - i]
      BY <3>2, <3>4
    <3> QED BY <3>3, <3>5
  <2> HIDE DEF D
  <2>3. \A i \in 0..Width : i \in D
    BY <2>1, <2>2, UpTo
  <2> QED BY <2>3 DEF D
<1>6. \A n \in 0..Width : v[n] = rest[Width - n]
  <2> DEFINE D == {n \in 0..Width : v[n] = rest[Width - n]}
  <2>1. 0 \in D
    <3>1. Width \in 0..Width /\ Width - Width = 0 /\ Width - 0 = Width
      OBVIOUS
    <3>2. rest[Width] \in Nat /\ rest[Width] < 1
      BY <1>1, <1>5, <3>1
    <3> QED BY <1>4, <3>1, <3>2
  <2>2. ASSUME NEW n \in 1..Width, n - 1 \in D PROVE n \in D
    <3>1. Width - n \in 0..Width /\ Width - (n - 1) \in 1..Width /\ Width - (n - 1) - 1 = Width - n
      OBVIOUS
    <3>2. v[n] = 16 * rest[Width - (n - 1)] + (rest[Width - n] % 16)
      BY <1>4, <2>2
    <3>3. rest[Width - (n - 1)] = rest[Width - n] \div 16
      BY <1>3, <3>1
    <3>4. rest[Width - n] \in Nat
      BY <3>1
    <3>5. 16 * (rest[Width - n] \div 16) + (rest[Width - n] % 16) = rest[Width - n]
      BY <3>4, Split16
    <3>6. v[n] = rest[Width - n]
      BY <3>2, <3>3, <3>5
    <3> QED BY <3>6
  <2> HIDE DEF D
  <2>3. \A i \in 0..Width : i \in D
    BY <2>1, <2>2, UpTo
  <2> QED BY <2>3 DEF D
<1>7. v[Width] = rest[0]
  <2>1. Width \in 0..Width /\ Width - Width = 0
    OBVIOUS
  <2> QED BY <1>6, <2>1
<1> QED BY <1>3, <1>4, <1>7

\* makeFilename writes the digits again that stoul has read.
LEMMA NameIsWrittenBack ==
  ASSUME Width \in Nat, NEW f, Stem(f, Width), NEW iVal, iVal = N!IValOf(f)
  PROVE  iVal \in Nat /\ \A i \in 1..Width : N!DigitOf(N!Filename(iVal).stem[i]) = N!DigitOf(f.stem[i])
<1>1. PICK v \in [0..Width -> Nat] :
           /\ iVal = v[Width]
           /\ v[0] = 0 /\ \A i \in 1..Width : v[i] = 16 * v[i - 1] + N!DigitOf(f.stem[i])
  BY ValueIs
<1>2. Width \in 0..Width /\ iVal \in Nat
  BY <1>1
<1>3. PICK rest \in [0..Width -> Nat] :
           /\ rest[0] = iVal /\ \A i \in 1..Width : rest[i] = rest[i - 1] \div 16
           /\ Stem(N!Filename(iVal), Width) /\ N!Filename(iVal).ext = FileExt
           /\ \A i \in 1..Width : N!DigitOf(N!Filename(iVal).stem[i]) = rest[Width - i] % 16
           /\ DOMAIN N!Filename(iVal).stem = 1..Width
  BY <1>2, FilenameIs
<1>4. \A i \in 1..Width : N!DigitOf(f.stem[i]) \in 0..15
  BY Digits16 DEF Stem
<1>5. \A k \in 0..Width : rest[k] = v[Width - k]
  <2> DEFINE D == {k \in 0..Width : rest[k] = v[Width - k]}
  <2>1. 0 \in D
    BY <1>1, <1>3
  <2>2. ASSUME NEW k \in 1..Width, k - 1 \in D PROVE k \in D
    <3>1. Width - k \in 0..Width /\ Width - (k - 1) \in 1..Width /\ Width - (k - 1) - 1 = Width - k
      OBVIOUS
    <3>2. rest[k] = v[Width - (k - 1)] \div 16
      BY <1>3, <2>2
    <3>3. v[Width - (k - 1)] = 16 * v[Width - k] + N!DigitOf(f.stem[Width - (k - 1)])
      BY <1>1, <3>1
    <3>4. v[Width - k] \in Nat /\ N!DigitOf(f.stem[Width - (k - 1)]) \in 0..15
      BY <1>4, <3>1
    <3>5. (16 * v[Width - k] + N!DigitOf(f.stem[Width - (k - 1)])) \div 16 = v[Width - k]
      BY <3>4, Join16
    <3>6. rest[k] = v[Width - k]
      BY <3>2, <3>3, <3>5
    <3> QED BY <3>6
  <2> HIDE DEF D
  <2>3. \A i \in 0..Width : i \in D
    BY <2>1, <2>2, UpTo
  <2> QED BY <2>3 DEF D
<1>6. ASSUME NEW i \in 1..Width PROVE N!DigitOf(N!Filename(iVal).stem[i]) = N!DigitOf(f.stem[i])
  <2>1. Width - i \in 0..Width /\ Width - (Width - i) = i /\ i - 1 \in 0..Width
    OBVIOUS
  <2>2. rest[Width - i] = 16 * v[i - 1] + N!DigitOf(f.stem[i])
    BY <1>1, <1>5, <2>1
  <2>3. v[i - 1] \in Nat
    BY <2>1
  <2>4. (16 * v[i - 1] + N!DigitOf(f.stem[i])) % 16 = N!DigitOf(f.stem[i])
    BY <1>4, <2>3, Join16
  <2> QED BY <1>3, <2>2, <2>4
<1> QED BY <1>2, <1>6
-----------------------------------------------------------------------------
\* A listing is what is there of what was asked for, while nobody touches the
\* directory; what isFileExist has found is there.
ListedNow ==
  /\ present \subseteq Filenames /\ asked \in [from : Nat, to : Nat, untouched : BOOLEAN]
  /\ asked.untouched =>
       values = {N!IValOf(f) : f \in {x \in present : /\ N!IsIValFile(x) /\ asked.from <= N!IValOf(x)
                                                      /\ N!IValOf(x) < asked.to}}

FoundIsThere ==
  found.op = "isFileExist" /\ found.result => found.iVal \in IVals /\ N!Filename(found.iVal) \in present

NumberedInv == ListedNow /\ FoundIsThere

LEMMA NumbersIs == N!Numbers \in Nat \ {0}
<1>1. PICK power \in [0..Width -> Nat] :
        N!Numbers = power[Width] /\ power[0] = 1 /\ \A i \in 1..Width : power[i] = 16 * power[i - 1]
  BY PowersAre, FilesAssumption
<1> DEFINE D == {i \in 0..Width : power[i] > 0}
<1>2. Width \in Nat /\ Width \in 0..Width
  BY FilesAssumption
<1>3. 0 \in D /\ \A i \in 1..Width : i - 1 \in D => i \in D
  <2>1. \A i \in 1..Width : i - 1 \in D => power[i - 1] \in Nat /\ power[i - 1] > 0 /\ i \in 0..Width
    BY <1>2
  <2>2. 0 \in D
    BY <1>1, <1>2
  <2> QED BY <1>1, <2>1, <2>2
<1> HIDE DEF D
<1>4. Width \in D
  BY <1>2, <1>3, UpTo
<1> QED BY <1>1, <1>2, <1>4 DEF D

LEMMA ListedStep ==
  ASSUME present \subseteq Filenames, NEW from \in Nat, NEW to \in Nat,
         N!Listed({f \in present : N!IsIValFile(f) /\ from <= N!IValOf(f) /\ N!IValOf(f) < to}, from, to)
  PROVE  NumberedInv'
BY DEF N!Listed, N!NoAnswer, NumberedInv, ListedNow, FoundIsThere

\* Every number that can be read is below Numbers.
LEMMA IValIsNumber ==
  ASSUME NEW f \in Filenames, N!IsIValFile(f)
  PROVE  N!IValOf(f) \in 0..N!Numbers - 1
<1>1. Width \in Nat /\ Stem(f, Width) /\ Width \in 0..Width
  <2>1. Width \in Nat /\ Stem(f, Width)
    BY FilesAssumption DEF N!IsIValFile, Stem
  <2> QED BY <2>1
<1>2. PICK v \in [0..Width -> Nat] :
           /\ N!IValOf(f) = v[Width]
           /\ v[0] = 0 /\ \A i \in 1..Width : v[i] = 16 * v[i - 1] + N!DigitOf(f.stem[i])
  BY <1>1, ValueIs
<1>3. PICK power \in [0..Width -> Nat] :
        N!Numbers = power[Width] /\ power[0] = 1 /\ \A i \in 1..Width : power[i] = 16 * power[i - 1]
  BY <1>1, PowersAre
<1> DEFINE D == {i \in 0..Width : v[i] < power[i]}
<1>4. 0 \in D
  BY <1>1, <1>2, <1>3
<1>5. ASSUME NEW i \in 1..Width, i - 1 \in D PROVE i \in D
  <2>1. N!DigitOf(f.stem[i]) \in 0..15
    BY <1>1, Digits16 DEF Stem
  <2>2. v[i - 1] \in Nat /\ power[i - 1] \in Nat /\ v[i - 1] < power[i - 1] /\ i \in 0..Width
    BY <1>1, <1>5
  <2>3. 16 * v[i - 1] + N!DigitOf(f.stem[i]) < 16 * power[i - 1]
    BY <2>1, <2>2
  <2> QED BY <1>2, <1>3, <2>2, <2>3
<1> HIDE DEF D
<1>6. Width \in D
  BY <1>1, <1>4, <1>5, UpTo
<1>7. v[Width] \in Nat /\ power[Width] \in Nat
  BY <1>1
<1> QED BY <1>2, <1>3, <1>6, <1>7 DEF D

LEMMA NumberedInit == N!Init => NumberedInv
<1> SUFFICES ASSUME N!Init PROVE NumberedInv
  OBVIOUS
<1>1. present \subseteq Filenames /\ asked = [from |-> 0, to |-> 0, untouched |-> FALSE] /\ found.op = "none"
  BY DEF N!Init, N!NotAsked, N!NoAnswer
<1>2. ListedNow
  BY <1>1 DEF ListedNow
<1> QED BY <1>1, <1>2 DEF NumberedInv, FoundIsThere

LEMMA NumberedStep == NumberedInv /\ [N!Next]_(N!vars) => NumberedInv'
<1> SUFFICES ASSUME NumberedInv, [N!Next]_(N!vars) PROVE NumberedInv'
  OBVIOUS
<1>0. /\ present \subseteq Filenames /\ asked.from \in Nat /\ asked.to \in Nat
      /\ asked \in [from : Nat, to : Nat, untouched : BOOLEAN]
      /\ \A i \in IVals : i \in Nat
  BY NumbersIs, FilesAssumption DEF NumberedInv, ListedNow
<1>1. ASSUME NEW from \in IVals, NEW to \in IVals, N!IValFiles(from, to) PROVE NumberedInv'
  BY <1>0, <1>1, ListedStep DEF N!IValFiles
<1>2. ASSUME NEW i \in IVals, N!IValFile(i) PROVE NumberedInv'
  <2>1. (i + 1) % N!Numbers \in Nat
    BY <1>0, NumbersIs
  <2> QED BY <1>0, <1>2, <2>1, ListedStep DEF N!IValFile, N!IValFiles
<1>3. CASE N!AllIValFiles
  <2>1. {f \in present : N!IsIValFile(f)}
          = {f \in present : N!IsIValFile(f) /\ 0 <= N!IValOf(f) /\ N!IValOf(f) < N!Numbers}
    <3>1. \A f \in present : N!IsIValFile(f) => 0 <= N!IValOf(f) /\ N!IValOf(f) < N!Numbers
      BY <1>0, IValIsNumber, NumbersIs
    <3> QED BY <3>1
  <2>2. 0 \in Nat /\ N!Numbers \in Nat
    BY NumbersIs
  <2>3. N!Listed({f \in present : N!IsIValFile(f) /\ 0 <= N!IValOf(f) /\ N!IValOf(f) < N!Numbers}, 0, N!Numbers)
    BY <1>3, <2>1 DEF N!AllIValFiles
  <2> QED BY <1>0, <2>2, <2>3, ListedStep
<1>4. CASE N!AllFiles
  BY <1>0, <1>4 DEF N!AllFiles, N!NotAsked, N!NoAnswer, NumberedInv, ListedNow, FoundIsThere
<1>5. CASE N!MinMaxI \/ (\E i \in IVals : N!IsIValIn(i)) \/ (\E from \in IVals, to \in IVals : N!IsIValsIn(from, to))
  <2>1. UNCHANGED <<present, files, values, asked>>
    BY <1>5 DEF N!MinMaxI, N!IsIValIn, N!IsIValsIn
  <2>2. found'.op # "isFileExist"
    BY <1>5 DEF N!MinMaxI, N!IsIValIn, N!IsIValsIn, N!Answers
  <2> QED BY <2>1, <2>2 DEF NumberedInv, ListedNow, FoundIsThere
<1>6. ASSUME NEW i \in IVals, N!IsFileExist(i) PROVE NumberedInv'
  BY <1>6 DEF N!IsFileExist, N!Answers, NumberedInv, ListedNow, FoundIsThere
<1>7. ASSUME NEW i \in IVals, N!RemoveIVal(i) PROVE NumberedInv'
  <2>1. /\ present' = present \ {N!Filename(i)} /\ UNCHANGED <<files, values>> /\ found'.op = "remove"
        /\ asked' = [asked EXCEPT !.untouched = asked.untouched /\ N!Filename(i) \notin present]
    BY <1>7 DEF N!RemoveIVal, N!Answers
  <2>2. FoundIsThere'
    BY <2>1 DEF FoundIsThere
  <2>3. asked'.from = asked.from /\ asked'.to = asked.to
        /\ asked'.untouched = (asked.untouched /\ N!Filename(i) \notin present)
        /\ asked' \in [from : Nat, to : Nat, untouched : BOOLEAN]
    BY <1>0, <2>1
  <2>4. ListedNow'
    <3>1. N!Filename(i) \notin present => present' = present
      BY <2>1
    <3> QED BY <1>0, <2>1, <2>3, <3>1 DEF NumberedInv, ListedNow
  <2> QED BY <2>2, <2>4 DEF NumberedInv
<1>8. ASSUME NEW name \in Filenames, N!Elsewhere(name) PROVE NumberedInv'
  <2>1. present' \subseteq Filenames /\ asked' = [asked EXCEPT !.untouched = FALSE] /\ found'.op = "none"
    BY <1>0, <1>8 DEF N!Elsewhere, N!NoAnswer
  <2>2. asked' \in [from : Nat, to : Nat, untouched : BOOLEAN] /\ asked'.untouched = FALSE
    BY <1>0, <2>1
  <2> QED BY <2>1, <2>2 DEF NumberedInv, ListedNow, FoundIsThere
<1>9. CASE UNCHANGED N!vars
  BY <1>9 DEF N!vars, NumberedInv, ListedNow, FoundIsThere
<1> QED BY <1>1, <1>2, <1>3, <1>4, <1>5, <1>6, <1>7, <1>8, <1>9 DEF N!Next

LEMMA SpellingsAreNumbers ==
  ASSUME NEW i \in IVals, NEW f \in Filenames
  PROVE  N!AlikeNames(f, N!Filename(i)) <=> N!IsIValFile(f) /\ N!IValOf(f) = i
<1> DEFINE g == N!Filename(i)
<1>1. Width \in Nat /\ i \in 0..N!Numbers - 1 /\ i \in Nat
  BY FilesAssumption, NumbersIs
<1>2. PICK rest \in [0..Width -> Nat] :
           /\ rest[0] = i /\ \A j \in 1..Width : rest[j] = rest[j - 1] \div 16
           /\ Stem(g, Width) /\ g.ext = FileExt
           /\ \A j \in 1..Width : N!DigitOf(g.stem[j]) = rest[Width - j] % 16
           /\ DOMAIN g.stem = 1..Width
  BY <1>1, FilenameIs
<1>3. N!IValOf(g) = i
  BY <1>1, NumberIsReadBack
<1>4. f.stem \in Seq(STRING) /\ DOMAIN f.stem = 1..Len(f.stem)
  BY FilesAssumption
<1>5. N!SameExt(g.ext)
  BY <1>2 DEF N!SameExt
<1> HIDE DEF g
<1>6. N!AlikeNames(f, g) <=>
        /\ N!SameExt(f.ext) /\ Stem(f, Width)
        /\ \A j \in 1..Width : N!DigitOf(f.stem[j]) = N!DigitOf(g.stem[j])
  BY <1>2, <1>4, <1>5 DEF N!AlikeNames, Stem
<1>7. N!IsIValFile(f) <=> N!SameExt(f.ext) /\ Stem(f, Width)
  BY <1>4 DEF N!IsIValFile, Stem
<1>8. ASSUME N!AlikeNames(f, g) PROVE N!IsIValFile(f) /\ N!IValOf(f) = i
  BY <1>1, <1>2, <1>3, <1>6, <1>7, <1>8, SameValue
<1>9. ASSUME N!IsIValFile(f), N!IValOf(f) = i PROVE N!AlikeNames(f, g)
  <2>1. \A j \in 1..Width : N!DigitOf(g.stem[j]) = N!DigitOf(f.stem[j])
    BY <1>1, <1>7, <1>9, NameIsWrittenBack DEF g
  <2> QED BY <1>6, <1>7, <1>9, <2>1
<1> QED BY <1>8, <1>9 DEF g

LEMMA FilenameSpellsItself ==
  ASSUME NEW i \in IVals, N!Filename(i) \in Filenames
  PROVE  N!AlikeNames(N!Filename(i), N!Filename(i))
<1>1. Width \in Nat /\ i \in Nat
  BY FilesAssumption, NumbersIs
<1>2. Stem(N!Filename(i), Width) /\ N!Filename(i).ext = FileExt /\ DOMAIN N!Filename(i).stem = 1..Width
  BY <1>1, FilenameIs
<1> QED BY <1>2 DEF N!AlikeNames, Stem, N!SameExt

LEMMA InvMatches == NumberedInv => NumbersMatchNames
<1> SUFFICES ASSUME NumberedInv, asked.untouched
             PROVE  /\ \A i \in IVals : i \in values <=> /\ asked.from <= i /\ i < asked.to
                                                         /\ \E f \in present : N!AlikeNames(f, N!Filename(i))
                    /\ found.op = "isFileExist" /\ found.result /\ asked.from <= found.iVal /\ found.iVal < asked.to =>
                         found.iVal \in values
  BY DEF NumbersMatchNames, N!NumbersMatchNames
<1>1. /\ present \subseteq Filenames
      /\ values = {N!IValOf(f) : f \in {x \in present : /\ N!IsIValFile(x) /\ asked.from <= N!IValOf(x)
                                                        /\ N!IValOf(x) < asked.to}}
  BY DEF NumberedInv, ListedNow
<1>2. ASSUME NEW i \in IVals
      PROVE  i \in values <=> /\ asked.from <= i /\ i < asked.to
                              /\ \E f \in present : N!AlikeNames(f, N!Filename(i))
  <2>1. \A f \in present : N!AlikeNames(f, N!Filename(i)) <=> N!IsIValFile(f) /\ N!IValOf(f) = i
    BY <1>1, SpellingsAreNumbers
  <2> QED BY <1>1, <2>1
<1>3. ASSUME found.op = "isFileExist", found.result, asked.from <= found.iVal, found.iVal < asked.to
      PROVE  found.iVal \in values
  <2>1. found.iVal \in IVals /\ N!Filename(found.iVal) \in present
    BY <1>3 DEF NumberedInv, FoundIsThere
  <2>2. N!AlikeNames(N!Filename(found.iVal), N!Filename(found.iVal))
    BY <1>1, <2>1, FilenameSpellsItself
  <2> QED BY <1>2, <1>3, <2>1, <2>2
<1> QED BY <1>2, <1>3

\* For every number of digits and all names in the directory: while nobody touches
\* it, the listing that reads numbers from names (isIValFile, stoul) and the calls
\* that make names of numbers (makeFilename) speak of the same files.
THEOREM ListsWhatItNames == N!Spec => []NumbersMatchNames
BY NumberedInit, NumberedStep, InvMatches, PTL DEF N!Spec
=============================================================================
