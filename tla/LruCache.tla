------------------------------ MODULE LruCache ------------------------------
(***************************************************************************)
(* LruCache (gaia/include/gaia_lru_cache.hpp): a hash map whose entries    *)
(* hold an iterator into usage_, the list of keys from the least to the    *)
(* most recently used.  put, get, remove and clear hold the mutex from     *)
(* beginning to end, so each is one step whatever threads call them; but   *)
(* the reference that get returns is used after the mutex is released.     *)
(***************************************************************************)
EXTENDS Naturals, Sequences, FiniteSets

CONSTANTS Keys, Values,
          MaxSize,   \* max_size_
          NoValue,   \* std::nullopt
          NoKey      \* the client holds no reference

\* put takes the front of an EMPTY list when max_size_ is 0.
ASSUME MaxSizeAssumption == MaxSize \in Nat \ {0}
ASSUME NoKeyAssumption == NoKey \notin Keys /\ NoValue \notin Values

VARIABLES cache_,    \* key -> [value, iterator]
          usage_,    \* the list's nodes, [key, id]; an iterator is the id of a node
          answer,    \* what the latest get returned
          ref        \* history of one reference a client keeps: its key, whether the
                     \* entry still exists, and the other keys used since

vars == <<cache_, usage_, answer, ref>>

NoReference == [key |-> NoKey, live |-> FALSE, others |-> {}]

Init == cache_ = <<>> /\ usage_ = <<>> /\ answer = NoValue /\ ref = NoReference

\* usage_.erase(it).
Erase(list, it) ==
  LET at == CHOOSE i \in 1..Len(list) : list[i].id = it
  IN  [i \in 1..Len(list) - 1 |-> IF i < at THEN list[i] ELSE list[i + 1]]

\* A node's address is that of no other node in the list.
FreshId(list) == CHOOSE id \in 0..Len(list) : \A i \in 1..Len(list) : list[i].id # id

PushBack(list, key) == Append(list, [key |-> key, id |-> FreshId(list)])

\* Mutant of EvictUntilRoom: room is made only when the size is exceeded.
EvictLate ==
  LET n == IF Cardinality(DOMAIN cache_) > MaxSize THEN 1 ELSE 0
  IN  SubSeq(usage_, n + 1, Len(usage_))

\* while (cache_.size() >= max_size_): each round removes the front of the list
\* and its entry from the map.
EvictUntilRoom ==
  LET size == Cardinality(DOMAIN cache_)
      n == IF size >= MaxSize THEN size - MaxSize + 1 ELSE 0
  IN  SubSeq(usage_, n + 1, Len(usage_))

KeysOf(list) == {list[i].key : i \in 1..Len(list)}

\* The map with key's entry written.
Store(keys, key, entry) == [k \in keys \cup {key} |-> IF k = key THEN entry ELSE cache_[k]]

\* The client's reference after key has been used and only kept is left.
Used(key, kept) ==
  [ref EXCEPT !.live = @ /\ ref.key \in kept,
              !.others = IF ~ref.live THEN @ ELSE IF key = ref.key THEN {} ELSE @ \cup {key}]
-----------------------------------------------------------------------------
\* put of a key that is there: its entry moves to the back with the new value.
PutExisting(key, value) ==
  /\ key \in DOMAIN cache_
  /\ usage_' = PushBack(Erase(usage_, cache_[key].iterator), key)
  /\ cache_' = Store(DOMAIN cache_, key, [value |-> value, iterator |-> usage_'[Len(usage_')].id])
  /\ ref' = Used(key, DOMAIN cache_)
  /\ UNCHANGED answer

\* put of a new key: room is made first.
PutNew(key, value) ==
  /\ key \notin DOMAIN cache_
  /\ LET list == EvictUntilRoom
         kept == DOMAIN cache_ \ (KeysOf(usage_) \ KeysOf(list))
     IN  /\ usage_' = PushBack(list, key)
         /\ cache_' = Store(kept, key, [value |-> value, iterator |-> usage_'[Len(usage_')].id])
         /\ ref' = Used(key, kept)
  /\ UNCHANGED answer

\* Mutant of Hit: the entry keeps the iterator of the erased node.
HitKeepsIterator(key) ==
  /\ usage_' = PushBack(Erase(usage_, cache_[key].iterator), key)
  /\ UNCHANGED cache_

\* A get that finds its key moves the key to the back.
Hit(key) ==
  /\ usage_' = PushBack(Erase(usage_, cache_[key].iterator), key)
  /\ cache_' = [cache_ EXCEPT ![key].iterator = usage_'[Len(usage_')].id]

\* The client may keep the reference it is given, in place of an earlier one.
GetHit(key) ==
  /\ key \in DOMAIN cache_
  /\ Hit(key)
  /\ answer' = cache_[key].value
  /\ \/ ref' = Used(key, DOMAIN cache_)
     \/ ref' = [key |-> key, live |-> TRUE, others |-> {}]

GetMiss(key) ==
  /\ key \notin DOMAIN cache_
  /\ answer' = NoValue
  /\ UNCHANGED <<cache_, usage_, ref>>

\* A client that knows its key is gone drops the reference.
DropReference(keys) == ref' = IF ref.key \in keys THEN NoReference ELSE ref

Remove(key) ==
  /\ key \in DOMAIN cache_
  /\ usage_' = Erase(usage_, cache_[key].iterator)
  /\ cache_' = [k \in DOMAIN cache_ \ {key} |-> cache_[k]]
  /\ DropReference({key})
  /\ UNCHANGED answer

Clear ==
  /\ cache_' = <<>> /\ usage_' = <<>>
  /\ DropReference(Keys)
  /\ UNCHANGED answer

Next ==
  \/ \E key \in Keys :
        \/ GetHit(key) \/ GetMiss(key) \/ Remove(key)
        \/ \E value \in Values : PutExisting(key, value) \/ PutNew(key, value)
  \/ Clear

Spec == Init /\ [][Next]_vars
-----------------------------------------------------------------------------
\* Type invariant.
TypeOK ==
  /\ DOMAIN cache_ \subseteq Keys
  /\ \A k \in DOMAIN cache_ : cache_[k] \in [value : Values, iterator : Nat]
  /\ usage_ \in Seq([key : Keys, id : Nat])
  /\ answer \in Values \cup {NoValue}
  /\ ref \in [key : Keys \cup {NoKey}, live : BOOLEAN, others : SUBSET Keys]

\* The map and the list stay in step through every order of operations: each
\* entry's iterator is valid and leads to the node of its own key, and there is
\* no other node.  Without it erase would be given a dead iterator.
IteratorsValid ==
  /\ \A k \in DOMAIN cache_ :
        \E i \in 1..Len(usage_) : usage_[i] = [key |-> k, id |-> cache_[k].iterator]
  /\ Len(usage_) = Cardinality(DOMAIN cache_)

\* The cache never grows past max_size_.
SizeBounded == Cardinality(DOMAIN cache_) <= MaxSize

\* A reference that get returned dies by itself only when max_size_ other keys
\* have been put or got since its own key was: the client has that long to use
\* it, although it uses it without the mutex.
ReferenceOutlivesOthers ==
  ref.key # NoKey =>
    IF ref.live THEN ref.key \in DOMAIN cache_ ELSE Cardinality(ref.others) >= MaxSize

\* The cache implements the map that forgets the least recently used key.
Recency ==
  INSTANCE RecencyMap
    WITH Capacity <- MaxSize,
         content <- [k \in DOMAIN cache_ |-> cache_[k].value],
         older <- {<<usage_[p[1]].key, usage_[p[2]].key>> :
                     p \in {q \in (1..Len(usage_)) \X (1..Len(usage_)) : q[1] < q[2]}}
ImplementsRecencyMap == Recency!Spec

\* The cache forgets the key that was not used for the longest time, so that a
\* reference that a client keeps has max_size_ uses of other keys to live.
CacheForgetsOldest == ImplementsRecencyMap /\ []ReferenceOutlivesOthers
=============================================================================
