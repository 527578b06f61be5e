------------------------------- MODULE KeyDB -------------------------------
(***************************************************************************)
(* KeyDB (gaia/src/gaia_key_db.cpp): key ids are handed out by             *)
(* getNewKeyIdRandom and getNewKeyIdSequential, keys are stored under      *)
(* their id in a LevelDB database, and key_id_set_, which is in memory     *)
(* only, remembers the ids in use.  Both getNewKeyId* look an id up        *)
(* without the mutex and insert it under the mutex afterwards.             *)
(* key_memory_ is never written, so it stays empty and is left out.  A key *)
(* is abstracted to its id, and put/get/seek of other keys are left out.   *)
(***************************************************************************)
EXTENDS Naturals, FiniteSets

CONSTANTS Threads,
          Half,           \* 2^31: rand() is below it, a random id above it
          Start, Size     \* the range asked of getNewKeyIdSequential

VARIABLES db,           \* "closed", "open", or "broken": the path is set, no database
          stored,       \* the ids under the prefix "cf:" in the database
          key_id_set_,
          at,           \* where each thread is: "idle", "scan" or "insert"
          keyId,        \* the local variable of getNewKeyId*
          owned,        \* history: the ids each thread was given and has not deleted
          undeleted     \* history: the stored ids whose delete the database refused

memory == <<key_id_set_, at, keyId, owned>>
vars == <<db, stored, memory, undeleted>>

Forgotten == /\ key_id_set_' = {}
             /\ at' = [t \in Threads |-> "idle"]
             /\ keyId' = [t \in Threads |-> 0]
             /\ owned' = [t \in Threads |-> {}]

Init ==
  /\ db = "closed" /\ stored = {} /\ key_id_set_ = {}
  /\ at = [t \in Threads |-> "idle"]
  /\ keyId = [t \in Threads |-> 0]
  /\ owned = [t \in Threads |-> {}]
  /\ undeleted = {}

\* Clients call KeyDB once inst(path) has returned, not after it has thrown.
Idle(t) == db = "open" /\ at[t] = "idle"

\* Mutant of Open: the stored ids are not read back.
OpenEmpty ==
  /\ db = "closed" /\ db' = "open"
  /\ UNCHANGED <<stored, key_id_set_, at, keyId, owned, undeleted>>

\* inst(path) on an instance without a path: the database opens and the ids
\* stored in it are reserved ...
Open ==
  /\ db = "closed" /\ db' = "open"
  /\ key_id_set_' = key_id_set_ \cup stored
  /\ UNCHANGED <<stored, at, keyId, owned, undeleted>>

\* ... or opening throws, and as the path is already set no later inst() retries.
OpenFails == db = "closed" /\ db' = "broken" /\ UNCHANGED <<stored, memory, undeleted>>

\* reset(), called when no other call is in progress, or the end of the process
\* at any moment: only the database survives.
Reset ==
  /\ db # "closed" /\ db' = "closed"
  /\ Forgotten
  /\ UNCHANGED <<stored, undeleted>>

Goes(t, to, id) ==
  /\ at' = [at EXCEPT ![t] = to]
  /\ keyId' = [keyId EXCEPT ![t] = id]
  /\ UNCHANGED <<db, stored, undeleted>>

\* getNewKeyIdRandom: rand() with bit 31 set and bit 30 as it comes, drawn
\* again until it is not in the set.
DrawRandom(t) ==
  \E r \in 0..Half - 1 :
     /\ Idle(t)
     /\ r + Half \notin key_id_set_
     /\ Goes(t, "insert", r + Half)
     /\ UNCHANGED <<key_id_set_, owned>>

\* getNewKeyIdSequential(Size, Start).
BeginScan(t) ==
  Idle(t) /\ Goes(t, "scan", Start) /\ UNCHANGED <<key_id_set_, owned>>

\* One round of its loop: an id in use is passed over ...
ScanUsed(t) ==
  /\ at[t] = "scan" /\ keyId[t] < Size + Start
  /\ keyId[t] \in key_id_set_
  /\ Goes(t, "scan", keyId[t] + 1)
  /\ UNCHANGED <<key_id_set_, owned>>

\* ... a free one is chosen ...
ScanFree(t) ==
  /\ at[t] = "scan" /\ keyId[t] < Size + Start
  /\ keyId[t] \notin key_id_set_
  /\ Goes(t, "insert", keyId[t])
  /\ UNCHANGED <<key_id_set_, owned>>

\* ... and at the end of the range the call throws.
ScanEnds(t) ==
  /\ at[t] = "scan" /\ keyId[t] >= Size + Start
  /\ Goes(t, "idle", 0)
  /\ UNCHANGED <<key_id_set_, owned>>

\* Under the mutex: the id is reserved and returned.
Insert(t) ==
  /\ at[t] = "insert"
  /\ key_id_set_' = key_id_set_ \cup {keyId[t]}
  /\ owned' = [owned EXCEPT ![t] = @ \cup {keyId[t]}]
  /\ Goes(t, "idle", 0)

\* putValue of an id the thread was given; an error changes nothing.
PutValue(t, id) ==
  /\ Idle(t) /\ id \in owned[t]
  /\ stored' = stored \cup {id} /\ undeleted' = undeleted \ {id}
  /\ UNCHANGED <<db, memory>>

Deletes(t, id) ==
  /\ Idle(t) /\ id \in owned[t] \cup stored
  /\ owned' = [u \in Threads |-> owned[u] \ {id}]
  /\ UNCHANGED <<db, at, keyId>>

\* delValue: first the set, then the database.
DelValue(t, id) ==
  /\ Deletes(t, id)
  /\ key_id_set_' = key_id_set_ \ {id}
  /\ stored' = stored \ {id} /\ undeleted' = undeleted \ {id}

\* The database reports an error: the call throws after the set has changed.
DelValueFails(t, id) ==
  /\ Deletes(t, id)
  /\ key_id_set_' = key_id_set_ \ {id}
  /\ undeleted' = undeleted \cup (stored \cap {id})
  /\ UNCHANGED stored

Thread(t) ==
  \/ DrawRandom(t) \/ BeginScan(t) \/ ScanUsed(t) \/ ScanFree(t) \/ ScanEnds(t) \/ Insert(t)
  \/ \E id \in owned[t] \cup stored : PutValue(t, id) \/ DelValue(t, id) \/ DelValueFails(t, id)

Next == Open \/ OpenFails \/ Reset \/ \E t \in Threads : Thread(t)

Spec == Init /\ [][Next]_vars
-----------------------------------------------------------------------------
Ids == (Start..Start + Size - 1) \cup (Half..2 * Half - 1)

\* Type invariant.
TypeOK ==
  /\ db \in {"closed", "open", "broken"}
  /\ stored \subseteq Ids /\ key_id_set_ \subseteq Ids
  /\ at \in [Threads -> {"idle", "scan", "insert"}]
  /\ keyId \in [Threads -> Ids \cup 0..Start + Size]
  /\ owned \in [Threads -> SUBSET Ids]
  /\ undeleted \subseteq stored

\* An id that is returned is new: nobody has it, and no key is stored under it
\* except one whose deletion the database refused.  This holds across crashes
\* and resets at any step, of a set that is only in memory.
ReturnsNewId ==
  [][\A t \in Threads :
       at[t] = "insert" /\ at'[t] = "idle" /\ db' = "open" =>
         keyId[t] \notin (stored \ undeleted) \cup UNION {owned[u] : u \in Threads}]_vars

\* getNewKeyIdSequential gives up only when the whole range is in use.
ExhaustedMeansFull ==
  [][\A t \in Threads : at[t] = "scan" /\ at'[t] = "idle" /\ db' = "open" =>
       Start..Start + Size - 1 \subseteq key_id_set_]_vars

\* An id deleted in the database can be given again: the range is not used up
\* by keys that exist no more.
DeletedIsFree ==
  db = "open" => key_id_set_ \subseteq stored \cup UNION {owned[t] : t \in Threads}

\* gaia_key_db.hpp:67: the set is there "so that they do not overlap": an id
\* under which a key is stored is reserved as long as the database is open.
StoredIsReserved == db = "open" => stored \subseteq key_id_set_

\* By the same comment no two threads are given the same id.
NoIdGivenTwice == \A t, u \in Threads : t # u => owned[t] \cap owned[u] = {}
=============================================================================
