------------------------------ MODULE KeyTable ------------------------------
(***************************************************************************)
(* How KeyDB (gaia/src/gaia_key_db.cpp) reads and writes its database: an  *)
(* ordered table of texts, in which every call may meet an error.  The     *)
(* keys of its ids stand under a prefix beside what clients put there      *)
(* themselves.  A text is a sequence of characters, in their order: the    *)
(* digits are 0 to 9, and other characters are above them.  key_memory_    *)
(* stays empty, and which ids are reserved is told by KeyDB.               *)
(***************************************************************************)
EXTENDS Naturals, SequencesExt

CONSTANTS Texts,        \* keys that clients give
          Data,         \* values
          KeyIds,       \* ids that KeyDB stores keys under
          IdSpace,      \* 2^32
          DbPrefix,     \* kDbPrefix
          MaxLoop,      \* MAX_LOOP_CNT
          Limits        \* of a seek

VARIABLES table,   \* the database: a function of the keys that are in it
          said     \* what the last call said: [op, throws, ...]

vars == <<table, said>>

NoWord == [op |-> "none", throws |-> FALSE]
Init == table = <<>> /\ said = NoWord

Stored == DOMAIN table
With(t, key, value) == [k \in DOMAIN t \cup {key} |-> IF k = key THEN value ELSE t[k]]
Without(t, key) == [k \in DOMAIN t \ {key} |-> t[k]]

Says(word) == said = NoWord /\ said' = word
Throws(name) == Says([op |-> name, throws |-> TRUE]) /\ UNCHANGED table
-----------------------------------------------------------------------------
(* One key.                                                                *)

\* What cannot be read first is not written, and either error is thrown.
Put(key, value) ==
  Says([op |-> "put", throws |-> FALSE, key |-> key, value |-> value]) /\ table' = With(table, key, value)

\* Nobody asks what became of either half.
OverWrite(key, value) ==
  \E deleted, written \in BOOLEAN :
    LET left == IF deleted THEN Without(table, key) ELSE table
    IN  /\ Says([op |-> "overWrite", throws |-> FALSE, key |-> key, value |-> value])
        /\ table' = IF written THEN With(left, key, value) ELSE left

Get(key) ==
  /\ key \in Stored
  /\ Says([op |-> "get", throws |-> FALSE, key |-> key, value |-> table[key]]) /\ UNCHANGED table

\* With a status nothing is thrown; an error is set down as -1 and then as found.
GetStatus(key) ==
  \E error \in BOOLEAN :
    /\ Says([op |-> "getStatus", throws |-> FALSE, key |-> key, found |-> error \/ key \in Stored,
             value |-> IF error \/ key \notin Stored THEN "" ELSE table[key]])
    /\ UNCHANGED table

Del(key) == Says([op |-> "del", throws |-> FALSE, key |-> key]) /\ table' = Without(table, key)
-----------------------------------------------------------------------------
(* Many keys: an iterator goes through them in their order.                *)

Precedes(a, b) ==
  \/ Len(a) < Len(b) /\ SubSeq(b, 1, Len(a)) = a
  \/ \E i \in DOMAIN a \cap DOMAIN b : a[i] < b[i] /\ SubSeq(a, 1, i - 1) = SubSeq(b, 1, i - 1)

\* Seek, and Next until the end.
From(start) ==
  LET S == {k \in Stored : ~Precedes(k, start)}
  IN  [i \in 1..Cardinality(S) |-> CHOOSE k \in S : Cardinality({j \in S : Precedes(j, k)}) = i - 1]

\* As far as the rows go on being among the wanted ones, and no further.
Leading(rows, wanted) ==
  SubSeq(rows, 1, Cardinality({i \in DOMAIN rows : \A j \in 1..i : rows[j] \in wanted}))

Count(limit) == IF limit = 0 THEN MaxLoop ELSE limit
AtMost(rows, limit) == SubSeq(rows, 1, Min({Len(rows), Count(limit)}))

\* An iterator that meets an error is not valid any more, which ends the loop as
\* the last key does.
Reads(word, rows) ==
  \E n \in 0..Len(rows) :
    /\ Says([word EXCEPT !.rows = SubSeq(rows, 1, n), !.complete = (n = Len(rows))])
    /\ UNCHANGED table

Reading(name, start, end, limit) ==
  [op |-> name, throws |-> FALSE, start |-> start, end |-> end, limit |-> limit, rows |-> <<>>, complete |-> TRUE]

Seek(start, limit) == Reads(Reading("seek", start, start, limit), AtMost(From(start), limit))

\* With a function, which stops at the key last.
SeekUntil(start, last, limit) ==
  LET rows == AtMost(From(start), limit)
      upTo == {i \in DOMAIN rows : \A j \in 1..i - 1 : rows[j] # last}
  IN  Reads(Reading("seekUntil", start, last, limit), SubSeq(rows, 1, Cardinality(upTo)))

SeekRange(start, end) ==
  Reads(Reading("seekRange", start, end, 0), Leading(From(start), {k \in Stored : ~Precedes(end, k)}))

StartsWith(key, prefix) == Len(key) >= Len(prefix) /\ SubSeq(key, 1, Len(prefix)) = prefix

\* Mutant of PrefixRows: an iterator is expected to start at the prefix itself.
PrefixRowsAfterFirst(prefix) == IF From(prefix) = <<>> THEN <<>> ELSE Tail(From(prefix))

PrefixRows(prefix) == Leading(From(prefix), {k \in Stored : StartsWith(k, prefix)})

SeekPrefix(prefix, limit) == Reads(Reading("seekPrefix", prefix, prefix, limit), AtMost(PrefixRows(prefix), limit))

\* getPrefix: a map from what stands behind the prefix.
Behind(key, prefix) == SubSeq(key, Len(prefix) + 1, Len(key))
GetPrefix(prefix) == Reads(Reading("getPrefix", prefix, prefix, 0), PrefixRows(prefix))
-----------------------------------------------------------------------------
(* Ids.                                                                    *)

\* std::to_string.
ToText[id \in 0..IdSpace - 1] == IF id < 10 THEN <<id>> ELSE Append(ToText[id \div 10], id % 10)
KeyOf(id) == DbPrefix \o ToText[id]

\* std::stoul: the digits in front, and no id without one.
Digits(text) == SubSeq(text, 1, Cardinality({i \in DOMAIN text : \A j \in 1..i : text[j] < 10}))
Value(digits) ==
  LET upTo[i \in 0..Len(digits)] == IF i = 0 THEN 0 ELSE upTo[i - 1] * 10 + digits[i]
  IN  upTo[Len(digits)]
IdOf(text) == Value(Digits(text)) % IdSpace

\* open: the ids that are read back.
ReadIds(rows) == {IdOf(Behind(key, DbPrefix)) : key \in {k \in Range(rows) : Digits(Behind(k, DbPrefix)) # <<>>}}
Open == Reads(Reading("open", DbPrefix, DbPrefix, 0), PrefixRows(DbPrefix))

PutValue(id, value) ==
  Says([op |-> "putValue", throws |-> FALSE, id |-> id]) /\ table' = With(table, KeyOf(id), value)

GetValue(id) ==
  /\ KeyOf(id) \in Stored
  /\ Says([op |-> "getValue", throws |-> FALSE, id |-> id, value |-> table[KeyOf(id)]]) /\ UNCHANGED table

DelValue(id) == Says([op |-> "delValue", throws |-> FALSE, id |-> id]) /\ table' = Without(table, KeyOf(id))

\* An error is "no".
ContainsKey(id) ==
  \E error \in BOOLEAN :
    /\ Says([op |-> "containsKey", throws |-> FALSE, id |-> id, contains |-> ~error /\ KeyOf(id) \in Stored])
    /\ UNCHANGED table
-----------------------------------------------------------------------------
Return == said # NoWord /\ said' = NoWord /\ UNCHANGED table

Next ==
  \/ \E key \in Texts : \/ \E value \in Data : Put(key, value) \/ OverWrite(key, value)
                        \/ Get(key) \/ GetStatus(key) \/ Del(key)
  \/ \E name \in {"put", "get", "del", "putValue", "getValue", "delValue"} : Throws(name)
  \/ \E start \in Texts, limit \in Limits : Seek(start, limit) \/ SeekUntil(start, KeyOf(Min(KeyIds)), limit)
  \/ \E start, end \in Texts : SeekRange(start, end)
  \/ \E limit \in Limits : SeekPrefix(DbPrefix, limit)
  \/ GetPrefix(DbPrefix) \/ Open
  \/ \E id \in KeyIds : \/ \E value \in Data : PutValue(id, value)
                     \/ GetValue(id) \/ DelValue(id) \/ ContainsKey(id)
  \/ Return

Spec == Init /\ [][Next]_vars
-----------------------------------------------------------------------------
Left == {k \in Stored : k \notin Range(said.rows)}

\* Unless an error cuts it off, a reading finds every key of its range or prefix,
\* up to its limit the first ones, in order and each for itself: the keys with a
\* prefix stand together, and the iterator starts in front of them.
RowsAreAll ==
  said.op \in {"seek", "seekUntil", "seekRange", "seekPrefix", "getPrefix", "open"} =>
    LET rows == said.rows
        wanted == CASE said.op \in {"seek", "seekUntil"} -> {k \in Stored : ~Precedes(k, said.start)}
                    [] said.op = "seekRange" -> {k \in Stored : ~Precedes(k, said.start) /\ ~Precedes(said.end, k)}
                    [] OTHER -> {k \in Stored : StartsWith(k, said.start)}
    IN  /\ Range(rows) \subseteq wanted /\ \A i, j \in DOMAIN rows : i < j => Precedes(rows[i], rows[j])
        /\ \A k \in wanted \cap Left, i \in DOMAIN rows : Precedes(rows[i], k)
        /\ said.op = "getPrefix" => IsInjective([i \in DOMAIN rows |-> Behind(rows[i], said.start)])
        /\ said.complete /\ wanted \cap Left # {} =>
             \/ Len(rows) = Count(said.limit)
             \/ said.op = "seekUntil" /\ rows # <<>> /\ Last(rows) = said.end

\* Whatever clients put beside them, open reads back every id under which a key is
\* stored; another id it takes to be in use only for a text of a client's own.
OpenFindsEveryId ==
  said.op = "open" /\ said.complete =>
    LET used == {id \in KeyIds : KeyOf(id) \in Stored}
    IN  /\ used \subseteq ReadIds(said.rows)
        /\ Range(said.rows) \subseteq {KeyOf(id) : id \in KeyIds} => ReadIds(said.rows) = used

\* "Not found" and "contains" can be relied upon, whatever errors there are: of
\* "found" only a value can, and "does not contain" may be an error.
AnswersAreTrue ==
  /\ said.op = "getStatus" => IF said.found THEN said.value # "" => said.key \in Stored /\ table[said.key] = said.value
                             ELSE said.key \notin Stored
  /\ said.op = "containsKey" /\ said.contains => KeyOf(said.id) \in Stored
=============================================================================
