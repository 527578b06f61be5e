----------------------------- MODULE RecencyMap -----------------------------
(***************************************************************************)
(* What a least-recently-used cache promises: a map of at most Capacity    *)
(* keys which, when a key must make room, forgets the one whose last use   *)
(* (put or successful get) lies furthest back.                             *)
(***************************************************************************)
EXTENDS Naturals, FiniteSets

CONSTANTS Keys, Values, Capacity,
          NoValue   \* the answer to a get that finds nothing

VARIABLES content,  \* the value of each key that is held
          older,    \* <<a, b>>: the last use of a lies before that of b
          answer    \* of the latest get

vars == <<content, older, answer>>

Init == content = <<>> /\ older = {} /\ answer = NoValue

Held == DOMAIN content

\* The order of use once key has been used and only the keys in kept remain.
AfterUse(kept, key) ==
  LET rest == kept \ {key}
  IN  (older \cap (rest \X rest)) \cup (rest \X {key})

\* The keys that stay when key comes in.
Kept(kept, key) ==
  IF key \in Held \/ Cardinality(Held) < Capacity
    THEN kept = Held
    ELSE \E oldest \in Held :
            /\ \A other \in Held \ {oldest} : <<oldest, other>> \in older
            /\ kept = Held \ {oldest}

Put(key, value) ==
  \E kept \in SUBSET Held :
     /\ Kept(kept, key)
     /\ content' = [k \in kept \cup {key} |-> IF k = key THEN value ELSE content[k]]
     /\ older' = AfterUse(kept, key)
     /\ UNCHANGED answer

Get(key) ==
  IF key \in Held
    THEN answer' = content[key] /\ older' = AfterUse(Held, key) /\ UNCHANGED content
    ELSE answer' = NoValue /\ UNCHANGED <<content, older>>

Forget(keys) ==
  /\ content' = [k \in Held \ keys |-> content[k]]
  /\ older' = older \cap ((Held \ keys) \X (Held \ keys))
  /\ UNCHANGED answer

Next ==
  \/ \E key \in Keys : Get(key) \/ Forget({key}) \/ \E value \in Values : Put(key, value)
  \/ Forget(Held)

Spec == Init /\ [][Next]_vars
=============================================================================
