----------------------------- MODULE CommonLemmas -----------------------------
(***************************************************************************)
(* What the proofs of several modules need.  Of natural numbers: that a    *)
(* set of them has a smallest, with which counterexamples are refuted and  *)
(* functions shown to exist that are given recursively.  Of a bounded      *)
(* queue of numbered items: what pushing and taking do to it, for every    *)
(* size, as the event queue, the loader and the router beside it and the   *)
(* whole frame path use it.                                                *)
(***************************************************************************)
EXTENDS BoundedFifo, WellFoundedInduction, SequenceTheorems, FiniteSetTheorems, TLAPS

\* Among natural numbers there is a smallest: the counterexample that the proofs
\* below begin from.
LEMMA Smallest ==
  ASSUME NEW S \in SUBSET Nat, S # {}
  PROVE  \E m \in S : \A n \in S : m <= n
<1> DEFINE lesser == {ss \in Nat \X Nat : ss[1] < ss[2]}
<1>1. IsWellFoundedOn(lesser, Nat)
  BY NatLessThanWellFounded, Zenon DEF OpToRel
<1> HIDE DEF lesser
<1>2. PICK m \in S : \A n \in S : <<n, m>> \notin lesser
  BY <1>1, WFMin, Zenon
<1>3. \A n \in S : ~(n < m)
  BY <1>2 DEF lesser
<1> QED BY <1>3

\* What holds of 0, and of each number after one that it holds of.
LEMMA UpTo ==
  ASSUME NEW n \in Nat, NEW D, 0 \in D, \A i \in 1..n : i - 1 \in D => i \in D
  PROVE  \A i \in 0..n : i \in D
<1> DEFINE E == {i \in 0..n : i \notin D}
<1>1. ASSUME E # {} PROVE FALSE
  <2>1. PICK m \in E : \A k \in E : m <= k
    <3>1. E \in SUBSET Nat
      OBVIOUS
    <3> HIDE DEF E
    <3> QED BY <1>1, <3>1, Smallest
  <2>2. m \in 0..n /\ m \notin D /\ m # 0
    BY <2>1
  <2>3. m \in 1..n /\ m - 1 \in 0..n /\ ~(m <= m - 1)
    BY <2>2
  <2>4. m - 1 \notin E
    <3> HIDE DEF E
    <3> QED BY <2>1, <2>3
  <2> QED BY <2>2, <2>3, <2>4
<1> QED BY <1>1

\* A function of numbers may be given by its first value and by each from the
\* one before it.
Iterations(V, n, b, g) == {f \in [0..n -> V] : f[0] = b /\ \A i \in 1..n : f[i] = g[i][f[i - 1]]}

LEMMA Iterated ==
  \A V, n, b, g : n \in Nat /\ b \in V /\ g \in [1..n -> [V -> V]] => \E f : f \in Iterations(V, n, b, g)
<1> SUFFICES ASSUME NEW V, NEW n, NEW b, NEW g, n \in Nat, b \in V, g \in [1..n -> [V -> V]]
             PROVE  \E f : f \in Iterations(V, n, b, g)
  BY Zenon
<1> SUFFICES \E f \in [0..n -> V] : f[0] = b /\ \A i \in 1..n : f[i] = g[i][f[i - 1]]
  BY DEF Iterations
<1> DEFINE Have(m) == \E f \in [0..m -> V] : f[0] = b /\ \A i \in 1..m : f[i] = g[i][f[i - 1]]
           D == {m \in 0..n : ~Have(m)}
<1>1. ASSUME D # {} PROVE FALSE
  <2>1. PICK m \in D : \A k \in D : m <= k
    <3>1. D \in SUBSET Nat
      OBVIOUS
    <3> HIDE DEF D
    <3> QED BY <1>1, <3>1, Smallest
  <2>2. m \in 0..n /\ ~Have(m)
    BY <2>1
  <2>3. m # 0 => Have(m - 1)
    <3>1. m # 0 => m - 1 \in 0..n /\ m - 1 \notin D
      <4>1. m # 0 => m - 1 \in 0..n /\ ~(m <= m - 1)
        BY <2>2
      <4> HIDE DEF D
      <4> QED BY <2>1, <4>1
    <3> QED BY <3>1
  <2>4. CASE m = 0
    <3> DEFINE f == [i \in 0..0 |-> b]
    <3>1. f \in [0..0 -> V] /\ f[0] = b /\ \A i \in 1..0 : f[i] = g[i][f[i - 1]]
      OBVIOUS
    <3> HIDE DEF f
    <3> QED BY <2>2, <2>4, <3>1
  <2>5. CASE m # 0
    <3>1. PICK f \in [0..m - 1 -> V] : f[0] = b /\ \A i \in 1..m - 1 : f[i] = g[i][f[i - 1]]
      BY <2>3, <2>5
    <3> DEFINE h == [i \in 0..m |-> IF i = m THEN g[m][f[m - 1]] ELSE f[i]]
    <3>2. m \in 1..n /\ m - 1 \in 0..m - 1 /\ f[m - 1] \in V
      BY <2>2, <2>5
    <3>3. g[m][f[m - 1]] \in V
      BY <3>2
    <3>4. h \in [0..m -> V]
      BY <3>2, <3>3
    <3>5. h[m] = g[m][f[m - 1]] /\ \A i \in 0..m - 1 : h[i] = f[i]
      BY <3>2
    <3> HIDE DEF h
    <3>6. h[0] = b
      BY <3>1, <3>2, <3>5
    <3>7. \A i \in 1..m : h[i] = g[i][h[i - 1]]
      <4> SUFFICES ASSUME NEW i \in 1..m PROVE h[i] = g[i][h[i - 1]]
        OBVIOUS
      <4>1. i - 1 \in 0..m - 1 /\ h[i - 1] = f[i - 1]
        BY <3>2, <3>5
      <4>2. i # m => i \in 1..m - 1 /\ i \in 0..m - 1
        BY <3>2
      <4> QED BY <3>1, <3>5, <4>1, <4>2
    <3> QED BY <2>2, <3>4, <3>6, <3>7
  <2> QED BY <2>4, <2>5
<1>2. n \in 0..n
  OBVIOUS
<1> HIDE DEF Have
<1> QED BY <1>1, <1>2 DEF Have
-----------------------------------------------------------------------------
\* q numbers the Len(q) newest of n items, oldest first.
IsNewest(q, n) ==
  /\ q \in Seq(Nat)
  /\ Len(q) <= n
  /\ \A i \in 1..Len(q) : q[i] = n - Len(q) + i

\* The form by index and the form of the invariant say the same.
LEMMA NewestForm ==
  ASSUME NEW q \in Seq(Nat), NEW n \in Nat, Len(q) <= n
  PROVE  q = NewestOf(n, Len(q)) <=> IsNewest(q, n)
<1>1. Len(q) \in Nat /\ q = [i \in 1..Len(q) |-> q[i]]
  BY LenProperties
<1>2. ASSUME IsNewest(q, n) PROVE q = [i \in 1..Len(q) |-> n - Len(q) + i]
  BY <1>1, <1>2 DEF IsNewest
<1>3. ASSUME q = [i \in 1..Len(q) |-> n - Len(q) + i]
      PROVE  \A i \in 1..Len(q) : q[i] = n - Len(q) + i
  <2>1. TAKE i \in 1..Len(q)
  <2>2. QED
    BY <1>3
<1>4. QED
  BY <1>2, <1>3 DEF IsNewest, NewestOf

\* Adding the next item at the back.
LEMMA AppendKeepsNewest ==
  ASSUME NEW q, NEW n \in Nat, IsNewest(q, n)
  PROVE  IsNewest(Append(q, n + 1), n + 1) /\ Len(Append(q, n + 1)) = Len(q) + 1
<1>1. q \in Seq(Nat) /\ Len(q) \in Nat /\ Len(q) <= n
  BY LenProperties DEF IsNewest
<1>2. /\ Append(q, n + 1) \in Seq(Nat)
      /\ Len(Append(q, n + 1)) = Len(q) + 1
      /\ \A i \in 1..Len(q) : Append(q, n + 1)[i] = q[i]
      /\ Append(q, n + 1)[Len(q) + 1] = n + 1
  BY <1>1, AppendProperties
<1>3. \A i \in 1..Len(q) + 1 : Append(q, n + 1)[i] = (n + 1) - (Len(q) + 1) + i
  <2>1. TAKE i \in 1..Len(q) + 1
  <2>2. CASE i = Len(q) + 1
    BY <1>1, <1>2, <2>2
  <2>3. CASE i # Len(q) + 1
    <3>1. i \in 1..Len(q)
      BY <1>1, <2>3
    <3>2. q[i] = n - Len(q) + i
      BY <3>1 DEF IsNewest
    <3>3. QED
      BY <1>1, <1>2, <3>1, <3>2
  <2>4. QED
    BY <2>2, <2>3
<1>4. QED
  BY <1>1, <1>2, <1>3 DEF IsNewest

\* Removing the front, which is the oldest item.
LEMMA TailKeepsNewest ==
  ASSUME NEW q, NEW n \in Nat, IsNewest(q, n), q # <<>>
  PROVE  /\ IsNewest(Tail(q), n)
         /\ Len(Tail(q)) = Len(q) - 1
         /\ Head(q) = n - Len(q) + 1
         /\ Len(q) \in Nat \ {0}
<1>1. q \in Seq(Nat) /\ Len(q) \in Nat \ {0} /\ Len(q) <= n
  BY LenProperties, EmptySeq DEF IsNewest
<1>2. /\ Head(q) = q[1]
      /\ Tail(q) \in Seq(Nat)
      /\ Len(Tail(q)) = Len(q) - 1
      /\ \A i \in 1..Len(Tail(q)) : Tail(q)[i] = q[i + 1]
  BY <1>1, HeadTailProperties
<1>3. \A i \in 1..Len(q) - 1 : Tail(q)[i] = n - (Len(q) - 1) + i
  <2>1. TAKE i \in 1..Len(q) - 1
  <2>2. i + 1 \in 1..Len(q)
    BY <1>1
  <2>3. q[i + 1] = n - Len(q) + (i + 1)
    BY <2>2 DEF IsNewest
  <2>4. QED
    BY <1>1, <1>2, <2>3
<1>4. q[1] = n - Len(q) + 1
  BY <1>1 DEF IsNewest
<1>5. QED
  BY <1>1, <1>2, <1>3, <1>4 DEF IsNewest

\* push keeps the newest items, one more until the queue is full.
LEMMA PushKeepsNewest ==
  ASSUME NEW q, NEW n \in Nat, IsNewest(q, n), NEW max_size_ \in Nat \ {0}
  PROVE  /\ IsNewest(PushTo(q, n + 1, max_size_), n + 1)
         /\ Len(PushTo(q, n + 1, max_size_)) =
              IF Len(q) >= max_size_ THEN Len(q) ELSE Len(q) + 1
<1>1. q \in Seq(Nat) /\ Len(q) \in Nat
  BY LenProperties DEF IsNewest
<1>2. CASE Len(q) >= max_size_
  <2>1. q # <<>>
    BY <1>1, <1>2, EmptySeq
  <2>2. IsNewest(Tail(q), n) /\ Len(Tail(q)) = Len(q) - 1
    BY <2>1, TailKeepsNewest
  <2>3. /\ IsNewest(Append(Tail(q), n + 1), n + 1)
        /\ Len(Append(Tail(q), n + 1)) = Len(q)
    BY <1>1, <2>2, AppendKeepsNewest
  <2>4. QED
    BY <1>2, <2>3 DEF PushTo
<1>3. CASE ~(Len(q) >= max_size_)
  BY <1>1, <1>3, AppendKeepsNewest DEF PushTo
<1>4. QED
  BY <1>2, <1>3

\* The numbers a queue holds, as the abstract channel sees them.
Items(q) == {q[i] : i \in 1..Len(q)}

\* The numbers in the queue form an interval that ends at the newest item.
LEMMA NewestIsInterval ==
  ASSUME NEW q, NEW n \in Nat, IsNewest(q, n)
  PROVE  /\ Items(q) = (n - Len(q) + 1)..n
         /\ IsFiniteSet(Items(q))
         /\ Cardinality(Items(q)) = Len(q)
<1>1. Len(q) \in Nat /\ Len(q) <= n
  BY LenProperties DEF IsNewest
<1>2. ASSUME NEW x \in (n - Len(q) + 1)..n
      PROVE  x \in Items(q)
  <2>1. x - n + Len(q) \in 1..Len(q)
    BY <1>1
  <2>2. q[x - n + Len(q)] = x
    BY <1>1, <2>1 DEF IsNewest
  <2>3. QED
    BY <2>1, <2>2 DEF Items
<1>3. ASSUME NEW i \in 1..Len(q)
      PROVE  q[i] \in (n - Len(q) + 1)..n
  <2>1. q[i] = n - Len(q) + i
    BY DEF IsNewest
  <2>2. QED
    BY <1>1, <2>1
<1>4. Items(q) = (n - Len(q) + 1)..n
  BY <1>2, <1>3 DEF Items
<1>5. /\ IsFiniteSet((n - Len(q) + 1)..n)
      /\ Cardinality((n - Len(q) + 1)..n) = Len(q)
  <2>1. n - Len(q) + 1 \in Int /\ n \in Int
    BY <1>1
  <2>2. /\ IsFiniteSet((n - Len(q) + 1)..n)
        /\ Cardinality((n - Len(q) + 1)..n)
             = IF n - Len(q) + 1 > n THEN 0 ELSE n - (n - Len(q) + 1) + 1
    BY <2>1, FS_Interval
  <2>3. QED
    BY <1>1, <2>2
<1>6. QED
  BY <1>4, <1>5

\* They are numbers of items there have been.
LEMMA NewestInRange ==
  ASSUME NEW q, NEW n \in Nat, IsNewest(q, n)
  PROVE  q \in Seq(1..n)
<1>1. q \in Seq(Nat) /\ Len(q) \in Nat /\ Len(q) <= n /\ DOMAIN q = 1..Len(q)
  BY LenProperties DEF IsNewest
<1>2. \A i \in 1..Len(q) : q[i] \in 1..n
  BY <1>1 DEF IsNewest
<1>3. q = [i \in 1..Len(q) |-> q[i]]
  BY <1>1
<1>4. QED
  BY <1>1, <1>2, <1>3, IsASeq

\* A push loses nothing, or the oldest item of a queue that is then full again:
\* Send of LossyChannel.
LEMMA PushLosesOldest ==
  ASSUME NEW q, NEW n \in Nat, IsNewest(q, n),
         NEW max_size_ \in Nat \ {0}, Len(q) <= max_size_
  PROVE  \E lost \in SUBSET Items(q) :
            /\ \A i \in lost, j \in Items(q) \ lost : i < j
            /\ lost # {} => Cardinality(Items(q) \ lost) + 1 = max_size_
            /\ Items(PushTo(q, n + 1, max_size_)) = (Items(q) \ lost) \cup {n + 1}
<1> DEFINE r == PushTo(q, n + 1, max_size_)
           front == n - Len(q) + 1
<1>1. Len(q) \in Nat /\ Len(q) <= n /\ Items(q) = front..n
  BY NewestIsInterval, LenProperties DEF IsNewest
<1>2. /\ IsNewest(r, n + 1)
      /\ Len(r) = IF Len(q) >= max_size_ THEN Len(q) ELSE Len(q) + 1
  BY PushKeepsNewest
<1>3. Items(r) = ((n + 1) - Len(r) + 1)..(n + 1)
  BY <1>2, NewestIsInterval
<1>4. CASE Len(q) < max_size_
  <2>1. Len(r) = Len(q) + 1 /\ (n + 1) - Len(r) + 1 = front
    BY <1>1, <1>2, <1>4
  <2>2. front..(n + 1) = (front..n) \cup {n + 1}
    BY <1>1
  <2>3. Items(r) = (Items(q) \ {}) \cup {n + 1}
    BY <1>1, <1>3, <2>1, <2>2
  <2>4. QED
    BY <2>3
<1>5. CASE Len(q) = max_size_
  <2>1. Len(r) = Len(q) /\ (n + 1) - Len(r) + 1 = front + 1
    BY <1>1, <1>2, <1>5
  <2>2. front \in Items(q) /\ Items(q) \ {front} = (front + 1)..n
    BY <1>1, <1>5
  <2>3. (front + 1)..(n + 1) = ((front + 1)..n) \cup {n + 1}
    BY <1>1, <1>5
  <2>4. Items(r) = (Items(q) \ {front}) \cup {n + 1}
    BY <1>3, <2>1, <2>2, <2>3
  <2>5. \A i \in {front}, j \in Items(q) \ {front} : i < j
    BY <1>1, <2>2
  <2>6. Cardinality(Items(q) \ {front}) + 1 = max_size_
    <3>1. IsFiniteSet(Items(q)) /\ Cardinality(Items(q)) = Len(q)
      BY NewestIsInterval
    <3>2. Cardinality(Items(q) \ {front}) = Cardinality(Items(q)) - 1
      BY <2>2, <3>1, FS_RemoveElement
    <3>3. QED
      BY <1>1, <1>5, <3>1, <3>2
  <2>7. {front} \in SUBSET Items(q)
    BY <2>2
  <2>8. QED
    BY <2>4, <2>5, <2>6, <2>7
<1>6. Len(q) < max_size_ \/ Len(q) = max_size_
  BY <1>1
<1>7. QED
  BY <1>4, <1>5, <1>6

\* Taking the front takes the oldest item: Deliver of LossyChannel.
LEMMA TailTakesOldest ==
  ASSUME NEW q, NEW n \in Nat, IsNewest(q, n), q # <<>>
  PROVE  /\ Head(q) \in Items(q)
         /\ \A i \in Items(q) : Head(q) <= i
         /\ Items(Tail(q)) = Items(q) \ {Head(q)}
<1>1. /\ IsNewest(Tail(q), n) /\ Len(Tail(q)) = Len(q) - 1
      /\ Head(q) = n - Len(q) + 1
      /\ Len(q) \in Nat \ {0} /\ Len(q) <= n
  BY TailKeepsNewest DEF IsNewest
<1>2. /\ Items(q) = (n - Len(q) + 1)..n
      /\ Items(Tail(q)) = (n - (Len(q) - 1) + 1)..n
  BY <1>1, NewestIsInterval
<1>3. QED
  BY <1>1, <1>2
=============================================================================
