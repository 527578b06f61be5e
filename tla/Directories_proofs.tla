------------------------- MODULE Directories_proofs -------------------------
(***************************************************************************)
(* Directories, for every tree, with links anywhere in it, and any number  *)
(* of processes: what removeDir may remove while others change the file    *)
(* system, and that removeDir, makeDir, makePath and makeDirRecursive do   *)
(* what they say when they return.                                         *)
(***************************************************************************)
EXTENDS Stores, CommonLemmas
-----------------------------------------------------------------------------
LEMMA Fronts ==
  ASSUME NEW S, NEW s \in Seq(S), s # <<>>
  PROVE  /\ F!Front(s) \in Seq(S) /\ Len(F!Front(s)) = Len(s) - 1 /\ Len(s) \in Nat \ {0}
         /\ \A i \in 1..Len(s) - 1 : F!Front(s)[i] = s[i]
         /\ F!Last(s) \in S /\ F!Last(s) = s[Len(s)]
<1>1. Len(s) \in Nat \ {0} /\ Len(s) - 1 \in Nat
  OBVIOUS
<1>2. F!Front(s) = SubSeq(s, 1, Len(s) - 1)
  BY DEF F!Front
<1>3. \A i \in 1..Len(s) - 1 : F!Front(s)[i] = s[i]
  BY <1>1, <1>2
<1>4. F!Front(s) \in Seq(S) /\ Len(F!Front(s)) = Len(s) - 1
  <2> DEFINE n == Len(s) - 1
  <2>1. n \in Nat /\ \A i \in 1..n : s[i] \in S
    BY <1>1
  <2>2. F!Front(s) = [i \in 1..n |-> s[i]]
    BY <1>1, <1>2
  <2> HIDE DEF n
  <2>3. F!Front(s) \in [1..n -> S]
    BY <2>1, <2>2
  <2>4. F!Front(s) \in Seq(S) /\ Len(F!Front(s)) = n
    BY <2>1, <2>3
  <2> QED BY <2>4 DEF n
<1>5. F!Last(s) = s[Len(s)] /\ s[Len(s)] \in S
  BY <1>1 DEF F!Last
<1> QED BY <1>1, <1>3, <1>4, <1>5

LEMMA Starts ==
  ASSUME NEW S, NEW s \in Seq(S), NEW t \in Seq(S)
  PROVE  F!IsPrefix(s, t) <=> Len(s) <= Len(t) /\ \A i \in 1..Len(s) : s[i] = t[i]
BY DEF F!IsPrefix

LinkIn(tree, e) == e \in DOMAIN tree /\ tree[e] = "link"
IsLink(e) == LinkIn(entries, e)

\* The kernel goes through one link more, or none.
LEMMA FollowedBySteps ==
  ASSUME LinkTarget \in Paths, NEW tree, NEW path \in Seq(STRING)
  PROVE  \E real \in [0..Len(path) -> Seq(STRING)] :
            /\ real[0] = <<>> /\ F!FollowedIn(tree, path) = real[Len(path)]
            /\ \A i \in 1..Len(path) :
                 LET there == Append(real[i - 1], path[i])
                 IN  real[i] = IF LinkIn(tree, there) THEN LinkTarget ELSE there
<1> DEFINE n == Len(path)
           V == Seq(STRING)
           g == [i \in 1..n |-> [r \in V |-> IF LinkIn(tree, Append(r, path[i])) THEN LinkTarget ELSE Append(r, path[i])]]
           up == CHOOSE real : real =
                   [i \in 0..n |-> IF i = 0 THEN <<>>
                                   ELSE LET there == Append(real[i - 1], path[i])
                                        IN  IF there \in DOMAIN tree /\ tree[there] = "link"
                                              THEN LinkTarget ELSE there]
<1>1. n \in Nat /\ <<>> \in V /\ LinkTarget \in V /\ n \in 0..n
  BY DEF Paths
<1>2. g \in [1..n -> [V -> V]]
  <2>1. \A i \in 1..n, r \in V : Append(r, path[i]) \in V
    OBVIOUS
  <2> QED BY <1>1, <2>1
<1>3. \A i \in 1..n, r \in V : g[i][r] = IF LinkIn(tree, Append(r, path[i])) THEN LinkTarget ELSE Append(r, path[i])
  OBVIOUS
<1> HIDE DEF g
<1>4. PICK f \in [0..n -> V] : f[0] = <<>> /\ \A i \in 1..n : f[i] = g[i][f[i - 1]]
  <2> HIDE DEF n, V
  <2>1. PICK f : f \in Iterations(V, n, <<>>, g)
    BY <1>1, <1>2, Iterated, Zenon
  <2> QED BY <2>1 DEF Iterations
<1>5. \A i \in 1..n : f[i] = IF LinkIn(tree, Append(f[i - 1], path[i])) THEN LinkTarget ELSE Append(f[i - 1], path[i])
  <2> SUFFICES ASSUME NEW i \in 1..n
               PROVE  f[i] = IF LinkIn(tree, Append(f[i - 1], path[i])) THEN LinkTarget ELSE Append(f[i - 1], path[i])
    OBVIOUS
  <2>1. f[i - 1] \in V
    BY <1>1
  <2> QED BY <1>3, <1>4, <2>1
<1>6. f = [i \in 0..n |-> IF i = 0 THEN <<>>
                          ELSE LET there == Append(f[i - 1], path[i])
                               IN  IF there \in DOMAIN tree /\ tree[there] = "link"
                                     THEN LinkTarget ELSE there]
  <2>1. f = [i \in 0..n |-> f[i]]
    OBVIOUS
  <2>2. \A i \in 0..n : f[i] = IF i = 0 THEN <<>>
                               ELSE LET there == Append(f[i - 1], path[i])
                                    IN  IF there \in DOMAIN tree /\ tree[there] = "link"
                                          THEN LinkTarget ELSE there
    <3> SUFFICES ASSUME NEW i \in 0..n
                 PROVE  f[i] = IF i = 0 THEN <<>>
                               ELSE LET there == Append(f[i - 1], path[i])
                                    IN  IF there \in DOMAIN tree /\ tree[there] = "link"
                                          THEN LinkTarget ELSE there
      OBVIOUS
    <3>1. i # 0 => i \in 1..n
      BY <1>1
    <3> HIDE DEF n
    <3> QED BY <1>4, <1>5, <3>1 DEF LinkIn
  <2> QED BY <2>1, <2>2, Zenon
<1>7. up = [i \in 0..n |-> IF i = 0 THEN <<>>
                           ELSE LET there == Append(up[i - 1], path[i])
                                IN  IF there \in DOMAIN tree /\ tree[there] = "link"
                                      THEN LinkTarget ELSE there]
  BY <1>6, Zenon
<1>8. F!FollowedIn(tree, path) = up[n]
  BY Zenon DEF F!FollowedIn
<1> HIDE DEF up
<1>9. \A i \in 0..n : up[i] = f[i]
  <2> DEFINE D == {i \in 0..n : up[i] # f[i]}
  <2>1. ASSUME D # {} PROVE FALSE
    <3>1. PICK m \in D : \A k \in D : m <= k
      <4>1. D \in SUBSET Nat
        BY <1>1
      <4> HIDE DEF D
      <4> QED BY <2>1, <4>1, Smallest
    <3>2. m \in 0..n /\ (m # 0 => m - 1 \in 0..n /\ m \in 1..n /\ m - 1 \notin D)
      <4>1. m \in 0..n /\ (m # 0 => m - 1 \in 0..n /\ m \in 1..n /\ ~(m <= m - 1))
        BY <1>1
      <4> HIDE DEF D
      <4> QED BY <3>1, <4>1
    <3>3. m # 0 => up[m - 1] = f[m - 1]
      BY <3>2
    <3>4. up[m] = IF m = 0 THEN <<>>
                  ELSE LET there == Append(up[m - 1], path[m])
                       IN  IF there \in DOMAIN tree /\ tree[there] = "link"
                             THEN LinkTarget ELSE there
      BY <1>7, <3>2, Zenon
    <3>5. up[m] = f[m]
      BY <1>4, <1>5, <3>2, <3>3, <3>4 DEF LinkIn
    <3> QED BY <3>1, <3>5
  <2> QED BY <2>1
<1> QED BY <1>1, <1>4, <1>5, <1>8, <1>9

\* A path leads to itself, or through a link on it and so below where links lead.
LEMMA FollowedIs ==
  ASSUME LinkTarget \in Paths, NEW tree, NEW path \in Seq(STRING)
  PROVE  /\ F!FollowedIn(tree, path) \in Seq(STRING)
         /\ path # <<>> => F!FollowedIn(tree, path) # <<>>
         /\ \/ F!FollowedIn(tree, path) = path
            \/ /\ F!IsPrefix(LinkTarget, F!FollowedIn(tree, path))
               /\ \E r \in Seq(STRING) : LinkIn(tree, r) /\ F!IsPrefix(r, path)
<1> DEFINE n == Len(path)
           Straight(s, i) == Len(s) = i /\ \A j \in 1..i : s[j] = path[j]
           Linked == \E r \in Seq(STRING) : LinkIn(tree, r) /\ F!IsPrefix(r, path)
           Ok(s, i) == (i # 0 => s # <<>>) /\ (Straight(s, i) \/ (F!IsPrefix(LinkTarget, s) /\ Linked))
<1>1. n \in Nat /\ LinkTarget \in Seq(STRING) /\ LinkTarget # <<>> /\ n \in 0..n
  BY DEF Paths
<1>2. PICK real \in [0..n -> Seq(STRING)] :
            /\ real[0] = <<>> /\ F!FollowedIn(tree, path) = real[n]
            /\ \A i \in 1..n :
                 LET there == Append(real[i - 1], path[i])
                 IN  real[i] = IF LinkIn(tree, there) THEN LinkTarget ELSE there
  BY FollowedBySteps
<1>3. \A i \in 1..n : Ok(real[i - 1], i - 1) => Ok(real[i], i)
  <2> SUFFICES ASSUME NEW i \in 1..n, Ok(real[i - 1], i - 1) PROVE Ok(real[i], i)
    OBVIOUS
  <2> DEFINE s == real[i - 1]
             there == Append(s, path[i])
  <2>1. i \in Nat /\ i - 1 \in Nat /\ s \in Seq(STRING) /\ path[i] \in STRING /\ i <= n
    BY <1>1
  <2>2. real[i] = IF LinkIn(tree, there) THEN LinkTarget ELSE there
    BY <1>2
  <2> HIDE DEF s
  <2>3. there \in Seq(STRING) /\ there # <<>> /\ Len(there) = Len(s) + 1 /\ Len(s) \in Nat
        /\ there[Len(s) + 1] = path[i] /\ \A j \in 1..Len(s) : there[j] = s[j]
    BY <2>1
  <2> HIDE DEF there
  <2>4. Straight(s, i - 1) => Straight(there, i)
    <3> SUFFICES ASSUME Straight(s, i - 1), NEW j \in 1..i PROVE Len(there) = i /\ there[j] = path[j]
      BY <2>1
    <3>1. Len(there) = i /\ there[i] = path[i]
      BY <2>1, <2>3
    <3>2. j # i => j \in 1..i - 1
      BY <2>1
    <3> QED BY <2>3, <3>1, <3>2
  <2>5. F!IsPrefix(LinkTarget, s) => F!IsPrefix(LinkTarget, there)
    <3> SUFFICES ASSUME F!IsPrefix(LinkTarget, s) PROVE F!IsPrefix(LinkTarget, there)
      OBVIOUS
    <3>1. Len(LinkTarget) \in Nat /\ Len(LinkTarget) <= Len(s) /\ \A j \in 1..Len(LinkTarget) : LinkTarget[j] = s[j]
      BY <1>1, <2>1, Starts
    <3>2. \A j \in 1..Len(LinkTarget) : j \in 1..Len(s)
      BY <2>3, <3>1
    <3>3. Len(LinkTarget) <= Len(there) /\ \A j \in 1..Len(LinkTarget) : LinkTarget[j] = there[j]
      BY <2>3, <3>1, <3>2
    <3> QED BY <1>1, <2>3, <3>3, Starts
  <2>6. F!IsPrefix(LinkTarget, LinkTarget)
    BY <1>1, Starts
  <2>7. CASE LinkIn(tree, there) /\ Straight(s, i - 1)
    <3>1. F!IsPrefix(there, path)
      BY <1>1, <2>1, <2>3, <2>4, <2>7, Starts
    <3> QED BY <1>1, <2>2, <2>3, <2>6, <2>7, <3>1
  <2>8. CASE LinkIn(tree, there) /\ ~Straight(s, i - 1)
    <3>1. Linked
      BY <2>8 DEF s
    <3> QED BY <1>1, <2>2, <2>6, <2>8, <3>1
  <2>9. CASE ~LinkIn(tree, there)
    <3>1. real[i] = there
      BY <2>2, <2>9
    <3>2. Straight(there, i) \/ (F!IsPrefix(LinkTarget, there) /\ Linked)
      <4> HIDE DEF Straight, Linked
      <4> QED BY <2>4, <2>5 DEF s
    <3> QED BY <2>3, <3>1, <3>2
  <2> QED BY <2>7, <2>8, <2>9
<1>4. Ok(real[0], 0)
  BY <1>2
<1> HIDE DEF Ok
<1>5. \A i \in 0..n : Ok(real[i], i)
  <2> DEFINE D == {i \in 0..n : ~Ok(real[i], i)}
  <2>1. ASSUME D # {} PROVE FALSE
    <3>1. PICK m \in D : \A k \in D : m <= k
      <4>1. D \in SUBSET Nat
        BY <1>1
      <4> HIDE DEF D
      <4> QED BY <2>1, <4>1, Smallest
    <3>2. m \in 0..n /\ m # 0 /\ m - 1 \in 0..n /\ m \in 1..n /\ m - 1 \notin D
      <4>1. m \in 0..n /\ m # 0
        BY <1>4
      <4>2. m - 1 \in 0..n /\ m \in 1..n /\ ~(m <= m - 1)
        BY <1>1, <4>1
      <4> HIDE DEF D
      <4> QED BY <3>1, <4>1, <4>2
    <3>3. Ok(real[m - 1], m - 1) /\ ~Ok(real[m], m)
      BY <3>1, <3>2
    <3> QED BY <1>3, <3>2, <3>3
  <2> QED BY <2>1
<1>6. Ok(real[n], n) /\ real[n] \in Seq(STRING)
  BY <1>1, <1>5
<1>7. Straight(real[n], n) => real[n] = path
  BY <1>6
<1>8. path # <<>> => n # 0
  BY <1>1
<1> HIDE DEF Straight
<1> QED BY <1>2, <1>6, <1>7, <1>8 DEF Ok
-----------------------------------------------------------------------------
LEMMA BeginsItself == \A s \in Paths : F!IsPrefix(s, s)
BY Starts DEF Paths

LEMMA BeginsFurther ==
  ASSUME NEW s \in Paths, NEW t \in Paths, NEW u \in Paths, F!IsPrefix(s, t), F!IsPrefix(t, u)
  PROVE  F!IsPrefix(s, u)
<1>1. s \in Seq(STRING) /\ t \in Seq(STRING) /\ u \in Seq(STRING)
  BY DEF Paths
<1>2. Len(s) <= Len(t) /\ Len(t) <= Len(u) /\ Len(s) \in Nat /\ Len(t) \in Nat /\ Len(u) \in Nat
  BY <1>1, Starts
<1>3. \A i \in 1..Len(s) : i \in 1..Len(t) /\ s[i] = t[i]
  BY <1>1, <1>2, Starts
<1>4. \A i \in 1..Len(t) : t[i] = u[i]
  BY <1>1, Starts
<1> QED BY <1>1, <1>2, <1>3, <1>4, Starts

\* Of two beginnings of a path one begins the other.
LEMMA BeginsEither ==
  ASSUME NEW s \in Paths, NEW t \in Paths, NEW u \in Paths, F!IsPrefix(s, u), F!IsPrefix(t, u)
  PROVE  F!IsPrefix(s, t) \/ F!IsPrefix(t, s)
<1>1. s \in Seq(STRING) /\ t \in Seq(STRING) /\ u \in Seq(STRING) /\ Len(s) \in Nat /\ Len(t) \in Nat
  BY DEF Paths
<1>2. (\A i \in 1..Len(s) : s[i] = u[i]) /\ (\A i \in 1..Len(t) : t[i] = u[i])
  BY <1>1, Starts
<1>3. CASE Len(s) <= Len(t)
  <2>1. \A i \in 1..Len(s) : i \in 1..Len(t)
    BY <1>1, <1>3
  <2> QED BY <1>1, <1>2, <1>3, <2>1, Starts
<1>4. CASE Len(t) <= Len(s)
  <2>1. \A i \in 1..Len(t) : i \in 1..Len(s)
    BY <1>1, <1>4
  <2> QED BY <1>1, <1>2, <1>4, <2>1, Starts
<1> QED BY <1>1, <1>3, <1>4

LEMMA Appended ==
  ASSUME NEW s \in Seq(STRING), NEW name \in STRING
  PROVE  Append(s, name) \in Paths /\ F!IsPrefix(s, Append(s, name))
<1> DEFINE t == Append(s, name)
           n == Len(s)
<1>1. t \in Seq(STRING) /\ n \in Nat
  BY AppendProperties, LenProperties
<1>2. Len(t) = n + 1
  OBVIOUS
<1>3. \A i \in 1..n : s[i] = t[i]
  OBVIOUS
<1> HIDE DEF t
<1>4. F!IsPrefix(s, t)
  BY <1>1, <1>2, <1>3, Starts
<1>5. t # <<>>
  BY <1>1, <1>2
<1> QED BY <1>1, <1>4, <1>5 DEF Paths, t

\* The entry that a path names is at the path, or behind a link on the way.
LEMMA NamedIs ==
  ASSUME LinkTarget \in Paths, NEW tree, NEW path \in Paths
  PROVE  /\ F!NamedIn(tree, path) \in Paths
         /\ \/ F!NamedIn(tree, path) = path
            \/ /\ F!IsPrefix(LinkTarget, F!NamedIn(tree, path))
               /\ \E r \in Seq(STRING) : LinkIn(tree, r) /\ F!IsPrefix(r, path)
<1> DEFINE front == F!Front(path)
           real == F!FollowedIn(tree, front)
           last == F!Last(path)
<1>1. /\ path \in Seq(STRING) /\ front \in Seq(STRING) /\ last \in STRING /\ last = path[Len(path)]
      /\ Len(front) = Len(path) - 1 /\ Len(path) \in Nat \ {0}
      /\ \A i \in 1..Len(path) - 1 : front[i] = path[i]
  BY Fronts DEF Paths
<1>2. F!NamedIn(tree, path) = Append(real, last)
  BY DEF F!NamedIn
<1>3. /\ real \in Seq(STRING)
      /\ \/ real = front
         \/ /\ F!IsPrefix(LinkTarget, real)
            /\ \E r \in Seq(STRING) : LinkIn(tree, r) /\ F!IsPrefix(r, front)
  BY <1>1, FollowedIs
<1> HIDE DEF front, real, last
<1>4. F!NamedIn(tree, path) \in Paths /\ F!IsPrefix(real, F!NamedIn(tree, path))
  BY <1>1, <1>2, <1>3, Appended
<1>5. Append(front, last) = path
  BY <1>1
<1>6. F!IsPrefix(front, path)
  BY <1>1, Starts
<1>7. ASSUME F!IsPrefix(LinkTarget, real) PROVE F!IsPrefix(LinkTarget, F!NamedIn(tree, path))
  <2>1. real \in Paths
    <3>1. Len(LinkTarget) <= Len(real) /\ Len(LinkTarget) \in Nat \ {0}
      BY <1>3, <1>7, Starts DEF Paths
    <3> QED BY <1>3, <3>1 DEF Paths
  <2> QED BY <1>4, <1>7, <2>1, BeginsFurther
<1>8. ASSUME NEW r \in Seq(STRING), LinkIn(tree, r), F!IsPrefix(r, front) PROVE F!IsPrefix(r, path)
  <2>1. Len(r) <= Len(front) /\ Len(r) \in Nat /\ \A i \in 1..Len(r) : r[i] = front[i]
    BY <1>1, <1>8, Starts
  <2>2. \A i \in 1..Len(r) : i \in 1..Len(path) - 1
    BY <1>1, <2>1
  <2> QED BY <1>1, <2>1, <2>2, Starts
<1> QED BY <1>2, <1>3, <1>4, <1>5, <1>7, <1>8
-----------------------------------------------------------------------------
\* A frame knows its place; what it has read is finite.
Ops == STRING \cup {"makePath", "removeDir"}
Pcs == {"start", "mkdir", "again", "read dirs", "stat dirs", "read files", "stat files", "remove", "write"}
Frames ==
  {f \in [op : Ops, path : Paths, pc : Pcs, dirs : Seq(STRING), files : Seq(STRING),
          names : SUBSET STRING, n : Nat \ {0}] : f.n <= Len(f.path) /\ IsFiniteSet(f.names)}

DirsTyped ==
  /\ DOMAIN entries \subseteq Paths /\ IsFiniteSet(DOMAIN entries)
  /\ stack \in [Processes -> Seq(Frames)] /\ DOMAIN before = Processes

\* Every frame of a removeDir is one, of a place in the directory.
CallsStayBelow ==
  \A p \in Processes : stack[p] # <<>> /\ stack[p][1].op = "removeDir" =>
    \A i \in 1..Len(stack[p]) : /\ stack[p][i].op = "removeDir"
                                /\ F!IsPrefix(stack[p][1].path, stack[p][i].path)

\* No link is newer than a call that is not over.
LinksAreOld ==
  \A p \in Processes : stack[p] # <<>> => \A e : IsLink(e) => e \in DOMAIN before[p] /\ before[p][e] = "link"

DirsInv == DirsTyped /\ CallsStayBelow /\ LinksAreOld

\* What a step does to the file system, and to the stack of its process.
TreeStep ==
  \/ entries' = entries
  \/ \E e \in Paths : \E kind : kind # "link" /\ entries' = F!With(e, kind)
  \/ \E e : entries' = F!Without(e)

Continues(p, f) == f \in Frames /\ f.op = F!Top(p).op /\ f.path = F!Top(p).path

NextStack(p, s) ==
  \/ s = <<>>
  \/ s = F!Front(stack[p])
  \/ \E f : Continues(p, f) /\ s = Append(F!Front(stack[p]), f)
  \/ \E f, g : /\ Continues(p, f) /\ g \in Frames /\ g.op = f.op
               /\ f.op = "removeDir" => F!IsPrefix(f.path, g.path)
               /\ s = Append(Append(F!Front(stack[p]), f), g)

StackStep(p) == \E s : stack' = [stack EXCEPT ![p] = s] /\ NextStack(p, s)

LEMMA TreeKept ==
  ASSUME DirsTyped, TreeStep
  PROVE  /\ DOMAIN entries' \subseteq Paths /\ IsFiniteSet(DOMAIN entries')
         /\ \A e : IsLink(e)' => IsLink(e)
<1>1. CASE entries' = entries
  BY <1>1 DEF DirsTyped, IsLink, LinkIn
<1>2. ASSUME NEW e \in Paths, NEW kind, kind # "link", entries' = F!With(e, kind)
      PROVE  /\ DOMAIN entries' \subseteq Paths /\ IsFiniteSet(DOMAIN entries')
             /\ \A x : IsLink(x)' => IsLink(x)
  <2>1. DOMAIN entries' = DOMAIN entries \cup {e}
        /\ \A x \in DOMAIN entries' : entries'[x] = IF x = e THEN kind ELSE entries[x]
    BY <1>2 DEF F!With
  <2>2. IsFiniteSet(DOMAIN entries \cup {e})
    BY FS_AddElement DEF DirsTyped
  <2> QED BY <1>2, <2>1, <2>2 DEF DirsTyped, IsLink, LinkIn
<1>3. ASSUME NEW e, entries' = F!Without(e)
      PROVE  /\ DOMAIN entries' \subseteq Paths /\ IsFiniteSet(DOMAIN entries')
             /\ \A x : IsLink(x)' => IsLink(x)
  <2>1. DOMAIN entries' = DOMAIN entries \ {e} /\ \A x \in DOMAIN entries' : entries'[x] = entries[x]
    BY <1>3 DEF F!Without
  <2>2. IsFiniteSet(DOMAIN entries \ {e})
    BY FS_RemoveElement DEF DirsTyped
  <2> QED BY <2>1, <2>2 DEF DirsTyped, IsLink, LinkIn
<1> QED BY <1>1, <1>2, <1>3 DEF TreeStep

LEMMA StackKept ==
  ASSUME DirsInv, NEW p \in Processes, stack[p] # <<>>, NEW s, NextStack(p, s)
  PROVE  /\ s \in Seq(Frames)
         /\ s # <<>> => s[1].op = stack[p][1].op /\ s[1].path = stack[p][1].path
         /\ \A i \in 1..Len(s) : \E j \in 1..Len(stack[p]) :
              /\ s[i].op = stack[p][j].op
              /\ s[i].op = "removeDir" => F!IsPrefix(stack[p][j].path, s[i].path)
<1> DEFINE k == Len(stack[p]) - 1
           t == F!Front(stack[p])
           top == F!Top(p)
<1>1. /\ t \in Seq(Frames) /\ Len(t) = k /\ k \in Nat /\ top \in Frames /\ top = stack[p][k + 1]
      /\ k + 1 = Len(stack[p]) /\ \A i \in 1..k : t[i] = stack[p][i]
  <2>1. stack[p] \in Seq(Frames)
    BY DEF DirsInv, DirsTyped
  <2>2. Len(stack[p]) \in Nat \ {0}
    BY <2>1, Fronts
  <2> QED BY <2>1, <2>2, Fronts DEF F!Top
<1>2. \A f \in Frames : f.path \in Paths
  BY DEF Frames
<1>3. \A i \in 1..k + 1 : stack[p][i] \in Frames
  BY <1>1 DEF DirsInv, DirsTyped
<1>4. 1..Len(stack[p]) = 1..k + 1
  BY <1>1
<1> HIDE DEF k
<1>5. CASE s = <<>>
  BY <1>5
<1>6. CASE s = t
  <2>1. \A i \in 1..k : i \in 1..k + 1
    BY <1>1
  <2>2. s # <<>> => 1 \in 1..k
    BY <1>1, <1>6
  <2> HIDE DEF t
  <2> QED BY <1>1, <1>2, <1>3, <1>4, <1>6, <2>1, <2>2, BeginsItself
<1>7. ASSUME NEW f, Continues(p, f), s = Append(t, f)
      PROVE  /\ s \in Seq(Frames)
             /\ s # <<>> => s[1].op = stack[p][1].op /\ s[1].path = stack[p][1].path
             /\ \A i \in 1..Len(s) : \E j \in 1..Len(stack[p]) :
                  /\ s[i].op = stack[p][j].op
                  /\ s[i].op = "removeDir" => F!IsPrefix(stack[p][j].path, s[i].path)
  <2>1. f \in Frames /\ f.op = top.op /\ f.path = top.path
    BY <1>7 DEF Continues
  <2> HIDE DEF t, top
  <2>2. s \in Seq(Frames) /\ Len(s) = k + 1 /\ s[k + 1] = f /\ \A i \in 1..k : s[i] = t[i]
    BY <1>1, <1>7, <2>1
  <2>3. \A i \in 1..k + 1 : s[i].op = stack[p][i].op /\ s[i].path = stack[p][i].path
    BY <1>1, <2>1, <2>2
  <2>4. 1 \in 1..k + 1
    BY <1>1
  <2> QED BY <1>2, <1>3, <1>4, <2>2, <2>3, <2>4, BeginsItself
<1>8. ASSUME NEW f, NEW g, Continues(p, f), g \in Frames, g.op = f.op, s = Append(Append(t, f), g),
             f.op = "removeDir" => F!IsPrefix(f.path, g.path)
      PROVE  /\ s \in Seq(Frames)
             /\ s # <<>> => s[1].op = stack[p][1].op /\ s[1].path = stack[p][1].path
             /\ \A i \in 1..Len(s) : \E j \in 1..Len(stack[p]) :
                  /\ s[i].op = stack[p][j].op
                  /\ s[i].op = "removeDir" => F!IsPrefix(stack[p][j].path, s[i].path)
  <2>1. f \in Frames /\ f.op = top.op /\ f.path = top.path
    BY <1>8 DEF Continues
  <2> HIDE DEF t, top
  <2>2. s \in Seq(Frames) /\ Len(s) = k + 2 /\ s[k + 2] = g /\ s[k + 1] = f /\ \A i \in 1..k : s[i] = t[i]
    BY <1>1, <1>8, <2>1
  <2>3. \A i \in 1..k + 1 : s[i].op = stack[p][i].op /\ s[i].path = stack[p][i].path
    BY <1>1, <2>1, <2>2
  <2>4. 1 \in 1..k + 1 /\ k + 1 \in 1..k + 1
    BY <1>1
  <2>5. \A i \in 1..Len(s) : i \in 1..k + 1 \/ i = k + 2
    BY <1>1, <2>2
  <2>6. s[k + 2].op = stack[p][k + 1].op
        /\ (s[k + 2].op = "removeDir" => F!IsPrefix(stack[p][k + 1].path, s[k + 2].path))
    BY <1>1, <1>8, <2>1, <2>2
  <2> QED BY <1>2, <1>3, <1>4, <2>2, <2>3, <2>4, <2>5, <2>6, BeginsItself
<1> QED BY <1>5, <1>6, <1>7, <1>8 DEF NextStack

\* Steps of these kinds keep the invariant.
LEMMA MoveKeeps ==
  ASSUME DirsInv, NEW p \in Processes, stack[p] # <<>>, TreeStep, StackStep(p), UNCHANGED before
  PROVE  DirsInv'
<1>1. PICK s : stack' = [stack EXCEPT ![p] = s] /\ NextStack(p, s)
  BY DEF StackStep
<1>2. /\ s \in Seq(Frames)
      /\ s # <<>> => s[1].op = stack[p][1].op /\ s[1].path = stack[p][1].path
      /\ \A i \in 1..Len(s) : \E j \in 1..Len(stack[p]) :
           /\ s[i].op = stack[p][j].op
           /\ s[i].op = "removeDir" => F!IsPrefix(stack[p][j].path, s[i].path)
  BY <1>1, StackKept
<1>3. stack \in [Processes -> Seq(Frames)] /\ stack' \in [Processes -> Seq(Frames)]
      /\ stack'[p] = s /\ \A q \in Processes : q # p => stack'[q] = stack[q]
  BY <1>1, <1>2 DEF DirsInv, DirsTyped
<1>4. DirsTyped'
  BY <1>3, TreeKept DEF DirsInv, DirsTyped
<1>5. LinksAreOld'
  BY <1>3, TreeKept DEF DirsInv, LinksAreOld
<1>6. CallsStayBelow'
  <2> SUFFICES ASSUME NEW q \in Processes, stack'[q] # <<>>, stack'[q][1].op = "removeDir", NEW i \in 1..Len(stack'[q])
               PROVE  stack'[q][i].op = "removeDir" /\ F!IsPrefix(stack'[q][1].path, stack'[q][i].path)
    BY DEF CallsStayBelow
  <2>1. CASE q # p
    BY <1>3, <2>1 DEF DirsInv, CallsStayBelow
  <2>2. CASE q = p
    <3>1. s # <<>> /\ stack[p][1].op = "removeDir" /\ s[1].path = stack[p][1].path /\ i \in 1..Len(s)
      BY <1>2, <1>3, <2>2
    <3>2. PICK j \in 1..Len(stack[p]) : /\ s[i].op = stack[p][j].op
                                        /\ s[i].op = "removeDir" => F!IsPrefix(stack[p][j].path, s[i].path)
      BY <1>2, <3>1
    <3>3. stack[p][j].op = "removeDir" /\ F!IsPrefix(stack[p][1].path, stack[p][j].path)
      BY <3>1 DEF DirsInv, CallsStayBelow
    <3>4. stack[p][1].path \in Paths /\ stack[p][j].path \in Paths /\ s[i].path \in Paths
      <4>1. \A f \in Frames : f.path \in Paths
        BY DEF Frames
      <4>2. stack[p] \in Seq(Frames) /\ 1 \in 1..Len(stack[p])
        BY <1>3
      <4> QED BY <1>2, <3>1, <4>1, <4>2
    <3> QED BY <1>3, <2>2, <3>1, <3>2, <3>3, <3>4, BeginsFurther
  <2> QED BY <2>1, <2>2
<1> QED BY <1>4, <1>5, <1>6 DEF DirsInv
-----------------------------------------------------------------------------
\* The innermost frame of a call that is not over.
LEMMA TopIs ==
  ASSUME DirsInv, NEW p \in Processes, stack[p] # <<>>
  PROVE  /\ F!Top(p) \in Frames /\ F!Top(p).path \in Paths
         /\ F!Top(p) = [op |-> F!Top(p).op, path |-> F!Top(p).path, pc |-> F!Top(p).pc, dirs |-> F!Top(p).dirs,
                        files |-> F!Top(p).files, names |-> F!Top(p).names, n |-> F!Top(p).n]
         /\ stack[p][1].op = "removeDir" =>
              F!Top(p).op = "removeDir" /\ F!IsPrefix(stack[p][1].path, F!Top(p).path)
<1>1. stack[p] \in Seq(Frames)
  BY DEF DirsInv, DirsTyped
<1>2. F!Top(p) = stack[p][Len(stack[p])] /\ F!Top(p) \in Frames /\ Len(stack[p]) \in Nat \ {0}
  BY <1>1, Fronts DEF F!Top
<1>3. Len(stack[p]) \in 1..Len(stack[p])
  BY <1>2
<1>4. F!Top(p).path \in Paths
  BY <1>2 DEF Frames
<1>5. F!Top(p) = [op |-> F!Top(p).op, path |-> F!Top(p).path, pc |-> F!Top(p).pc, dirs |-> F!Top(p).dirs,
                  files |-> F!Top(p).files, names |-> F!Top(p).names, n |-> F!Top(p).n]
  BY <1>2 DEF Frames
<1>6. stack[p][1].op = "removeDir" =>
        F!Top(p).op = "removeDir" /\ F!IsPrefix(stack[p][1].path, F!Top(p).path)
  BY <1>2, <1>3 DEF DirsInv, CallsStayBelow
<1> QED BY <1>2, <1>4, <1>5, <1>6

\* What the pieces of the actions do to the stack.
LEMMA EndsIs == ASSUME NEW p, NEW outcome, F!Ends(p, outcome) PROVE StackStep(p)
BY DEF F!Ends, StackStep, NextStack

LEMMA ReturnsIs == ASSUME NEW p, F!Returns(p) PROVE StackStep(p)
<1>1. CASE Len(stack[p]) = 1
  BY <1>1, EndsIs DEF F!Returns
<1>2. CASE Len(stack[p]) # 1
  BY <1>2 DEF F!Returns, StackStep, NextStack
<1> QED BY <1>1, <1>2

LEMMA SetTopIs ==
  ASSUME NEW p, NEW f, Continues(p, f), F!SetTop(p, f)
  PROVE  StackStep(p)
BY DEF F!SetTop, StackStep, NextStack

LEMMA GotoIs ==
  ASSUME DirsInv, NEW p \in Processes, stack[p] # <<>>, NEW pc \in Pcs, F!Goto(p, pc)
  PROVE  StackStep(p)
<1> DEFINE f == [F!Top(p) EXCEPT !.pc = pc]
<1>1. Continues(p, f)
  BY TopIs DEF Continues, Frames
<1>2. F!SetTop(p, f)
  BY DEF F!Goto
<1> HIDE DEF f
<1> QED BY <1>1, <1>2, SetTopIs

\* A frame for a path is one.
LEMMA FrameIs ==
  ASSUME NEW op \in Ops, NEW path \in Paths
  PROVE  F!Frame(op, path) \in Frames /\ F!Frame(op, path).op = op /\ F!Frame(op, path).path = path
<1>1. IsFiniteSet({}) /\ <<>> \in Seq(STRING)
  BY FS_EmptySet
<1>2. 1 <= Len(path)
  BY DEF Paths
<1> DEFINE f == F!Frame(op, path)
<1>3. /\ f = [op |-> f.op, path |-> f.path, pc |-> f.pc, dirs |-> f.dirs, files |-> f.files, names |-> f.names, n |-> f.n]
      /\ f.op = op /\ f.path = path /\ f.pc = "start" /\ f.dirs = <<>> /\ f.files = <<>> /\ f.names = {} /\ f.n = 1
  BY DEF F!Frame
<1>4. "start" \in Pcs /\ 1 \in Nat \ {0} /\ {} \in SUBSET STRING
  BY DEF Pcs
<1> HIDE DEF f
<1>5. f \in [op : Ops, path : Paths, pc : Pcs, dirs : Seq(STRING), files : Seq(STRING),
             names : SUBSET STRING, n : Nat \ {0}]
  <2>1. f.op \in Ops /\ f.path \in Paths /\ f.pc \in Pcs /\ f.dirs \in Seq(STRING) /\ f.files \in Seq(STRING)
        /\ f.names \in SUBSET STRING /\ f.n \in Nat \ {0}
    BY <1>1, <1>3, <1>4
  <2> QED BY <1>3, <2>1
<1>6. f \in Frames
  BY <1>1, <1>2, <1>3, <1>5 DEF Frames
<1> QED BY <1>3, <1>6 DEF f

LEMMA MkdirIs ==
  ASSUME NEW path \in Paths, NEW p, F!Becomes(p, F!AfterMkdir(path))
  PROVE  TreeStep
<1>1. LinkTarget \in Paths
  BY TreesAssumption
<1>2. F!Named(path) \in Paths
  BY <1>1, NamedIs DEF F!Named
<1>3. entries' = entries \/ entries' = F!With(F!Named(path), "dir")
  BY DEF F!Becomes, F!AfterMkdir
<1> QED BY <1>2, <1>3 DEF TreeStep

LEMMA OrderedIs ==
  ASSUME NEW S, IsFiniteSet(S)
  PROVE  F!SetToSeq(S) \in Seq(S)
<1> DEFINE n == Cardinality(S)
           s == F!SetToSeq(S)
<1>1. n \in Nat /\ \E f \in [1..n -> S] : F!IsInjective(f)
  <2>1. n \in Nat /\ Bijection(1..n, S) # {}
    BY FS_CardinalityType DEF ExistsBijection
  <2> HIDE DEF n, s
  <2> QED BY <2>1 DEF Bijection, Injection, F!IsInjective, IsInjective
<1>2. F!Cardinality(S) = n
  BY DEF F!Cardinality, Cardinality
<1>3. s = CHOOSE f \in [1..n -> S] : F!IsInjective(f)
  BY <1>2, Zenon DEF F!SetToSeq
<1> HIDE DEF n, s
<1>4. s \in [1..n -> S]
  BY <1>1, <1>3, Zenon
<1> QED BY <1>1, <1>4 DEF s

\* The steps of each kind of call.
LEMMA MakingSteps ==
  ASSUME DirsInv, NEW p \in Processes,
         F!MakeDirStat(p) \/ F!MakeDirMkdir(p) \/ F!MakeDirRecursive(p) \/ F!MakePathMkdir(p) \/ F!MakePathAgain(p)
  PROVE  stack[p] # <<>> /\ TreeStep /\ StackStep(p) /\ UNCHANGED before /\ F!Top(p).op # "removeDir"
<1> DEFINE top == F!Top(p)
<1>1. stack[p] # <<>>
  BY DEF F!MakeDirStat, F!MakeDirMkdir, F!MakeDirRecursive, F!MakePathMkdir, F!MakePathAgain, F!At
<1>2. /\ top \in Frames /\ top.path \in Paths
      /\ top = [op |-> top.op, path |-> top.path, pc |-> top.pc, dirs |-> top.dirs,
                files |-> top.files, names |-> top.names, n |-> top.n]
  BY <1>1, TopIs
<1> HIDE DEF top
<1>3. CASE F!MakeDirStat(p)
  <2>1. TreeStep /\ UNCHANGED before /\ top.op # "removeDir"
    BY <1>3 DEF F!MakeDirStat, F!At, TreeStep, top
  <2>2. F!Returns(p) \/ F!Goto(p, "mkdir")
    BY <1>3 DEF F!MakeDirStat
  <2>3. "mkdir" \in Pcs
    BY DEF Pcs
  <2> QED BY <1>1, <2>1, <2>2, <2>3, ReturnsIs, GotoIs DEF top
<1>4. CASE F!MakeDirMkdir(p)
  <2>1. F!Becomes(p, F!AfterMkdir(top.path)) /\ UNCHANGED before /\ top.op # "removeDir"
    BY <1>4 DEF F!MakeDirMkdir, F!At, top
  <2>2. F!Returns(p) \/ F!Ends(p, "throws")
    BY <1>4 DEF F!MakeDirMkdir, F!Throws
  <2> QED BY <1>1, <1>2, <2>1, <2>2, MkdirIs, ReturnsIs, EndsIs DEF top
<1>5. CASE F!MakeDirRecursive(p)
  <2> DEFINE start == SubSeq(top.path, 1, top.n)
             f == [top EXCEPT !.n = top.n + 1]
  <2>1. F!Becomes(p, F!AfterMkdir(start)) /\ UNCHANGED before /\ top.op # "removeDir"
    BY <1>5 DEF F!MakeDirRecursive, F!At, top
  <2>2. top.n \in Nat \ {0} /\ top.n <= Len(top.path) /\ top.path \in Seq(STRING) /\ Len(top.path) \in Nat
    BY <1>2 DEF Frames, Paths
  <2>3. start \in Paths
    <3>1. start \in Seq(STRING) /\ Len(start) = top.n
      BY <2>2
    <3> HIDE DEF start
    <3> QED BY <2>2, <3>1 DEF Paths
  <2>4. F!Returns(p) \/ (top.n # Len(top.path) /\ F!SetTop(p, f))
    BY <1>5 DEF F!MakeDirRecursive, top
  <2>5. top.n # Len(top.path) => Continues(p, f)
    <3> SUFFICES ASSUME top.n # Len(top.path) PROVE f \in Frames /\ f.op = top.op /\ f.path = top.path
      BY DEF Continues, top
    <3>1. top.n + 1 \in Nat \ {0} /\ top.n + 1 <= Len(top.path)
      BY <2>2
    <3> QED BY <1>2, <3>1 DEF Frames
  <2> HIDE DEF start, f
  <2> QED BY <1>1, <2>1, <2>3, <2>4, <2>5, MkdirIs, ReturnsIs, SetTopIs DEF top
<1>6. CASE F!MakePathMkdir(p)
  <2> DEFINE errno == F!MkdirResult(top.path)
             f == [top EXCEPT !.pc = "again"]
             g == F!Frame("makePath", F!Front(top.path))
  <2>1. F!Becomes(p, F!AfterMkdir(top.path)) /\ UNCHANGED before /\ top.op = "makePath"
    BY <1>6 DEF F!MakePathMkdir, F!At, top
  <2>2. errno \in {"ok", "EEXIST", "ENOENT", "ENOTDIR"}
    BY DEF F!MkdirResult
  <2>3. F!Returns(p) \/ F!Ends(p, "false") \/ (errno = "ENOENT" /\ F!Push(p, "again", g))
    BY <1>6, <2>2 DEF F!MakePathMkdir, top
  <2>4. ASSUME errno = "ENOENT", F!Push(p, "again", g) PROVE StackStep(p)
    <3>1. F!Front(top.path) # <<>>
      BY <2>4 DEF F!MkdirResult, F!Exists
    <3>2. F!Front(top.path) \in Paths
      BY <1>2, <3>1, Fronts DEF Paths
    <3>3. g \in Frames /\ g.op = "makePath"
      BY <3>2, FrameIs DEF Ops
    <3>4. f \in Frames /\ f.op = top.op /\ f.path = top.path
      BY <1>2 DEF Frames, Pcs
    <3>5. stack[p] \in Seq(Frames)
      BY DEF DirsInv, DirsTyped
    <3> HIDE DEF g, f
    <3>6. Append(F!Front(stack[p]), f) \o <<g>> = Append(Append(F!Front(stack[p]), f), g)
      <4>1. F!Front(stack[p]) \in Seq(Frames)
        BY <1>1, <3>5, Fronts
      <4> QED BY <3>3, <3>4, <4>1
    <3>7. stack' = [stack EXCEPT ![p] = Append(Append(F!Front(stack[p]), f), g)]
      BY <2>4, <3>6 DEF F!Push, f, top
    <3> QED BY <2>1, <3>3, <3>4, <3>7 DEF StackStep, NextStack, Continues, top
  <2> QED BY <1>1, <1>2, <2>1, <2>3, <2>4, MkdirIs, ReturnsIs, EndsIs DEF top
<1>7. CASE F!MakePathAgain(p)
  <2>1. F!Becomes(p, F!AfterMkdir(top.path)) /\ UNCHANGED before /\ top.op # "removeDir"
    BY <1>7 DEF F!MakePathAgain, F!At, top
  <2>2. F!Returns(p) \/ F!Ends(p, "false")
    BY <1>7 DEF F!MakePathAgain
  <2> QED BY <1>1, <1>2, <2>1, <2>2, MkdirIs, ReturnsIs, EndsIs DEF top
<1> QED BY <1>3, <1>4, <1>5, <1>6, <1>7

LEMMA FileSteps ==
  ASSUME DirsInv, NEW p \in Processes,
         F!RemoveFile(p) \/ F!SaveFileOpen(p) \/ F!SaveFileWrite(p) \/ F!LoadFile(p)
  PROVE  stack[p] # <<>> /\ TreeStep /\ StackStep(p) /\ UNCHANGED before /\ F!Top(p).op # "removeDir"
<1>1. stack[p] # <<>> /\ F!Top(p).op # "removeDir" /\ UNCHANGED before
  BY DEF F!RemoveFile, F!SaveFileOpen, F!SaveFileWrite, F!LoadFile, F!At
<1>2. F!Followed(F!Top(p).path) \in Paths
  BY <1>1, TopIs, FollowedIs, TreesAssumption DEF Paths, F!Followed
<1>3. StackStep(p)
  <2>1. F!Returns(p) \/ (\E outcome : F!Ends(p, outcome)) \/ F!Goto(p, "write")
    BY DEF F!RemoveFile, F!SaveFileOpen, F!SaveFileWrite, F!LoadFile, F!Throws
  <2>2. "write" \in Pcs
    BY DEF Pcs
  <2> QED BY <1>1, <2>1, <2>2, ReturnsIs, EndsIs, GotoIs
<1>4. TreeStep
  <2>1. CASE F!RemoveFile(p)
    BY <2>1 DEF F!RemoveFile, F!Becomes, TreeStep
  <2>2. CASE F!SaveFileOpen(p)
    BY <1>2, <2>2 DEF F!SaveFileOpen, F!Becomes, TreeStep
  <2>3. CASE F!SaveFileWrite(p)
    BY <1>2, <2>3 DEF F!SaveFileWrite, F!Becomes, TreeStep
  <2>4. CASE F!LoadFile(p)
    BY <2>4 DEF F!LoadFile, TreeStep
  <2> QED BY <2>1, <2>2, <2>3, <2>4
<1> QED BY <1>1, <1>3, <1>4

\* What is gone was named by a path in the directory that is removed.
Vanished == DOMAIN entries \ DOMAIN entries'
NamedBelow(top) == \A e \in Vanished : \E path \in Paths : F!IsPrefix(top, path) /\ e = F!Named(path)

LEMMA ReadingSteps ==
  ASSUME DirsInv, NEW p \in Processes, F!RemoveDirExists(p) \/ F!ReadNames(p) \/ F!StatNames(p)
  PROVE  /\ stack[p] # <<>> /\ UNCHANGED <<entries, before>> /\ StackStep(p) /\ F!Top(p).op = "removeDir"
<1> DEFINE top == F!Top(p)
<1>1. stack[p] # <<>> /\ UNCHANGED <<entries, before>> /\ top.op = "removeDir"
  BY DEF F!RemoveDirExists, F!ReadNames, F!StatNames, F!At
<1>2. /\ top \in Frames /\ top.path \in Paths
      /\ top = [op |-> top.op, path |-> top.path, pc |-> top.pc, dirs |-> top.dirs,
                files |-> top.files, names |-> top.names, n |-> top.n]
  BY <1>1, TopIs
<1>3. CASE F!RemoveDirExists(p)
  <2>1. F!Returns(p) \/ F!Goto(p, "read dirs")
    BY <1>3 DEF F!RemoveDirExists
  <2>2. "read dirs" \in Pcs
    BY DEF Pcs
  <2> QED BY <1>1, <2>1, <2>2, ReturnsIs, GotoIs
<1>4. CASE F!ReadNames(p)
  <2> HIDE DEF top
  <2>1. PICK what \in {"dirs", "files"} :
          F!Ends(p, "throws") \/ F!SetTop(p, [top EXCEPT !.names = F!Visible(top.path), !.pc = F!StatPc[what]])
    BY <1>4 DEF F!ReadNames, F!Throws, top
  <2> DEFINE f == [top EXCEPT !.names = F!Visible(top.path), !.pc = F!StatPc[what]]
             names == F!Visible(top.path)
  <2>2. names \in SUBSET STRING /\ IsFiniteSet(names)
    <3> DEFINE lastOf == [e \in DOMAIN entries |-> e[Len(e)]]
               all == {lastOf[e] : e \in DOMAIN entries}
    <3>1. \A e \in DOMAIN entries : lastOf[e] = e[Len(e)] /\ e[Len(e)] \in STRING
      <4> SUFFICES ASSUME NEW e \in DOMAIN entries PROVE e[Len(e)] \in STRING
        OBVIOUS
      <4>1. e \in Seq(STRING) /\ e # <<>>
        BY DEF DirsInv, DirsTyped, Paths
      <4> QED BY <4>1, Fronts
    <3>2. IsFiniteSet(all)
      <4>1. lastOf \in Surjection(DOMAIN entries, all)
        BY DEF Surjection
      <4> HIDE DEF all, lastOf
      <4> QED BY <4>1, FS_Surjection DEF DirsInv, DirsTyped
    <3>3. names \subseteq all
      BY <3>1 DEF F!Visible, F!NamesIn
    <3>4. all \subseteq STRING
      BY <3>1
    <3> HIDE DEF all, names
    <3> QED BY <3>2, <3>3, <3>4, FS_Subset
  <2>3. F!StatPc[what] \in Pcs
    <3>1. F!StatPc["dirs"] = "stat dirs" /\ F!StatPc["files"] = "stat files"
      BY DEF F!StatPc
    <3>2. "stat dirs" \in Pcs /\ "stat files" \in Pcs
      BY DEF Pcs
    <3> QED BY <3>1, <3>2
  <2> HIDE DEF names
  <2>4. f \in Frames /\ f.op = top.op /\ f.path = top.path
    BY <1>2, <2>2, <2>3 DEF Frames, names
  <2> HIDE DEF f
  <2>5. Continues(p, f)
    BY <2>4 DEF Continues, top
  <2>6. F!Ends(p, "throws") \/ F!SetTop(p, f)
    BY <2>1 DEF f
  <2> QED BY <1>1, <2>5, <2>6, EndsIs, SetTopIs DEF top
<1>5. CASE F!StatNames(p)
  <2> HIDE DEF top
  <2> DEFINE chosen(what) == F!SetToSeq({name \in top.names : F!IsDir(Append(top.path, name)) = (what = "dirs")})
             f == [top EXCEPT !.dirs = chosen("dirs"), !.pc = "read files"]
             g == [top EXCEPT !.files = chosen("files"), !.pc = "remove"]
  <2>1. F!Ends(p, "throws") \/ F!SetTop(p, f) \/ F!SetTop(p, g)
    BY <1>5 DEF F!StatNames, F!Throws, top
  <2>2. \A what : chosen(what) \in Seq(STRING)
    <3> SUFFICES ASSUME NEW what PROVE chosen(what) \in Seq(STRING)
      OBVIOUS
    <3> DEFINE some == {name \in top.names : F!IsDir(Append(top.path, name)) = (what = "dirs")}
    <3>1. IsFiniteSet(top.names) /\ top.names \subseteq STRING /\ some \subseteq top.names
      BY <1>2 DEF Frames
    <3>2. IsFiniteSet(some) /\ some \subseteq STRING
      BY <3>1, FS_Subset
    <3>3. chosen(what) = F!SetToSeq(some)
      OBVIOUS
    <3> HIDE DEF some, chosen
    <3>4. chosen(what) \in Seq(some)
      BY <3>2, <3>3, OrderedIs
    <3>5. \A S, T : S \subseteq T => Seq(S) \subseteq Seq(T)
      OBVIOUS
    <3> QED BY <3>2, <3>4, <3>5
  <2> HIDE DEF chosen
  <2>3. "read files" \in Pcs /\ "remove" \in Pcs
    BY DEF Pcs
  <2>4. f \in Frames /\ f.op = top.op /\ f.path = top.path
    BY <1>2, <2>2, <2>3 DEF Frames
  <2>5. g \in Frames /\ g.op = top.op /\ g.path = top.path
    BY <1>2, <2>2, <2>3 DEF Frames
  <2> HIDE DEF f, g
  <2>6. Continues(p, f) /\ Continues(p, g)
    BY <2>4, <2>5 DEF Continues, top
  <2> QED BY <1>1, <2>1, <2>6, EndsIs, SetTopIs DEF top
<1> QED BY <1>1, <1>3, <1>4, <1>5

LEMMA RemovingSteps ==
  ASSUME DirsInv, NEW p \in Processes, F!RemoveSubdirectory(p) \/ F!RemoveFileIn(p) \/ F!Rmdir(p)
  PROVE  /\ stack[p] # <<>> /\ UNCHANGED before /\ TreeStep /\ StackStep(p) /\ F!Top(p).op = "removeDir"
         /\ NamedBelow(F!Top(p).path)
<1> DEFINE top == F!Top(p)
<1>1. stack[p] # <<>> /\ UNCHANGED before /\ top.op = "removeDir"
  BY DEF F!RemoveSubdirectory, F!RemoveFileIn, F!Rmdir, F!At
<1>2. /\ top \in Frames /\ top.path \in Paths
      /\ top = [op |-> top.op, path |-> top.path, pc |-> top.pc, dirs |-> top.dirs,
                files |-> top.files, names |-> top.names, n |-> top.n]
  BY <1>1, TopIs
<1>3. top.path \in Seq(STRING) /\ top.dirs \in Seq(STRING) /\ top.files \in Seq(STRING)
  BY <1>2 DEF Frames, Paths
<1> HIDE DEF top
<1>4. CASE F!RemoveSubdirectory(p)
  <2> DEFINE f == [top EXCEPT !.dirs = Tail(top.dirs)]
             g == F!Frame("removeDir", Append(top.path, Head(top.dirs)))
  <2>1. top.dirs # <<>> /\ UNCHANGED entries /\ stack' = [stack EXCEPT ![p] = F!Front(stack[p]) \o <<f, g>>]
    BY <1>4 DEF F!RemoveSubdirectory, top
  <2>2. Tail(top.dirs) \in Seq(STRING) /\ Head(top.dirs) \in STRING
    BY <1>3, <2>1, HeadTailProperties
  <2>3. f \in Frames /\ f.op = top.op /\ f.path = top.path
    BY <1>2, <2>2 DEF Frames
  <2>4. Append(top.path, Head(top.dirs)) \in Paths /\ F!IsPrefix(top.path, Append(top.path, Head(top.dirs)))
    BY <1>3, <2>2, Appended
  <2>5. g \in Frames /\ g.op = "removeDir" /\ g.path = Append(top.path, Head(top.dirs))
    BY <2>4, FrameIs DEF Ops
  <2>6. F!Front(stack[p]) \in Seq(Frames)
    BY <1>1, Fronts DEF DirsInv, DirsTyped
  <2> HIDE DEF f, g
  <2>7. F!Front(stack[p]) \o <<f, g>> = Append(Append(F!Front(stack[p]), f), g)
    BY <2>3, <2>5, <2>6
  <2>8. Continues(p, f)
    BY <2>3 DEF Continues, top
  <2>9. f.op = "removeDir" => F!IsPrefix(f.path, g.path)
    BY <2>3, <2>4, <2>5
  <2>10. NextStack(p, Append(Append(F!Front(stack[p]), f), g))
    BY <1>1, <2>3, <2>5, <2>8, <2>9 DEF NextStack
  <2>11. StackStep(p)
    BY <2>1, <2>7, <2>10 DEF StackStep
  <2> QED BY <1>1, <2>1, <2>11 DEF TreeStep, NamedBelow, Vanished, top
<1>5. CASE F!RemoveFileIn(p)
  <2> DEFINE f == [top EXCEPT !.files = Tail(top.files)]
             path == Append(top.path, Head(top.files))
  <2>1. top.files # <<>>
        /\ \/ F!Becomes(p, F!Without(F!Named(path))) /\ F!SetTop(p, f)
           \/ F!Ends(p, "throws") /\ UNCHANGED entries
    BY <1>5 DEF F!RemoveFileIn, F!Throws, top
  <2>2. Tail(top.files) \in Seq(STRING) /\ Head(top.files) \in STRING
    BY <1>3, <2>1, HeadTailProperties
  <2>3. f \in Frames /\ f.op = top.op /\ f.path = top.path
    BY <1>2, <2>2 DEF Frames
  <2>4. path \in Paths /\ F!IsPrefix(top.path, path)
    BY <1>3, <2>2, Appended
  <2> HIDE DEF f, path
  <2>5. Continues(p, f)
    BY <2>3 DEF Continues, top
  <2>6. StackStep(p)
    BY <2>1, <2>5, SetTopIs, EndsIs
  <2>7. entries' = entries \/ entries' = F!Without(F!Named(path))
    BY <2>1 DEF F!Becomes
  <2>8. NamedBelow(top.path)
    BY <2>4, <2>7 DEF NamedBelow, Vanished, F!Without
  <2> QED BY <1>1, <2>6, <2>7, <2>8 DEF TreeStep, top
<1>6. CASE F!Rmdir(p)
  <2>1. \/ F!Becomes(p, F!Without(F!Named(top.path))) /\ F!Returns(p)
        \/ F!Ends(p, "throws") /\ UNCHANGED entries
    BY <1>6 DEF F!Rmdir, F!Throws, top
  <2>2. StackStep(p)
    BY <2>1, ReturnsIs, EndsIs
  <2>3. entries' = entries \/ entries' = F!Without(F!Named(top.path))
    BY <2>1 DEF F!Becomes
  <2>4. NamedBelow(top.path)
    BY <1>2, <2>3, BeginsItself DEF NamedBelow, Vanished, F!Without
  <2> QED BY <1>1, <2>2, <2>3, <2>4 DEF TreeStep, top
<1> QED BY <1>4, <1>5, <1>6

\* A new call: its links are the links there are.
LEMMA CallKeeps ==
  ASSUME DirsInv, NEW p \in Processes, NEW call \in Calls, F!Call(p, call.op, call.path)
  PROVE  DirsInv'
<1> DEFINE f == F!Frame(call.op, call.path)
<1>1. /\ stack[p] = <<>> /\ stack' = [stack EXCEPT ![p] = <<f>>]
      /\ before' = [before EXCEPT ![p] = entries] /\ UNCHANGED entries
  BY DEF F!Call
<1>2. f \in Frames /\ f.path \in Paths
  BY FrameIs, TreesAssumption DEF Ops
<1> HIDE DEF f
<1>3. /\ stack \in [Processes -> Seq(Frames)] /\ <<f>> \in Seq(Frames) /\ Len(<<f>>) = 1 /\ <<f>>[1] = f
      /\ stack'[p] = <<f>> /\ \A q \in Processes : q # p => stack'[q] = stack[q]
  BY <1>1, <1>2 DEF DirsInv, DirsTyped
<1>4. DirsTyped'
  BY <1>1, <1>3 DEF DirsInv, DirsTyped
<1>5. CallsStayBelow'
  <2> SUFFICES ASSUME NEW q \in Processes, stack'[q] # <<>>, stack'[q][1].op = "removeDir", NEW i \in 1..Len(stack'[q])
               PROVE  stack'[q][i].op = "removeDir" /\ F!IsPrefix(stack'[q][1].path, stack'[q][i].path)
    BY DEF CallsStayBelow
  <2>1. CASE q # p
    BY <1>3, <2>1 DEF DirsInv, CallsStayBelow
  <2>2. CASE q = p
    <3>1. i = 1
      <4>1. i \in 1..Len(<<f>>)
        BY <1>3, <2>2
      <4> QED BY <1>3, <4>1
    <3>2. stack'[q][i] = f /\ stack'[q][1] = f
      BY <1>3, <2>2, <3>1
    <3> QED BY <1>2, <3>2, <3>1, BeginsItself
  <2> QED BY <2>1, <2>2
<1>6. LinksAreOld'
  <2> SUFFICES ASSUME NEW q \in Processes, stack'[q] # <<>>, NEW e, IsLink(e)'
               PROVE  e \in DOMAIN before'[q] /\ before'[q][e] = "link"
    BY DEF LinksAreOld
  <2>1. IsLink(e)
    BY <1>1 DEF IsLink, LinkIn
  <2>2. CASE q # p
    <3>1. stack[q] # <<>> /\ before'[q] = before[q]
      BY <1>1, <1>3, <2>2 DEF DirsInv, DirsTyped
    <3> QED BY <2>1, <3>1 DEF DirsInv, LinksAreOld
  <2>3. CASE q = p
    <3>1. before'[q] = entries
      BY <1>1, <2>3 DEF DirsInv, DirsTyped
    <3> QED BY <2>1, <3>1 DEF IsLink, LinkIn
  <2> QED BY <2>2, <2>3
<1> QED BY <1>4, <1>5, <1>6 DEF DirsInv

LEMMA DirsInit == F!Init => DirsInv
<1> SUFFICES ASSUME F!Init PROVE DirsInv
  OBVIOUS
<1>1. entries \in Trees /\ stack = [p \in Processes |-> <<>>] /\ before = [p \in Processes |-> entries]
  BY DEF F!Init
<1>2. \A p \in Processes : stack[p] = <<>>
  BY <1>1
<1>3. DirsTyped
  BY <1>1, TreesAssumption DEF DirsTyped
<1> QED BY <1>2, <1>3 DEF DirsInv, CallsStayBelow, LinksAreOld

\* Every step: who moves, and what it does.
LEMMA DirsSteps ==
  ASSUME DirsInv, F!Next
  PROVE  \E p \in Processes :
           \/ \E call \in Calls : F!Call(p, call.op, call.path)
           \/ /\ stack[p] # <<>> /\ TreeStep /\ StackStep(p) /\ UNCHANGED before
              /\ F!Top(p).op = "removeDir" => NamedBelow(F!Top(p).path)
<1>1. PICK p \in Processes : F!Step(p) \/ \E call \in Calls : F!Call(p, call.op, call.path)
  BY DEF F!Next
<1>2. CASE F!MakeDirStat(p) \/ F!MakeDirMkdir(p) \/ F!MakeDirRecursive(p) \/ F!MakePathMkdir(p) \/ F!MakePathAgain(p)
  BY <1>2, MakingSteps
<1>3. CASE F!RemoveFile(p) \/ F!SaveFileOpen(p) \/ F!SaveFileWrite(p) \/ F!LoadFile(p)
  BY <1>3, FileSteps
<1>4. CASE F!RemoveDirExists(p) \/ F!ReadNames(p) \/ F!StatNames(p)
  BY <1>4, ReadingSteps DEF TreeStep, NamedBelow, Vanished
<1>5. CASE F!RemoveSubdirectory(p) \/ F!RemoveFileIn(p) \/ F!Rmdir(p)
  BY <1>5, RemovingSteps
<1> QED BY <1>1, <1>2, <1>3, <1>4, <1>5 DEF F!Step

LEMMA DirsStep == DirsInv /\ [F!Next]_(F!vars) => DirsInv'
<1> SUFFICES ASSUME DirsInv, [F!Next]_(F!vars) PROVE DirsInv'
  OBVIOUS
<1>1. CASE F!Next
  BY <1>1, DirsSteps, CallKeeps, MoveKeeps
<1>2. CASE UNCHANGED F!vars
  BY <1>2 DEF F!vars, DirsInv, DirsTyped, CallsStayBelow, LinksAreOld, IsLink, LinkIn
<1> QED BY <1>1, <1>2

\* What a path in the directory names is in it, or lies behind a link.
LEMMA Inside ==
  ASSUME DirsInv, NEW top \in Paths, NEW path \in Paths, F!IsPrefix(top, path)
  PROVE  \/ F!IsPrefix(top, F!Named(path))
         \/ /\ F!IsPrefix(LinkTarget, F!Named(path))
            /\ \E r : IsLink(r) /\ (F!IsPrefix(r, top) \/ F!IsPrefix(top, r))
<1>1. CASE F!Named(path) = path
  BY <1>1
<1>2. ASSUME F!IsPrefix(LinkTarget, F!Named(path)),
             NEW r \in Seq(STRING), IsLink(r), F!IsPrefix(r, path)
      PROVE  F!IsPrefix(r, top) \/ F!IsPrefix(top, r)
  <2>1. r \in Paths
    BY <1>2 DEF IsLink, LinkIn, DirsInv, DirsTyped
  <2> QED BY <1>2, <2>1, BeginsEither
<1>3. \/ F!Named(path) = path
      \/ /\ F!IsPrefix(LinkTarget, F!Named(path))
         /\ \E r \in Seq(STRING) : IsLink(r) /\ F!IsPrefix(r, path)
  BY NamedIs, TreesAssumption DEF F!Named, IsLink, LinkIn
<1> QED BY <1>1, <1>2, <1>3

\* What RemoveDirStaysInside says of a step.
RemovesInside ==
  \A p \in Processes : stack'[p] # stack[p] /\ stack[p] # <<>> /\ stack[p][1].op = "removeDir" =>
    LET path == stack[p][1].path
        Met(f) == F!IsPrefix(f, path) \/ F!IsPrefix(path, f)
    IN  \A e \in DOMAIN entries \ DOMAIN entries' :
           F!IsPrefix(path, e)
             \/ (F!IsPrefix(LinkTarget, e) /\ \E f \in DOMAIN before[p] : Met(f) /\ before[p][f] = "link")

LEMMA RemovingStaysInside == DirsInv /\ [F!Next]_(F!vars) => RemovesInside
<1> SUFFICES ASSUME DirsInv, [F!Next]_(F!vars),
                    NEW p \in Processes, stack'[p] # stack[p], stack[p] # <<>>, stack[p][1].op = "removeDir",
                    NEW e \in DOMAIN entries \ DOMAIN entries'
             PROVE  LET path == stack[p][1].path
                        Met(f) == F!IsPrefix(f, path) \/ F!IsPrefix(path, f)
                    IN  F!IsPrefix(path, e)
                          \/ (F!IsPrefix(LinkTarget, e)
                                /\ \E f \in DOMAIN before[p] : Met(f) /\ before[p][f] = "link")
  BY DEF RemovesInside
<1>1. F!Next
  BY DEF F!vars
<1>2. PICK q \in Processes :
           \/ \E call \in Calls : F!Call(q, call.op, call.path)
           \/ /\ stack[q] # <<>> /\ TreeStep /\ StackStep(q) /\ UNCHANGED before
              /\ F!Top(q).op = "removeDir" => NamedBelow(F!Top(q).path)
  BY <1>1, DirsSteps
<1>3. ~\E call \in Calls : F!Call(q, call.op, call.path)
  BY DEF F!Call
<1>4. q = p
  BY <1>2, <1>3 DEF StackStep, DirsInv, DirsTyped
<1> DEFINE base == stack[p][1].path
           top == F!Top(p).path
<1>5. base \in Paths /\ top \in Paths /\ F!IsPrefix(base, top) /\ NamedBelow(top)
  <2>1. stack[p] \in Seq(Frames)
    BY DEF DirsInv, DirsTyped
  <2>2. stack[p][1] \in Frames
    BY <2>1
  <2>3. base \in Paths
    BY <2>2 DEF Frames
  <2> QED BY <1>2, <1>3, <1>4, <2>3, TopIs
<1>6. PICK path \in Paths : F!IsPrefix(top, path) /\ e = F!Named(path)
  BY <1>5 DEF NamedBelow, Vanished
<1> HIDE DEF base, top
<1>7. F!IsPrefix(base, path)
  BY <1>5, <1>6, BeginsFurther
<1>8. \/ F!IsPrefix(base, e)
      \/ /\ F!IsPrefix(LinkTarget, e)
         /\ \E r : IsLink(r) /\ (F!IsPrefix(r, base) \/ F!IsPrefix(base, r))
  BY <1>5, <1>6, <1>7, Inside
<1>9. \A r : IsLink(r) => r \in DOMAIN before[p] /\ before[p][r] = "link"
  BY DEF DirsInv, LinksAreOld
<1> QED BY <1>8, <1>9 DEF base

\* removeDir, in a file system that others change at any time, removes nothing but
\* what is below its directory or behind a link it meets (gaia_dir.cpp:330).
THEOREM RemovesNothingBeside == F!Spec => RemoveDirStaysInside
<1>1. DirsInv /\ [F!Next]_(F!vars) => [RemovesInside]_(F!vars)
  BY RemovingStaysInside
<1>2. F!Spec => [][RemovesInside]_(F!vars)
  BY <1>1, DirsInit, DirsStep, PTL DEF F!Spec
<1> QED BY <1>2 DEF RemoveDirStaysInside, F!RemoveDirStaysInside, RemovesInside
\* Paths are built one name at a time.
LEMMA PathsAreBuilt ==
  ASSUME NEW S, <<>> \in S, \A path \in Paths : F!Front(path) \in S => path \in S
  PROVE  Seq(STRING) \subseteq S
<1> DEFINE D == {n \in Nat : \A s \in Seq(STRING) : Len(s) = n => s \in S}
<1>1. 0 \in D
  BY EmptySeq
<1>2. ASSUME NEW n \in Nat \ {0}, n - 1 \in D PROVE n \in D
  <2> SUFFICES ASSUME NEW s \in Seq(STRING), Len(s) = n PROVE s \in S
    OBVIOUS
  <2>1. s # <<>>
    BY <1>2
  <2>2. F!Front(s) \in Seq(STRING) /\ Len(F!Front(s)) = n - 1
    BY <2>1, Fronts
  <2> QED BY <1>2, <2>1, <2>2 DEF Paths
<1> SUFFICES ASSUME NEW s \in Seq(STRING) PROVE s \in S
  OBVIOUS
<1>3. Len(s) \in Nat /\ Len(s) \in 0..Len(s)
  OBVIOUS
<1>4. \A i \in 1..Len(s) : i - 1 \in D => i \in D
  BY <1>2, <1>3
<1>5. Len(s) \in D
  <2> HIDE DEF D
  <2> QED BY <1>1, <1>3, <1>4, UpTo
<1> QED BY <1>5

LEMMA FrontIs ==
  ASSUME NEW path \in Paths
  PROVE  /\ F!Front(path) \in Seq(STRING) /\ F!Last(path) \in STRING
         /\ path = Append(F!Front(path), F!Last(path))
         /\ Len(path) = Len(F!Front(path)) + 1
         /\ F!IsPrefix(F!Front(path), path)
<1>1. /\ path \in Seq(STRING) /\ F!Front(path) \in Seq(STRING) /\ F!Last(path) \in STRING /\ F!Last(path) = path[Len(path)]
      /\ Len(F!Front(path)) = Len(path) - 1 /\ Len(path) \in Nat \ {0}
      /\ \A i \in 1..Len(path) - 1 : F!Front(path)[i] = path[i]
  BY Fronts DEF Paths
<1> DEFINE front == F!Front(path)
           last == F!Last(path)
<1> HIDE DEF front, last
<1>2. Append(front, last) = path
  BY <1>1 DEF front, last
<1>3. F!IsPrefix(front, path)
  BY <1>1, Starts DEF front
<1> QED BY <1>1, <1>2, <1>3 DEF front, last

LEMMA AppendIs ==
  ASSUME NEW s \in Seq(STRING), NEW name \in STRING
  PROVE  /\ Append(s, name) \in Paths /\ F!Front(Append(s, name)) = s /\ F!Last(Append(s, name)) = name
         /\ Len(Append(s, name)) = Len(s) + 1 /\ F!IsPrefix(s, Append(s, name))
<1> DEFINE t == Append(s, name)
<1>1. /\ t \in Seq(STRING) /\ Len(t) = Len(s) + 1 /\ t[Len(s) + 1] = name /\ Len(s) \in Nat
      /\ \A i \in 1..Len(s) : t[i] = s[i]
  <2>1. t \in Seq(STRING) /\ Len(s) \in Nat /\ Len(t) = Len(s) + 1
    BY AppendProperties, LenProperties
  <2>2. t[Len(s) + 1] = name
    BY AppendProperties
  <2>3. \A i \in 1..Len(s) : t[i] = s[i]
    OBVIOUS
  <2> QED BY <2>1, <2>2, <2>3
<1>2. t \in Paths /\ F!IsPrefix(s, t)
  BY Appended
<1> HIDE DEF t
<1>3. F!Last(t) = name
  BY <1>1 DEF F!Last
<1>4. F!Front(t) = s
  <2> DEFINE f == F!Front(t)
  <2>1. t # <<>>
    BY <1>1
  <2>2. f \in Seq(STRING) /\ Len(f) = Len(s) /\ \A i \in 1..Len(s) : f[i] = s[i]
    BY <1>1, <2>1, Fronts
  <2> HIDE DEF f
  <2> QED BY <1>1, <2>2 DEF f
<1> QED BY <1>1, <1>2, <1>3, <1>4 DEF t

\* What begins a path is the path, or begins its front.
LEMMA BeginsFront ==
  ASSUME NEW s \in Seq(STRING), NEW path \in Paths, F!IsPrefix(s, path)
  PROVE  s = path \/ F!IsPrefix(s, F!Front(path))
<1>1. /\ path \in Seq(STRING) /\ F!Front(path) \in Seq(STRING) /\ Len(F!Front(path)) = Len(path) - 1
      /\ Len(path) \in Nat \ {0} /\ Len(s) \in Nat
      /\ \A i \in 1..Len(path) - 1 : F!Front(path)[i] = path[i]
  BY Fronts DEF Paths
<1>2. Len(s) <= Len(path) /\ \A i \in 1..Len(s) : s[i] = path[i]
  BY <1>1, Starts
<1>3. CASE Len(s) = Len(path)
  BY <1>1, <1>2, <1>3
<1>4. CASE Len(s) <= Len(path) - 1
  <2>1. \A i \in 1..Len(s) : i \in 1..Len(path) - 1
    BY <1>1, <1>4
  <2>2. \A i \in 1..Len(s) : s[i] = F!Front(path)[i]
    BY <1>1, <1>2, <2>1
  <2> QED BY <1>1, <1>4, <2>2, Starts
<1> QED BY <1>1, <1>2, <1>3, <1>4

\* Beginnings of beginnings, the empty path among them.
LEMMA BeginsOn ==
  ASSUME NEW s \in Seq(STRING), NEW t \in Seq(STRING), NEW u \in Seq(STRING), F!IsPrefix(s, t), F!IsPrefix(t, u)
  PROVE  F!IsPrefix(s, u) /\ Len(s) <= Len(u)
<1>2. Len(s) <= Len(t) /\ Len(t) <= Len(u) /\ Len(s) \in Nat /\ Len(t) \in Nat /\ Len(u) \in Nat
  BY Starts
<1>3. \A i \in 1..Len(s) : i \in 1..Len(t) /\ s[i] = t[i]
  BY <1>2, Starts
<1>4. \A i \in 1..Len(t) : t[i] = u[i]
  BY Starts
<1> QED BY <1>2, <1>3, <1>4, Starts

LEMMA BeginsOwn == \A s \in Seq(STRING) : F!IsPrefix(s, s) /\ F!IsPrefix(<<>>, s)
<1> SUFFICES ASSUME NEW s \in Seq(STRING) PROVE F!IsPrefix(s, s) /\ F!IsPrefix(<<>>, s)
  OBVIOUS
<1>1. F!IsPrefix(s, s)
  BY Starts
<1>2. <<>> \in Seq(STRING) /\ Len(<<>>) <= Len(s) /\ \A i \in 1..Len(<<>>) : <<>>[i] = s[i]
  OBVIOUS
<1>3. F!IsPrefix(<<>>, s)
  BY <1>2, Starts
<1> QED BY <1>1, <1>3
-----------------------------------------------------------------------------
Resolves(tree, path, real) ==
  /\ real \in [0..Len(path) -> Seq(STRING)]
  /\ real[0] = <<>> /\ F!FollowedIn(tree, path) = real[Len(path)]
  /\ \A i \in 1..Len(path) :
       LET there == Append(real[i - 1], path[i])
       IN  real[i] = IF LinkIn(tree, there) THEN LinkTarget ELSE there

LEMMA Resolved ==
  ASSUME NEW tree, NEW path \in Seq(STRING)
  PROVE  \E real : Resolves(tree, path, real)
<1>1. LinkTarget \in Paths
  BY TreesAssumption
<1>2. PICK real \in [0..Len(path) -> Seq(STRING)] :
            /\ real[0] = <<>> /\ F!FollowedIn(tree, path) = real[Len(path)]
            /\ \A i \in 1..Len(path) :
                 LET there == Append(real[i - 1], path[i])
                 IN  real[i] = IF LinkIn(tree, there) THEN LinkTarget ELSE there
  BY <1>1, FollowedBySteps
<1>3. Resolves(tree, path, real)
  BY <1>2 DEF Resolves
<1> QED BY <1>3

\* Each name of a path is one step: to what it names, and on if that is a link.
LEMMA FollowedStep ==
  ASSUME NEW tree, NEW path \in Paths
  PROVE  /\ F!FollowedIn(tree, <<>>) = <<>>
         /\ F!FollowedIn(tree, path) =
              IF LinkIn(tree, F!NamedIn(tree, path)) THEN LinkTarget ELSE F!NamedIn(tree, path)
<1> DEFINE n == Len(path)
           front == F!Front(path)
<1>1. LinkTarget \in Paths /\ path \in Seq(STRING) /\ <<>> \in Seq(STRING) /\ Len(<<>>) = 0
  BY TreesAssumption DEF Paths
<1>2. /\ front \in Seq(STRING) /\ Len(front) = n - 1 /\ n \in Nat \ {0} /\ \A i \in 1..n - 1 : front[i] = path[i]
      /\ F!Last(path) = path[n]
  BY <1>1, Fronts DEF Paths
<1>3. F!FollowedIn(tree, <<>>) = <<>>
  BY <1>1, FollowedBySteps
<1> HIDE DEF n, front
<1>4. PICK r : /\ r \in [0..n -> Seq(STRING)]
               /\ r[0] = <<>> /\ F!FollowedIn(tree, path) = r[n]
               /\ \A i \in 1..n : LET there == Append(r[i - 1], path[i])
                                  IN  r[i] = IF LinkIn(tree, there) THEN LinkTarget ELSE there
  BY <1>1, Resolved, Zenon DEF n, Resolves
<1>5. PICK f : /\ f \in [0..n - 1 -> Seq(STRING)]
               /\ f[0] = <<>> /\ F!FollowedIn(tree, front) = f[n - 1]
               /\ \A i \in 1..n - 1 : LET there == Append(f[i - 1], front[i])
                                      IN  f[i] = IF LinkIn(tree, there) THEN LinkTarget ELSE there
  <2>1. PICK f : Resolves(tree, front, f)
    BY <1>2, Resolved
  <2> QED BY <1>2, <2>1, Zenon DEF Resolves
<1> DEFINE D == {i \in 0..n - 1 : r[i] = f[i]}
<1>6. 0 \in D /\ n - 1 \in Nat
  BY <1>2, <1>4, <1>5
<1>7. \A i \in 1..n - 1 : i - 1 \in D => i \in D
  <2> SUFFICES ASSUME NEW i \in 1..n - 1, r[i - 1] = f[i - 1] PROVE r[i] = f[i]
    BY <1>2
  <2>1. i \in 1..n /\ front[i] = path[i]
    BY <1>2
  <2> QED BY <1>4, <1>5, <2>1
<1>8. r[n - 1] = f[n - 1]
  <2>1. n - 1 \in 0..n - 1
    BY <1>2
  <2>2. \A i \in 0..n - 1 : i \in D
    <3> HIDE DEF D
    <3> QED BY <1>6, <1>7, UpTo
  <2> QED BY <2>1, <2>2
<1>9. F!NamedIn(tree, path) = Append(r[n - 1], path[n])
  BY <1>2, <1>5, <1>8 DEF F!NamedIn, front
<1>10. n \in 1..n
  BY <1>2
<1> QED BY <1>3, <1>4, <1>9, <1>10

\* Where a path leads, and what it names.
LEMMA Leads ==
  ASSUME NEW tree, NEW path \in Paths
  PROVE  /\ F!FollowedIn(tree, path) \in Paths /\ F!FollowedIn(tree, F!Front(path)) \in Seq(STRING)
         /\ F!NamedIn(tree, path) \in Paths
         /\ F!NamedIn(tree, path) = Append(F!FollowedIn(tree, F!Front(path)), F!Last(path))
         /\ F!Front(F!NamedIn(tree, path)) = F!FollowedIn(tree, F!Front(path))
         /\ F!Last(F!NamedIn(tree, path)) = F!Last(path)
         /\ Len(F!NamedIn(tree, path)) = Len(F!FollowedIn(tree, F!Front(path))) + 1
         /\ F!IsPrefix(F!FollowedIn(tree, F!Front(path)), F!NamedIn(tree, path))
<1>1. LinkTarget \in Paths /\ path \in Seq(STRING) /\ path # <<>>
  BY TreesAssumption DEF Paths
<1>2. F!Front(path) \in Seq(STRING) /\ F!Last(path) \in STRING
  BY FrontIs
<1>3. F!FollowedIn(tree, path) \in Paths /\ F!FollowedIn(tree, F!Front(path)) \in Seq(STRING)
  BY <1>1, <1>2, FollowedIs DEF Paths
<1>4. F!NamedIn(tree, path) = Append(F!FollowedIn(tree, F!Front(path)), F!Last(path))
  BY DEF F!NamedIn
<1> QED BY <1>2, <1>3, <1>4, AppendIs

\* A name in a directory.
LEMMA NameIn ==
  ASSUME NEW tree, NEW s \in Seq(STRING), NEW name \in STRING
  PROVE  Append(s, name) \in Paths /\ F!NamedIn(tree, Append(s, name)) = Append(F!FollowedIn(tree, s), name)
BY AppendIs DEF F!NamedIn

\* Paths lead where they led as long as the links are the same.
LEMMA SameLinks ==
  ASSUME NEW tree, NEW later, \A e : LinkIn(tree, e) <=> LinkIn(later, e)
  PROVE  /\ \A path \in Seq(STRING) : F!FollowedIn(tree, path) = F!FollowedIn(later, path)
         /\ \A path \in Paths : F!NamedIn(tree, path) = F!NamedIn(later, path)
<1> DEFINE S == {path \in Seq(STRING) : F!FollowedIn(tree, path) = F!FollowedIn(later, path)}
<1>1. <<>> \in S
  <2>1. \E path : path \in Paths
    BY TreesAssumption
  <2> QED BY <2>1, FollowedStep
<1>2. ASSUME NEW path \in Paths, F!Front(path) \in S
      PROVE  path \in S /\ F!NamedIn(tree, path) = F!NamedIn(later, path)
  <2>1. F!NamedIn(tree, path) = F!NamedIn(later, path)
    BY <1>2, Leads
  <2>2. path \in Seq(STRING)
    BY DEF Paths
  <2> QED BY <2>1, <2>2, FollowedStep
<1>3. Seq(STRING) \subseteq S
  <2> HIDE DEF S
  <2> QED BY <1>1, <1>2, PathsAreBuilt
<1>4. \A path \in Paths : F!Front(path) \in S
  BY <1>3, FrontIs
<1> QED BY <1>2, <1>3, <1>4
-----------------------------------------------------------------------------
\* File systems as there are: every entry in a directory.
Sound(tree) == DOMAIN tree \subseteq Paths /\ F!WellFormed(tree)
DirAt(tree, e) == e \in DOMAIN tree /\ tree[e] = "dir"

\* On the way to an entry there are directories.
LEMMA DirsAbove ==
  ASSUME NEW tree, Sound(tree), NEW e \in DOMAIN tree, NEW r \in Paths, F!IsPrefix(r, e)
  PROVE  r = e \/ DirAt(tree, r)
<1> DEFINE S == {s \in Seq(STRING) : s \in DOMAIN tree => \A x \in Paths : F!IsPrefix(x, s) => x = s \/ DirAt(tree, x)}
<1>1. <<>> \in S
  BY DEF Sound, Paths
<1>2. ASSUME NEW path \in Paths, F!Front(path) \in S PROVE path \in S
  <2> SUFFICES ASSUME path \in DOMAIN tree, NEW x \in Paths, F!IsPrefix(x, path), x # path PROVE DirAt(tree, x)
    BY DEF Paths
  <2>1. F!IsPrefix(x, F!Front(path)) /\ F!Front(path) \in Seq(STRING) /\ x \in Seq(STRING) /\ x # <<>>
    BY BeginsFront, FrontIs DEF Paths
  <2>2. F!Front(path) # <<>>
    BY <2>1, Starts
  <2>3. DirAt(tree, F!Front(path))
    BY <2>2 DEF Sound, F!WellFormed, DirAt
  <2> QED BY <1>2, <2>1, <2>3 DEF DirAt
<1>3. Seq(STRING) \subseteq S
  <2> HIDE DEF S
  <2> QED BY <1>1, <1>2, PathsAreBuilt
<1>4. e \in Seq(STRING)
  BY DEF Sound, Paths
<1> QED BY <1>3, <1>4

LEMMA NothingBegins == \A x \in Paths : ~F!IsPrefix(x, <<>>)
<1> SUFFICES ASSUME NEW x \in Paths, F!IsPrefix(x, <<>>) PROVE FALSE
  OBVIOUS
<1>1. x \in Seq(STRING) /\ Len(x) \in Nat \ {0}
  BY DEF Paths
<1>2. <<>> \in Seq(STRING)
  OBVIOUS
<1>3. Len(x) <= Len(<<>>)
  BY <1>1, <1>2, Starts
<1>4. Len(<<>>) = 0
  OBVIOUS
<1> QED BY <1>1, <1>3, <1>4

\* What a path leads to is no link, nor reached through one.
LEMMA LeadsToNoLink ==
  ASSUME NEW tree, Sound(tree), NEW path \in Seq(STRING), NEW r \in Paths, F!IsPrefix(r, F!FollowedIn(tree, path))
  PROVE  ~LinkIn(tree, r)
<1> DEFINE S == {s \in Seq(STRING) : \A x \in Paths : F!IsPrefix(x, F!FollowedIn(tree, s)) => ~LinkIn(tree, x)}
<1>1. <<>> \in S
  <2> SUFFICES ASSUME NEW x \in Paths, F!IsPrefix(x, F!FollowedIn(tree, <<>>)) PROVE FALSE
    OBVIOUS
  <2>1. F!FollowedIn(tree, <<>>) = <<>> /\ x \in Seq(STRING) /\ x # <<>>
    BY FollowedStep DEF Paths
  <2> QED BY <2>1, NothingBegins
<1>2. ASSUME NEW s \in Paths, F!Front(s) \in S PROVE s \in S
  <2> SUFFICES ASSUME NEW x \in Paths, F!IsPrefix(x, F!FollowedIn(tree, s)), LinkIn(tree, x) PROVE FALSE
    BY DEF Paths
  <2>1. CASE LinkIn(tree, F!NamedIn(tree, s))
    <3>1. F!IsPrefix(x, LinkTarget)
      BY <2>1, FollowedStep
    <3> QED BY <3>1 DEF LinkIn, Sound, F!WellFormed
  <2>2. CASE ~LinkIn(tree, F!NamedIn(tree, s))
    <3>1. F!IsPrefix(x, F!NamedIn(tree, s)) /\ x # F!NamedIn(tree, s)
      BY <2>2, FollowedStep
    <3>2. F!NamedIn(tree, s) \in Paths /\ F!Front(F!NamedIn(tree, s)) = F!FollowedIn(tree, F!Front(s)) /\ x \in Seq(STRING)
      BY Leads DEF Paths
    <3>3. F!IsPrefix(x, F!FollowedIn(tree, F!Front(s)))
      BY <3>1, <3>2, BeginsFront
    <3> QED BY <1>2, <3>3
  <2> QED BY <2>1, <2>2
<1>3. Seq(STRING) \subseteq S
  <2> HIDE DEF S
  <2> QED BY <1>1, <1>2, PathsAreBuilt
<1> QED BY <1>3

\* A path without links leads where it says, and so does that of a directory.
LEMMA LeadsStraight ==
  ASSUME NEW tree, Sound(tree), NEW path \in Seq(STRING), \A r \in Paths : F!IsPrefix(r, path) => ~LinkIn(tree, r)
  PROVE  F!FollowedIn(tree, path) = path
<1>1. LinkTarget \in Paths
  BY TreesAssumption
<1>2. \A r : LinkIn(tree, r) => r \in Paths
  BY DEF LinkIn, Sound
<1> QED BY <1>1, <1>2, FollowedIs

LEMMA DirsLeadStraight ==
  ASSUME NEW tree, Sound(tree), NEW path \in Paths, DirAt(tree, path)
  PROVE  F!FollowedIn(tree, path) = path
<1>1. \A r \in Paths : F!IsPrefix(r, path) => DirAt(tree, r)
  BY DirsAbove DEF DirAt
<1>2. path \in Seq(STRING)
  BY DEF Paths
<1> QED BY <1>1, <1>2, LeadsStraight DEF DirAt, LinkIn

\* Where links lead nowhere, paths with links on them do.
LEMMA DirsWithoutLinks ==
  ASSUME NEW tree, Sound(tree), ~DirAt(tree, LinkTarget), NEW path \in Paths, DirAt(tree, F!FollowedIn(tree, path))
  PROVE  F!FollowedIn(tree, path) = path
<1>1. LinkTarget \in Paths /\ path \in Seq(STRING)
  BY TreesAssumption DEF Paths
<1>2. ~F!IsPrefix(LinkTarget, F!FollowedIn(tree, path))
  BY <1>1, DirsAbove DEF DirAt
<1> QED BY <1>1, <1>2, FollowedIs

LEMMA DirIs ==
  ASSUME NEW tree, Sound(tree), NEW path \in Paths
  PROVE  /\ F!IsDirIn(tree, path) <=> DirAt(tree, F!FollowedIn(tree, path))
         /\ F!IsDirIn(tree, path) <=>
              \/ DirAt(tree, F!NamedIn(tree, path))
              \/ LinkIn(tree, F!NamedIn(tree, path)) /\ DirAt(tree, LinkTarget)
         /\ DirAt(tree, F!NamedIn(tree, path)) => F!FollowedIn(tree, path) = F!NamedIn(tree, path)
<1>1. path # <<>>
  BY DEF Paths
<1>2. F!IsDirIn(tree, path) <=> DirAt(tree, F!FollowedIn(tree, path))
  BY <1>1 DEF F!IsDirIn, DirAt
<1> QED BY <1>2, FollowedStep DEF DirAt, LinkIn
-----------------------------------------------------------------------------
\* An entry goes that nothing is below, and no link that leads to a directory.
Less(tree, e) == [x \in DOMAIN tree \ {e} |-> tree[x]]
MayGo(tree, e) ==
  /\ tree[e] = "dir" => \A x \in DOMAIN tree : F!Front(x) # e
  /\ LinkIn(tree, e) => ~DirAt(tree, LinkTarget)

LEMMA LessIs ==
  ASSUME NEW tree, Sound(tree), NEW e \in DOMAIN tree, MayGo(tree, e)
  PROVE  /\ Sound(Less(tree, e))
         /\ DOMAIN Less(tree, e) = DOMAIN tree \ {e}
         /\ \A x \in DOMAIN Less(tree, e) : Less(tree, e)[x] = tree[x]
         /\ \A x : DirAt(Less(tree, e), x) <=> DirAt(tree, x) /\ x # e
         /\ \A x : LinkIn(Less(tree, e), x) <=> LinkIn(tree, x) /\ x # e
<1> DEFINE u == Less(tree, e)
<1>1. DOMAIN u = DOMAIN tree \ {e} /\ \A x \in DOMAIN u : u[x] = tree[x]
  BY DEF Less
<1> HIDE DEF u
<1>2. \A x : (DirAt(u, x) <=> DirAt(tree, x) /\ x # e) /\ (LinkIn(u, x) <=> LinkIn(tree, x) /\ x # e)
  BY <1>1 DEF DirAt, LinkIn
<1>3. ASSUME NEW x \in DOMAIN u
      PROVE  /\ F!IsPrefix(x, LinkTarget) => u[x] # "link"
             /\ F!Front(x) = <<>> \/ (F!Front(x) \in DOMAIN u /\ u[F!Front(x)] = "dir")
  <2>1. x \in DOMAIN tree
    BY <1>1
  <2>2. (F!IsPrefix(x, LinkTarget) => tree[x] # "link") /\ (F!Front(x) = <<>> \/ DirAt(tree, F!Front(x)))
    BY <2>1 DEF Sound, F!WellFormed, DirAt
  <2>3. F!Front(x) = e => tree[e] # "dir"
    BY <2>1 DEF MayGo
  <2>4. F!Front(x) = <<>> \/ DirAt(u, F!Front(x))
    BY <1>2, <2>2, <2>3 DEF DirAt
  <2> QED BY <1>1, <2>2, <2>4 DEF DirAt
<1>4. Sound(u)
  BY <1>1, <1>3 DEF Sound, F!WellFormed
<1> QED BY <1>1, <1>2, <1>4 DEF u

\* Then what is a directory was one; and what leads to another directory still does.
LEMMA LeadsAsBefore ==
  ASSUME NEW tree, Sound(tree), NEW e \in DOMAIN tree, MayGo(tree, e), NEW path \in Paths
  PROVE  /\ F!IsDirIn(Less(tree, e), path) => F!IsDirIn(tree, path)
         /\ F!IsDirIn(tree, path) => F!FollowedIn(Less(tree, e), path) = F!FollowedIn(tree, path)
<1> DEFINE u == Less(tree, e)
<1>1. /\ Sound(u) /\ \A x : DirAt(u, x) <=> DirAt(tree, x) /\ x # e
      /\ \A x : LinkIn(u, x) <=> LinkIn(tree, x) /\ x # e
  BY LessIs
<1> HIDE DEF u
<1>2. path \in Seq(STRING)
  BY DEF Paths
<1>3. CASE ~LinkIn(tree, e)
  <2>1. \A x : LinkIn(tree, x) <=> LinkIn(u, x)
    BY <1>1, <1>3
  <2>2. F!FollowedIn(tree, path) = F!FollowedIn(u, path)
    BY <1>2, <2>1, SameLinks
  <2>3. F!IsDirIn(u, path) => F!IsDirIn(tree, path)
    BY <1>1, <2>2, DirIs
  <2> QED BY <2>2, <2>3 DEF u
<1>4. CASE ~DirAt(tree, LinkTarget)
  <2>1. ~DirAt(u, LinkTarget)
    BY <1>1, <1>4
  <2>2. ASSUME F!IsDirIn(u, path) PROVE F!IsDirIn(tree, path)
    <3>1. DirAt(u, F!FollowedIn(u, path))
      BY <1>1, <2>2, DirIs
    <3>2. F!FollowedIn(u, path) = path
      BY <1>1, <2>1, <3>1, DirsWithoutLinks
    <3>3. DirAt(tree, path)
      BY <1>1, <3>1, <3>2
    <3>4. F!FollowedIn(tree, path) = path
      BY <3>3, DirsLeadStraight
    <3> QED BY <3>3, <3>4, DirIs
  <2>3. ASSUME F!IsDirIn(tree, path) PROVE F!FollowedIn(u, path) = F!FollowedIn(tree, path)
    <3>1. DirAt(tree, F!FollowedIn(tree, path))
      BY <2>3, DirIs
    <3>2. F!FollowedIn(tree, path) = path
      BY <1>4, <3>1, DirsWithoutLinks
    <3>3. \A r \in Paths : F!IsPrefix(r, path) => ~LinkIn(tree, r)
      <4>1. \A r \in Paths : F!IsPrefix(r, path) => DirAt(tree, r)
        BY <3>1, <3>2, DirsAbove DEF DirAt
      <4> QED BY <4>1 DEF DirAt, LinkIn
    <3>4. F!FollowedIn(u, path) = path
      BY <1>1, <1>2, <3>3, LeadsStraight
    <3> QED BY <3>2, <3>4
  <2> QED BY <2>2, <2>3 DEF u
<1> QED BY <1>3, <1>4 DEF MayGo

\* What a path names stays what it names while its directory leads somewhere.
LEMMA NamesAsBefore ==
  ASSUME NEW tree, Sound(tree), NEW e \in DOMAIN tree, MayGo(tree, e), NEW path \in Paths,
         F!IsDirIn(tree, F!Front(path))
  PROVE  F!NamedIn(Less(tree, e), path) = F!NamedIn(tree, path)
<1>1. F!Front(path) \in Seq(STRING)
  BY FrontIs
<1>2. F!FollowedIn(Less(tree, e), F!Front(path)) = F!FollowedIn(tree, F!Front(path))
  <2>1. CASE F!Front(path) = <<>>
    <3>1. F!FollowedIn(tree, <<>>) = <<>> /\ F!FollowedIn(Less(tree, e), <<>>) = <<>>
      BY FollowedStep
    <3> QED BY <2>1, <3>1
  <2>2. CASE F!Front(path) # <<>>
    BY <1>1, <2>2, LeadsAsBefore DEF Paths
  <2> QED BY <2>1, <2>2
<1> QED BY <1>2 DEF F!NamedIn

\* What names an entry is in a directory.
LEMMA NamedInDir ==
  ASSUME NEW tree, Sound(tree), NEW path \in Paths, F!NamedIn(tree, path) \in DOMAIN tree
  PROVE  F!IsDirIn(tree, F!Front(path))
<1>1. F!Front(path) \in Seq(STRING) /\ F!Front(F!NamedIn(tree, path)) = F!FollowedIn(tree, F!Front(path))
  BY FrontIs, Leads
<1>2. F!FollowedIn(tree, F!Front(path)) = <<>> \/ DirAt(tree, F!FollowedIn(tree, F!Front(path)))
  BY <1>1 DEF Sound, F!WellFormed, DirAt
<1>3. F!Front(path) # <<>> => F!FollowedIn(tree, F!Front(path)) # <<>>
  BY <1>1, Leads DEF Paths
<1> QED BY <1>2, <1>3 DEF F!IsDirIn, DirAt
-----------------------------------------------------------------------------
\* A removeDir that nobody disturbs: s are its frames, t the file system, o what it
\* was when it was called, and place what it was told to remove.
Entered(s, i) == i < Len(s) \/ s[i].pc # "start"

Chained(s) ==
  \A i \in 1..Len(s) : /\ s[i].op = "removeDir"
                       /\ i < Len(s) => s[i].pc = "remove"
                       /\ i > 1 => F!Front(s[i].path) = s[i - 1].path

Shrunk(t, o) == DOMAIN t \subseteq DOMAIN o /\ \A e \in DOMAIN t : t[e] = o[e]

\* What is taken for a file leads to no directory.
PlainFiles(t, s) ==
  \A i \in 1..Len(s) : \A k \in 1..Len(s[i].files) : ~F!IsDirIn(t, Append(s[i].path, s[i].files[k]))

\* A frame that has not begun has read nothing.
NoLists(f) == f.dirs = <<>> /\ f.files = <<>>
Fresh(s) == \A i \in 1..Len(s) : s[i].pc = "start" => NoLists(s[i])

\* It has followed a link in the directory: it cannot remove that, whatever else it does.
Lost(t, s, place) ==
  /\ DirAt(t, LinkTarget)
  /\ \E i \in 1..Len(s) : /\ Entered(s, i) /\ LinkIn(t, F!NamedIn(t, s[i].path))
                          /\ F!IsPrefix(place, F!NamedIn(t, s[i].path))

\* It has not, and all that is gone was in the directory.
NoneLost(t, s, o, place) ==
  /\ \A i \in 1..Len(s) : Entered(s, i) => /\ DirAt(t, F!NamedIn(t, s[i].path))
                                           /\ F!IsPrefix(place, F!NamedIn(t, s[i].path))
  /\ F!NamedIn(t, s[1].path) = place
  /\ \A e \in DOMAIN o : F!IsPrefix(place, e) \/ e \in DOMAIN t

\* Nothing in the directory is hidden or a link.
Plain(o, place) == \A e \in DOMAIN o : F!IsPrefix(place, e) => F!Last(e) \notin Hidden /\ o[e] # "link"

Among(list, name) == \E k \in 1..Len(list) : list[k] = name
AllDiffer(list) == \A k, l \in 1..Len(list) : k # l => list[k] # list[l]

\* Then every name in the directory is still to come: it is among those that the
\* frame f has read, or is that of the frame further in.
ChildOf(t, here, e) == e \in DOMAIN t /\ F!Front(e) = here

NamesRead(t, f, here) ==
  f.pc \in {"stat dirs", "stat files"} =>
    /\ \A e : ChildOf(t, here, e) => F!Last(e) \in f.names
    /\ \A name \in f.names : ChildOf(t, here, Append(here, name))
DirsThere(t, f, here) ==
  AllDiffer(f.dirs) /\ \A name \in STRING : Among(f.dirs, name) => DirAt(t, Append(here, name))
FilesThere(t, f, here) ==
  /\ AllDiffer(f.files)
  /\ \A name \in STRING : Among(f.files, name) => Append(here, name) \in DOMAIN t /\ ~DirAt(t, Append(here, name))
DirsAreAll(t, f, here) ==
  f.pc \in {"read files", "stat files"} => \A e : ChildOf(t, here, e) /\ DirAt(t, e) => Among(f.dirs, F!Last(e))
AllAreDue(t, f, here, inner) ==
  f.pc = "remove" =>
    \A e : ChildOf(t, here, e) => Among(f.dirs, F!Last(e)) \/ Among(f.files, F!Last(e)) \/ F!Last(e) \in inner
InnerThere(t, f, here, inner) == \A name \in inner : DirAt(t, Append(here, name)) /\ ~Among(f.dirs, name)

ExpectedIn(t, f, here, inner) ==
  /\ NamesRead(t, f, here) /\ DirsThere(t, f, here) /\ FilesThere(t, f, here)
  /\ DirsAreAll(t, f, here) /\ AllAreDue(t, f, here, inner) /\ InnerThere(t, f, here, inner)

Inner(s, i) == IF i < Len(s) THEN {F!Last(s[i + 1].path)} ELSE {}
Expected(t, s, i) == ExpectedIn(t, s[i], F!NamedIn(t, s[i].path), Inner(s, i))
Tidy(t, s) == \A i \in 1..Len(s) : Entered(s, i) => Expected(t, s, i)

Going(t, s, o, place) ==
  /\ place \in DOMAIN o
  /\ Lost(t, s, place) \/ (NoneLost(t, s, o, place) /\ (Plain(o, place) => Tidy(t, s)))

Removal(t, s, o) ==
  /\ Chained(s) /\ Fresh(s) /\ Shrunk(t, o) /\ PlainFiles(t, s)
  /\ ~Entered(s, 1) => t = o
  /\ Entered(s, 1) => Going(t, s, o, F!NamedIn(o, s[1].path))

\* How a removeDir ends.
Ending(t, o, path, outcome) ==
  LET place == F!NamedIn(o, path)
      below == F!Below(place, o)
      awkward == {e \in below : F!Last(e) \in Hidden \/ o[e] = "link"}
  IN  IF outcome = "throws" THEN awkward # {}
      ELSE IF place \in below /\ o[place] = "dir" THEN t = [e \in DOMAIN o \ below |-> o[e]]
      ELSE t = o

LEMMA PlainIs ==
  ASSUME NEW o, NEW path, NEW t, ~Plain(o, F!NamedIn(o, path))
  PROVE  Ending(t, o, path, "throws")
BY DEF Plain, Ending, F!Below

LEMMA LostIs ==
  ASSUME NEW t, NEW s, NEW o, NEW place, Shrunk(t, o), Lost(t, s, place)
  PROVE  ~Plain(o, place)
BY DEF Lost, LinkIn, Shrunk, Plain

\* Frames and their places.
LEMMA FrameTypes ==
  ASSUME NEW s \in Seq(Frames), NEW i \in 1..Len(s)
  PROVE  /\ s[i] \in Frames /\ s[i].path \in Paths /\ s[i].path \in Seq(STRING)
         /\ s[i].dirs \in Seq(STRING) /\ s[i].files \in Seq(STRING) /\ s[i].names \subseteq STRING
         /\ Len(s) \in Nat /\ i \in Nat /\ (i # 1 => i - 1 \in 1..Len(s)) /\ (i < Len(s) => i + 1 \in 1..Len(s))
<1>1. s[i] \in Frames
  OBVIOUS
<1>2. s[i].path \in Paths /\ s[i].dirs \in Seq(STRING) /\ s[i].files \in Seq(STRING) /\ s[i].names \subseteq STRING
  BY <1>1 DEF Frames
<1>3. Len(s) \in Nat /\ i \in Nat /\ (i # 1 => i - 1 \in 1..Len(s)) /\ (i < Len(s) => i + 1 \in 1..Len(s))
  OBVIOUS
<1> QED BY <1>1, <1>2, <1>3 DEF Paths

\* A frame is where the frame around it leads, one name further.
LEMMA NextPlace ==
  ASSUME NEW s \in Seq(Frames), Chained(s), NEW i \in 1..Len(s), i # 1, NEW t
  PROVE  /\ i - 1 \in 1..Len(s) /\ F!Front(s[i].path) = s[i - 1].path /\ F!Last(s[i].path) \in STRING
         /\ F!NamedIn(t, s[i].path) = Append(F!FollowedIn(t, s[i - 1].path), F!Last(s[i].path))
         /\ F!FollowedIn(t, s[i - 1].path) \in Paths
<1>1. i - 1 \in 1..Len(s) /\ i > 1
  OBVIOUS
<1>2. F!Front(s[i].path) = s[i - 1].path
  BY <1>1 DEF Chained
<1>3. s[i].path \in Paths /\ s[i - 1].path \in Paths
  BY <1>1, FrameTypes
<1> QED BY <1>1, <1>2, <1>3, Leads, FrontIs

\* Further in than a link, frames are behind it.
LEMMA BehindLink ==
  ASSUME NEW s \in Seq(Frames), Chained(s), NEW t, NEW i \in 1..Len(s), LinkIn(t, F!NamedIn(t, s[i].path)),
         NEW j \in 1..Len(s), i < j
  PROVE  F!IsPrefix(LinkTarget, F!FollowedIn(t, F!Front(s[j].path)))
<1> DEFINE D == {k \in Nat : i + k <= Len(s) => F!IsPrefix(LinkTarget, F!FollowedIn(t, s[i + k].path))}
<1>1. LinkTarget \in Seq(STRING)
  BY TreesAssumption DEF Paths
<1>2. 0 \in D
  <2>1. F!FollowedIn(t, s[i].path) = LinkTarget
    BY FrameTypes, FollowedStep
  <2>2. i + 0 = i
    OBVIOUS
  <2> QED BY <1>1, <2>1, <2>2, BeginsOwn
<1>3. ASSUME NEW k \in 1..Len(s), k - 1 \in D PROVE k \in D
  <2> SUFFICES ASSUME i + k <= Len(s) PROVE F!IsPrefix(LinkTarget, F!FollowedIn(t, s[i + k].path))
    OBVIOUS
  <2> DEFINE m == i + k
  <2>1. m \in 1..Len(s) /\ m # 1 /\ i + (k - 1) = m - 1 /\ i + (k - 1) <= Len(s)
    OBVIOUS
  <2> HIDE DEF m
  <2>2. F!IsPrefix(LinkTarget, F!FollowedIn(t, s[m - 1].path))
    BY <1>3, <2>1
  <2>3. /\ F!NamedIn(t, s[m].path) = Append(F!FollowedIn(t, s[m - 1].path), F!Last(s[m].path))
        /\ F!FollowedIn(t, s[m - 1].path) \in Paths /\ F!Last(s[m].path) \in STRING
    BY <2>1, NextPlace
  <2>4. F!IsPrefix(F!FollowedIn(t, s[m - 1].path), F!NamedIn(t, s[m].path)) /\ F!NamedIn(t, s[m].path) \in Seq(STRING)
    BY <2>3, AppendIs DEF Paths
  <2>5. F!IsPrefix(LinkTarget, F!NamedIn(t, s[m].path))
    BY <1>1, <2>2, <2>3, <2>4, BeginsOn DEF Paths
  <2>6. s[m].path \in Paths
    BY <2>1, FrameTypes
  <2>7. F!FollowedIn(t, s[m].path) = LinkTarget \/ F!FollowedIn(t, s[m].path) = F!NamedIn(t, s[m].path)
    BY <2>6, FollowedStep
  <2> QED BY <1>1, <2>5, <2>7, BeginsOwn DEF m
<1> DEFINE k == j - 1 - i
<1>4. k \in 0..Len(s) /\ i + k = j - 1 /\ i + k <= Len(s) /\ j # 1
  OBVIOUS
<1>5. k \in D
  <2>1. Len(s) \in Nat
    OBVIOUS
  <2> HIDE DEF D, k
  <2> QED BY <1>2, <1>3, <1>4, <2>1, UpTo
<1>6. F!IsPrefix(LinkTarget, F!FollowedIn(t, s[j - 1].path))
  BY <1>4, <1>5
<1> QED BY <1>4, <1>6, NextPlace

\* Where nothing is lost every frame is one name longer than the one around it.
LEMMA PlacesDiffer ==
  ASSUME NEW s \in Seq(Frames), s # <<>>, Chained(s), NEW t, Sound(t), NEW o, NEW place, NoneLost(t, s, o, place)
  PROVE  \A i \in 1..Len(s) : Len(F!NamedIn(t, s[i].path)) = Len(place) + i - 1
<1> DEFINE D == {k \in Nat : k + 1 <= Len(s) => Len(F!NamedIn(t, s[k + 1].path)) = Len(place) + k}
<1>1. 1 \in 1..Len(s) /\ Len(s) \in Nat /\ 0 + 1 = 1
  OBVIOUS
<1>2. Len(place) \in Nat
  <2>1. s[1].path \in Paths
    BY <1>1, FrameTypes
  <2>2. place \in Seq(STRING)
    BY <2>1, Leads DEF NoneLost, Paths
  <2> QED BY <2>2
<1>3. 0 \in D
  BY <1>1, <1>2 DEF NoneLost
<1>4. ASSUME NEW k \in 1..Len(s), k - 1 \in D PROVE k \in D
  <2> SUFFICES ASSUME k + 1 <= Len(s) PROVE Len(F!NamedIn(t, s[k + 1].path)) = Len(place) + k
    OBVIOUS
  <2>1. k + 1 \in 1..Len(s) /\ k + 1 # 1 /\ (k + 1) - 1 = k /\ k < Len(s) /\ (k - 1) + 1 = k
    OBVIOUS
  <2>2. Len(F!NamedIn(t, s[k].path)) = Len(place) + (k - 1)
    BY <1>4, <2>1
  <2>3. s[k].path \in Paths /\ DirAt(t, F!NamedIn(t, s[k].path))
    BY <2>1, FrameTypes DEF NoneLost, Entered
  <2>4. F!FollowedIn(t, s[k].path) = F!NamedIn(t, s[k].path)
    BY <2>3, DirIs
  <2>5. /\ F!NamedIn(t, s[k + 1].path) = Append(F!FollowedIn(t, s[k].path), F!Last(s[k + 1].path))
        /\ F!FollowedIn(t, s[k].path) \in Seq(STRING) /\ F!Last(s[k + 1].path) \in STRING
    BY <2>1, NextPlace DEF Paths
  <2>6. Len(F!NamedIn(t, s[k + 1].path)) = Len(F!NamedIn(t, s[k].path)) + 1
    BY <2>4, <2>5, AppendIs
  <2> QED BY <1>2, <2>2, <2>6
<1>5. \A k \in 0..Len(s) : k \in D
  <2> HIDE DEF D
  <2> QED BY <1>1, <1>3, <1>4, UpTo
<1> SUFFICES ASSUME NEW i \in 1..Len(s) PROVE Len(F!NamedIn(t, s[i].path)) = Len(place) + i - 1
  OBVIOUS
<1>6. i - 1 \in 0..Len(s) /\ (i - 1) + 1 = i /\ i <= Len(s)
  OBVIOUS
<1>7. Len(F!NamedIn(t, s[i].path)) = Len(place) + (i - 1)
  BY <1>5, <1>6
<1> QED BY <1>2, <1>7
-----------------------------------------------------------------------------
\* An entry goes: what is above it stays as it is.
LEMMA EntryGoes ==
  ASSUME NEW s \in Seq(Frames), s # <<>>, Chained(s), Entered(s, 1),
         NEW t, Sound(t), NEW o, Shrunk(t, o), PlainFiles(t, s),
         NEW e \in DOMAIN t, MayGo(t, e)
  PROVE  /\ Shrunk(Less(t, e), o) /\ PlainFiles(Less(t, e), s)
         /\ \A place : Lost(t, s, place) /\ e # LinkTarget => Lost(Less(t, e), s, place)
         /\ \A place : NoneLost(t, s, o, place) /\ F!IsPrefix(place, e)
                       /\ (\A i \in 1..Len(s) : Entered(s, i) => e # F!NamedIn(t, s[i].path)) =>
              /\ NoneLost(Less(t, e), s, o, place)
              /\ \A i \in 1..Len(s) : F!NamedIn(Less(t, e), s[i].path) = F!NamedIn(t, s[i].path)
<1> DEFINE u == Less(t, e)
<1>1. /\ Sound(u) /\ \A x : DirAt(u, x) <=> DirAt(t, x) /\ x # e
      /\ \A x : LinkIn(u, x) <=> LinkIn(t, x) /\ x # e
      /\ DOMAIN u = DOMAIN t \ {e} /\ \A x \in DOMAIN u : u[x] = t[x]
  BY LessIs
<1>2. \A path \in Paths : F!IsDirIn(u, path) => F!IsDirIn(t, path)
  BY LeadsAsBefore
<1>3. \A path \in Paths : F!IsDirIn(t, F!Front(path)) => F!NamedIn(u, path) = F!NamedIn(t, path)
  BY NamesAsBefore
<1>4. DirAt(t, LinkTarget) => \A path \in Paths : F!NamedIn(u, path) = F!NamedIn(t, path)
  <2> SUFFICES ASSUME DirAt(t, LinkTarget) PROVE \A path \in Paths : F!NamedIn(u, path) = F!NamedIn(t, path)
    OBVIOUS
  <2>1. \A x : LinkIn(u, x) <=> LinkIn(t, x)
    BY <1>1 DEF MayGo
  <2> QED BY <2>1, SameLinks
<1> HIDE DEF u
<1>5. Shrunk(u, o)
  BY <1>1 DEF Shrunk
<1>6. PlainFiles(u, s)
  <2> SUFFICES ASSUME NEW i \in 1..Len(s), NEW k \in 1..Len(s[i].files)
               PROVE  ~F!IsDirIn(u, Append(s[i].path, s[i].files[k]))
    BY DEF PlainFiles
  <2>1. s[i].path \in Seq(STRING) /\ s[i].files \in Seq(STRING)
    BY FrameTypes
  <2>2. s[i].files[k] \in STRING
    BY <2>1
  <2>3. Append(s[i].path, s[i].files[k]) \in Paths
    BY <2>1, <2>2, AppendIs
  <2> QED BY <1>2, <2>3 DEF PlainFiles
<1>7. ASSUME NEW place, Lost(t, s, place), e # LinkTarget PROVE Lost(u, s, place)
  <2>1. PICK i \in 1..Len(s) : /\ Entered(s, i) /\ LinkIn(t, F!NamedIn(t, s[i].path))
                               /\ F!IsPrefix(place, F!NamedIn(t, s[i].path))
    BY <1>7 DEF Lost
  <2>2. DirAt(t, LinkTarget) /\ DirAt(u, LinkTarget) /\ ~LinkIn(t, e)
    BY <1>1, <1>7 DEF Lost, MayGo
  <2>3. F!NamedIn(u, s[i].path) = F!NamedIn(t, s[i].path)
    BY <1>4, <2>2, FrameTypes
  <2>4. LinkIn(u, F!NamedIn(t, s[i].path))
    BY <1>1, <2>1, <2>2
  <2> QED BY <2>1, <2>2, <2>3, <2>4 DEF Lost
<1>8. ASSUME NEW place, NoneLost(t, s, o, place), F!IsPrefix(place, e),
             \A i \in 1..Len(s) : Entered(s, i) => e # F!NamedIn(t, s[i].path)
      PROVE  /\ NoneLost(u, s, o, place)
             /\ \A i \in 1..Len(s) : F!NamedIn(u, s[i].path) = F!NamedIn(t, s[i].path)
  <2>1. ASSUME NEW i \in 1..Len(s) PROVE F!NamedIn(u, s[i].path) = F!NamedIn(t, s[i].path)
    <3>1. s[i].path \in Paths
      BY FrameTypes
    <3>2. CASE i = 1
      <4>1. F!NamedIn(t, s[i].path) \in DOMAIN t
        BY <1>8, <3>2 DEF NoneLost, DirAt
      <4>2. F!IsDirIn(t, F!Front(s[i].path))
        BY <3>1, <4>1, NamedInDir
      <4> QED BY <1>3, <3>1, <4>2
    <3>3. CASE i # 1
      <4>1. i - 1 \in 1..Len(s) /\ F!Front(s[i].path) = s[i - 1].path
        BY <3>3, NextPlace
      <4>2. Entered(s, i - 1)
        BY <4>1 DEF Entered
      <4>3. s[i - 1].path \in Paths /\ DirAt(t, F!NamedIn(t, s[i - 1].path))
        BY <1>8, <4>1, <4>2, FrameTypes DEF NoneLost
      <4>4. F!IsDirIn(t, F!Front(s[i].path))
        BY <4>1, <4>3, DirIs
      <4> QED BY <1>3, <3>1, <4>4
    <3> QED BY <3>2, <3>3
  <2>2. s[1].path \in Paths /\ 1 \in 1..Len(s)
    <3>1. 1 \in 1..Len(s)
      OBVIOUS
    <3> QED BY <3>1, FrameTypes
  <2>3. \A i \in 1..Len(s) : Entered(s, i) => DirAt(u, F!NamedIn(t, s[i].path))
    BY <1>1, <1>8 DEF NoneLost
  <2>4. \A x \in DOMAIN o : F!IsPrefix(place, x) \/ x \in DOMAIN u
    BY <1>1, <1>8 DEF NoneLost
  <2>5. NoneLost(u, s, o, place)
    BY <1>8, <2>1, <2>2, <2>3, <2>4 DEF NoneLost
  <2> QED BY <2>1, <2>5
<1> QED BY <1>5, <1>6, <1>7, <1>8 DEF u
-----------------------------------------------------------------------------
LEMMA Numbering ==
  ASSUME NEW n \in Nat \ {0}
  PROVE  /\ n \in 1..n /\ 1 \in 1..n /\ ~(n < n)
         /\ \A i \in 1..n : /\ i # n => i \in 1..n - 1 /\ i < n /\ i + 1 \in 1..n
                            /\ i > 1 => i - 1 \in 1..n
         /\ \A i \in 1..n - 1 : i \in 1..n /\ i < n /\ i # n /\ i + 1 \in 1..n
         /\ n # 1 => n - 1 \in 1..n /\ (n - 1) + 1 = n /\ n - 1 < n /\ n - 1 # n
OBVIOUS

\* The frames s become z: the innermost of n is f now.
Turns(s, z, n, f) ==
  /\ s \in Seq(Frames) /\ z \in Seq(Frames) /\ n \in Nat \ {0} /\ Len(s) = n /\ Len(z) = n
  /\ (\A i \in 1..n - 1 : z[i] = s[i]) /\ z[n] = f
  /\ f.path = s[n].path /\ f.op = s[n].op

LEMMA TurnsIs ==
  ASSUME NEW s, NEW z, NEW n, NEW f, Turns(s, z, n, f)
  PROVE  /\ n \in Nat \ {0} /\ s \in Seq(Frames) /\ Len(s) = n /\ Len(z) = n /\ s # <<>> /\ z \in Seq(Frames) /\ z # <<>>
         /\ \A i \in 1..n : z[i].path = s[i].path /\ z[i].op = s[i].op /\ (i # n => z[i] = s[i])
         /\ \A i \in 1..n : Inner(z, i) = Inner(s, i)
         /\ (\A i \in 1..n : s[i] \in Frames) /\ z[n] = f
<1>1. /\ s \in Seq(Frames) /\ z \in Seq(Frames) /\ n \in Nat \ {0} /\ Len(s) = n /\ Len(z) = n
      /\ \A i \in 1..n - 1 : z[i] = s[i]
      /\ z[n] = f /\ f.path = s[n].path /\ f.op = s[n].op
  BY DEF Turns
<1>2. s # <<>> /\ z # <<>>
  BY <1>1
<1>3. \A i \in 1..n : z[i].path = s[i].path /\ z[i].op = s[i].op /\ (i # n => z[i] = s[i])
  BY <1>1, Numbering
<1>4. \A i \in 1..n : Inner(z, i) = Inner(s, i)
  BY <1>1, <1>3, Numbering DEF Inner
<1>5. \A i \in 1..n : s[i] \in Frames
  BY <1>1
<1> QED BY <1>1, <1>2, <1>3, <1>4, <1>5

\* Everything that is said of places stays; what is expected of the frames around
\* the innermost, too.
LEMMA TurningKeeps ==
  ASSUME NEW s, NEW z, NEW n, NEW f, Turns(s, z, n, f), NEW t, NEW o, NEW place
  PROVE  /\ Chained(s) => Chained(z)
         /\ F!NamedIn(o, z[1].path) = F!NamedIn(o, s[1].path)
         /\ (Entered(s, n) => Entered(z, n)) /\ Lost(t, s, place) => Lost(t, z, place)
         /\ (Entered(z, n) => Entered(s, n)) /\ NoneLost(t, s, o, place) => NoneLost(t, z, o, place)
         /\ \A i \in 1..n : i # n => (Entered(z, i) /\ Entered(s, i)) /\ (Expected(t, s, i) => Expected(t, z, i))
<1>1. /\ n \in Nat \ {0} /\ Len(s) = n /\ Len(z) = n
      /\ \A i \in 1..n : z[i].path = s[i].path /\ z[i].op = s[i].op /\ (i # n => z[i] = s[i])
      /\ \A i \in 1..n : Inner(z, i) = Inner(s, i)
  BY TurnsIs
<1>2. /\ n \in 1..n /\ 1 \in 1..n /\ ~(n < n)
      /\ \A i \in 1..n : /\ i # n => i < n /\ i + 1 \in 1..n
                         /\ i > 1 => i - 1 \in 1..n
  BY <1>1, Numbering
<1>3. Chained(s) => Chained(z)
  BY <1>1, <1>2 DEF Chained
<1>4. \A i \in 1..n : i # n => Entered(z, i) /\ Entered(s, i)
  BY <1>1, <1>2 DEF Entered
<1>5. (Entered(s, n) => Entered(z, n)) /\ Lost(t, s, place) => Lost(t, z, place)
  BY <1>1, <1>4 DEF Lost
<1>6. (Entered(z, n) => Entered(s, n)) /\ NoneLost(t, s, o, place) => NoneLost(t, z, o, place)
  BY <1>1, <1>2, <1>4 DEF NoneLost
<1>7. \A i \in 1..n : i # n => (Expected(t, s, i) => Expected(t, z, i))
  BY <1>1 DEF Expected
<1> QED BY <1>1, <1>2, <1>3, <1>4, <1>5, <1>6, <1>7

LEMMA EmptyLists == AllDiffer(<<>>) /\ \A name : ~Among(<<>>, name)
<1>1. Len(<<>>) = 0
  OBVIOUS
<1>2. \A k : k \notin 1..0
  OBVIOUS
<1> QED BY <1>1, <1>2 DEF AllDiffer, Among

\* Nothing is expected yet of a directory that was only entered.
LEMMA FreshExpected ==
  ASSUME NEW t, NEW here, NEW f, f.pc = "read dirs", f.dirs = <<>>, f.files = <<>>
  PROVE  ExpectedIn(t, f, here, {})
BY EmptyLists DEF ExpectedIn, NamesRead, DirsThere, FilesThere, DirsAreAll, AllAreDue, InnerThere

\* What is expected in one directory, when an entry goes in another.
LEMMA ExpectedElsewhere ==
  ASSUME NEW t, Sound(t), NEW f, f.pc = "remove", NEW here \in Seq(STRING), NEW inner, inner \subseteq STRING,
         NEW e \in DOMAIN t, MayGo(t, e), F!Front(e) # here, ExpectedIn(t, f, here, inner)
  PROVE  ExpectedIn(Less(t, e), f, here, inner)
<1> DEFINE u == Less(t, e)
<1>1. /\ \A x : DirAt(u, x) <=> DirAt(t, x) /\ x # e
      /\ DOMAIN u = DOMAIN t \ {e}
  BY LessIs
<1>2. \A name \in STRING : Append(here, name) # e
  BY AppendIs
<1> HIDE DEF u
<1>3. NamesRead(u, f, here) /\ DirsAreAll(u, f, here)
  BY DEF NamesRead, DirsAreAll
<1>4. DirsThere(u, f, here) /\ FilesThere(u, f, here)
  BY <1>1, <1>2 DEF ExpectedIn, DirsThere, FilesThere
<1>5. AllAreDue(u, f, here, inner)
  BY <1>1 DEF ExpectedIn, AllAreDue, ChildOf
<1>6. InnerThere(u, f, here, inner)
  BY <1>1, <1>2 DEF ExpectedIn, InnerThere
<1> QED BY <1>3, <1>4, <1>5, <1>6 DEF ExpectedIn, u
-----------------------------------------------------------------------------
LEMMA PlaceIn ==
  ASSUME NEW s \in Seq(Frames), s # <<>>, Chained(s), NEW n \in 1..Len(s), n # 1, NEW t, Sound(t), NEW o,
         NEW place \in Paths, NoneLost(t, s, o, place)
  PROVE  LET here == F!NamedIn(t, s[n - 1].path)
             there == F!NamedIn(t, s[n].path)
         IN  /\ n - 1 \in 1..Len(s) /\ DirAt(t, here) /\ here \in Paths
             /\ there = Append(here, F!Last(s[n].path)) /\ F!Last(s[n].path) \in STRING
             /\ there \in Paths /\ F!Front(there) = here /\ F!Last(there) = F!Last(s[n].path)
             /\ F!IsPrefix(place, there) /\ F!IsPrefix(place, here)
             /\ F!FollowedIn(t, s[n - 1].path) = here
<1> DEFINE here == F!NamedIn(t, s[n - 1].path)
           there == F!NamedIn(t, s[n].path)
<1>1. n - 1 \in 1..Len(s) /\ n - 1 < Len(s)
  OBVIOUS
<1>2. DirAt(t, here) /\ F!IsPrefix(place, here)
  BY <1>1 DEF NoneLost, Entered
<1>3. s[n - 1].path \in Paths
  BY <1>1, FrameTypes
<1>4. F!FollowedIn(t, s[n - 1].path) = here /\ here \in Paths
  BY <1>2, <1>3, DirIs, Leads
<1> HIDE DEF here, there
<1>5. there = Append(here, F!Last(s[n].path)) /\ F!Last(s[n].path) \in STRING
  <2>1. /\ F!NamedIn(t, s[n].path) = Append(F!FollowedIn(t, s[n - 1].path), F!Last(s[n].path))
        /\ F!Last(s[n].path) \in STRING
    BY NextPlace
  <2> QED BY <1>4, <2>1 DEF there
<1>6. here \in Seq(STRING)
  BY <1>4 DEF Paths
<1>7. there \in Paths /\ F!Front(there) = here /\ F!Last(there) = F!Last(s[n].path) /\ F!IsPrefix(here, there)
  BY <1>5, <1>6, AppendIs
<1>8. F!IsPrefix(place, there)
  BY <1>2, <1>4, <1>7, BeginsFurther
<1> QED BY <1>1, <1>2, <1>4, <1>5, <1>7, <1>8 DEF here, there

LEMMA OnlyOne == \A i \in 1..1 : i = 1
OBVIOUS

\* The directory is entered that is to be removed next.
LEMMA EntersFirst ==
  ASSUME NEW s, NEW z, NEW n, NEW f, Turns(s, z, n, f), NEW t, Sound(t), n = 1,
         s[n].pc = "start", F!IsDirIn(t, s[n].path), f.pc # "start", Expected(t, z, n)
  PROVE  Going(t, z, t, F!NamedIn(t, s[1].path))
<1> DEFINE place == F!NamedIn(t, s[1].path)
<1>1. s \in Seq(Frames) /\ Len(s) = 1 /\ Len(z) = 1 /\ z[1].path = s[1].path /\ z[1] = f
  <2>1. /\ s \in Seq(Frames) /\ n \in Nat \ {0} /\ Len(s) = n /\ Len(z) = n
        /\ (\A i \in 1..n - 1 : z[i] = s[i]) /\ z[n] = f /\ f.path = s[n].path
    BY DEF Turns
  <2> QED BY <2>1
<1>2. s[1].path \in Paths
  BY <1>1, Numbering, FrameTypes
<1>3. place \in Paths /\ F!IsPrefix(place, place)
  BY <1>2, Leads, BeginsItself
<1>4. \A i \in 1..Len(z) : i = 1
  BY <1>1, OnlyOne
<1>5. Entered(z, 1) /\ 1 \in 1..Len(z)
  BY <1>1 DEF Entered
<1>6. F!NamedIn(t, z[1].path) = place
  BY <1>1
<1>7. DirAt(t, place) \/ (LinkIn(t, place) /\ DirAt(t, LinkTarget))
  BY <1>2, DirIs
<1> HIDE DEF place
<1>8. place \in DOMAIN t
  BY <1>7 DEF DirAt, LinkIn
<1>9. LinkIn(t, place) /\ DirAt(t, LinkTarget) => Lost(t, z, place)
  BY <1>3, <1>5, <1>6 DEF Lost
<1>10. DirAt(t, place) => NoneLost(t, z, t, place)
  BY <1>3, <1>4, <1>6 DEF NoneLost
<1>11. Tidy(t, z)
  BY <1>4 DEF Tidy
<1>12. Going(t, z, t, place)
  BY <1>7, <1>8, <1>9, <1>10, <1>11 DEF Going
<1> QED BY <1>12 DEF place

LEMMA EntersNext ==
  ASSUME NEW s, NEW z, NEW n, NEW f, Turns(s, z, n, f), NEW t, NEW o, Sound(t), n # 1, Chained(s),
         F!IsDirIn(t, s[n].path), f.pc # "start", Expected(t, z, n),
         NEW place \in Paths, Going(t, s, o, place)
  PROVE  Going(t, z, o, place)
<1> DEFINE there == F!NamedIn(t, s[n].path)
<1>1. /\ n \in Nat \ {0} /\ s \in Seq(Frames) /\ Len(s) = n /\ Len(z) = n /\ s # <<>> /\ z[n] = f
      /\ \A i \in 1..n : z[i].path = s[i].path
  BY TurnsIs
<1>2. n \in 1..n /\ 1 \in 1..n
  BY <1>1, Numbering
<1>3. Entered(z, n)
  BY <1>1 DEF Entered
<1>4. \A i \in 1..n : i # n => Entered(z, i) /\ Entered(s, i) /\ (Expected(t, s, i) => Expected(t, z, i))
  BY TurningKeeps
<1>5. Lost(t, s, place) => Lost(t, z, place)
  BY <1>3, TurningKeeps
<1>6. s[n].path \in Paths
  BY <1>1, <1>2, FrameTypes
<1>7. DirAt(t, there) \/ (LinkIn(t, there) /\ DirAt(t, LinkTarget))
  BY <1>6, DirIs
<1>8. NoneLost(t, s, o, place) => F!IsPrefix(place, there)
  <2> SUFFICES ASSUME NoneLost(t, s, o, place) PROVE F!IsPrefix(place, there)
    OBVIOUS
  <2>1. n \in 1..Len(s)
    BY <1>1, <1>2
  <2> QED BY <1>1, <2>1, PlaceIn
<1> HIDE DEF there
<1>9. ASSUME NoneLost(t, s, o, place), DirAt(t, there) PROVE NoneLost(t, z, o, place)
  <2>1. \A i \in 1..n : DirAt(t, F!NamedIn(t, z[i].path)) /\ F!IsPrefix(place, F!NamedIn(t, z[i].path))
    BY <1>1, <1>4, <1>8, <1>9 DEF NoneLost, there
  <2>2. F!NamedIn(t, z[1].path) = place
    BY <1>1, <1>2, <1>9 DEF NoneLost
  <2> QED BY <1>1, <1>9, <2>1, <2>2 DEF NoneLost
<1>10. ASSUME NoneLost(t, s, o, place), LinkIn(t, there), DirAt(t, LinkTarget) PROVE Lost(t, z, place)
  <2>1. LinkIn(t, F!NamedIn(t, z[n].path)) /\ F!IsPrefix(place, F!NamedIn(t, z[n].path))
    BY <1>1, <1>2, <1>8, <1>10 DEF there
  <2>2. n \in 1..Len(z)
    BY <1>1, <1>2
  <2> QED BY <1>3, <1>10, <2>1, <2>2 DEF Lost
<1>11. Tidy(t, s) => Tidy(t, z)
  BY <1>1, <1>4 DEF Tidy
<1> QED BY <1>5, <1>7, <1>9, <1>10, <1>11 DEF Going

LEMMA Enters ==
  ASSUME NEW s, NEW z, NEW n, NEW f, Turns(s, z, n, f), NEW t, NEW o, Sound(t), Removal(t, s, o),
         s[n].pc = "start", F!IsDirIn(t, s[n].path), f.pc = "read dirs", f.files = s[n].files, f.dirs = s[n].dirs
  PROVE  Removal(t, z, o)
<1> DEFINE place == F!NamedIn(o, s[1].path)
<1>1. /\ n \in Nat \ {0} /\ s \in Seq(Frames) /\ Len(s) = n /\ Len(z) = n /\ z[n] = f
      /\ \A i \in 1..n : z[i].path = s[i].path /\ (i # n => z[i] = s[i])
  <2>1. /\ s \in Seq(Frames) /\ n \in Nat \ {0} /\ Len(s) = n /\ Len(z) = n
        /\ (\A i \in 1..n - 1 : z[i] = s[i]) /\ z[n] = f /\ f.path = s[n].path
    BY DEF Turns
  <2> QED BY <2>1, Numbering
<1>2. n \in 1..n /\ 1 \in 1..n /\ ~(n < n) /\ (n # 1 => 1 < n)
  BY <1>1, Numbering
<1>3. Chained(s) /\ Chained(z) /\ Shrunk(t, o) /\ F!NamedIn(o, z[1].path) = place
  BY TurningKeeps DEF Removal
<1>4. PlainFiles(t, z) /\ Fresh(z)
  <2>1. \A i \in 1..n : z[i].files = s[i].files
    BY <1>1
  <2>2. PlainFiles(t, z)
    BY <1>1, <2>1 DEF Removal, PlainFiles
  <2>3. Fresh(z)
    <3>1. Fresh(s)
      BY DEF Removal
    <3>2. \A i \in 1..n : z[i].pc = "start" => z[i] = s[i]
      BY <1>1
    <3> QED BY <1>1, <3>1, <3>2 DEF Fresh
  <2> QED BY <2>2, <2>3
<1>5. Expected(t, z, n)
  <2>1. Inner(z, n) = {}
    BY <1>1, <1>2 DEF Inner
  <2>2. f.files = <<>> /\ f.dirs = <<>>
    BY <1>1, <1>2 DEF Removal, Fresh, NoLists
  <2> QED BY <1>1, <2>1, <2>2, FreshExpected DEF Expected
<1>6. Entered(z, 1)
  BY <1>1, <1>2 DEF Entered
<1>7. CASE n = 1
  <2>1. ~Entered(s, 1)
    BY <1>1, <1>2, <1>7 DEF Entered
  <2>4. t = o
    BY <2>1 DEF Removal
  <2>2. Going(t, z, t, F!NamedIn(t, s[1].path))
    BY <1>5, <1>7, EntersFirst
  <2> QED BY <1>3, <1>4, <1>6, <2>2, <2>4 DEF Removal
<1>8. CASE n # 1
  <2>1. Entered(s, 1)
    BY <1>1, <1>2, <1>8 DEF Entered
  <2>2. Going(t, s, o, place)
    BY <2>1 DEF Removal
  <2>3. place \in Paths
    BY <1>1, <1>2, FrameTypes, Leads
  <2> HIDE DEF place
  <2>4. Going(t, z, o, place)
    BY <1>3, <1>5, <1>8, <2>2, <2>3, EntersNext
  <2> QED BY <1>3, <1>4, <1>6, <2>4 DEF Removal, place
<1> QED BY <1>7, <1>8

\* The innermost frame reads on.
LEMMA ReadsOn ==
  ASSUME NEW s, NEW z, NEW n, NEW f, Turns(s, z, n, f), NEW t, NEW o, Sound(t), Removal(t, s, o),
         Entered(s, n), f.pc # "start",
         \A k \in 1..Len(f.files) : ~F!IsDirIn(t, Append(f.path, f.files[k])),
         LET here == F!NamedIn(t, s[n].path)
             place == F!NamedIn(o, s[1].path)
         IN  NoneLost(t, s, o, place) /\ Plain(o, place) /\ DirAt(t, here) /\ F!IsPrefix(place, here)
             /\ ExpectedIn(t, s[n], here, {}) => ExpectedIn(t, f, here, {})
  PROVE  Removal(t, z, o)
<1> DEFINE place == F!NamedIn(o, s[1].path)
           here == F!NamedIn(t, s[n].path)
<1>1. /\ n \in Nat \ {0} /\ s \in Seq(Frames) /\ Len(s) = n /\ Len(z) = n /\ s # <<>>
      /\ \A i \in 1..n : z[i].path = s[i].path /\ z[i].op = s[i].op /\ (i # n => z[i] = s[i])
      /\ \A i \in 1..n : Inner(z, i) = Inner(s, i)
      /\ z[n] = f
  BY TurnsIs
<1>2. n \in 1..n /\ 1 \in 1..n /\ ~(n < n)
  BY <1>1, Numbering
<1>3. Chained(z) /\ Shrunk(t, o) /\ F!NamedIn(o, z[1].path) = place
  BY TurningKeeps DEF Removal
<1>4. PlainFiles(t, z) /\ Fresh(z)
  <2>1. PlainFiles(t, z)
    BY <1>1, <1>2 DEF Removal, PlainFiles
  <2>2. Fresh(z)
    BY <1>1 DEF Removal, Fresh
  <2> QED BY <2>1, <2>2
<1>5. Entered(z, n) /\ \A i \in 1..n : Entered(z, i) /\ Entered(s, i) /\ (i # n => (Expected(t, s, i) => Expected(t, z, i)))
  <2>1. \A i \in 1..n : i # n => Entered(z, i) /\ Entered(s, i) /\ (Expected(t, s, i) => Expected(t, z, i))
    BY ONLY Turns(s, z, n, f), TurningKeeps
  <2>2. z[n].pc # "start"
    BY <1>1
  <2>3. Entered(z, n)
    BY <2>2 DEF Entered
  <2> QED BY <2>1, <2>3
<1>6. place \in DOMAIN o /\ (Lost(t, s, place) \/ (NoneLost(t, s, o, place) /\ (Plain(o, place) => Tidy(t, s))))
  BY <1>2, <1>5 DEF Removal, Going
<1>7. (Lost(t, s, place) => Lost(t, z, place)) /\ (NoneLost(t, s, o, place) => NoneLost(t, z, o, place))
  BY <1>2, <1>5, TurningKeeps
<1>8. ASSUME NoneLost(t, s, o, place), Plain(o, place), Tidy(t, s) PROVE Tidy(t, z)
  <2>1. DirAt(t, here) /\ F!IsPrefix(place, here)
    BY <1>1, <1>2, <1>5, <1>8 DEF NoneLost
  <2>2. Inner(s, n) = {} /\ Inner(z, n) = {}
    BY <1>1, <1>2 DEF Inner
  <2>3. ExpectedIn(t, s[n], here, {})
    BY <1>1, <1>2, <1>5, <1>8, <2>2 DEF Tidy, Expected
  <2>4. ExpectedIn(t, f, here, {})
    BY <1>8, <2>1, <2>3
  <2>5. Expected(t, z, n)
    BY <1>1, <1>2, <2>2, <2>4 DEF Expected
  <2> QED BY <1>1, <1>5, <1>8, <2>5 DEF Tidy
<1> HIDE DEF place, here
<1>9. Going(t, z, o, place)
  BY <1>6, <1>7, <1>8 DEF Going
<1> QED BY <1>2, <1>3, <1>4, <1>5, <1>9 DEF Removal, place
-----------------------------------------------------------------------------
\* A directory in the directory that is removed, in a file system without links or
\* hidden names there, and the path that leads to it.
Open(t, path, here) ==
  /\ path \in Paths /\ here \in Paths /\ DirAt(t, here)
  /\ F!FollowedIn(t, path) = here /\ F!NamedIn(t, path) = here /\ F!IsDirIn(t, path)
  /\ \A name \in STRING : /\ Append(path, name) \in Paths /\ Append(here, name) \in Paths
                          /\ F!NamedIn(t, Append(path, name)) = Append(here, name)
                          /\ F!Front(Append(path, name)) = path
                          /\ F!Front(Append(here, name)) = here /\ F!Last(Append(here, name)) = name
  /\ \A e : ChildOf(t, here, e) => /\ F!Last(e) \in STRING /\ e = Append(here, F!Last(e)) /\ e \in Paths
                                   /\ F!Last(e) \notin Hidden /\ ~LinkIn(t, e)

LEMMA OpenIs ==
  ASSUME NEW t, Sound(t), NEW o, Shrunk(t, o), NEW place \in Paths, Plain(o, place), NEW path \in Paths,
         DirAt(t, F!NamedIn(t, path)), F!IsPrefix(place, F!NamedIn(t, path))
  PROVE  Open(t, path, F!NamedIn(t, path))
<1> DEFINE here == F!NamedIn(t, path)
<1>1. here \in Paths /\ F!FollowedIn(t, path) = here /\ F!IsDirIn(t, path)
  BY Leads, DirIs
<1>2. path \in Seq(STRING) /\ here \in Seq(STRING)
  BY <1>1 DEF Paths
<1>3. \A name \in STRING : /\ Append(path, name) \in Paths /\ F!Front(Append(path, name)) = path
                           /\ F!NamedIn(t, Append(path, name)) = Append(here, name)
  <2> SUFFICES ASSUME NEW name \in STRING
               PROVE  /\ Append(path, name) \in Paths /\ F!Front(Append(path, name)) = path
                      /\ F!NamedIn(t, Append(path, name)) = Append(here, name)
    OBVIOUS
  <2>1. F!NamedIn(t, Append(path, name)) = Append(F!FollowedIn(t, path), name)
    BY <1>2, NameIn
  <2>2. Append(path, name) \in Paths /\ F!Front(Append(path, name)) = path
    BY <1>2, AppendIs
  <2> QED BY <1>1, <2>1, <2>2
<1>4. \A name \in STRING : Append(here, name) \in Paths /\ F!Front(Append(here, name)) = here /\ F!Last(Append(here, name)) = name
  BY <1>2, AppendIs
<1> HIDE DEF here
<1>5. ASSUME NEW e, ChildOf(t, here, e)
      PROVE  F!Last(e) \in STRING /\ e = Append(here, F!Last(e)) /\ F!Last(e) \notin Hidden /\ ~LinkIn(t, e) /\ e \in Paths
  <2>1. e \in Paths /\ F!Front(e) = here /\ e \in DOMAIN t
    BY <1>5 DEF ChildOf, Sound
  <2>2. F!Last(e) \in STRING /\ e = Append(here, F!Last(e)) /\ F!IsPrefix(here, e)
    BY <2>1, FrontIs
  <2>3. F!IsPrefix(place, e)
    BY <1>1, <2>1, <2>2, BeginsFurther DEF here
  <2>4. e \in DOMAIN o /\ t[e] = o[e]
    BY <2>1 DEF Shrunk
  <2> QED BY <2>1, <2>2, <2>3, <2>4 DEF Plain, LinkIn
<1>6. DirAt(t, here)
  BY DEF here
<1>7. F!NamedIn(t, path) = here
  BY DEF here
<1>8. Open(t, path, here)
  BY <1>1, <1>3, <1>4, <1>5, <1>6, <1>7 DEF Open
<1> QED BY <1>8 DEF here

\* What is known of the innermost frame then.
LEMMA Foreseen ==
  ASSUME NEW s \in Seq(Frames), s # <<>>, NEW t, NEW o, Sound(t), Removal(t, s, o), NEW n, n = Len(s),
         Entered(s, n), Plain(o, F!NamedIn(o, s[1].path))
  PROVE  LET place == F!NamedIn(o, s[1].path)
             here == F!NamedIn(t, s[n].path)
         IN  /\ place \in Paths /\ NoneLost(t, s, o, place) /\ Tidy(t, s) /\ F!IsPrefix(place, here)
             /\ Open(t, s[n].path, here) /\ ExpectedIn(t, s[n], here, {})
<1> DEFINE place == F!NamedIn(o, s[1].path)
           here == F!NamedIn(t, s[n].path)
<1>1. n \in Nat \ {0} /\ n \in 1..Len(s) /\ 1 \in 1..Len(s) /\ (n # 1 => 1 < Len(s))
  OBVIOUS
<1>2. s[n].path \in Paths /\ s[1].path \in Paths
  BY <1>1, FrameTypes
<1>3. place \in Paths
  BY <1>2, Leads
<1>4. Entered(s, 1)
  BY <1>1 DEF Entered
<1>5. Shrunk(t, o) /\ Going(t, s, o, place)
  BY <1>4 DEF Removal
<1> HIDE DEF place
<1>6. Plain(o, place)
  BY DEF place
<1>7. NoneLost(t, s, o, place) /\ Tidy(t, s)
  BY <1>5, <1>6, LostIs DEF Going
<1>8. DirAt(t, here) /\ F!IsPrefix(place, here)
  BY <1>1, <1>7 DEF NoneLost
<1>9. Open(t, s[n].path, here)
  BY <1>2, <1>3, <1>5, <1>6, <1>8, OpenIs
<1>10. Expected(t, s, n)
  BY <1>1, <1>7 DEF Tidy
<1>11. Inner(s, n) = {}
  BY <1>1, Numbering DEF Inner
<1>12. ExpectedIn(t, s[n], here, {})
  BY <1>10, <1>11 DEF Expected
<1> QED BY <1>3, <1>7, <1>8, <1>9, <1>12 DEF place

\* The lists that _readDir makes have every name that was to be in them, and no name twice.
LEMMA ListIs ==
  ASSUME NEW S, IsFiniteSet(S)
  PROVE  F!SetToSeq(S) \in Seq(S) /\ AllDiffer(F!SetToSeq(S)) /\ \A name : Among(F!SetToSeq(S), name) <=> name \in S
<1> DEFINE n == Cardinality(S)
           s == F!SetToSeq(S)
<1>1. n \in Nat /\ \E f \in [1..n -> S] : F!IsInjective(f)
  <2>1. n \in Nat /\ Bijection(1..n, S) # {}
    BY FS_CardinalityType DEF ExistsBijection
  <2> HIDE DEF n, s
  <2> QED BY <2>1 DEF Bijection, Injection, F!IsInjective, IsInjective
<1>2. F!Cardinality(S) = n
  BY DEF F!Cardinality, Cardinality
<1>3. s = CHOOSE f \in [1..n -> S] : F!IsInjective(f)
  BY <1>2, Zenon DEF F!SetToSeq
<1> HIDE DEF n, s
<1>4. s \in [1..n -> S] /\ F!IsInjective(s)
  BY <1>1, <1>3, Zenon
<1>5. s \in Seq(S) /\ Len(s) = n /\ DOMAIN s = 1..n
  BY <1>1, <1>4
<1>6. \A i, j \in 1..n : i # j => s[i] # s[j]
  BY <1>4, <1>5 DEF F!IsInjective
<1>7. AllDiffer(s)
  BY <1>5, <1>6 DEF AllDiffer
<1>8. \A name : Among(s, name) => name \in S
  BY <1>4, <1>5 DEF Among
<1>9. \A name \in S : Among(s, name)
  <2>1. IsFiniteSet(1..n) /\ Cardinality(1..n) = n
    BY <1>1, FS_Interval
  <2>2. s \in Injection(1..n, S)
    BY <1>4, <1>6 DEF Injection, IsInjective
  <2>3. s \in Surjection(1..n, S)
    BY <2>1, <2>2, FS_Injection, Zenon DEF n
  <2>4. \A name \in S : \E i \in 1..n : s[i] = name
    BY <2>3 DEF Surjection
  <2> QED BY <1>5, <2>4 DEF Among
<1> QED BY <1>5, <1>7, <1>8, <1>9 DEF s
-----------------------------------------------------------------------------
\* A step that reads, and what is expected after it.
LEMMA ReadsOpen ==
  ASSUME NEW s, NEW z, NEW n, NEW f, Turns(s, z, n, f), NEW t, NEW o, Sound(t), Removal(t, s, o),
         Entered(s, n), f.pc # "start",
         \A k \in 1..Len(f.files) : ~F!IsDirIn(t, Append(f.path, f.files[k])),
         LET here == F!NamedIn(t, s[n].path)
         IN  Open(t, s[n].path, here) /\ ExpectedIn(t, s[n], here, {}) => ExpectedIn(t, f, here, {})
  PROVE  Removal(t, z, o)
<1> DEFINE place == F!NamedIn(o, s[1].path)
           here == F!NamedIn(t, s[n].path)
<1>1. n \in Nat \ {0} /\ s \in Seq(Frames) /\ Len(s) = n
  BY DEF Turns
<1>2. n \in 1..Len(s) /\ 1 \in 1..Len(s)
  BY <1>1, Numbering
<1>3. s[n].path \in Paths /\ s[1].path \in Paths
  BY <1>1, <1>2, FrameTypes
<1>4. place \in Paths
  BY <1>3, Leads
<1>5. Shrunk(t, o)
  BY DEF Removal
<1>6. Plain(o, place) /\ DirAt(t, here) /\ F!IsPrefix(place, here) => Open(t, s[n].path, here)
  <2> HIDE DEF place
  <2> QED BY <1>3, <1>4, <1>5, OpenIs
<1>7. NoneLost(t, s, o, place) /\ Plain(o, place) /\ DirAt(t, here) /\ F!IsPrefix(place, here)
      /\ ExpectedIn(t, s[n], here, {}) => ExpectedIn(t, f, here, {})
  <2> HIDE DEF place, here
  <2> QED BY <1>6 DEF here
<1> QED BY <1>7, ReadsOn

VisibleIn(t, path) == {e[Len(e)] : e \in {d \in DOMAIN t : F!Front(d) = F!FollowedIn(t, path)}} \ Hidden

LEMMA NamesAreRead ==
  ASSUME NEW t, NEW here, NEW g, NEW f, Open(t, g.path, here), ExpectedIn(t, g, here, {}),
         f.dirs = g.dirs, f.files = g.files, f.names = VisibleIn(t, g.path),
         f.pc = "stat dirs" \/ (f.pc = "stat files" /\ g.pc = "read files")
  PROVE  ExpectedIn(t, f, here, {})
<1>1. /\ \A e : ChildOf(t, here, e) => F!Last(e) \in f.names
      /\ \A name \in f.names : ChildOf(t, here, Append(here, name))
  <2>1. F!FollowedIn(t, g.path) = here
    BY DEF Open
  <2>2. \A e : F!Last(e) = e[Len(e)]
    BY DEF F!Last
  <2>3. \A e : ChildOf(t, here, e) => e \in DOMAIN t /\ F!Front(e) = here /\ F!Last(e) \notin Hidden
    BY DEF Open, ChildOf
  <2>4. \A e : ChildOf(t, here, e) => F!Last(e) \in f.names
    BY <2>1, <2>2, <2>3 DEF VisibleIn
  <2>5. ASSUME NEW name \in f.names PROVE ChildOf(t, here, Append(here, name))
    <3>1. PICK e \in DOMAIN t : F!Front(e) = here /\ name = F!Last(e)
      BY <2>1, <2>2, <2>5 DEF VisibleIn
    <3>2. ChildOf(t, here, e)
      BY <3>1 DEF ChildOf
    <3>3. e = Append(here, name)
      BY <3>1, <3>2 DEF Open
    <3> QED BY <3>2, <3>3
  <2> QED BY <2>4, <2>5
<1>2. NamesRead(t, f, here)
  BY <1>1 DEF NamesRead
<1>3. DirsThere(t, f, here) /\ FilesThere(t, f, here)
  BY DEF ExpectedIn, DirsThere, FilesThere
<1>4. DirsAreAll(t, f, here)
  BY DEF ExpectedIn, DirsAreAll
<1>5. AllAreDue(t, f, here, {}) /\ InnerThere(t, f, here, {})
  BY DEF AllAreDue, InnerThere
<1> QED BY <1>2, <1>3, <1>4, <1>5 DEF ExpectedIn

\* In such a directory a path leads to a directory if what it names is one.
LEMMA OpenDirs ==
  ASSUME NEW t, Sound(t), NEW path, NEW here, Open(t, path, here), NEW name \in STRING
  PROVE  /\ ChildOf(t, here, Append(here, name)) =>
              (F!IsDirIn(t, Append(path, name)) <=> DirAt(t, Append(here, name)))
         /\ Append(here, name) \in DOMAIN t => ChildOf(t, here, Append(here, name))
<1>1. /\ Append(path, name) \in Paths /\ F!NamedIn(t, Append(path, name)) = Append(here, name)
      /\ F!Front(Append(here, name)) = here
  BY DEF Open
<1>2. ChildOf(t, here, Append(here, name)) => ~LinkIn(t, Append(here, name))
  BY DEF Open
<1>3. ChildOf(t, here, Append(here, name)) => (F!IsDirIn(t, Append(path, name)) <=> DirAt(t, Append(here, name)))
  BY <1>1, <1>2, DirIs
<1> QED BY <1>1, <1>3 DEF ChildOf

LEMMA DirsAreListed ==
  ASSUME NEW t, Sound(t), NEW here, NEW g, NEW f, Open(t, g.path, here), ExpectedIn(t, g, here, {}), g.pc = "stat dirs",
         g.names \subseteq STRING, f.files = g.files, f.pc = "read files", AllDiffer(f.dirs),
         \A name : Among(f.dirs, name) <=> name \in g.names /\ F!IsDirIn(t, Append(g.path, name))
  PROVE  ExpectedIn(t, f, here, {})
<1>1. /\ \A e : ChildOf(t, here, e) => F!Last(e) \in g.names
      /\ \A name \in g.names : ChildOf(t, here, Append(here, name))
  BY DEF ExpectedIn, NamesRead
<1>2. \A name \in g.names : F!IsDirIn(t, Append(g.path, name)) <=> DirAt(t, Append(here, name))
  BY <1>1, OpenDirs
<1>3. \A name : Among(f.dirs, name) <=> name \in g.names /\ DirAt(t, Append(here, name))
  BY <1>2
<1>4. DirsThere(t, f, here)
  BY <1>3 DEF DirsThere
<1>5. \A e : ChildOf(t, here, e) => e = Append(here, F!Last(e))
  BY DEF Open
<1>6. DirsAreAll(t, f, here)
  <2> SUFFICES ASSUME NEW e, ChildOf(t, here, e), DirAt(t, e) PROVE Among(f.dirs, F!Last(e))
    BY DEF DirsAreAll
  <2> QED BY <1>1, <1>3, <1>5
<1>7. FilesThere(t, f, here)
  BY DEF ExpectedIn, FilesThere
<1>8. NamesRead(t, f, here) /\ AllAreDue(t, f, here, {}) /\ InnerThere(t, f, here, {})
  BY DEF NamesRead, AllAreDue, InnerThere
<1> QED BY <1>4, <1>6, <1>7, <1>8 DEF ExpectedIn

LEMMA FilesAreListed ==
  ASSUME NEW t, Sound(t), NEW here, NEW g, NEW f, Open(t, g.path, here), ExpectedIn(t, g, here, {}), g.pc = "stat files",
         g.names \subseteq STRING, f.dirs = g.dirs, f.pc = "remove", AllDiffer(f.files),
         \A name : Among(f.files, name) <=> name \in g.names /\ ~F!IsDirIn(t, Append(g.path, name))
  PROVE  ExpectedIn(t, f, here, {})
<1>1. /\ \A e : ChildOf(t, here, e) => F!Last(e) \in g.names
      /\ \A name \in g.names : ChildOf(t, here, Append(here, name))
  BY DEF ExpectedIn, NamesRead
<1>2. \A name \in g.names : F!IsDirIn(t, Append(g.path, name)) <=> DirAt(t, Append(here, name))
  BY <1>1, OpenDirs
<1>3. \A name : Among(f.files, name) <=> name \in g.names /\ ~DirAt(t, Append(here, name))
  BY <1>2
<1>4. FilesThere(t, f, here)
  BY <1>1, <1>3 DEF FilesThere, ChildOf
<1>5. \A e : ChildOf(t, here, e) => e = Append(here, F!Last(e))
  BY DEF Open
<1>6. AllAreDue(t, f, here, {})
  <2> SUFFICES ASSUME NEW e, ChildOf(t, here, e) PROVE Among(f.dirs, F!Last(e)) \/ Among(f.files, F!Last(e))
    BY DEF AllAreDue
  <2>1. DirAt(t, e) => Among(g.dirs, F!Last(e))
    BY DEF ExpectedIn, DirsAreAll
  <2> QED BY <1>1, <1>3, <1>5, <2>1
<1>7. DirsThere(t, f, here)
  BY DEF ExpectedIn, DirsThere
<1>8. NamesRead(t, f, here) /\ DirsAreAll(t, f, here) /\ InnerThere(t, f, here, {})
  BY DEF NamesRead, DirsAreAll, InnerThere
<1> QED BY <1>4, <1>6, <1>7, <1>8 DEF ExpectedIn
-----------------------------------------------------------------------------
\* A list without its first.
LEMMA TailIs ==
  ASSUME NEW list \in Seq(STRING), list # <<>>
  PROVE  /\ Tail(list) \in Seq(STRING) /\ Head(list) \in STRING /\ Among(list, Head(list))
         /\ \A name : Among(list, name) <=> name = Head(list) \/ Among(Tail(list), name)
         /\ AllDiffer(list) => AllDiffer(Tail(list)) /\ ~Among(Tail(list), Head(list))
         /\ \A k \in 1..Len(Tail(list)) : k + 1 \in 1..Len(list) /\ Tail(list)[k] = list[k + 1]
<1> DEFINE rest == Tail(list)
           m == Len(list)
<1>1. /\ rest \in Seq(STRING) /\ Head(list) = list[1] /\ list[1] \in STRING /\ m \in Nat \ {0} /\ Len(rest) = m - 1
      /\ \A k \in 1..m - 1 : rest[k] = list[k + 1]
  BY HeadTailProperties, LenProperties
<1>2. /\ 1 \in 1..m /\ \A k \in 1..m - 1 : k + 1 \in 1..m /\ k + 1 # 1
      /\ \A k \in 1..m : k = 1 \/ (k - 1 \in 1..m - 1 /\ (k - 1) + 1 = k)
      /\ \A k, l \in 1..m - 1 : k # l => k + 1 # l + 1
  BY <1>1
<1> HIDE DEF rest, m
<1>3. Among(list, Head(list))
  BY <1>1, <1>2 DEF Among, m
<1>4. \A name : Among(list, name) => name = Head(list) \/ Among(rest, name)
  <2> SUFFICES ASSUME NEW name, Among(list, name), name # Head(list) PROVE Among(rest, name)
    OBVIOUS
  <2>1. PICK k \in 1..m : list[k] = name
    BY DEF Among, m
  <2>2. k - 1 \in 1..m - 1 /\ (k - 1) + 1 = k
    BY <1>1, <1>2, <2>1
  <2>3. rest[k - 1] = name
    BY <1>1, <2>1, <2>2
  <2> QED BY <1>1, <2>2, <2>3 DEF Among
<1>5. \A name : Among(rest, name) => Among(list, name)
  BY <1>1, <1>2 DEF Among, m
<1>6. AllDiffer(list) => AllDiffer(rest) /\ ~Among(rest, Head(list))
  BY <1>1, <1>2 DEF AllDiffer, Among, m
<1>7. \A k \in 1..Len(rest) : k + 1 \in 1..m /\ rest[k] = list[k + 1]
  BY <1>1, <1>2
<1> QED BY <1>1, <1>3, <1>4, <1>5, <1>6, <1>7 DEF rest, m
-----------------------------------------------------------------------------
\* The first directory of the list is entered.
LEMMA HeadIsInner ==
  ASSUME NEW t, NEW here, NEW g, NEW f, ExpectedIn(t, g, here, {}), g.pc = "remove",
         g.dirs \in Seq(STRING), g.dirs # <<>>, f.pc = "remove", f.dirs = Tail(g.dirs), f.files = g.files
  PROVE  ExpectedIn(t, f, here, {Head(g.dirs)})
<1>1. /\ Head(g.dirs) \in STRING /\ Among(g.dirs, Head(g.dirs))
      /\ \A name : Among(g.dirs, name) <=> name = Head(g.dirs) \/ Among(f.dirs, name)
      /\ AllDiffer(g.dirs) => AllDiffer(f.dirs) /\ ~Among(f.dirs, Head(g.dirs))
  BY TailIs
<1>2. DirsThere(t, f, here)
  BY <1>1 DEF ExpectedIn, DirsThere
<1>3. InnerThere(t, f, here, {Head(g.dirs)})
  BY <1>1 DEF ExpectedIn, DirsThere, InnerThere
<1>4. AllAreDue(t, f, here, {Head(g.dirs)})
  <2>1. \A e : ChildOf(t, here, e) => Among(g.dirs, F!Last(e)) \/ Among(g.files, F!Last(e))
    BY DEF ExpectedIn, AllAreDue
  <2> QED BY <1>1, <2>1 DEF AllAreDue
<1>5. FilesThere(t, f, here)
  BY DEF ExpectedIn, FilesThere
<1>6. NamesRead(t, f, here) /\ DirsAreAll(t, f, here)
  BY DEF NamesRead, DirsAreAll
<1> QED BY <1>2, <1>3, <1>4, <1>5, <1>6 DEF ExpectedIn

\* The frames s become z: the innermost is f now, and g is further in.
Pushed(s, z, n, f, g) ==
  /\ s \in Seq(Frames) /\ z \in Seq(Frames) /\ n \in Nat \ {0} /\ Len(s) = n /\ Len(z) = n + 1
  /\ (\A i \in 1..n - 1 : z[i] = s[i]) /\ z[n] = f /\ z[n + 1] = g
  /\ f.path = s[n].path /\ f.op = s[n].op /\ f.files = s[n].files

LEMMA PushedIs ==
  ASSUME NEW s, NEW z, NEW n, NEW f, NEW g, Pushed(s, z, n, f, g)
  PROVE  /\ \A i \in 1..n : z[i].path = s[i].path /\ z[i].op = s[i].op /\ z[i].files = s[i].files /\ (i # n => z[i] = s[i])
         /\ \A i \in 1..n + 1 : i \in 1..n \/ i = n + 1
         /\ \A i \in 1..n : i \in 1..n + 1 /\ i < n + 1 /\ (i # n => i < n) /\ (i > 1 => i - 1 \in 1..n)
         /\ n \in 1..n /\ 1 \in 1..n /\ (n + 1) - 1 = n /\ ~(n + 1 < n + 1) /\ ~(n < n)
         /\ \A i \in 1..n : i # n => Inner(z, i) = Inner(s, i)
<1>1. /\ n \in Nat \ {0} /\ Len(s) = n /\ Len(z) = n + 1
      /\ \A i \in 1..n - 1 : z[i] = s[i]
      /\ z[n] = f /\ f.path = s[n].path /\ f.op = s[n].op /\ f.files = s[n].files
  BY DEF Pushed
<1>2. \A i \in 1..n : z[i].path = s[i].path /\ z[i].op = s[i].op /\ z[i].files = s[i].files /\ (i # n => z[i] = s[i])
  BY <1>1, Numbering
<1>3. /\ \A i \in 1..n + 1 : i \in 1..n \/ i = n + 1
      /\ \A i \in 1..n : i \in 1..n + 1 /\ i < n + 1 /\ (i # n => i < n) /\ (i > 1 => i - 1 \in 1..n)
      /\ n \in 1..n /\ 1 \in 1..n /\ (n + 1) - 1 = n /\ ~(n + 1 < n + 1) /\ ~(n < n)
      /\ \A i \in 1..n : i # n => i + 1 \in 1..n
  BY <1>1
<1>4. \A i \in 1..n : i # n => Inner(z, i) = Inner(s, i)
  BY <1>1, <1>2, <1>3 DEF Inner
<1> QED BY <1>2, <1>3, <1>4

LEMMA Descends ==
  ASSUME NEW s, NEW z, NEW n, NEW f, NEW g, Pushed(s, z, n, f, g), NEW t, NEW o, Sound(t), Removal(t, s, o),
         s[n].pc = "remove", f.pc = "remove", s[n].dirs # <<>>, f.dirs = Tail(s[n].dirs),
         g.op = "removeDir", g.pc = "start", NoLists(g), g.path = Append(s[n].path, Head(s[n].dirs))
  PROVE  Removal(t, z, o)
<1> DEFINE place == F!NamedIn(o, s[1].path)
           here == F!NamedIn(t, s[n].path)
<1>1. s \in Seq(Frames) /\ n \in Nat \ {0} /\ Len(s) = n /\ Len(z) = n + 1 /\ s # <<>> /\ z[n] = f /\ z[n + 1] = g
  BY DEF Pushed
<1>2. /\ \A i \in 1..n : z[i].path = s[i].path /\ z[i].op = s[i].op /\ z[i].files = s[i].files /\ (i # n => z[i] = s[i])
      /\ \A i \in 1..n + 1 : i \in 1..n \/ i = n + 1
      /\ \A i \in 1..n : i \in 1..n + 1 /\ i < n + 1 /\ (i # n => i < n) /\ (i > 1 => i - 1 \in 1..n)
      /\ n \in 1..n /\ 1 \in 1..n /\ (n + 1) - 1 = n /\ ~(n + 1 < n + 1) /\ ~(n < n)
  BY PushedIs
<1>3. s[n].path \in Seq(STRING) /\ s[n].dirs \in Seq(STRING)
  BY <1>1, <1>2, FrameTypes
<1>4. Head(s[n].dirs) \in STRING
  BY <1>3, TailIs
<1>5. F!Front(g.path) = s[n].path /\ F!Last(g.path) = Head(s[n].dirs)
  BY <1>3, <1>4, AppendIs
<1>6. Chained(s) /\ Fresh(s) /\ Shrunk(t, o) /\ PlainFiles(t, s)
  BY DEF Removal
<1>7. \A i \in 1..n : z[i].pc = "remove"
  BY <1>1, <1>2, <1>6 DEF Chained
<1>8. Chained(z)
  <2> SUFFICES ASSUME NEW i \in 1..n + 1
               PROVE  z[i].op = "removeDir" /\ (i < n + 1 => z[i].pc = "remove")
                      /\ (i > 1 => F!Front(z[i].path) = z[i - 1].path)
    BY <1>1 DEF Chained
  <2>1. CASE i \in 1..n
    BY <1>1, <1>2, <1>6, <1>7, <2>1 DEF Chained
  <2>2. CASE i = n + 1
    BY <1>1, <1>2, <1>5, <2>2
  <2> QED BY <1>2, <2>1, <2>2
<1>9. Fresh(z)
  BY <1>1, <1>2, <1>7 DEF Fresh
<1>10. PlainFiles(t, z)
  <2>1. \A k : k \notin 1..Len(g.files)
    BY DEF NoLists
  <2> QED BY <1>1, <1>2, <1>6, <2>1 DEF PlainFiles
<1>11. /\ \A i \in 1..n : Entered(s, i) /\ Entered(z, i)
       /\ ~Entered(z, n + 1)
  BY <1>1, <1>2 DEF Entered
<1>12. place \in DOMAIN o /\ (Lost(t, s, place) \/ (NoneLost(t, s, o, place) /\ (Plain(o, place) => Tidy(t, s))))
  BY <1>2, <1>11 DEF Removal, Going
<1> HIDE DEF place, here
<1>13. Lost(t, s, place) => Lost(t, z, place)
  BY <1>1, <1>2, <1>11 DEF Lost
<1>14. NoneLost(t, s, o, place) => NoneLost(t, z, o, place)
  <2> SUFFICES ASSUME NoneLost(t, s, o, place) PROVE NoneLost(t, z, o, place)
    OBVIOUS
  <2>1. \A i \in 1..n + 1 : Entered(z, i) => DirAt(t, F!NamedIn(t, z[i].path)) /\ F!IsPrefix(place, F!NamedIn(t, z[i].path))
    BY <1>1, <1>2, <1>11 DEF NoneLost
  <2>2. F!NamedIn(t, z[1].path) = place
    BY <1>2 DEF NoneLost
  <2> QED BY <1>1, <2>1, <2>2 DEF NoneLost
<1>15. ASSUME Plain(o, place), Tidy(t, s) PROVE Tidy(t, z)
  <2>1. ExpectedIn(t, s[n], here, {})
    <3>1. Plain(o, F!NamedIn(o, s[1].path)) /\ Entered(s, n)
      BY <1>2, <1>11, <1>15 DEF place
    <3> QED BY <1>1, <3>1, Foreseen DEF here
  <2>2. ExpectedIn(t, f, here, {Head(s[n].dirs)})
    BY <1>3, <2>1, HeadIsInner DEF Pushed
  <2>3. Inner(z, n) = {Head(s[n].dirs)}
    BY <1>1, <1>2, <1>5 DEF Inner
  <2>4. Expected(t, z, n)
    BY <1>1, <1>2, <2>2, <2>3 DEF Expected, here
  <2>5. \A i \in 1..n : i # n => Expected(t, z, i)
    <3>1. \A i \in 1..n : Expected(t, s, i)
      BY <1>1, <1>11, <1>15 DEF Tidy
    <3>2. \A i \in 1..n : i # n => Inner(z, i) = Inner(s, i)
      BY PushedIs
    <3>3. \A i \in 1..n : i # n => z[i] = s[i]
      BY <1>2
    <3> QED BY <3>1, <3>2, <3>3 DEF Expected
  <2> QED BY <1>1, <1>2, <1>11, <2>4, <2>5 DEF Tidy
<1>16. Going(t, z, o, place)
  BY <1>12, <1>13, <1>14, <1>15 DEF Going
<1>17. F!NamedIn(o, z[1].path) = place
  BY <1>2 DEF place
<1> QED BY <1>2, <1>6, <1>8, <1>9, <1>10, <1>11, <1>16, <1>17 DEF Removal
-----------------------------------------------------------------------------
\* The frames s become z: the innermost is done.
Popped(s, z, n) ==
  /\ s \in Seq(Frames) /\ z \in Seq(Frames) /\ n \in Nat \ {0, 1} /\ Len(s) = n /\ Len(z) = n - 1
  /\ \A i \in 1..n - 1 : z[i] = s[i]

LEMMA PoppedIs ==
  ASSUME NEW s, NEW z, NEW n, Popped(s, z, n)
  PROVE  /\ s \in Seq(Frames) /\ z \in Seq(Frames) /\ s # <<>> /\ z # <<>> /\ Len(s) = n /\ Len(z) = n - 1
         /\ \A i \in 1..n - 1 : i \in 1..n /\ i < n /\ (i # n - 1 => i < n - 1) /\ z[i] = s[i]
         /\ \A i \in 1..n : i \in 1..n - 1 \/ i = n
         /\ n \in 1..n /\ 1 \in 1..n - 1 /\ 1 \in 1..n /\ n - 1 \in 1..n - 1 /\ ~(n < n) /\ ~(n - 1 < n - 1) /\ n # 1 /\ n - 1 < n
         /\ (n - 1) + 1 = n
         /\ \A i \in 1..n - 1 : i # n - 1 => Inner(z, i) = Inner(s, i)
         /\ Inner(z, n - 1) = {} /\ Inner(s, n - 1) = {F!Last(s[n].path)}
<1>1. /\ s \in Seq(Frames) /\ z \in Seq(Frames) /\ n \in Nat \ {0, 1} /\ Len(s) = n /\ Len(z) = n - 1
      /\ \A i \in 1..n - 1 : z[i] = s[i]
  BY DEF Popped
<1>2. /\ \A i \in 1..n - 1 : i \in 1..n /\ i < n /\ (i # n - 1 => i < n - 1 /\ i + 1 \in 1..n - 1)
      /\ \A i \in 1..n : i \in 1..n - 1 \/ i = n
      /\ n \in 1..n /\ 1 \in 1..n - 1 /\ 1 \in 1..n /\ n - 1 \in 1..n - 1 /\ ~(n < n) /\ ~(n - 1 < n - 1) /\ n # 1 /\ n - 1 < n
      /\ (n - 1) + 1 = n
  BY <1>1
<1>3. s # <<>> /\ z # <<>>
  BY <1>1
<1>4. \A i \in 1..n - 1 : i # n - 1 => Inner(z, i) = Inner(s, i)
  BY <1>1, <1>2 DEF Inner
<1>5. Inner(z, n - 1) = {} /\ Inner(s, n - 1) = {F!Last(s[n].path)}
  BY <1>1, <1>2 DEF Inner
<1> QED BY <1>1, <1>2, <1>3, <1>4, <1>5

LEMMA PopKeeps ==
  ASSUME NEW s, NEW z, NEW n, Popped(s, z, n), NEW t, NEW o, Removal(t, s, o)
  PROVE  /\ Chained(z) /\ Fresh(z) /\ PlainFiles(t, z) /\ z[1].path = s[1].path
         /\ \A i \in 1..n - 1 : Entered(s, i) /\ Entered(z, i)
         /\ Going(t, s, o, F!NamedIn(o, s[1].path))
<1>1. /\ s \in Seq(Frames) /\ Len(s) = n /\ Len(z) = n - 1
      /\ \A i \in 1..n - 1 : i \in 1..n /\ i < n /\ (i # n - 1 => i < n - 1) /\ z[i] = s[i]
      /\ 1 \in 1..n - 1 /\ n - 1 \in 1..n - 1 /\ n - 1 < n
  BY PoppedIs
<1>2. Chained(s) /\ Fresh(s) /\ PlainFiles(t, s)
  BY DEF Removal
<1>3. \A i \in 1..n - 1 : i > 1 => i - 1 \in 1..n - 1
  BY DEF Popped
<1>4. Chained(z)
  BY <1>1, <1>2, <1>3 DEF Chained
<1>5. Fresh(z)
  BY <1>1, <1>2 DEF Fresh
<1>6. PlainFiles(t, z)
  BY <1>1, <1>2 DEF PlainFiles
<1>7. \A i \in 1..n - 1 : Entered(s, i) /\ Entered(z, i)
  BY <1>1, <1>2 DEF Entered, Chained
<1>8. Going(t, s, o, F!NamedIn(o, s[1].path))
  BY <1>1, <1>7 DEF Removal
<1> QED BY <1>1, <1>4, <1>5, <1>6, <1>7, <1>8

\* What was to be entered is no directory: then something was amiss before.
LEMMA Leaves ==
  ASSUME NEW s, NEW z, NEW n, Popped(s, z, n), NEW t, NEW o, Sound(t), Removal(t, s, o),
         s[n].pc = "start", ~F!IsDirIn(t, s[n].path)
  PROVE  Removal(t, z, o)
<1> DEFINE place == F!NamedIn(o, s[1].path)
<1>1. /\ s \in Seq(Frames) /\ s # <<>> /\ Len(s) = n /\ Len(z) = n - 1
      /\ \A i \in 1..n - 1 : i \in 1..n /\ i < n /\ (i # n - 1 => i < n - 1) /\ z[i] = s[i]
      /\ \A i \in 1..n : i \in 1..n - 1 \/ i = n
      /\ n \in 1..n /\ 1 \in 1..n - 1 /\ 1 \in 1..n /\ n - 1 \in 1..n - 1 /\ ~(n < n) /\ n # 1
      /\ Inner(s, n - 1) = {F!Last(s[n].path)}
  BY PoppedIs
<1>2. /\ Chained(z) /\ Fresh(z) /\ PlainFiles(t, z) /\ z[1].path = s[1].path
      /\ \A i \in 1..n - 1 : Entered(s, i) /\ Entered(z, i)
      /\ Going(t, s, o, place)
  BY PopKeeps
<1>3. Chained(s) /\ Shrunk(t, o)
  BY DEF Removal
<1>4. ~Entered(s, n)
  BY <1>1 DEF Entered
<1>5. s[n].path \in Paths /\ place \in Paths
  BY <1>1, FrameTypes, Leads
<1> HIDE DEF place
<1>6. Lost(t, s, place) => Lost(t, z, place)
  BY <1>1, <1>2, <1>4 DEF Lost
<1>7. NoneLost(t, s, o, place) => NoneLost(t, z, o, place)
  BY <1>1, <1>2, <1>4 DEF NoneLost
<1>8. ~(NoneLost(t, s, o, place) /\ Tidy(t, s))
  <2> SUFFICES ASSUME NoneLost(t, s, o, place), Tidy(t, s) PROVE FALSE
    OBVIOUS
  <2> DEFINE here == F!NamedIn(t, s[n - 1].path)
  <2>1. F!NamedIn(t, s[n].path) = Append(here, F!Last(s[n].path))
    <3>1. n \in 1..Len(s)
      BY <1>1
    <3> QED BY <1>1, <1>3, <1>5, <3>1, PlaceIn
  <2>2. Expected(t, s, n - 1)
    BY <1>1, <1>2 DEF Tidy
  <2>3. DirAt(t, Append(here, F!Last(s[n].path)))
    BY <1>1, <2>2 DEF Expected, ExpectedIn, InnerThere
  <2> QED BY <1>5, <2>1, <2>3, DirIs
<1>9. Going(t, z, o, place)
  BY <1>2, <1>6, <1>7, <1>8 DEF Going
<1>10. Entered(z, 1) /\ F!NamedIn(o, z[1].path) = place
  BY <1>1, <1>2 DEF place
<1> QED BY <1>2, <1>3, <1>9, <1>10 DEF Removal
-----------------------------------------------------------------------------
\* A file goes that is in the list of the innermost frame.
LEMMA FileIsGone ==
  ASSUME NEW t, Sound(t), NEW here, NEW g, NEW f, Open(t, g.path, here), ExpectedIn(t, g, here, {}), g.pc = "remove",
         g.files \in Seq(STRING), g.files # <<>>, f.pc = "remove", f.files = Tail(g.files), f.dirs = g.dirs,
         Append(here, Head(g.files)) \in DOMAIN t, MayGo(t, Append(here, Head(g.files)))
  PROVE  ExpectedIn(Less(t, Append(here, Head(g.files))), f, here, {})
<1> DEFINE name == Head(g.files)
           e == Append(here, name)
           u == Less(t, e)
<1>1. /\ name \in STRING /\ Among(g.files, name)
      /\ \A m : Among(g.files, m) <=> m = name \/ Among(f.files, m)
      /\ AllDiffer(g.files) => AllDiffer(f.files) /\ ~Among(f.files, name)
  BY TailIs
<1> HIDE DEF name
<1>2. e \in DOMAIN t /\ MayGo(t, e)
  BY DEF name
<1>3. DOMAIN u = DOMAIN t \ {e} /\ \A x : DirAt(u, x) <=> DirAt(t, x) /\ x # e
  BY <1>2, LessIs
<1>4. /\ \A m \in STRING : Append(here, m) = e => m = name
      /\ \A x : ChildOf(t, here, x) => x = Append(here, F!Last(x))
  BY <1>1 DEF Open
<1> HIDE DEF u
<1>5. FilesThere(t, g, here) /\ DirsThere(t, g, here) /\ AllAreDue(t, g, here, {})
  BY DEF ExpectedIn
<1>6. ~DirAt(t, e) /\ AllDiffer(f.files) /\ ~Among(f.files, name)
  BY <1>1, <1>5 DEF FilesThere
<1> HIDE DEF e
<1>7. FilesThere(u, f, here)
  BY <1>1, <1>3, <1>4, <1>5, <1>6 DEF FilesThere
<1>8. DirsThere(u, f, here)
  BY <1>3, <1>5, <1>6 DEF DirsThere
<1>9. AllAreDue(u, f, here, {})
  <2>1. \A x : ChildOf(t, here, x) => Among(g.dirs, F!Last(x)) \/ Among(g.files, F!Last(x))
    BY <1>5 DEF AllAreDue
  <2>2. \A x : ChildOf(u, here, x) => ChildOf(t, here, x) /\ x # e
    BY <1>3 DEF ChildOf
  <2>3. \A x : ChildOf(u, here, x) => F!Last(x) # name
    BY <1>4, <2>2 DEF e
  <2> QED BY <1>1, <2>1, <2>2, <2>3 DEF AllAreDue
<1>10. NamesRead(u, f, here) /\ DirsAreAll(u, f, here) /\ InnerThere(u, f, here, {})
  BY DEF NamesRead, DirsAreAll, InnerThere
<1> QED BY <1>7, <1>8, <1>9, <1>10 DEF ExpectedIn, u, e, name

LEMMA FileGoes ==
  ASSUME NEW s, NEW z, NEW n, NEW f, Turns(s, z, n, f), NEW t, NEW o, Sound(t), Removal(t, s, o),
         s[n].pc = "remove", f.pc = "remove", s[n].files # <<>>, f.files = Tail(s[n].files), f.dirs = s[n].dirs,
         NEW e \in DOMAIN t, e = F!NamedIn(t, Append(s[n].path, Head(s[n].files))),
         t[e] = "dir" => \A x \in DOMAIN t : F!Front(x) # e
  PROVE  Sound(Less(t, e)) /\ Removal(Less(t, e), z, o)
<1> DEFINE place == F!NamedIn(o, s[1].path)
           here == F!NamedIn(t, s[n].path)
           name == Head(s[n].files)
           path == Append(s[n].path, name)
           u == Less(t, e)
<1>1. s \in Seq(Frames) /\ n \in Nat \ {0} /\ Len(s) = n /\ Len(z) = n /\ s # <<>> /\ z[n] = f /\ f.path = s[n].path
  BY DEF Turns
<1>2. n \in 1..n /\ 1 \in 1..n
  BY <1>1, Numbering
<1>3. \A i \in 1..n : z[i].path = s[i].path /\ (i # n => z[i] = s[i])
  BY <1>1, Numbering DEF Turns
<1>4. s[n].path \in Seq(STRING) /\ s[n].files \in Seq(STRING) /\ s[1].path \in Paths
  BY <1>1, <1>2, FrameTypes
<1>5. name \in STRING /\ \A k \in 1..Len(f.files) : k + 1 \in 1..Len(s[n].files) /\ f.files[k] = s[n].files[k + 1]
  BY <1>4, TailIs
<1>6. path \in Paths /\ place \in Paths
  BY <1>4, <1>5, AppendIs, Leads
<1>7. Chained(s) /\ Fresh(s) /\ Shrunk(t, o) /\ PlainFiles(t, s)
  BY DEF Removal
<1>8. ~F!IsDirIn(t, path)
  <2>1. 1 \in 1..Len(s[n].files) /\ Head(s[n].files) = s[n].files[1]
    BY <1>4, HeadTailProperties
  <2> QED BY <1>1, <1>2, <1>7, <2>1 DEF PlainFiles
<1>9. ~DirAt(t, e) /\ ~(LinkIn(t, e) /\ DirAt(t, LinkTarget))
  BY <1>6, <1>8, DirIs
<1>10. MayGo(t, e)
  BY <1>9 DEF MayGo
<1>11. Entered(s, n) /\ Entered(s, 1) /\ Entered(z, n)
  BY <1>1, <1>2 DEF Entered
<1>12. Going(t, s, o, place)
  BY <1>11 DEF Removal
<1>13. Sound(u) /\ DOMAIN u = DOMAIN t \ {e}
  BY <1>10, LessIs
<1> HIDE DEF place, path, name, u
<1>14. /\ Shrunk(u, o) /\ PlainFiles(u, s)
       /\ Lost(t, s, place) /\ e # LinkTarget => Lost(u, s, place)
       /\ NoneLost(t, s, o, place) /\ F!IsPrefix(place, e)
                       /\ (\A i \in 1..Len(s) : Entered(s, i) => e # F!NamedIn(t, s[i].path)) =>
              /\ NoneLost(u, s, o, place)
              /\ \A i \in 1..Len(s) : F!NamedIn(u, s[i].path) = F!NamedIn(t, s[i].path)
  BY <1>1, <1>7, <1>10, <1>11, EntryGoes DEF u
<1>15. Chained(z)
  BY <1>7, TurningKeeps
<1>16. Fresh(z)
  <2>1. \A i \in 1..n : z[i].pc = "start" => z[i] = s[i]
    BY <1>1, <1>3
  <2> QED BY <1>1, <1>7, <2>1 DEF Fresh
<1>17. PlainFiles(u, z)
  <2> SUFFICES ASSUME NEW i \in 1..n, NEW k \in 1..Len(z[i].files) PROVE ~F!IsDirIn(u, Append(z[i].path, z[i].files[k]))
    BY <1>1 DEF PlainFiles
  <2>1. CASE i # n
    BY <1>1, <1>3, <1>14, <2>1 DEF PlainFiles
  <2>2. CASE i = n
    <3>1. k + 1 \in 1..Len(s[n].files) /\ z[i].files[k] = s[n].files[k + 1] /\ z[i].path = s[n].path
      BY <1>1, <1>5, <2>2
    <3> QED BY <1>1, <1>2, <1>14, <3>1 DEF PlainFiles
  <2> QED BY <2>1, <2>2
<1>18. Lost(t, s, place) => Lost(u, z, place)
  <2> SUFFICES ASSUME Lost(t, s, place) PROVE Lost(u, z, place)
    OBVIOUS
  <2>1. e # LinkTarget
    BY <1>9 DEF Lost
  <2> QED BY <1>11, <1>14, <2>1, TurningKeeps
<1>19. ASSUME NoneLost(t, s, o, place)
       PROVE  /\ NoneLost(u, s, o, place) /\ F!Front(e) = here /\ here \in Paths /\ DirAt(t, here)
              /\ \A i \in 1..Len(s) : F!NamedIn(u, s[i].path) = F!NamedIn(t, s[i].path)
  <2>1. DirAt(t, here) /\ F!IsPrefix(place, here) /\ \A i \in 1..Len(s) : Entered(s, i) => e # F!NamedIn(t, s[i].path)
    BY <1>1, <1>2, <1>9, <1>11, <1>19 DEF NoneLost
  <2>2. s[n].path \in Paths
    BY <1>1, <1>2, FrameTypes
  <2>3. F!FollowedIn(t, s[n].path) = here /\ here \in Paths
    BY <2>1, <2>2, DirIs, Leads
  <2>4. e = Append(here, name)
    BY <1>4, <1>5, <2>3, NameIn DEF path, name
  <2> HIDE DEF here
  <2>5. e \in Paths /\ F!Front(e) = here /\ F!IsPrefix(here, e)
    <3>1. here \in Seq(STRING)
      BY <2>3 DEF Paths
    <3>2. Append(here, name) \in Paths /\ F!Front(Append(here, name)) = here /\ F!IsPrefix(here, Append(here, name))
      BY <1>5, <3>1, AppendIs
    <3> QED BY <2>4, <3>2
  <2>6. F!IsPrefix(place, e)
    BY <1>6, <2>1, <2>3, <2>5, BeginsFurther
  <2>7. NoneLost(u, s, o, place) /\ \A i \in 1..Len(s) : F!NamedIn(u, s[i].path) = F!NamedIn(t, s[i].path)
    BY <1>14, <1>19, <2>1, <2>6
  <2> QED BY <2>1, <2>3, <2>5, <2>7
<1>20. NoneLost(t, s, o, place) => NoneLost(u, z, o, place)
  BY <1>11, <1>19, TurningKeeps
<1>25. ASSUME NoneLost(t, s, o, place)
       PROVE  \A j \in 1..Len(s) : Len(F!NamedIn(t, s[j].path)) = Len(place) + j - 1
  <2>1. s \in Seq(Frames) /\ s # <<>> /\ Chained(s) /\ NoneLost(t, s, o, place)
    BY <1>1, <1>7, <1>25
  <2> HIDE DEF here
  <2> QED BY ONLY Sound(t), <2>1, PlacesDiffer
<1>21. ASSUME NoneLost(t, s, o, place), Plain(o, place), Tidy(t, s) PROVE Tidy(u, z)
  <2>1. Open(t, s[n].path, here) /\ ExpectedIn(t, s[n], here, {})
    <3>1. Plain(o, F!NamedIn(o, s[1].path))
      BY <1>21 DEF place
    <3> QED BY <1>1, <1>11, <3>1, Foreseen
  <2>2. e = Append(here, name)
    BY <1>5, <2>1 DEF Open, path, name
  <2>3. ExpectedIn(u, f, here, {})
    BY <1>4, <1>10, <2>1, <2>2, FileIsGone DEF u, name
  <2>4. Inner(z, n) = {} /\ z[n].path = s[n].path
    BY <1>1, <1>2, <1>3, Numbering DEF Inner
  <2>5. F!NamedIn(u, z[n].path) = here
    BY <1>1, <1>2, <1>19, <1>21, <2>4
  <2>6. Expected(u, z, n)
    BY <1>1, <2>3, <2>4, <2>5 DEF Expected
  <2>7. ASSUME NEW i \in 1..n, i # n PROVE Expected(u, z, i)
    <3> DEFINE there == F!NamedIn(t, s[i].path)
    <3>1. Expected(t, s, i) /\ s[i].pc = "remove"
      BY <1>1, <1>7, <1>21, <2>7 DEF Tidy, Chained, Entered
    <3>2. there # here
      <4>1. Len(there) = Len(place) + i - 1 /\ Len(here) = Len(place) + n - 1
        BY <1>1, <1>2, <1>21, <1>25
      <4>2. Len(place) \in Nat
        BY <1>6 DEF Paths
      <4> HIDE DEF there, here
      <4> QED BY <1>1, <2>7, <4>1, <4>2
    <3>3. there \in Seq(STRING) /\ Inner(s, i) \subseteq STRING
      <4>1. s[i].path \in Paths /\ i + 1 \in 1..Len(s)
        BY <1>1, <2>7, FrameTypes, Numbering
      <4>2. s[i + 1].path \in Paths
        BY <1>1, <4>1, FrameTypes
      <4> QED BY <4>1, <4>2, Leads, FrontIs DEF Inner, Paths
    <3>4. ExpectedIn(u, s[i], there, Inner(s, i))
      BY <1>10, <1>19, <1>21, <3>1, <3>2, <3>3, ExpectedElsewhere DEF u, Expected
    <3>5. Expected(u, s, i)
      BY <1>1, <1>19, <1>21, <3>4 DEF Expected
    <3> QED BY <2>7, <3>5, TurningKeeps
  <2> QED BY <1>1, <2>6, <2>7 DEF Tidy
<1>22. place \in DOMAIN o
  BY <1>12 DEF Going
<1>23. Going(u, z, o, place)
  BY <1>12, <1>18, <1>20, <1>21, <1>22 DEF Going
<1>24. F!NamedIn(o, z[1].path) = place /\ Entered(z, 1)
  <2>1. Entered(z, 1)
    BY <1>1, <1>2 DEF Entered
  <2> QED BY <1>2, <1>3, <2>1 DEF place
<1> QED BY <1>13, <1>14, <1>15, <1>16, <1>17, <1>23, <1>24 DEF Removal, u
-----------------------------------------------------------------------------
\* The directory goes that was entered last: nothing more is expected of it.
LEMMA InnerIsGone ==
  ASSUME NEW t, Sound(t), NEW here \in Seq(STRING), NEW name \in STRING, NEW g, g.pc = "remove",
         NEW e \in DOMAIN t, e = Append(here, name), DirAt(t, e), MayGo(t, e), ExpectedIn(t, g, here, {name})
  PROVE  ExpectedIn(Less(t, e), g, here, {})
<1> DEFINE u == Less(t, e)
<1>1. DOMAIN u = DOMAIN t \ {e} /\ \A x : DirAt(u, x) <=> DirAt(t, x) /\ x # e
  BY LessIs
<1> HIDE DEF u
<1>2. \A m \in STRING : Append(here, m) = e => m = name
  BY AppendIs
<1>3. ASSUME NEW x, ChildOf(t, here, x) PROVE F!Last(x) = name => x = e
  <2>1. x \in Paths /\ F!Front(x) = here
    BY <1>3 DEF ChildOf, Sound
  <2> QED BY <2>1, FrontIs
<1>4. /\ FilesThere(t, g, here) /\ DirsThere(t, g, here) /\ AllAreDue(t, g, here, {name})
      /\ ~Among(g.dirs, name)
  BY DEF ExpectedIn, InnerThere
<1> HIDE DEF Less
<1>5. FilesThere(u, g, here)
  <2>1. \A m \in STRING : Among(g.files, m) => Append(here, m) # e
    BY <1>4 DEF FilesThere
  <2> QED BY <1>1, <1>4, <2>1 DEF FilesThere
<1>6. DirsThere(u, g, here)
  BY <1>1, <1>2, <1>4 DEF DirsThere
<1>7. AllAreDue(u, g, here, {})
  <2>1. \A x : ChildOf(u, here, x) => ChildOf(t, here, x) /\ x # e
    BY <1>1 DEF ChildOf
  <2> QED BY <1>3, <1>4, <2>1 DEF AllAreDue
<1>8. NamesRead(u, g, here) /\ DirsAreAll(u, g, here) /\ InnerThere(u, g, here, {})
  BY DEF NamesRead, DirsAreAll, InnerThere
<1> QED BY <1>5, <1>6, <1>7, <1>8 DEF ExpectedIn, u

LEMMA DirGoes ==
  ASSUME NEW s, NEW z, NEW n, Popped(s, z, n), NEW t, NEW o, Sound(t), Removal(t, s, o),
         s[n].pc = "remove", NEW e, e = F!NamedIn(t, s[n].path), DirAt(t, e), \A x \in DOMAIN t : F!Front(x) # e
  PROVE  Sound(Less(t, e)) /\ Removal(Less(t, e), z, o)
<1> DEFINE place == F!NamedIn(o, s[1].path)
           u == Less(t, e)
           around == F!NamedIn(t, s[n - 1].path)
<1>1. /\ s \in Seq(Frames) /\ z \in Seq(Frames) /\ s # <<>> /\ z # <<>> /\ Len(s) = n /\ Len(z) = n - 1
      /\ \A i \in 1..n - 1 : i \in 1..n /\ i < n /\ (i # n - 1 => i < n - 1) /\ z[i] = s[i]
      /\ \A i \in 1..n : i \in 1..n - 1 \/ i = n
      /\ n \in 1..n /\ 1 \in 1..n - 1 /\ 1 \in 1..n /\ n - 1 \in 1..n - 1 /\ ~(n < n) /\ n # 1
      /\ \A i \in 1..n - 1 : i # n - 1 => Inner(z, i) = Inner(s, i)
      /\ Inner(z, n - 1) = {} /\ Inner(s, n - 1) = {F!Last(s[n].path)}
  BY PoppedIs
<1>2. /\ Chained(z) /\ Fresh(z) /\ PlainFiles(t, z) /\ z[1].path = s[1].path
      /\ \A i \in 1..n - 1 : Entered(s, i) /\ Entered(z, i)
      /\ Going(t, s, o, place)
  BY PopKeeps
<1>3. Chained(s) /\ Shrunk(t, o)
  BY DEF Removal
<1>4. Entered(s, n) /\ Entered(z, 1)
  BY <1>1, <1>2 DEF Entered
<1>5. s[n].path \in Paths /\ place \in Paths
  BY <1>1, FrameTypes, Leads
<1>6. e \in DOMAIN t /\ MayGo(t, e) /\ e \in Paths
  BY <1>5, Leads DEF DirAt, LinkIn, MayGo
<1>7. Sound(u)
  BY <1>6, LessIs
<1> HIDE DEF place, u
<1>8. /\ Shrunk(u, o) /\ PlainFiles(u, z)
      /\ Lost(t, z, place) /\ e # LinkTarget => Lost(u, z, place)
      /\ NoneLost(t, z, o, place) /\ F!IsPrefix(place, e)
                       /\ (\A i \in 1..Len(z) : Entered(z, i) => e # F!NamedIn(t, z[i].path)) =>
              /\ NoneLost(u, z, o, place)
              /\ \A i \in 1..Len(z) : F!NamedIn(u, z[i].path) = F!NamedIn(t, z[i].path)
  BY <1>1, <1>2, <1>3, <1>4, <1>6, EntryGoes DEF u
<1>9. Lost(t, s, place) => Lost(u, z, place)
  <2> SUFFICES ASSUME Lost(t, s, place) PROVE Lost(u, z, place)
    OBVIOUS
  <2>1. PICK i \in 1..n : Entered(s, i) /\ LinkIn(t, F!NamedIn(t, s[i].path)) /\ F!IsPrefix(place, F!NamedIn(t, s[i].path))
    BY <1>1 DEF Lost
  <2>2. i # n
    BY <2>1 DEF DirAt, LinkIn
  <2>3. i \in 1..n - 1 /\ i < n
    BY <1>1, <2>2
  <2>4. Lost(t, z, place)
    BY <1>1, <1>2, <2>1, <2>3 DEF Lost
  <2>5. e # LinkTarget
    <3> DEFINE up == F!FollowedIn(t, F!Front(s[n].path))
    <3>1. F!IsPrefix(LinkTarget, up)
      BY <1>1, <1>3, <2>1, <2>3, BehindLink
    <3>2. up \in Seq(STRING) /\ Len(e) = Len(up) + 1
      BY <1>5, Leads
    <3>3. LinkTarget \in Seq(STRING)
      BY TreesAssumption DEF Paths
    <3> HIDE DEF up
    <3>4. Len(LinkTarget) <= Len(up)
      BY <3>1, <3>2, <3>3, Starts
    <3>5. Len(up) \in Nat /\ Len(LinkTarget) \in Nat
      BY <3>2, <3>3
    <3> QED BY <3>2, <3>4, <3>5
  <2> QED BY <1>8, <2>4, <2>5
<1>10. ASSUME NoneLost(t, s, o, place)
       PROVE  /\ NoneLost(t, z, o, place) /\ NoneLost(u, z, o, place)
              /\ \A i \in 1..n - 1 : F!NamedIn(u, z[i].path) = F!NamedIn(t, s[i].path)
              /\ \A i \in 1..n : Len(F!NamedIn(t, s[i].path)) = Len(place) + i - 1
              /\ e = Append(around, F!Last(s[n].path)) /\ F!Last(s[n].path) \in STRING
              /\ around \in Paths /\ F!Front(e) = around
  <2>1. \A i \in 1..n : Len(F!NamedIn(t, s[i].path)) = Len(place) + i - 1
    <3>1. s \in Seq(Frames) /\ s # <<>> /\ Chained(s) /\ NoneLost(t, s, o, place) /\ Len(s) = n
      BY <1>1, <1>3, <1>10
    <3> QED BY ONLY Sound(t), <3>1, PlacesDiffer
  <2>2. NoneLost(t, z, o, place)
    BY <1>1, <1>2, <1>10 DEF NoneLost
  <2>3. F!IsPrefix(place, e)
    BY <1>1, <1>4, <1>10 DEF NoneLost
  <2>4. \A i \in 1..n - 1 : e # F!NamedIn(t, z[i].path)
    <3> SUFFICES ASSUME NEW i \in 1..n - 1 PROVE e # F!NamedIn(t, z[i].path)
      OBVIOUS
    <3>1. Len(e) = Len(place) + n - 1 /\ Len(F!NamedIn(t, z[i].path)) = Len(place) + i - 1
      BY <1>1, <2>1
    <3>2. Len(place) \in Nat /\ n \in Nat /\ i # n
      BY <1>1, <1>5 DEF Paths, Popped
    <3> QED BY <3>1, <3>2
  <2>5. NoneLost(u, z, o, place) /\ \A i \in 1..n - 1 : F!NamedIn(u, z[i].path) = F!NamedIn(t, z[i].path)
    BY <1>1, <1>8, <2>2, <2>3, <2>4
  <2>6. /\ e = Append(around, F!Last(s[n].path)) /\ F!Last(s[n].path) \in STRING
        /\ around \in Paths /\ F!Front(e) = around
    <3>1. n \in 1..Len(s)
      BY <1>1
    <3> QED BY <1>1, <1>3, <1>5, <1>10, <3>1, PlaceIn
  <2> QED BY <1>1, <2>1, <2>2, <2>5, <2>6
<1>11. ASSUME NoneLost(t, s, o, place), Tidy(t, s) PROVE Tidy(u, z)
  <2>1. \A i \in 1..n - 1 : Expected(t, s, i) /\ s[i].pc = "remove"
    BY <1>1, <1>2, <1>3, <1>11 DEF Tidy, Chained
  <2>2. Expected(u, z, n - 1)
    <3>1. ExpectedIn(t, s[n - 1], around, {F!Last(s[n].path)})
      BY <1>1, <2>1 DEF Expected
    <3>2. around \in Seq(STRING)
      BY <1>10, <1>11 DEF Paths
    <3>3. ExpectedIn(u, s[n - 1], around, {})
      BY <1>1, <1>6, <1>10, <1>11, <2>1, <3>1, <3>2, InnerIsGone DEF u
    <3>4. F!NamedIn(u, z[n - 1].path) = around
      BY <1>1, <1>10, <1>11
    <3> QED BY <1>1, <3>3, <3>4 DEF Expected
  <2>3. ASSUME NEW i \in 1..n - 1, i # n - 1 PROVE Expected(u, z, i)
    <3> DEFINE there == F!NamedIn(t, s[i].path)
    <3>1. there # around
      <4>1. Len(there) = Len(place) + i - 1 /\ Len(around) = Len(place) + (n - 1) - 1
        BY <1>1, <1>10, <1>11
      <4>2. Len(place) \in Nat /\ n \in Nat
        BY <1>5 DEF Paths, Popped
      <4> HIDE DEF there, around
      <4> QED BY <2>3, <4>1, <4>2
    <3>2. there \in Seq(STRING) /\ Inner(s, i) \subseteq STRING
      <4>1. s[i].path \in Paths /\ i + 1 \in 1..Len(s)
        BY <1>1, FrameTypes, Numbering
      <4>2. s[i + 1].path \in Paths
        BY <1>1, <4>1, FrameTypes
      <4> QED BY <4>1, <4>2, Leads, FrontIs DEF Inner, Paths
    <3>3. ExpectedIn(u, s[i], there, Inner(s, i))
      BY <1>6, <1>10, <1>11, <2>1, <3>1, <3>2, ExpectedElsewhere DEF u, Expected
    <3>4. F!NamedIn(u, z[i].path) = there /\ z[i] = s[i] /\ Inner(z, i) = Inner(s, i)
      BY <1>1, <1>10, <1>11, <2>3
    <3> QED BY <3>3, <3>4 DEF Expected
  <2> QED BY <1>1, <2>2, <2>3 DEF Tidy
<1>12. Going(u, z, o, place)
  BY <1>2, <1>9, <1>10, <1>11 DEF Going
<1>13. F!NamedIn(o, z[1].path) = place
  BY <1>2 DEF place
<1> QED BY <1>2, <1>4, <1>7, <1>8, <1>12, <1>13 DEF Removal, u
-----------------------------------------------------------------------------
\* How a removeDir ends: its directory was none, it is gone, or the call throws.
LEMMA NotThere ==
  ASSUME NEW s \in Seq(Frames), Len(s) = 1, NEW t, NEW o, Sound(t), Removal(t, s, o),
         s[1].pc = "start", ~F!IsDirIn(t, s[1].path)
  PROVE  Ending(t, o, s[1].path, "ok")
<1>1. ~Entered(s, 1)
  BY DEF Entered
<1>2. t = o
  BY <1>1 DEF Removal
<1>3. s[1].path \in Paths
  BY Numbering, FrameTypes
<1>4. ~DirAt(o, F!NamedIn(o, s[1].path))
  BY <1>2, <1>3, DirIs
<1>5. ~(F!NamedIn(o, s[1].path) \in F!Below(F!NamedIn(o, s[1].path), o) /\ o[F!NamedIn(o, s[1].path)] = "dir")
  BY <1>4 DEF F!Below, DirAt
<1> QED BY <1>2, <1>5 DEF Ending

LEMMA NothingLeft ==
  ASSUME NEW t, Sound(t), NEW place \in Paths, \A x \in DOMAIN t : F!Front(x) # place
  PROVE  \A x \in DOMAIN t : F!IsPrefix(place, x) => x = place
<1> DEFINE S == {x \in Seq(STRING) : x \in DOMAIN t /\ F!IsPrefix(place, x) => x = place}
<1>1. <<>> \in S
  BY DEF Sound, Paths
<1>2. ASSUME NEW x \in Paths, F!Front(x) \in S PROVE x \in S
  <2> SUFFICES ASSUME x \in DOMAIN t, F!IsPrefix(place, x), x # place PROVE FALSE
    BY DEF Paths
  <2>1. F!IsPrefix(place, F!Front(x)) /\ place \in Seq(STRING)
    BY BeginsFront DEF Paths
  <2>2. F!Front(x) # <<>>
    BY <2>1, NothingBegins
  <2>3. F!Front(x) \in DOMAIN t
    BY <2>2 DEF Sound, F!WellFormed
  <2> QED BY <1>2, <2>1, <2>3
<1>3. Seq(STRING) \subseteq S
  <2> HIDE DEF S
  <2> QED BY <1>1, <1>2, PathsAreBuilt
<1> QED BY <1>3 DEF Sound, Paths

LEMMA LastGoes ==
  ASSUME NEW s \in Seq(Frames), Len(s) = 1, NEW t, NEW o, Sound(t), Removal(t, s, o), s[1].pc = "remove",
         NEW e, e = F!NamedIn(t, s[1].path), DirAt(t, e), \A x \in DOMAIN t : F!Front(x) # e
  PROVE  Ending(Less(t, e), o, s[1].path, "ok")
<1> DEFINE place == F!NamedIn(o, s[1].path)
           u == Less(t, e)
           below == F!Below(place, o)
<1>1. 1 \in 1..Len(s) /\ \A i \in 1..Len(s) : i = 1
  BY OnlyOne
<1>2. s[1].path \in Paths /\ place \in Paths
  BY <1>1, FrameTypes, Leads
<1>3. Entered(s, 1)
  BY DEF Entered
<1>4. Shrunk(t, o) /\ (Lost(t, s, place) \/ NoneLost(t, s, o, place))
  BY <1>3 DEF Removal, Going
<1> HIDE DEF place
<1>5. ~Lost(t, s, place)
  BY <1>1 DEF Lost, LinkIn, DirAt
<1>6. e = place /\ \A x \in DOMAIN o : F!IsPrefix(place, x) \/ x \in DOMAIN t
  BY <1>4, <1>5 DEF NoneLost
<1>7. place \in DOMAIN o /\ o[place] = "dir" /\ F!IsPrefix(place, place)
  BY <1>2, <1>4, <1>6, BeginsItself DEF Shrunk, DirAt
<1>8. \A x \in DOMAIN t : F!IsPrefix(place, x) => x = place
  BY <1>2, <1>6, NothingLeft
<1>9. DOMAIN t \ {e} = DOMAIN o \ below
  BY <1>4, <1>6, <1>7, <1>8 DEF F!Below, Shrunk
<1>10. \A x \in DOMAIN o \ below : t[x] = o[x]
  BY <1>4, <1>9 DEF Shrunk
<1>11. u = [x \in DOMAIN o \ below |-> o[x]]
  BY <1>9, <1>10 DEF Less
<1>12. place \in below
  BY <1>7 DEF F!Below
<1> QED BY <1>7, <1>11, <1>12 DEF Ending, place

LEMMA ReadFails ==
  ASSUME NEW s \in Seq(Frames), s # <<>>, NEW t, NEW o, Sound(t), Removal(t, s, o), NEW n, n = Len(s),
         Entered(s, n), ~F!IsDirIn(t, s[n].path)
  PROVE  Ending(t, o, s[1].path, "throws")
<1>1. ~Plain(o, F!NamedIn(o, s[1].path))
  <2> SUFFICES ASSUME Plain(o, F!NamedIn(o, s[1].path)) PROVE FALSE
    OBVIOUS
  <2>1. Open(t, s[n].path, F!NamedIn(t, s[n].path))
    BY Foreseen
  <2> QED BY <2>1 DEF Open
<1> QED BY <1>1, PlainIs

LEMMA StatFails ==
  ASSUME NEW s \in Seq(Frames), s # <<>>, NEW t, NEW o, Sound(t), Removal(t, s, o), NEW n, n = Len(s),
         s[n].pc \in {"stat dirs", "stat files"}, NEW name \in s[n].names, name \in STRING,
         F!FollowedIn(t, Append(s[n].path, name)) \notin DOMAIN t
  PROVE  Ending(t, o, s[1].path, "throws")
<1>1. ~Plain(o, F!NamedIn(o, s[1].path))
  <2> SUFFICES ASSUME Plain(o, F!NamedIn(o, s[1].path)) PROVE FALSE
    OBVIOUS
  <2> DEFINE here == F!NamedIn(t, s[n].path)
             e == Append(here, name)
  <2>1. Entered(s, n)
    BY DEF Entered
  <2>2. Open(t, s[n].path, here) /\ ExpectedIn(t, s[n], here, {})
    BY <2>1, Foreseen
  <2> HIDE DEF here
  <2>3. ChildOf(t, here, e)
    BY <2>2 DEF ExpectedIn, NamesRead
  <2>4. Append(s[n].path, name) \in Paths /\ F!NamedIn(t, Append(s[n].path, name)) = e /\ ~LinkIn(t, e)
    BY <2>2, <2>3 DEF Open
  <2>5. F!FollowedIn(t, Append(s[n].path, name)) = e
    BY <2>4, FollowedStep
  <2> QED BY <2>3, <2>5 DEF ChildOf
<1> QED BY <1>1, PlainIs

\* What remove and rmdir ask of a path.
Removable(t, path) ==
  /\ F!IsDirIn(t, F!Front(path)) /\ F!NamedIn(t, path) \in DOMAIN t
  /\ t[F!NamedIn(t, path)] = "dir" => \A x \in DOMAIN t : F!Front(x) # F!NamedIn(t, path)

LEMMA RemoveFails ==
  ASSUME NEW s \in Seq(Frames), s # <<>>, NEW t, NEW o, Sound(t), Removal(t, s, o), NEW n, n = Len(s),
         s[n].pc = "remove", s[n].files # <<>>, ~Removable(t, Append(s[n].path, Head(s[n].files)))
  PROVE  Ending(t, o, s[1].path, "throws")
<1>1. ~Plain(o, F!NamedIn(o, s[1].path))
  <2> SUFFICES ASSUME Plain(o, F!NamedIn(o, s[1].path)) PROVE FALSE
    OBVIOUS
  <2> DEFINE here == F!NamedIn(t, s[n].path)
             name == Head(s[n].files)
             path == Append(s[n].path, name)
             e == Append(here, name)
  <2>1. Entered(s, n)
    BY DEF Entered
  <2>2. Open(t, s[n].path, here) /\ ExpectedIn(t, s[n], here, {})
    BY <2>1, Foreseen
  <2>3. n \in 1..Len(s)
    OBVIOUS
  <2>4. name \in STRING /\ Among(s[n].files, name)
    BY <2>3, FrameTypes, TailIs
  <2> HIDE DEF here, name
  <2>5. e \in DOMAIN t /\ ~DirAt(t, e)
    BY <2>2, <2>4 DEF ExpectedIn, FilesThere
  <2>6. F!Front(path) = s[n].path /\ F!NamedIn(t, path) = e /\ F!IsDirIn(t, s[n].path)
    BY <2>2, <2>4 DEF Open
  <2> QED BY <2>5, <2>6 DEF Removable, DirAt, name
<1> QED BY <1>1, PlainIs

LEMMA RmdirFails ==
  ASSUME NEW s \in Seq(Frames), s # <<>>, NEW t, NEW o, Sound(t), Removal(t, s, o), NEW n, n = Len(s),
         s[n].pc = "remove", s[n].dirs = <<>>, s[n].files = <<>>,
         ~(Removable(t, s[n].path) /\ t[F!NamedIn(t, s[n].path)] = "dir")
  PROVE  Ending(t, o, s[1].path, "throws")
<1>1. ~Plain(o, F!NamedIn(o, s[1].path))
  <2> SUFFICES ASSUME Plain(o, F!NamedIn(o, s[1].path)) PROVE FALSE
    OBVIOUS
  <2> DEFINE here == F!NamedIn(t, s[n].path)
  <2>1. Entered(s, n)
    BY DEF Entered
  <2>2. Open(t, s[n].path, here) /\ ExpectedIn(t, s[n], here, {})
    BY <2>1, Foreseen
  <2>3. F!IsDirIn(t, F!Front(s[n].path))
    <3>1. s[n].path \in Paths /\ here \in DOMAIN t
      BY <2>2 DEF Open, DirAt
    <3> QED BY <3>1, NamedInDir
  <2>4. DirAt(t, here)
    BY <2>2 DEF Open
  <2>5. \A x : ~ChildOf(t, here, x)
    BY <2>2, EmptyLists DEF ExpectedIn, AllAreDue
  <2> QED BY <2>3, <2>4, <2>5 DEF Removable, DirAt, ChildOf
<1> QED BY <1>1, PlainIs
-----------------------------------------------------------------------------
\* What a step does to the calls: that of its process goes on or is over, the others
\* stay as they are, and they are not alone if the file system changes.
CallsTyped ==
  /\ DOMAIN returned = Processes /\ alone \in [Processes -> BOOLEAN]
  /\ \A p \in Processes : stack[p] # <<>> => returned[p] = F!Nothing

GoesOn(p) == stack'[p] # <<>> /\ returned'[p] = returned[p]
IsOver(p, outcome) ==
  /\ stack'[p] = <<>>
  /\ returned'[p] = [op |-> stack[p][1].op, path |-> stack[p][1].path, outcome |-> outcome]

StackMoves(p) ==
  /\ \A q \in Processes : q # p => stack'[q] = stack[q] /\ returned'[q] = returned[q]
  /\ DOMAIN returned' = Processes
  /\ GoesOn(p) \/ \E outcome : IsOver(p, outcome)

TreeMoves(p) ==
  /\ \A q \in Processes : alone'[q] => alone[q] /\ (q # p => entries' = entries)
  /\ alone' \in [Processes -> BOOLEAN]

LEMMA EndsMoves ==
  ASSUME DirsInv, CallsTyped, NEW p \in Processes, NEW outcome, F!Ends(p, outcome)
  PROVE  StackMoves(p) /\ IsOver(p, outcome)
BY DEF F!Ends, StackMoves, IsOver, DirsInv, DirsTyped, CallsTyped

\* The frames around the innermost.
LEMMA FrontOf ==
  ASSUME DirsInv, NEW p \in Processes, stack[p] # <<>>
  PROVE  LET s == stack[p]
             n == Len(stack[p])
         IN  /\ s \in Seq(Frames) /\ n \in Nat \ {0} /\ F!Top(p) = s[n] /\ s[n] \in Frames
             /\ F!Front(s) \in Seq(Frames) /\ Len(F!Front(s)) = n - 1 /\ \A i \in 1..n - 1 : F!Front(s)[i] = s[i]
             /\ n # 1 => Popped(s, F!Front(s), n)
<1> DEFINE s == stack[p]
           n == Len(stack[p])
<1>1. s \in Seq(Frames) /\ s # <<>>
  BY DEF DirsInv, DirsTyped
<1>2. n \in Nat \ {0} /\ F!Last(s) = s[n] /\ s[n] \in Frames
  BY <1>1, Fronts
<1>3. F!Front(s) \in Seq(Frames) /\ Len(F!Front(s)) = n - 1 /\ \A i \in 1..n - 1 : F!Front(s)[i] = s[i]
  BY <1>1, Fronts
<1>4. n # 1 => Popped(s, F!Front(s), n)
  BY <1>1, <1>2, <1>3 DEF Popped
<1> QED BY <1>1, <1>2, <1>3, <1>4 DEF F!Top

\* The innermost frame is f now.
LEMMA SetTopTurns ==
  ASSUME DirsInv, CallsTyped, NEW p \in Processes, stack[p] # <<>>, NEW f, Continues(p, f), F!SetTop(p, f)
  PROVE  /\ Turns(stack[p], stack'[p], Len(stack[p]), f) /\ stack'[p] # <<>>
         /\ UNCHANGED returned => StackMoves(p) /\ GoesOn(p)
<1> DEFINE s == stack[p]
           z == stack'[p]
           n == Len(stack[p])
           front == F!Front(s)
<1>1. /\ s \in Seq(Frames) /\ n \in Nat \ {0} /\ F!Top(p) = s[n]
      /\ front \in Seq(Frames) /\ Len(front) = n - 1 /\ \A i \in 1..n - 1 : front[i] = s[i]
  BY FrontOf
<1>2. z = Append(front, f) /\ \A q \in Processes : q # p => stack'[q] = stack[q]
  BY DEF F!SetTop, DirsInv, DirsTyped
<1>3. f \in Frames /\ f.path = s[n].path /\ f.op = s[n].op
  BY <1>1 DEF Continues
<1> HIDE DEF front
<1>4. z \in Seq(Frames) /\ Len(z) = n /\ z[n] = f /\ \A i \in 1..n - 1 : z[i] = s[i]
  <2>1. z \in Seq(Frames) /\ Len(z) = n /\ z[(n - 1) + 1] = f
    BY <1>1, <1>2, <1>3, AppendProperties
  <2>2. \A i \in 1..n - 1 : z[i] = s[i]
    BY <1>1, <1>2, <1>3, AppendProperties
  <2>3. (n - 1) + 1 = n
    BY <1>1
  <2> QED BY <2>1, <2>2, <2>3
<1>5. Turns(s, z, n, f)
  BY <1>1, <1>3, <1>4 DEF Turns
<1>6. z # <<>>
  BY <1>1, <1>4
<1> QED BY <1>2, <1>5, <1>6 DEF StackMoves, GoesOn, CallsTyped

LEMMA GotoTurns ==
  ASSUME DirsInv, CallsTyped, NEW p \in Processes, stack[p] # <<>>, NEW pc \in Pcs, F!Goto(p, pc)
  PROVE  LET f == [F!Top(p) EXCEPT !.pc = pc]
         IN  /\ Turns(stack[p], stack'[p], Len(stack[p]), f) /\ stack'[p] # <<>>
             /\ f.pc = pc /\ f.dirs = F!Top(p).dirs /\ f.files = F!Top(p).files /\ f.path = F!Top(p).path /\ f.n = F!Top(p).n
             /\ UNCHANGED returned => StackMoves(p) /\ GoesOn(p)
<1> DEFINE f == [F!Top(p) EXCEPT !.pc = pc]
<1>1. Continues(p, f)
  BY TopIs DEF Continues, Frames
<1>2. F!SetTop(p, f)
  BY DEF F!Goto
<1>3. f.pc = pc /\ f.dirs = F!Top(p).dirs /\ f.files = F!Top(p).files /\ f.path = F!Top(p).path /\ f.n = F!Top(p).n
  BY TopIs DEF Frames
<1> HIDE DEF f
<1> QED BY <1>1, <1>2, <1>3, SetTopTurns DEF f

LEMMA ReturnsMoves ==
  ASSUME DirsInv, CallsTyped, NEW p \in Processes, stack[p] # <<>>, F!Returns(p)
  PROVE  /\ StackMoves(p)
         /\ Len(stack[p]) = 1 => IsOver(p, "ok")
         /\ Len(stack[p]) # 1 => GoesOn(p) /\ Popped(stack[p], stack'[p], Len(stack[p]))
<1>1. CASE Len(stack[p]) = 1
  <2>1. F!Ends(p, "ok")
    BY <1>1 DEF F!Returns
  <2> QED BY <1>1, <2>1, EndsMoves
<1>2. CASE Len(stack[p]) # 1
  <2>1. stack' = [stack EXCEPT ![p] = F!Front(stack[p])] /\ UNCHANGED returned
    BY <1>2 DEF F!Returns
  <2>2. Popped(stack[p], F!Front(stack[p]), Len(stack[p]))
    BY <1>2, FrontOf
  <2>3. F!Front(stack[p]) # <<>>
    BY <2>2, PoppedIs
  <2>4. stack'[p] = F!Front(stack[p]) /\ \A q \in Processes : q # p => stack'[q] = stack[q]
    BY <2>1 DEF DirsInv, DirsTyped
  <2> QED BY <1>2, <2>1, <2>2, <2>3, <2>4 DEF StackMoves, GoesOn, CallsTyped
<1> QED BY <1>1, <1>2

\* A frame is put on the stack; that below it becomes f.
LEMMA PushMoves ==
  ASSUME DirsInv, CallsTyped, NEW p \in Processes, stack[p] # <<>>, NEW f, NEW g \in Frames, Continues(p, f),
         f.files = F!Top(p).files, UNCHANGED returned,
         stack' = [stack EXCEPT ![p] = Append(Append(F!Front(stack[p]), f), g)]
  PROVE  StackMoves(p) /\ GoesOn(p) /\ Pushed(stack[p], stack'[p], Len(stack[p]), f, g)
<1> DEFINE s == stack[p]
           z == stack'[p]
           n == Len(stack[p])
           front == F!Front(s)
           mid == Append(front, f)
<1>1. /\ s \in Seq(Frames) /\ n \in Nat \ {0} /\ F!Top(p) = s[n]
      /\ front \in Seq(Frames) /\ Len(front) = n - 1 /\ \A i \in 1..n - 1 : front[i] = s[i]
  BY FrontOf
<1>2. z = Append(mid, g) /\ \A q \in Processes : q # p => stack'[q] = stack[q]
  BY DEF DirsInv, DirsTyped
<1>3. f \in Frames /\ f.path = s[n].path /\ f.op = s[n].op /\ f.files = s[n].files
  BY <1>1 DEF Continues
<1> HIDE DEF front
<1>4. mid \in Seq(Frames) /\ Len(mid) = n /\ mid[n] = f /\ \A i \in 1..n - 1 : mid[i] = s[i]
  <2>1. mid \in Seq(Frames) /\ Len(mid) = n /\ mid[(n - 1) + 1] = f
    BY <1>1, <1>3, AppendProperties
  <2>2. \A i \in 1..n - 1 : mid[i] = s[i]
    BY <1>1, <1>3, AppendProperties
  <2>3. (n - 1) + 1 = n
    BY <1>1
  <2> QED BY <2>1, <2>2, <2>3
<1> HIDE DEF mid
<1>5. z \in Seq(Frames) /\ Len(z) = n + 1 /\ z[n + 1] = g /\ \A i \in 1..n : z[i] = mid[i]
  <2>1. mid \in Seq(Frames) /\ g \in Frames
    BY <1>4
  <2>2. /\ Append(mid, g) \in Seq(Frames) /\ Len(Append(mid, g)) = Len(mid) + 1
        /\ Append(mid, g)[Len(mid) + 1] = g /\ \A i \in 1..Len(mid) : Append(mid, g)[i] = mid[i]
    BY ONLY <2>1, AppendProperties
  <2> QED BY <1>2, <1>4, <2>2
<1>6. \A i \in 1..n - 1 : z[i] = s[i]
  BY <1>1, <1>4, <1>5, Numbering
<1>7. z[n] = f
  BY <1>1, <1>4, <1>5, Numbering
<1>8. Pushed(s, z, n, f, g)
  BY <1>1, <1>3, <1>5, <1>6, <1>7 DEF Pushed
<1>9. z # <<>>
  BY <1>1, <1>5
<1> QED BY <1>2, <1>8, <1>9 DEF StackMoves, GoesOn, CallsTyped

LEMMA BecomesMoves ==
  ASSUME CallsTyped, NEW p \in Processes, (\E tree : F!Becomes(p, tree)) \/ UNCHANGED <<entries, alone>>
  PROVE  TreeMoves(p)
<1>1. CASE UNCHANGED <<entries, alone>>
  BY <1>1 DEF TreeMoves, CallsTyped
<1>2. ASSUME NEW tree, F!Becomes(p, tree) PROVE TreeMoves(p)
  BY <1>2 DEF F!Becomes, TreeMoves
<1> QED BY <1>1, <1>2
-----------------------------------------------------------------------------
\* What _readDir reads, and the lists it makes, are such as frames hold.
LEMMA VisibleIs ==
  ASSUME DirsInv, NEW path
  PROVE  F!Visible(path) \in SUBSET STRING /\ IsFiniteSet(F!Visible(path))
<1> DEFINE names == F!Visible(path)
           lastOf == [e \in DOMAIN entries |-> e[Len(e)]]
           all == {lastOf[e] : e \in DOMAIN entries}
<1>1. \A e \in DOMAIN entries : lastOf[e] = e[Len(e)] /\ e[Len(e)] \in STRING
  <2> SUFFICES ASSUME NEW e \in DOMAIN entries PROVE e[Len(e)] \in STRING
    OBVIOUS
  <2>1. e \in Seq(STRING) /\ e # <<>>
    BY DEF DirsInv, DirsTyped, Paths
  <2> QED BY <2>1, Fronts
<1>2. IsFiniteSet(all)
  <2>1. lastOf \in Surjection(DOMAIN entries, all)
    BY DEF Surjection
  <2> HIDE DEF all, lastOf
  <2> QED BY <2>1, FS_Surjection DEF DirsInv, DirsTyped
<1>3. names \subseteq all
  BY <1>1 DEF F!Visible, F!NamesIn
<1>4. all \subseteq STRING
  BY <1>1
<1> HIDE DEF all, names
<1>5. names \in SUBSET STRING /\ IsFiniteSet(names)
  BY <1>2, <1>3, <1>4, FS_Subset
<1> QED BY <1>5 DEF names

LEMMA ReadingContinues ==
  ASSUME DirsInv, NEW p \in Processes, stack[p] # <<>>, NEW pc \in {"stat dirs", "stat files"}
  PROVE  LET f == [F!Top(p) EXCEPT !.names = F!Visible(F!Top(p).path), !.pc = pc]
         IN  /\ Continues(p, f) /\ f.pc = pc /\ f.dirs = F!Top(p).dirs /\ f.files = F!Top(p).files
             /\ f.names = F!Visible(F!Top(p).path) /\ f.path = F!Top(p).path
<1> DEFINE top == F!Top(p)
           names == F!Visible(top.path)
           f == [top EXCEPT !.names = names, !.pc = pc]
<1>1. /\ top \in Frames
      /\ top = [op |-> top.op, path |-> top.path, pc |-> top.pc, dirs |-> top.dirs,
                files |-> top.files, names |-> top.names, n |-> top.n]
  BY TopIs
<1>2. names \in SUBSET STRING /\ IsFiniteSet(names)
  BY VisibleIs
<1>3. pc \in Pcs
  BY DEF Pcs
<1> HIDE DEF top, names
<1>4. /\ f \in Frames /\ f.op = top.op /\ f.pc = pc /\ f.dirs = top.dirs /\ f.files = top.files
      /\ f.names = names /\ f.path = top.path
  BY <1>1, <1>2, <1>3 DEF Frames
<1> QED BY <1>4 DEF Continues, top, names

\* What _readDir takes for directories, or for files.
Chosen(t, g, what) == {name \in g.names : F!IsDirIn(t, Append(g.path, name)) = (what = "dirs")}

\* A list of them, each once.
Lists(list, t, g, what) ==
  /\ list \in Seq(STRING) /\ AllDiffer(list)
  /\ \A name : Among(list, name) <=>
                 name \in g.names /\ F!IsDirIn(t, Append(g.path, name)) = (what = "dirs")

LEMMA ChosenIs ==
  ASSUME NEW t, NEW g, g.names \subseteq STRING, IsFiniteSet(g.names), NEW what
  PROVE  Lists(F!SetToSeq(Chosen(t, g, what)), t, g, what)
<1> DEFINE some == Chosen(t, g, what)
<1>1. some \subseteq g.names
  BY DEF Chosen
<1>2. IsFiniteSet(some) /\ some \subseteq STRING
  BY <1>1, FS_Subset
<1>3. \A name : name \in some <=> name \in g.names /\ F!IsDirIn(t, Append(g.path, name)) = (what = "dirs")
  BY DEF Chosen
<1> HIDE DEF some
<1>4. F!SetToSeq(some) \in Seq(some) /\ AllDiffer(F!SetToSeq(some)) /\ \A name : Among(F!SetToSeq(some), name) <=> name \in some
  BY <1>2, ListIs
<1>5. \A S, T : S \subseteq T => Seq(S) \subseteq Seq(T)
  OBVIOUS
<1>6. F!SetToSeq(some) \in Seq(STRING)
  BY <1>2, <1>4, <1>5
<1> QED BY <1>3, <1>4, <1>6 DEF some, Lists

LEMMA ListingContinues ==
  ASSUME DirsInv, NEW p \in Processes, stack[p] # <<>>, NEW list \in Seq(STRING)
  PROVE  LET g == F!Top(p)
             f == [g EXCEPT !.dirs = list, !.pc = "read files"]
             h == [g EXCEPT !.files = list, !.pc = "remove"]
         IN  /\ Continues(p, f) /\ f.pc = "read files" /\ f.dirs = list /\ f.files = g.files /\ f.path = g.path
             /\ Continues(p, h) /\ h.pc = "remove" /\ h.files = list /\ h.dirs = g.dirs /\ h.path = g.path
<1> DEFINE top == F!Top(p)
           f == [top EXCEPT !.dirs = list, !.pc = "read files"]
           h == [top EXCEPT !.files = list, !.pc = "remove"]
<1>1. /\ top \in Frames
      /\ top = [op |-> top.op, path |-> top.path, pc |-> top.pc, dirs |-> top.dirs,
                files |-> top.files, names |-> top.names, n |-> top.n]
  BY TopIs
<1>2. "read files" \in Pcs /\ "remove" \in Pcs
  BY DEF Pcs
<1> HIDE DEF top
<1>3. f \in Frames /\ f.op = top.op /\ f.pc = "read files" /\ f.dirs = list /\ f.files = top.files /\ f.path = top.path
  BY <1>1, <1>2 DEF Frames
<1>4. h \in Frames /\ h.op = top.op /\ h.pc = "remove" /\ h.files = list /\ h.dirs = top.dirs /\ h.path = top.path
  BY <1>1, <1>2 DEF Frames
<1> QED BY <1>3, <1>4 DEF Continues, top

\* How the steps of a removeDir lead it on, or to its end.
Goes(p, o) ==
  \/ GoesOn(p) /\ Removal(entries', stack'[p], o)
  \/ \E outcome : IsOver(p, outcome) /\ Ending(entries', o, stack[p][1].path, outcome)

LEMMA RemoveDirExistsGoes ==
  ASSUME DirsInv, CallsTyped, Sound(entries), NEW p \in Processes, F!RemoveDirExists(p), NEW o
  PROVE  StackMoves(p) /\ (Removal(entries, stack[p], o) => Goes(p, o))
<1> DEFINE s == stack[p]
           n == Len(stack[p])
           t == entries
<1>1. /\ stack[p] # <<>> /\ F!Top(p).pc = "start" /\ F!Top(p).op = "removeDir" /\ entries' = t
      /\ IF F!IsDirIn(t, F!Top(p).path) THEN F!Goto(p, "read dirs") /\ UNCHANGED returned ELSE F!Returns(p)
  BY DEF F!RemoveDirExists, F!At, F!IsDir
<1>2. s \in Seq(Frames) /\ s # <<>> /\ n \in Nat \ {0} /\ F!Top(p) = s[n]
  BY <1>1, FrontOf
<1> HIDE DEF s, n, t
<1>3. CASE F!IsDirIn(t, s[n].path)
  <2> DEFINE f == [F!Top(p) EXCEPT !.pc = "read dirs"]
  <2>1. F!Goto(p, "read dirs") /\ UNCHANGED returned /\ "read dirs" \in Pcs
    BY <1>1, <1>2, <1>3 DEF Pcs
  <2>2. /\ Turns(s, stack'[p], n, f) /\ f.pc = "read dirs" /\ f.dirs = s[n].dirs /\ f.files = s[n].files
        /\ StackMoves(p) /\ GoesOn(p)
    <3>1. Turns(stack[p], stack'[p], Len(stack[p]), f) /\ StackMoves(p) /\ GoesOn(p)
      BY <1>1, <2>1, GotoTurns
    <3>2. f.pc = "read dirs" /\ f.dirs = F!Top(p).dirs /\ f.files = F!Top(p).files
      BY <1>1, <2>1, GotoTurns
    <3> HIDE DEF f
    <3> QED BY <1>2, <3>1, <3>2 DEF s, n
  <2> HIDE DEF f
  <2>3. Removal(t, s, o) => Removal(t, stack'[p], o)
    BY <1>1, <1>2, <1>3, <2>2, Enters DEF t
  <2> QED BY <1>1, <2>2, <2>3 DEF Goes, s, t
<1>4. CASE ~F!IsDirIn(t, s[n].path)
  <2>1. /\ StackMoves(p)
        /\ n = 1 => IsOver(p, "ok")
        /\ n # 1 => GoesOn(p) /\ Popped(s, stack'[p], n)
    BY <1>1, <1>2, <1>4, ReturnsMoves DEF s, n
  <2>2. CASE n = 1
    <3>1. Len(s) = 1
      BY <2>2 DEF n, s
    <3>2. s[1].pc = "start" /\ ~F!IsDirIn(t, s[1].path) /\ Sound(t)
      BY <1>1, <1>2, <1>4, <2>2 DEF t
    <3>3. Removal(t, s, o) => Ending(t, o, s[1].path, "ok")
      BY ONLY <1>2, <3>1, <3>2, NotThere
    <3> QED BY <1>1, <2>1, <2>2, <3>3 DEF Goes, s, t
  <2>3. CASE n # 1
    <3>1. Removal(t, s, o) => Removal(t, stack'[p], o)
      BY <1>1, <1>2, <1>4, <2>1, <2>3, Leaves DEF t
    <3> QED BY <1>1, <2>1, <2>3, <3>1 DEF Goes, s, t
  <2> QED BY <2>2, <2>3
<1> QED BY <1>3, <1>4

LEMMA ReadNamesGoes ==
  ASSUME DirsInv, CallsTyped, Sound(entries), NEW p \in Processes, F!ReadNames(p), NEW o
  PROVE  StackMoves(p) /\ (Removal(entries, stack[p], o) => Goes(p, o))
<1> DEFINE s == stack[p]
           n == Len(stack[p])
           t == entries
<1>1. PICK what \in {"dirs", "files"} :
           /\ stack[p] # <<>> /\ F!Top(p).op = "removeDir" /\ F!Top(p).pc = F!ReadPc[what]
           /\ IF F!IsDir(F!Top(p).path)
                THEN /\ F!SetTop(p, [F!Top(p) EXCEPT !.names = F!Visible(F!Top(p).path), !.pc = F!StatPc[what]])
                     /\ UNCHANGED returned
                ELSE F!Ends(p, "throws")
  BY DEF F!ReadNames, F!At, F!Throws
<1>2. entries' = t
  BY DEF F!ReadNames
<1>3. s \in Seq(Frames) /\ s # <<>> /\ n \in Nat \ {0} /\ F!Top(p) = s[n] /\ s[n] \in Frames /\ n \in 1..Len(s) /\ n = Len(s)
  BY <1>1, FrontOf
<1>4. /\ s[n].pc = F!ReadPc[what] /\ (F!ReadPc[what] = "read dirs" \/ F!ReadPc[what] = "read files")
      /\ F!StatPc[what] \in {"stat dirs", "stat files"} /\ (F!StatPc[what] = "stat files" => s[n].pc = "read files")
  <2>1. /\ F!ReadPc["dirs"] = "read dirs" /\ F!ReadPc["files"] = "read files"
        /\ F!StatPc["dirs"] = "stat dirs" /\ F!StatPc["files"] = "stat files"
    BY DEF F!ReadPc, F!StatPc
  <2> QED BY <1>1, <1>3, <2>1
<1>5. Entered(s, n)
  BY <1>4 DEF Entered
<1> HIDE DEF s, n, t
<1>6. CASE F!IsDir(F!Top(p).path)
  <2> DEFINE f == [F!Top(p) EXCEPT !.names = F!Visible(F!Top(p).path), !.pc = F!StatPc[what]]
  <2>1. F!SetTop(p, f) /\ UNCHANGED returned
    BY <1>1, <1>6
  <2>2. /\ f.pc = F!StatPc[what] /\ f.dirs = s[n].dirs /\ f.files = s[n].files /\ f.names = VisibleIn(t, s[n].path)
        /\ f.path = s[n].path
    <3>1. /\ f.pc = F!StatPc[what] /\ f.dirs = s[n].dirs /\ f.files = s[n].files
          /\ f.names = F!Visible(s[n].path) /\ f.path = s[n].path
      BY <1>1, <1>3, <1>4, ReadingContinues
    <3>2. F!Visible(s[n].path) = VisibleIn(t, s[n].path)
      BY DEF F!Visible, F!NamesIn, F!Followed, VisibleIn, t
    <3> QED BY <3>1, <3>2
  <2> HIDE DEF f
  <2>3. Continues(p, f)
    BY <1>1, <1>4, ReadingContinues DEF f
  <2>4. Turns(s, stack'[p], n, f) /\ StackMoves(p) /\ GoesOn(p)
    BY <1>1, <2>1, <2>3, SetTopTurns DEF s, n
  <2>5. ASSUME Removal(t, s, o) PROVE Removal(t, stack'[p], o)
    <3>1. \A k \in 1..Len(f.files) : ~F!IsDirIn(t, Append(f.path, f.files[k]))
      BY <1>3, <2>2, <2>5 DEF Removal, PlainFiles
    <3>2. ASSUME Open(t, s[n].path, F!NamedIn(t, s[n].path)), ExpectedIn(t, s[n], F!NamedIn(t, s[n].path), {})
          PROVE  ExpectedIn(t, f, F!NamedIn(t, s[n].path), {})
      BY <1>4, <2>2, <3>2, NamesAreRead
    <3>3. f.pc # "start" /\ Sound(t)
      BY <1>4, <2>2 DEF t
    <3> QED BY <1>5, <2>4, <2>5, <3>1, <3>2, <3>3, ReadsOpen
  <2> QED BY <1>2, <2>4, <2>5 DEF Goes, s, t
<1>7. CASE ~F!IsDir(F!Top(p).path)
  <2>1. StackMoves(p) /\ IsOver(p, "throws")
    BY <1>1, <1>7, EndsMoves
  <2>2. ~F!IsDirIn(t, s[n].path) /\ Sound(t)
    BY <1>3, <1>7 DEF F!IsDir, t
  <2>3. Removal(t, s, o) => Ending(t, o, s[1].path, "throws")
    BY <1>3, <1>5, <2>2, ReadFails
  <2> QED BY <1>2, <2>1, <2>3 DEF Goes, s, t
<1> QED BY <1>6, <1>7
-----------------------------------------------------------------------------
LEMMA StatNamesGoes ==
  ASSUME DirsInv, CallsTyped, Sound(entries), NEW p \in Processes, F!StatNames(p), NEW o
  PROVE  StackMoves(p) /\ (Removal(entries, stack[p], o) => Goes(p, o))
<1> DEFINE s == stack[p]
           n == Len(stack[p])
           t == entries
           Gone == \E name \in F!Top(p).names : ~F!Exists(Append(F!Top(p).path, name))
           list(what) == F!SetToSeq(Chosen(t, F!Top(p), what))
           f == [F!Top(p) EXCEPT !.dirs = list("dirs"), !.pc = "read files"]
           h == [F!Top(p) EXCEPT !.files = list("files"), !.pc = "remove"]
<1>1. PICK what \in {"dirs", "files"} :
           /\ stack[p] # <<>> /\ F!Top(p).op = "removeDir" /\ F!Top(p).pc = F!StatPc[what]
           /\ IF Gone THEN F!Ends(p, "throws")
              ELSE (IF what = "dirs" THEN F!SetTop(p, f) ELSE F!SetTop(p, h)) /\ UNCHANGED returned
  BY DEF F!StatNames, F!At, F!Throws, Chosen, F!IsDir
<1>2. entries' = t
  BY DEF F!StatNames
<1>3. s \in Seq(Frames) /\ s # <<>> /\ n \in Nat \ {0} /\ F!Top(p) = s[n] /\ s[n] \in Frames /\ n \in 1..Len(s) /\ n = Len(s)
  BY <1>1, FrontOf
<1>4. F!StatPc["dirs"] = "stat dirs" /\ F!StatPc["files"] = "stat files"
  BY DEF F!StatPc
<1>5. s[n].pc \in {"stat dirs", "stat files"} /\ (what = "dirs" <=> s[n].pc = "stat dirs") /\ (what = "files" <=> s[n].pc = "stat files")
  BY <1>1, <1>3, <1>4
<1>6. Entered(s, n)
  BY <1>5 DEF Entered
<1>7. s[n].names \subseteq STRING /\ IsFiniteSet(s[n].names)
  BY <1>3 DEF Frames
<1>8. \A w : /\ list(w) \in Seq(STRING) /\ AllDiffer(list(w))
             /\ \A name : Among(list(w), name) <=> name \in s[n].names /\ F!IsDirIn(t, Append(s[n].path, name)) = (w = "dirs")
  <2> TAKE w
  <2>1. F!Top(p).names \subseteq STRING /\ IsFiniteSet(F!Top(p).names)
    BY <1>3, <1>7
  <2> DEFINE g == F!Top(p)
  <2>2. g = s[n]
    BY <1>3
  <2> HIDE DEF t, g, s, n
  <2>3. Lists(F!SetToSeq(Chosen(t, g, w)), t, g, w)
    BY ONLY <1>7, <2>2, ChosenIs
  <2>4. list(w) = F!SetToSeq(Chosen(t, g, w))
    BY DEF g
  <2> HIDE DEF list
  <2> QED BY ONLY <2>2, <2>3, <2>4 DEF Lists
<1>9. /\ Continues(p, f) /\ f.pc = "read files" /\ f.dirs = list("dirs") /\ f.files = s[n].files /\ f.path = s[n].path
      /\ Continues(p, h) /\ h.pc = "remove" /\ h.files = list("files") /\ h.dirs = s[n].dirs /\ h.path = s[n].path
  <2>1. list("dirs") \in Seq(STRING) /\ list("files") \in Seq(STRING)
    BY <1>8
  <2> HIDE DEF list
  <2>2. Continues(p, f) /\ f.pc = "read files" /\ f.dirs = list("dirs") /\ f.files = F!Top(p).files /\ f.path = F!Top(p).path
    BY <1>1, <2>1, ListingContinues
  <2>3. Continues(p, h) /\ h.pc = "remove" /\ h.files = list("files") /\ h.dirs = F!Top(p).dirs /\ h.path = F!Top(p).path
    BY <1>1, <2>1, ListingContinues
  <2> HIDE DEF f, h
  <2> QED BY <1>3, <2>2, <2>3
<1> HIDE DEF s, n, t, list, f, h
<1>10. CASE Gone
  <2>1. StackMoves(p) /\ IsOver(p, "throws")
    BY <1>1, <1>10, EndsMoves
  <2>2. PICK name \in s[n].names : ~F!Exists(Append(s[n].path, name))
    BY <1>3, <1>10
  <2>3. F!FollowedIn(t, Append(s[n].path, name)) \notin DOMAIN t /\ Sound(t) /\ name \in STRING
    BY <1>7, <2>2 DEF F!Exists, F!Followed, t
  <2> HIDE DEF Gone
  <2>4. Removal(t, s, o) => Ending(t, o, s[1].path, "throws")
    BY ONLY <1>3, <1>5, <2>2, <2>3, StatFails
  <2> QED BY <1>2, <2>1, <2>4 DEF Goes, s, t
<1>11. ASSUME ~Gone, what = "dirs" PROVE StackMoves(p) /\ (Removal(t, s, o) => Goes(p, o))
  <2>1. F!SetTop(p, f) /\ UNCHANGED returned
    BY <1>1, <1>11
  <2>2. Turns(s, stack'[p], n, f) /\ StackMoves(p) /\ GoesOn(p)
    BY <1>1, <1>9, <2>1, SetTopTurns DEF s, n
  <2>3. ASSUME Removal(t, s, o) PROVE Removal(t, stack'[p], o)
    <3>1. \A k \in 1..Len(f.files) : ~F!IsDirIn(t, Append(f.path, f.files[k]))
      BY <1>3, <1>9, <2>3 DEF Removal, PlainFiles
    <3>2. AllDiffer(f.dirs) /\ \A name : Among(f.dirs, name) <=> name \in s[n].names /\ F!IsDirIn(t, Append(s[n].path, name))
      BY <1>8, <1>9
    <3>3. s[n].pc = "stat dirs" /\ Sound(t) /\ f.pc # "start"
      BY <1>5, <1>9, <1>11 DEF t
    <3>4. ASSUME Open(t, s[n].path, F!NamedIn(t, s[n].path)), ExpectedIn(t, s[n], F!NamedIn(t, s[n].path), {})
          PROVE  ExpectedIn(t, f, F!NamedIn(t, s[n].path), {})
      BY ONLY <1>7, <1>9, <3>2, <3>3, <3>4, DirsAreListed
    <3> QED BY <1>6, <2>2, <2>3, <3>1, <3>3, <3>4, ReadsOpen
  <2> QED BY <1>2, <2>2, <2>3 DEF Goes, s, t
<1>12. ASSUME ~Gone, what = "files" PROVE StackMoves(p) /\ (Removal(t, s, o) => Goes(p, o))
  <2>1. F!SetTop(p, h) /\ UNCHANGED returned
    BY <1>1, <1>12
  <2>2. Turns(s, stack'[p], n, h) /\ StackMoves(p) /\ GoesOn(p)
    BY <1>1, <1>9, <2>1, SetTopTurns DEF s, n
  <2>3. ASSUME Removal(t, s, o) PROVE Removal(t, stack'[p], o)
    <3>1. AllDiffer(h.files) /\ \A name : Among(h.files, name) <=> name \in s[n].names /\ ~F!IsDirIn(t, Append(s[n].path, name))
      <4>1. \A name : F!IsDirIn(t, Append(s[n].path, name)) \in BOOLEAN
        BY DEF F!IsDirIn
      <4>2. ("files" = "dirs") = FALSE
        OBVIOUS
      <4> QED BY <1>8, <1>9, <4>1, <4>2
    <3>2. \A k \in 1..Len(h.files) : ~F!IsDirIn(t, Append(h.path, h.files[k]))
      BY <1>9, <3>1 DEF Among
    <3>3. s[n].pc = "stat files" /\ Sound(t) /\ h.pc # "start"
      BY <1>5, <1>9, <1>12 DEF t
    <3>4. ASSUME Open(t, s[n].path, F!NamedIn(t, s[n].path)), ExpectedIn(t, s[n], F!NamedIn(t, s[n].path), {})
          PROVE  ExpectedIn(t, h, F!NamedIn(t, s[n].path), {})
      BY ONLY <1>7, <1>9, <3>1, <3>3, <3>4, FilesAreListed
    <3> QED BY <1>6, <2>2, <2>3, <3>2, <3>3, <3>4, ReadsOpen
  <2> QED BY <1>2, <2>2, <2>3 DEF Goes, s, t
<1> QED BY <1>10, <1>11, <1>12 DEF s, t
-----------------------------------------------------------------------------
LEMMA WithoutIs == ASSUME NEW e PROVE F!Without(e) = Less(entries, e)
BY DEF F!Without, Less

LEMMA RemoveSubdirectoryGoes ==
  ASSUME DirsInv, CallsTyped, Sound(entries), NEW p \in Processes, F!RemoveSubdirectory(p), NEW o
  PROVE  StackMoves(p) /\ (Removal(entries, stack[p], o) => Goes(p, o))
<1> DEFINE s == stack[p]
           n == Len(stack[p])
           t == entries
           top == F!Top(p)
           f == [top EXCEPT !.dirs = Tail(top.dirs)]
           g == F!Frame("removeDir", Append(top.path, Head(top.dirs)))
<1>1. /\ stack[p] # <<>> /\ top.op = "removeDir" /\ top.pc = "remove" /\ top.dirs # <<>> /\ entries' = t
      /\ UNCHANGED returned /\ stack' = [stack EXCEPT ![p] = F!Front(stack[p]) \o <<f, g>>]
  BY DEF F!RemoveSubdirectory, F!At
<1>2. s \in Seq(Frames) /\ s # <<>> /\ n \in Nat \ {0} /\ top = s[n] /\ n = Len(s) /\ F!Front(s) \in Seq(Frames)
  BY <1>1, FrontOf
<1>3. /\ top \in Frames /\ top.path \in Paths
      /\ top = [op |-> top.op, path |-> top.path, pc |-> top.pc, dirs |-> top.dirs,
                files |-> top.files, names |-> top.names, n |-> top.n]
  BY <1>1, TopIs
<1> HIDE DEF top
<1>4. top.path \in Seq(STRING) /\ top.dirs \in Seq(STRING)
  BY <1>3 DEF Frames, Paths
<1>5. Tail(top.dirs) \in Seq(STRING) /\ Head(top.dirs) \in STRING
  BY <1>1, <1>4, HeadTailProperties
<1>6. f \in Frames /\ f.op = top.op /\ f.path = top.path /\ f.pc = top.pc /\ f.files = top.files /\ f.dirs = Tail(top.dirs)
  BY <1>3, <1>5 DEF Frames
<1>7. Append(top.path, Head(top.dirs)) \in Paths
  BY <1>4, <1>5, Appended
<1>8. g \in Frames /\ g.op = "removeDir" /\ g.path = Append(top.path, Head(top.dirs))
  BY <1>7, FrameIs DEF Ops
<1>9. g.pc = "start" /\ NoLists(g)
  BY DEF NoLists, F!Frame
<1> HIDE DEF f, g
<1>10. F!Front(s) \o <<f, g>> = Append(Append(F!Front(s), f), g)
  BY <1>2, <1>6, <1>8
<1>11. Continues(p, f)
  BY <1>6 DEF Continues, top
<1>12. StackMoves(p) /\ GoesOn(p) /\ Pushed(s, stack'[p], n, f, g)
  BY <1>1, <1>6, <1>8, <1>10, <1>11, PushMoves DEF top
<1>13. Sound(t)
  OBVIOUS
<1> HIDE DEF s, n, t
<1>14. Removal(t, s, o) => Removal(t, stack'[p], o)
  BY <1>1, <1>2, <1>6, <1>8, <1>9, <1>12, <1>13, Descends
<1> QED BY <1>1, <1>12, <1>14 DEF Goes, s, t

LEMMA RemoveFileInGoes ==
  ASSUME DirsInv, CallsTyped, Sound(entries), NEW p \in Processes, F!RemoveFileIn(p), NEW o
  PROVE  StackMoves(p) /\ (Removal(entries, stack[p], o) => Goes(p, o))
<1> DEFINE s == stack[p]
           n == Len(stack[p])
           t == entries
           top == F!Top(p)
           f == [top EXCEPT !.files = Tail(top.files)]
           path == Append(top.path, Head(top.files))
           e == F!NamedIn(t, path)
<1>1. /\ stack[p] # <<>> /\ top.op = "removeDir" /\ top.pc = "remove" /\ top.files # <<>>
      /\ IF F!CanRemove(path)
           THEN /\ F!Becomes(p, F!Without(F!Named(path))) /\ UNCHANGED returned
                /\ F!SetTop(p, f)
           ELSE F!Ends(p, "throws") /\ UNCHANGED <<entries, alone>>
  BY DEF F!RemoveFileIn, F!At, F!Throws
<1>2. s \in Seq(Frames) /\ s # <<>> /\ n \in Nat \ {0} /\ top = s[n] /\ n = Len(s)
  BY <1>1, FrontOf
<1>3. /\ top \in Frames /\ top.path \in Paths
      /\ top = [op |-> top.op, path |-> top.path, pc |-> top.pc, dirs |-> top.dirs,
                files |-> top.files, names |-> top.names, n |-> top.n]
  BY <1>1, TopIs
<1>4. F!CanRemove(path) <=> Removable(t, path)
  BY DEF F!CanRemove, Removable, F!IsDir, F!Named
<1>5. F!Named(path) = e
  BY DEF F!Named
<1>6. Sound(t)
  OBVIOUS
<1> HIDE DEF top, path, s, n, t, e
<1>7. CASE F!CanRemove(path)
  <2>1. Tail(top.files) \in Seq(STRING)
    BY <1>1, <1>3, HeadTailProperties DEF Frames
  <2>2. f \in Frames /\ f.op = top.op /\ f.path = top.path /\ f.pc = top.pc /\ f.dirs = top.dirs /\ f.files = Tail(top.files)
    BY <1>3, <2>1 DEF Frames
  <2>3. F!SetTop(p, f) /\ UNCHANGED returned /\ entries' = F!Without(e)
    BY <1>1, <1>5, <1>7 DEF F!Becomes
  <2> HIDE DEF f
  <2>4. Continues(p, f)
    BY <2>2 DEF Continues, top
  <2>5. Turns(s, stack'[p], n, f) /\ StackMoves(p) /\ GoesOn(p)
    BY <1>1, <2>3, <2>4, SetTopTurns DEF s, n
  <2>6. entries' = Less(t, e)
    BY <2>3, WithoutIs DEF t
  <2>7. e \in DOMAIN t /\ (t[e] = "dir" => \A x \in DOMAIN t : F!Front(x) # e)
    BY <1>4, <1>7 DEF Removable, e
  <2>8. e = F!NamedIn(t, Append(s[n].path, Head(s[n].files)))
    BY <1>2 DEF e, path
  <2>9. Removal(t, s, o) => Removal(Less(t, e), stack'[p], o)
    BY <1>1, <1>2, <1>6, <2>2, <2>5, <2>7, <2>8, FileGoes
  <2> QED BY <2>5, <2>6, <2>9 DEF Goes, s, t
<1>8. CASE ~F!CanRemove(path)
  <2>1. F!Ends(p, "throws") /\ entries' = t
    BY <1>1, <1>8 DEF t
  <2>2. StackMoves(p) /\ IsOver(p, "throws")
    BY <2>1, EndsMoves
  <2>3. ~Removable(t, Append(s[n].path, Head(s[n].files)))
    BY <1>2, <1>4, <1>8 DEF path
  <2>4. Removal(t, s, o) => Ending(t, o, s[1].path, "throws")
    BY <1>1, <1>2, <1>6, <2>3, RemoveFails
  <2> QED BY <2>1, <2>2, <2>4 DEF Goes, s, t
<1> QED BY <1>7, <1>8

LEMMA RmdirGoes ==
  ASSUME DirsInv, CallsTyped, Sound(entries), NEW p \in Processes, F!Rmdir(p), NEW o
  PROVE  StackMoves(p) /\ (Removal(entries, stack[p], o) => Goes(p, o))
<1> DEFINE s == stack[p]
           n == Len(stack[p])
           t == entries
           top == F!Top(p)
           e == F!NamedIn(t, top.path)
           May == F!CanRemove(top.path) /\ entries[F!Named(top.path)] = "dir"
<1>1. /\ stack[p] # <<>> /\ top.op = "removeDir" /\ top.pc = "remove" /\ top.files = <<>> /\ top.dirs = <<>>
      /\ IF May THEN F!Becomes(p, F!Without(F!Named(top.path))) /\ F!Returns(p)
         ELSE F!Ends(p, "throws") /\ UNCHANGED <<entries, alone>>
  BY DEF F!Rmdir, F!At, F!Throws
<1>2. s \in Seq(Frames) /\ s # <<>> /\ n \in Nat \ {0} /\ top = s[n] /\ n = Len(s)
  BY <1>1, FrontOf
<1>3. May <=> Removable(t, top.path) /\ t[e] = "dir"
  BY DEF F!CanRemove, Removable, F!IsDir, F!Named
<1>4. F!Named(top.path) = e
  BY DEF F!Named
<1>5. Sound(t)
  OBVIOUS
<1> HIDE DEF top, s, n, t, e, May
<1>6. CASE May
  <2>1. F!Returns(p) /\ entries' = Less(t, e)
    BY <1>1, <1>4, <1>6, WithoutIs DEF F!Becomes, t
  <2>2. /\ StackMoves(p)
        /\ n = 1 => IsOver(p, "ok")
        /\ n # 1 => GoesOn(p) /\ Popped(s, stack'[p], n)
    BY <1>1, <2>1, ReturnsMoves DEF s, n
  <2>3. DirAt(t, e) /\ (\A x \in DOMAIN t : F!Front(x) # e) /\ e = F!NamedIn(t, s[n].path)
    BY <1>2, <1>3, <1>6 DEF Removable, e, DirAt
  <2>4. CASE n = 1
    <3>1. Removal(t, s, o) => Ending(Less(t, e), o, s[1].path, "ok")
      BY <1>1, <1>2, <1>5, <2>3, <2>4, LastGoes
    <3> QED BY <2>1, <2>2, <2>4, <3>1 DEF Goes, s, t
  <2>5. CASE n # 1
    <3>1. Removal(t, s, o) => Removal(Less(t, e), stack'[p], o)
      BY <1>1, <1>2, <1>5, <2>2, <2>3, <2>5, DirGoes
    <3> QED BY <2>1, <2>2, <2>5, <3>1 DEF Goes, s, t
  <2> QED BY <2>4, <2>5
<1>7. CASE ~May
  <2>1. F!Ends(p, "throws") /\ entries' = t
    BY <1>1, <1>7 DEF t
  <2>2. StackMoves(p) /\ IsOver(p, "throws")
    BY <2>1, EndsMoves
  <2>3. ~(Removable(t, s[n].path) /\ t[F!NamedIn(t, s[n].path)] = "dir")
    BY <1>2, <1>3, <1>7 DEF e
  <2>4. s[n].dirs = <<>> /\ s[n].files = <<>> /\ s[n].pc = "remove"
    BY <1>1, <1>2
  <2>5. Removal(t, s, o) => Ending(t, o, s[1].path, "throws")
    BY ONLY <1>2, <1>5, <2>3, <2>4, RmdirFails
  <2> QED BY <2>1, <2>2, <2>5 DEF Goes, s, t
<1> QED BY <1>6, <1>7
-----------------------------------------------------------------------------
\* Every step leaves a sound file system: an entry is made in a directory, and what is
\* removed has nothing in it.
More(tree, e, kind) == [x \in DOMAIN tree \cup {e} |-> IF x = e THEN kind ELSE tree[x]]

LEMMA MoreIs ==
  ASSUME NEW tree, Sound(tree), NEW e \in Paths, NEW kind, kind # "link", DirAt(tree, e) => kind = "dir",
         F!Front(e) = <<>> \/ DirAt(tree, F!Front(e))
  PROVE  /\ Sound(More(tree, e, kind))
         /\ DOMAIN More(tree, e, kind) = DOMAIN tree \cup {e} /\ More(tree, e, kind)[e] = kind
         /\ \A x \in DOMAIN tree : x # e => More(tree, e, kind)[x] = tree[x]
<1> DEFINE u == More(tree, e, kind)
<1>1. DOMAIN u = DOMAIN tree \cup {e} /\ u[e] = kind /\ \A x \in DOMAIN tree : x # e => u[x] = tree[x]
  BY DEF More
<1> HIDE DEF u
<1>2. ASSUME NEW x \in DOMAIN u
      PROVE  /\ F!IsPrefix(x, LinkTarget) => u[x] # "link"
             /\ F!Front(x) = <<>> \/ (F!Front(x) \in DOMAIN u /\ u[F!Front(x)] = "dir")
  <2>1. F!Front(x) = <<>> \/ DirAt(tree, F!Front(x))
    BY <1>1 DEF Sound, F!WellFormed, DirAt
  <2>2. F!Front(x) = <<>> \/ DirAt(u, F!Front(x))
    BY <1>1, <2>1 DEF DirAt
  <2>3. F!IsPrefix(x, LinkTarget) => u[x] # "link"
    BY <1>1 DEF Sound, F!WellFormed
  <2> QED BY <2>2, <2>3 DEF DirAt
<1>3. Sound(u)
  BY <1>1, <1>2 DEF Sound, F!WellFormed
<1> QED BY <1>1, <1>3 DEF u

LEMMA LessSound ==
  ASSUME NEW tree, Sound(tree), NEW e, tree[e] = "dir" => \A x \in DOMAIN tree : F!Front(x) # e
  PROVE  Sound(Less(tree, e))
<1> DEFINE u == Less(tree, e)
<1>1. DOMAIN u = DOMAIN tree \ {e} /\ \A x \in DOMAIN u : u[x] = tree[x]
  BY DEF Less
<1> HIDE DEF u
<1>2. ASSUME NEW x \in DOMAIN u
      PROVE  /\ F!IsPrefix(x, LinkTarget) => u[x] # "link"
             /\ F!Front(x) = <<>> \/ (F!Front(x) \in DOMAIN u /\ u[F!Front(x)] = "dir")
  <2>1. F!Front(x) = <<>> \/ DirAt(tree, F!Front(x))
    BY <1>1 DEF Sound, F!WellFormed, DirAt
  <2>2. DirAt(tree, F!Front(x)) => F!Front(x) # e
    BY <1>1 DEF DirAt
  <2>3. F!IsPrefix(x, LinkTarget) => u[x] # "link"
    BY <1>1 DEF Sound, F!WellFormed
  <2> QED BY <1>1, <2>1, <2>2, <2>3 DEF DirAt
<1>3. Sound(u)
  BY <1>1, <1>2 DEF Sound, F!WellFormed
<1> QED BY <1>3 DEF u

LEMMA MkdirSound ==
  ASSUME Sound(entries), NEW path \in Paths
  PROVE  /\ Sound(F!AfterMkdir(path))
         /\ F!MkdirResult(path) = "ok" => /\ F!AfterMkdir(path) = More(entries, F!NamedIn(entries, path), "dir")
                                          /\ F!NamedIn(entries, path) \notin DOMAIN entries
                                          /\ F!IsDirIn(entries, F!Front(path))
         /\ F!MkdirResult(path) # "ok" => F!AfterMkdir(path) = entries
<1> DEFINE e == F!NamedIn(entries, path)
<1>1. CASE F!MkdirResult(path) = "ok"
  <2>1. F!AfterMkdir(path) = More(entries, e, "dir") /\ F!IsDirIn(entries, F!Front(path)) /\ e \notin DOMAIN entries
    BY <1>1 DEF F!AfterMkdir, F!MkdirResult, F!With, F!Named, F!IsDir, More
  <2>2. e \in Paths /\ F!Front(e) = F!FollowedIn(entries, F!Front(path))
    BY Leads
  <2> HIDE DEF e
  <2>3. F!Front(e) = <<>> \/ DirAt(entries, F!Front(e))
    <3>1. F!FollowedIn(entries, <<>>) = <<>>
      BY FollowedStep
    <3> QED BY <2>1, <2>2, <3>1 DEF F!IsDirIn, DirAt
  <2>4. Sound(More(entries, e, "dir"))
    BY <2>2, <2>3, MoreIs
  <2> QED BY <1>1, <2>1, <2>4 DEF e
<1>2. CASE F!MkdirResult(path) # "ok"
  BY <1>2 DEF F!AfterMkdir
<1> QED BY <1>1, <1>2

LEMMA SaveSound ==
  ASSUME Sound(entries), NEW path \in Paths, ~F!IsDir(path), NEW kind, kind \notin {"link", "dir"},
         F!IsDir(F!Front(F!Followed(path))) \/ F!Followed(path) \in DOMAIN entries
  PROVE  Sound(F!With(F!Followed(path), kind))
<1> DEFINE e == F!FollowedIn(entries, path)
<1>1. F!With(F!Followed(path), kind) = More(entries, e, kind) /\ F!Followed(path) = e
  BY DEF F!With, F!Followed, More
<1>2. e \in Paths /\ path # <<>>
  BY Leads DEF Paths
<1>3. ~DirAt(entries, e)
  BY <1>2 DEF F!IsDir, F!IsDirIn, DirAt
<1>4. \A r \in Paths : F!IsPrefix(r, e) => ~LinkIn(entries, r)
  BY LeadsToNoLink DEF Paths
<1> HIDE DEF e
<1>5. F!Front(e) = <<>> \/ DirAt(entries, F!Front(e))
  <2>1. CASE e \in DOMAIN entries
    BY <2>1 DEF Sound, F!WellFormed, DirAt
  <2>2. CASE F!IsDirIn(entries, F!Front(e)) /\ F!Front(e) # <<>>
    <3>1. F!Front(e) \in Seq(STRING) /\ F!IsPrefix(F!Front(e), e) /\ e \in Seq(STRING)
      BY <1>2, FrontIs DEF Paths
    <3>2. \A r \in Paths : F!IsPrefix(r, F!Front(e)) => ~LinkIn(entries, r)
      BY <1>4, <3>1, BeginsOn DEF Paths
    <3>3. F!FollowedIn(entries, F!Front(e)) = F!Front(e)
      BY <3>1, <3>2, LeadsStraight
    <3> QED BY <2>2, <3>3 DEF F!IsDirIn, DirAt
  <2> QED BY <1>1, <2>1, <2>2 DEF F!IsDir
<1>6. kind # "link"
  OBVIOUS
<1>7. Sound(More(entries, e, kind))
  BY ONLY Sound(entries), <1>2, <1>3, <1>5, <1>6, MoreIs
<1> QED BY <1>1, <1>7

LEMMA RemovedSound ==
  ASSUME Sound(entries), NEW path, F!CanRemove(path)
  PROVE  Sound(F!Without(F!Named(path)))
<1>1. F!Without(F!Named(path)) = Less(entries, F!Named(path))
  BY WithoutIs
<1>2. entries[F!Named(path)] = "dir" => \A x \in DOMAIN entries : F!Front(x) # F!Named(path)
  BY DEF F!CanRemove
<1> QED BY <1>1, <1>2, LessSound

\* The beginnings of a path.
Beginning(P, k) == SubSeq(P, 1, k)

LEMMA BeginningIs ==
  ASSUME NEW P \in Paths, NEW k \in 1..Len(P)
  PROVE  /\ Beginning(P, k) \in Paths /\ Len(Beginning(P, k)) = k /\ Len(P) \in Nat \ {0}
         /\ F!Front(Beginning(P, k)) = Beginning(P, k - 1) /\ Beginning(P, Len(P)) = P
         /\ (F!Front(Beginning(P, k)) = <<>> <=> k = 1)
<1>1. P \in Seq(STRING) /\ Len(P) \in Nat \ {0} /\ k \in Nat \ {0}
  BY DEF Paths
<1> DEFINE b == SubSeq(P, 1, k)
<1>2. b \in Seq(STRING) /\ Len(b) = k /\ \A i \in 1..k : b[i] = P[i]
  BY <1>1
<1>3. Beginning(P, Len(P)) = P
  BY <1>1 DEF Beginning
<1> HIDE DEF b
<1>4. b \in Paths /\ b # <<>>
  BY <1>1, <1>2 DEF Paths
<1> DEFINE c == F!Front(b)
           d == SubSeq(P, 1, k - 1)
<1>5. c \in Seq(STRING) /\ Len(c) = k - 1 /\ \A i \in 1..k - 1 : c[i] = b[i]
  BY <1>2, <1>4, Fronts
<1>6. d \in Seq(STRING) /\ Len(d) = k - 1 /\ \A i \in 1..k - 1 : d[i] = P[i]
  BY <1>1
<1> HIDE DEF c, d
<1>7. \A i \in 1..k - 1 : i \in 1..k
  BY <1>1
<1>8. c = d
  BY <1>1, <1>2, <1>5, <1>6, <1>7
<1>9. c = <<>> <=> k = 1
  BY <1>1, <1>5
<1> QED BY <1>1, <1>2, <1>3, <1>4, <1>8, <1>9 DEF b, c, d, Beginning

LEMMA StepsKeepSound ==
  ASSUME DirsInv, CallsTyped, Sound(entries), NEW p \in Processes, F!Step(p)
  PROVE  Sound(entries') /\ TreeMoves(p)
<1> DEFINE top == F!Top(p)
<1>1. ASSUME stack[p] # <<>>
      PROVE  /\ top.path \in Paths /\ Beginning(top.path, top.n) \in Paths
             /\ Sound(F!AfterMkdir(top.path)) /\ Sound(F!AfterMkdir(Beginning(top.path, top.n)))
  <2>1. top \in Frames /\ top.path \in Paths
    BY <1>1, TopIs
  <2>2. top.n \in 1..Len(top.path)
    BY <2>1 DEF Frames, Paths
  <2>3. Beginning(top.path, top.n) \in Paths
    BY <2>1, <2>2, BeginningIs
  <2> QED BY <2>1, <2>3, MkdirSound
<1>2. ASSUME NEW path \in Paths, F!Becomes(p, F!AfterMkdir(path)) PROVE Sound(entries') /\ TreeMoves(p)
  BY <1>2, MkdirSound, BecomesMoves DEF F!Becomes
<1>3. ASSUME UNCHANGED <<entries, alone>> PROVE Sound(entries') /\ TreeMoves(p)
  BY <1>3, BecomesMoves
<1>4. CASE F!MakeDirStat(p)
  BY <1>3, <1>4 DEF F!MakeDirStat
<1>5. CASE F!MakeDirMkdir(p)
  BY <1>1, <1>2, <1>5 DEF F!MakeDirMkdir, F!At
<1>6. CASE F!MakeDirRecursive(p)
  BY <1>1, <1>2, <1>6 DEF F!MakeDirRecursive, F!At, Beginning
<1>7. CASE F!MakePathMkdir(p)
  BY <1>1, <1>2, <1>7 DEF F!MakePathMkdir, F!At
<1>8. CASE F!MakePathAgain(p)
  BY <1>1, <1>2, <1>8 DEF F!MakePathAgain, F!At
<1>9. CASE F!RemoveDirExists(p) \/ F!ReadNames(p) \/ F!StatNames(p) \/ F!RemoveSubdirectory(p) \/ F!LoadFile(p)
  BY <1>3, <1>9 DEF F!RemoveDirExists, F!ReadNames, F!StatNames, F!RemoveSubdirectory, F!LoadFile
<1>10. ASSUME NEW path, F!CanRemove(path), F!Becomes(p, F!Without(F!Named(path))) PROVE Sound(entries') /\ TreeMoves(p)
  BY <1>10, RemovedSound, BecomesMoves DEF F!Becomes
<1>11. CASE F!RemoveFileIn(p)
  BY <1>3, <1>10, <1>11 DEF F!RemoveFileIn
<1>12. CASE F!Rmdir(p)
  BY <1>3, <1>10, <1>12 DEF F!Rmdir
<1>13. CASE F!RemoveFile(p)
  BY <1>3, <1>10, <1>13 DEF F!RemoveFile
<1>14. CASE F!SaveFileOpen(p)
  <2>1. CASE F!IsDir(top.path) \/ ~F!IsDir(F!Front(F!Followed(top.path)))
    BY <1>3, <1>14, <2>1 DEF F!SaveFileOpen
  <2>2. CASE ~F!IsDir(top.path) /\ F!IsDir(F!Front(F!Followed(top.path)))
    <3>1. stack[p] # <<>> /\ F!Becomes(p, F!With(F!Followed(top.path), "empty"))
      BY <1>14, <2>2 DEF F!SaveFileOpen, F!At
    <3>2. Sound(F!With(F!Followed(top.path), "empty"))
      BY <1>1, <2>2, <3>1, SaveSound
    <3> QED BY <3>1, <3>2, BecomesMoves DEF F!Becomes
  <2> QED BY <2>1, <2>2
<1>15. CASE F!SaveFileWrite(p)
  <2> DEFINE tree == IF F!IsRegular(top.path) THEN F!With(F!Followed(top.path), "saved") ELSE entries
  <2>1. stack[p] # <<>> /\ F!Becomes(p, tree)
    BY <1>15 DEF F!SaveFileWrite, F!At
  <2>2. CASE F!IsRegular(top.path)
    <3>1. top.path \in Paths /\ top.path # <<>>
      BY <1>1, <2>1 DEF Paths
    <3>2. ~F!IsDir(top.path) /\ F!Followed(top.path) \in DOMAIN entries
      BY <2>2, <3>1 DEF F!IsRegular, F!Exists
    <3>3. Sound(F!With(F!Followed(top.path), "saved"))
      BY <3>1, <3>2, SaveSound
    <3>4. tree = F!With(F!Followed(top.path), "saved")
      BY <2>2
    <3> HIDE DEF tree
    <3> QED BY <2>1, <3>3, <3>4, BecomesMoves DEF F!Becomes
  <2>3. CASE ~F!IsRegular(top.path)
    <3>1. tree = entries
      BY <2>3
    <3> HIDE DEF tree
    <3> QED BY <2>1, <3>1, BecomesMoves DEF F!Becomes
  <2> QED BY <2>2, <2>3
<1> QED BY <1>4, <1>5, <1>6, <1>7, <1>8, <1>9, <1>11, <1>12, <1>13, <1>14, <1>15 DEF F!Step
-----------------------------------------------------------------------------
\* A file system that has grown by directories: paths lead where they did.
Grown(t, o) ==
  /\ DOMAIN o \subseteq DOMAIN t /\ \A e \in DOMAIN o : t[e] = o[e]
  /\ \A e \in DOMAIN t : e \in DOMAIN o \/ t[e] = "dir"

LEMMA GrownIs ==
  ASSUME NEW t, NEW o, Grown(t, o)
  PROVE  /\ \A path \in Seq(STRING) : F!FollowedIn(t, path) = F!FollowedIn(o, path)
         /\ \A path \in Paths : F!NamedIn(t, path) = F!NamedIn(o, path)
         /\ \A path \in Seq(STRING) : F!IsDirIn(o, path) => F!IsDirIn(t, path)
<1>1. \A e : LinkIn(t, e) <=> LinkIn(o, e)
  BY DEF Grown, LinkIn
<1>2. /\ \A path \in Seq(STRING) : F!FollowedIn(t, path) = F!FollowedIn(o, path)
      /\ \A path \in Paths : F!NamedIn(t, path) = F!NamedIn(o, path)
  BY <1>1, SameLinks
<1>3. \A path \in Seq(STRING) : F!IsDirIn(o, path) => F!IsDirIn(t, path)
  BY <1>2 DEF F!IsDirIn, Grown
<1> QED BY <1>2, <1>3

LEMMA GrownOn == ASSUME NEW t, NEW u, NEW o, Grown(t, o), Grown(u, t) PROVE Grown(u, o)
BY DEF Grown

LEMMA MkdirGrows ==
  ASSUME Sound(entries), NEW path \in Paths
  PROVE  Grown(F!AfterMkdir(path), entries)
<1> DEFINE e == F!NamedIn(entries, path)
           u == More(entries, e, "dir")
<1>1. CASE F!MkdirResult(path) = "ok"
  <2>1. F!AfterMkdir(path) = u /\ e \notin DOMAIN entries
    BY <1>1, MkdirSound
  <2>2. DOMAIN u = DOMAIN entries \cup {e} /\ u[e] = "dir" /\ \A x \in DOMAIN entries : x # e => u[x] = entries[x]
    BY DEF More
  <2> HIDE DEF u, e
  <2> QED BY <2>1, <2>2 DEF Grown
<1>2. CASE F!MkdirResult(path) # "ok"
  BY <1>2, MkdirSound DEF Grown
<1> QED BY <1>1, <1>2

\* Nothing is in the way: what is there of a path is a directory.
FreeWay(t, P) == \A k \in 1..Len(P) : F!NamedIn(t, Beginning(P, k)) \in DOMAIN t => F!IsDirIn(t, Beginning(P, k))

LEMMA FreeWayIs ==
  ASSUME NEW P \in Paths, NEW o, ~F!Blocked(o, P), NEW t, Grown(t, o), Sound(t)
  PROVE  FreeWay(t, P)
<1> SUFFICES ASSUME NEW k \in 1..Len(P), F!NamedIn(t, Beginning(P, k)) \in DOMAIN t PROVE F!IsDirIn(t, Beginning(P, k))
  BY DEF FreeWay
<1> DEFINE b == Beginning(P, k)
<1>1. b \in Paths /\ b \in Seq(STRING)
  BY BeginningIs DEF Paths
<1>2. F!NamedIn(o, b) \in DOMAIN o => F!IsDirIn(o, b)
  BY DEF F!Blocked, Beginning
<1> HIDE DEF b
<1>3. F!NamedIn(t, b) = F!NamedIn(o, b)
  BY <1>1, GrownIs
<1>4. CASE F!NamedIn(t, b) \in DOMAIN o
  BY <1>1, <1>2, <1>3, <1>4, GrownIs DEF b
<1>5. CASE F!NamedIn(t, b) \notin DOMAIN o
  <2>1. DirAt(t, F!NamedIn(t, b))
    BY <1>5 DEF Grown, DirAt, b
  <2> QED BY <1>1, <2>1, DirIs DEF b
<1> QED BY <1>4, <1>5

\* What mkdir says of a beginning of such a path.
LEMMA MkdirOnTheWay ==
  ASSUME Sound(entries), NEW P \in Paths, FreeWay(entries, P), NEW k \in 1..Len(P)
  PROVE  LET x == Beginning(P, k)
             above == Beginning(P, k - 1)
             r == F!MkdirResult(x)
         IN  /\ r \in {"ok", "EEXIST", "ENOENT"}
             /\ r = "ENOENT" => ~F!IsDirIn(entries, x) /\ k # 1 /\ F!Front(x) = above
             /\ r = "ok" => ~F!IsDirIn(entries, x)
             /\ r = "EEXIST" => F!IsDirIn(entries, x)
             /\ k = 1 \/ F!IsDirIn(entries, above) => r # "ENOENT"
             /\ r # "ENOENT" => F!IsDirIn(F!AfterMkdir(x), x)
<1> DEFINE x == Beginning(P, k)
           above == Beginning(P, k - 1)
           r == F!MkdirResult(x)
           e == F!NamedIn(entries, x)
<1>1. x \in Paths /\ F!Front(x) = above /\ (above = <<>> <=> k = 1)
  BY BeginningIs
<1>2. k # 1 => k - 1 \in 1..Len(P)
  OBVIOUS
<1>3. e \in DOMAIN entries <=> F!IsDirIn(entries, x)
  <2>1. e \in DOMAIN entries => F!IsDirIn(entries, x)
    BY DEF FreeWay
  <2>2. F!IsDirIn(entries, x) => e \in DOMAIN entries
    BY <1>1, DirIs DEF DirAt, LinkIn
  <2> QED BY <2>1, <2>2
<1>4. k # 1 => above \in Paths /\ (F!NamedIn(entries, above) \in DOMAIN entries => F!IsDirIn(entries, above))
  BY <1>2, BeginningIs DEF FreeWay
<1> HIDE DEF x, above, e
<1>5. F!Exists(above) <=> F!IsDirIn(entries, above)
  <2>1. CASE above = <<>>
    BY <2>1 DEF F!Exists, F!IsDirIn
  <2>2. CASE above # <<>>
    <3>1. above \in Paths /\ (F!NamedIn(entries, above) \in DOMAIN entries => F!IsDirIn(entries, above))
      BY <1>1, <1>4, <2>2
    <3>2. F!Exists(above) <=> F!FollowedIn(entries, above) \in DOMAIN entries
      BY <2>2 DEF F!Exists, F!Followed
    <3>3. F!FollowedIn(entries, above) \in DOMAIN entries => F!IsDirIn(entries, above)
      BY <3>1, FollowedStep DEF LinkIn
    <3>4. F!IsDirIn(entries, above) => F!FollowedIn(entries, above) \in DOMAIN entries
      BY <2>2 DEF F!IsDirIn
    <3> QED BY <3>2, <3>3, <3>4
  <2> QED BY <2>1, <2>2
<1>6. r = IF ~F!IsDirIn(entries, above) THEN "ENOENT" ELSE IF e \in DOMAIN entries THEN "EEXIST" ELSE "ok"
  BY <1>1, <1>5 DEF F!MkdirResult, F!IsDir, F!Named, e
<1>7. F!IsDirIn(entries, x) => F!IsDirIn(entries, above)
  BY <1>1, <1>3, NamedInDir DEF e
<1>8. k = 1 => F!IsDirIn(entries, above)
  BY <1>1 DEF F!IsDirIn
<1>9. r # "ENOENT" => F!IsDirIn(F!AfterMkdir(x), x)
  <2>1. CASE r = "ok"
    <3>1. /\ F!AfterMkdir(x) = More(entries, e, "dir") /\ Sound(F!AfterMkdir(x))
      BY <1>1, <2>1, MkdirSound DEF e
    <3>2. DirAt(F!AfterMkdir(x), e)
      BY <3>1 DEF DirAt, More
    <3>3. F!NamedIn(F!AfterMkdir(x), x) = e
      BY <1>1, MkdirGrows, GrownIs DEF e
    <3> QED BY <1>1, <3>1, <3>2, <3>3, DirIs
  <2>2. CASE r = "EEXIST"
    <3>1. F!AfterMkdir(x) = entries
      BY <1>1, <2>2, MkdirSound
    <3> QED BY <1>3, <1>6, <2>2, <3>1
  <2> QED BY <1>6, <2>1, <2>2
<1> HIDE DEF r
<1> QED BY <1>1, <1>3, <1>6, <1>7, <1>8, <1>9 DEF x, above, r

\* It makes no other beginning of the path a directory, when those in between are none.
LEMMA MakesOnlyThat ==
  ASSUME Sound(entries), NEW P \in Paths, FreeWay(entries, P), NEW k \in 1..Len(P), NEW j \in 1..Len(P), k < j,
         ~F!IsDirIn(entries, Beginning(P, j)), ~F!IsDirIn(entries, Beginning(P, j - 1)),
         F!MkdirResult(Beginning(P, k)) = "ok"
  PROVE  ~F!IsDirIn(F!AfterMkdir(Beginning(P, k)), Beginning(P, j))
<1> DEFINE x == Beginning(P, k)
           y == Beginning(P, j)
           e == F!NamedIn(entries, x)
           u == F!AfterMkdir(x)
<1>1. x \in Paths /\ y \in Paths /\ F!Front(y) = Beginning(P, j - 1) /\ F!Front(y) # <<>>
  BY BeginningIs
<1>2. y \in Seq(STRING)
  BY <1>1 DEF Paths
<1>3. e \notin DOMAIN entries /\ F!IsDirIn(entries, F!Front(x)) /\ u = More(entries, e, "dir")
  BY <1>1, MkdirSound
<1>4. F!FollowedIn(u, y) = F!FollowedIn(entries, y) /\ e \in Paths /\ F!Front(e) = F!FollowedIn(entries, F!Front(x))
  BY <1>1, <1>2, MkdirGrows, GrownIs, Leads
<1>5. ~F!IsDirIn(entries, y) /\ ~F!IsDirIn(entries, F!Front(y))
  BY <1>1
<1>6. F!NamedIn(entries, y) \notin DOMAIN entries
  BY <1>5 DEF FreeWay
<1> HIDE DEF x, y, e, u
<1> SUFFICES ASSUME F!IsDirIn(u, y) PROVE FALSE
  BY DEF u, x, y
<1>7. F!FollowedIn(entries, y) = F!NamedIn(entries, y)
  BY <1>1, <1>6, FollowedStep DEF LinkIn
<1>8. F!FollowedIn(entries, y) \in DOMAIN u
  BY <1>1, <1>4 DEF F!IsDirIn, Paths
<1>9. F!NamedIn(entries, y) = e
  BY <1>3, <1>6, <1>7, <1>8 DEF More
<1>10. F!FollowedIn(entries, F!Front(y)) = F!FollowedIn(entries, F!Front(x))
  BY <1>1, <1>4, <1>9, Leads
<1>11. F!FollowedIn(entries, F!Front(y)) \in Paths
  <2>1. F!Front(y) \in Paths
    BY <1>1, FrontIs DEF Paths
  <2> QED BY <2>1, Leads
<1>12. CASE F!Front(x) = <<>>
  <2>1. F!FollowedIn(entries, F!Front(x)) = <<>>
    BY <1>1, <1>12, FollowedStep
  <2> QED BY <1>10, <1>11, <2>1 DEF Paths
<1>13. CASE F!Front(x) # <<>>
  <2>1. F!IsDirIn(entries, F!Front(y))
    BY <1>3, <1>10, <1>13 DEF F!IsDirIn
  <2> QED BY <1>5, <2>1
<1> QED BY <1>12, <1>13
-----------------------------------------------------------------------------
\* A makeDir, makeDirRecursive or makePath of P that has nothing in its way; s are its
\* frames.  makePath goes up, frame by frame, and down again when the directory above
\* is there.
Climbs(t, s, P, undisturbed) ==
  /\ Len(s) <= Len(P)
  /\ \A i \in 1..Len(s) : /\ s[i].op = "makePath" /\ s[i].path = Beginning(P, Len(P) + 1 - i)
                          /\ i < Len(s) => s[i].pc = "again"
  /\ s[Len(s)].pc = "again" => Len(s) < Len(P) /\ F!IsDirIn(t, Beginning(P, Len(P) - Len(s)))
  /\ undisturbed => \A i \in 1..Len(s) : s[i].pc = "again" => ~F!IsDirIn(t, s[i].path)

Making(t, s, P, undisturbed) ==
  \/ /\ s[1].op = "makeDir" /\ Len(s) = 1
     /\ F!IsDirIn(t, F!Front(P))
     /\ undisturbed /\ s[1].pc = "mkdir" => ~F!IsDirIn(t, P)
  \/ /\ s[1].op = "makeDirRecursive" /\ Len(s) = 1
     /\ \A k \in 1..s[1].n - 1 : F!IsDirIn(t, Beginning(P, k))
  \/ s[1].op = "makePath" /\ Climbs(t, s, P, undisturbed)

Made(t, op, path, outcome, undisturbed) ==
  /\ undisturbed => outcome = "ok"
  /\ F!IsDirIn(t, path) \/ (op = "makePath" /\ Len(path) > 2 /\ outcome = "false")

GoesMaking(p, undisturbed) ==
  \/ GoesOn(p) /\ Making(entries', stack'[p], stack[p][1].path, undisturbed)
  \/ \E outcome : /\ IsOver(p, outcome)
                  /\ Made(entries', stack[p][1].op, stack[p][1].path, outcome, undisturbed)

\* A place in the stack, and the beginning of the path that belongs to it.
LEMMA RungIs ==
  ASSUME NEW s \in Seq(Frames), s # <<>>, NEW P \in Paths, NEW t, NEW undisturbed, Climbs(t, s, P, undisturbed)
  PROVE  LET n == Len(s)
             L == Len(P)
         IN  /\ n \in Nat \ {0} /\ L \in Nat \ {0} /\ n \in 1..n /\ 1 \in 1..n /\ n <= L
             /\ \A i \in 1..n : L + 1 - i \in 1..L /\ s[i].op = "makePath" /\ s[i].path = Beginning(P, L + 1 - i) /\ s[i].path \in Paths
             /\ \A i \in 1..n : i # n => i \in 1..n - 1 /\ s[i].pc = "again" /\ i + 1 \in 1..n
                                         /\ (L + 1 - i) - 1 = L + 1 - (i + 1) /\ L + 1 - n < L + 1 - i
             /\ (L + 1 - n) - 1 = L - n
             /\ s[1].path = P
<1> DEFINE n == Len(s)
           L == Len(P)
<1>1. n \in Nat \ {0} /\ L \in Nat \ {0}
  BY DEF Paths
<1>2. n <= L
  BY DEF Climbs
<1>3. \A i \in 1..n : s[i].op = "makePath" /\ s[i].path = Beginning(P, L + 1 - i) /\ (i < n => s[i].pc = "again")
  BY DEF Climbs
<1>4. \A i \in 1..n : s[i].path \in Paths
  BY FrameTypes
<1>5. P = Beginning(P, L)
  <2>1. L \in 1..L
    BY <1>1
  <2> QED BY <2>1, BeginningIs
<1> HIDE DEF n, L
<1>6. n \in 1..n /\ 1 \in 1..n /\ (L + 1 - n) - 1 = L - n /\ L + 1 - 1 = L
  BY <1>1
<1>7. \A i \in 1..n : L + 1 - i \in 1..L
  BY <1>1, <1>2
<1>8. \A i \in 1..n : i # n => i \in 1..n - 1 /\ i < n /\ i + 1 \in 1..n
                               /\ (L + 1 - i) - 1 = L + 1 - (i + 1) /\ L + 1 - n < L + 1 - i
  BY <1>1, <1>2
<1> QED BY <1>1, <1>2, <1>3, <1>4, <1>5, <1>6, <1>7, <1>8 DEF n, L

\* The same, for who needs the rungs alone.
Rungs(s, n, P, L) ==
  /\ \A i \in 1..n : L + 1 - i \in 1..L /\ s[i].op = "makePath" /\ s[i].path = Beginning(P, L + 1 - i)
  /\ \A i \in 1..n : i # n => s[i].pc = "again" /\ i + 1 \in 1..n
                             /\ (L + 1 - i) - 1 = L + 1 - (i + 1) /\ L + 1 - n < L + 1 - i

LEMMA RungsAre ==
  ASSUME NEW s \in Seq(Frames), s # <<>>, NEW P \in Paths, NEW t, NEW undisturbed, Climbs(t, s, P, undisturbed)
  PROVE  Rungs(s, Len(s), P, Len(P)) /\ Len(s) \in Nat \ {0} /\ Len(P) \in Nat \ {0}
<1> DEFINE n == Len(s)
           L == Len(P)
<1>1. /\ n \in Nat \ {0} /\ L \in Nat \ {0}
      /\ \A i \in 1..n : L + 1 - i \in 1..L /\ s[i].op = "makePath" /\ s[i].path = Beginning(P, L + 1 - i)
      /\ \A i \in 1..n : i # n => s[i].pc = "again" /\ i + 1 \in 1..n
                                 /\ (L + 1 - i) - 1 = L + 1 - (i + 1) /\ L + 1 - n < L + 1 - i
  BY RungIs
<1> HIDE DEF n, L
<1>2. Rungs(s, n, P, L) /\ n \in Nat \ {0} /\ L \in Nat \ {0}
  BY <1>1 DEF Rungs
<1> QED BY <1>2 DEF n, L

\* The directory of the innermost frame is there: the frame around it goes on.
LEMMA ClimbsDown ==
  ASSUME NEW s, NEW z, NEW n, Popped(s, z, n), NEW P \in Paths, NEW t, NEW u, NEW undisturbed, Climbs(t, s, P, undisturbed),
         F!IsDirIn(u, s[n].path), undisturbed => \A i \in 1..n - 1 : ~F!IsDirIn(u, s[i].path)
  PROVE  Climbs(u, z, P, undisturbed) /\ z[1].op = "makePath"
<1>1. /\ s \in Seq(Frames) /\ z \in Seq(Frames) /\ s # <<>> /\ Len(s) = n /\ Len(z) = n - 1
      /\ \A i \in 1..n - 1 : i \in 1..n /\ i < n /\ (i # n - 1 => i < n - 1) /\ z[i] = s[i]
      /\ n - 1 \in 1..n - 1 /\ 1 \in 1..n - 1 /\ n \in 1..n
  BY PoppedIs
<1>2. /\ \A i \in 1..n : s[i].op = "makePath" /\ s[i].path = Beginning(P, Len(P) + 1 - i)
      /\ \A i \in 1..n : i # n => s[i].pc = "again"
      /\ n <= Len(P) /\ n \in Nat /\ Len(P) \in Nat
  BY <1>1, RungIs
<1>3. Len(P) - (n - 1) = Len(P) + 1 - n /\ n - 1 < Len(P) /\ n - 1 <= Len(P) /\ n # n - 1
  BY <1>2
<1>4. \A i \in 1..n - 1 : /\ z[i].op = "makePath" /\ z[i].path = Beginning(P, Len(P) + 1 - i)
                          /\ z[i].pc = "again" /\ z[i].path = s[i].path
  <2>1. \A i \in 1..n - 1 : i # n
    BY <1>2
  <2> QED BY <1>1, <1>2, <2>1
<1>5. F!IsDirIn(u, Beginning(P, Len(P) - (n - 1)))
  BY <1>1, <1>2, <1>3
<1>6. undisturbed => \A i \in 1..n - 1 : ~F!IsDirIn(u, z[i].path)
  BY <1>4
<1> QED BY <1>1, <1>3, <1>4, <1>5, <1>6 DEF Climbs

\* It is not: the directory above it is to be made first.
LEMMA ClimbsUp ==
  ASSUME NEW s, NEW z, NEW n, NEW f, NEW g, Pushed(s, z, n, f, g), NEW P \in Paths, NEW t, NEW undisturbed,
         Climbs(t, s, P, undisturbed), n < Len(P), ~F!IsDirIn(t, s[n].path),
         f.pc = "again", g.op = "makePath", g.pc = "start", g.path = Beginning(P, Len(P) - n)
  PROVE  Climbs(t, z, P, undisturbed) /\ z[1].op = "makePath"
<1>1. /\ s \in Seq(Frames) /\ n \in Nat \ {0} /\ Len(s) = n /\ Len(z) = n + 1 /\ z[n] = f /\ z[n + 1] = g
  BY DEF Pushed
<1>2. /\ \A i \in 1..n : z[i].path = s[i].path /\ z[i].op = s[i].op /\ (i # n => z[i] = s[i])
      /\ \A i \in 1..n + 1 : i \in 1..n \/ i = n + 1
      /\ n \in 1..n /\ 1 \in 1..n
  BY PushedIs
<1>3. s # <<>>
  BY <1>1
<1>4. /\ \A i \in 1..n : s[i].op = "makePath" /\ s[i].path = Beginning(P, Len(P) + 1 - i)
      /\ \A i \in 1..n : i # n => s[i].pc = "again"
      /\ Len(P) \in Nat
  <2>1. Rungs(s, Len(s), P, Len(P)) /\ Len(P) \in Nat \ {0}
    BY <1>1, <1>3, RungsAre
  <2>2. Rungs(s, n, P, Len(P))
    BY <1>1, <2>1
  <2> QED BY <2>1, <2>2 DEF Rungs
<1>5. n + 1 <= Len(P) /\ Len(P) + 1 - (n + 1) = Len(P) - n /\ ~(n + 1 < n + 1)
  BY <1>1, <1>4
<1>6. \A i \in 1..n : z[i].op = "makePath" /\ z[i].path = Beginning(P, Len(P) + 1 - i) /\ z[i].pc = "again"
  BY <1>1, <1>2, <1>4
<1>7. undisturbed => \A i \in 1..n : s[i].pc = "again" => ~F!IsDirIn(t, s[i].path)
  BY <1>1 DEF Climbs
<1>8. undisturbed => \A i \in 1..n + 1 : z[i].pc = "again" => ~F!IsDirIn(t, z[i].path)
  <2> SUFFICES ASSUME undisturbed, NEW i \in 1..n + 1, z[i].pc = "again" PROVE ~F!IsDirIn(t, z[i].path)
    OBVIOUS
  <2>1. i \in 1..n
    BY <1>1, <1>2
  <2>2. CASE i = n
    BY <1>2, <2>1, <2>2
  <2>3. CASE i # n
    BY <1>2, <1>4, <1>7, <2>1, <2>3
  <2> QED BY <2>2, <2>3
<1>9. \A i \in 1..n + 1 : /\ z[i].op = "makePath" /\ z[i].path = Beginning(P, Len(P) + 1 - i)
                          /\ i < n + 1 => z[i].pc = "again"
  BY <1>1, <1>2, <1>5, <1>6
<1>10. z[n + 1].pc # "again"
  BY <1>1
<1> QED BY <1>1, <1>2, <1>5, <1>6, <1>8, <1>9, <1>10 DEF Climbs

\* When the innermost directory is made, or another has made it, those around it are
\* still to be made, if nobody else makes them.
LEMMA OuterStay ==
  ASSUME Sound(entries), NEW P \in Paths, FreeWay(entries, P), NEW s \in Seq(Frames), s # <<>>,
         Climbs(entries, s, P, TRUE), NEW x, x = s[Len(s)].path, F!MkdirResult(x) \in {"ok", "EEXIST"}
  PROVE  \A i \in 1..Len(s) - 1 : ~F!IsDirIn(F!AfterMkdir(x), s[i].path)
<1> DEFINE n == Len(s)
           L == Len(P)
           r == F!MkdirResult(x)
<1>1. /\ n \in Nat \ {0} /\ L \in Nat \ {0} /\ n \in 1..n
      /\ \A i \in 1..n : L + 1 - i \in 1..L /\ s[i].path = Beginning(P, L + 1 - i)
      /\ \A i \in 1..n : i # n => s[i].pc = "again" /\ i + 1 \in 1..n
                                  /\ (L + 1 - i) - 1 = L + 1 - (i + 1) /\ L + 1 - n < L + 1 - i
  <2>1. Rungs(s, n, P, L) /\ n \in Nat \ {0} /\ L \in Nat \ {0}
    BY RungsAre
  <2> HIDE DEF n, L
  <2> QED BY <2>1 DEF Rungs
<1>2. \A i \in 1..n : s[i].pc = "again" => ~F!IsDirIn(entries, s[i].path)
  BY DEF Climbs
<1> HIDE DEF n, L, r
<1>3. \A i \in 1..n - 1 : i \in 1..n /\ i # n
  BY <1>1
<1> SUFFICES ASSUME NEW i \in 1..n - 1 PROVE ~F!IsDirIn(F!AfterMkdir(x), s[i].path)
  BY DEF n
<1>4. i \in 1..n /\ i # n /\ s[i].pc = "again" /\ i + 1 \in 1..n /\ ~F!IsDirIn(entries, s[i].path)
  BY <1>1, <1>2, <1>3
<1>5. x = Beginning(P, L + 1 - n) /\ x \in Paths
  <2>1. x = Beginning(P, L + 1 - n) /\ L + 1 - n \in 1..L
    BY <1>1 DEF n
  <2> QED BY <2>1, BeginningIs DEF L
<1>6. CASE r = "EEXIST"
  <2>1. F!AfterMkdir(x) = entries
    BY <1>5, <1>6, MkdirSound DEF r
  <2> QED BY <1>4, <2>1
<1>7. CASE r = "ok"
  <2>1. ~F!IsDirIn(entries, s[i + 1].path)
    <3>1. CASE i + 1 = n
      <4>1. ~F!IsDirIn(entries, x)
        BY <1>1, <1>5, <1>7, MkdirOnTheWay DEF r, L
      <4> QED BY <3>1, <4>1 DEF n
    <3>2. CASE i + 1 # n
      BY <1>1, <1>2, <1>4, <3>2
    <3> QED BY <3>1, <3>2
  <2> DEFINE j == L + 1 - i
             k == L + 1 - n
  <2>2. /\ j \in 1..L /\ k \in 1..L /\ k < j /\ s[i].path = Beginning(P, j) /\ s[i + 1].path = Beginning(P, j - 1)
        /\ x = Beginning(P, k)
    BY <1>1, <1>4, <1>5
  <2> HIDE DEF j, k
  <2> QED BY <1>4, <1>7, <2>1, <2>2, MakesOnlyThat DEF L, r
<1> QED BY <1>6, <1>7 DEF r
-----------------------------------------------------------------------------
\* How their steps lead them on, or to their end.
LEMMA KindIs ==
  ASSUME NEW s \in Seq(Frames), s # <<>>, NEW n, n = Len(s), NEW t, NEW undisturbed, Making(t, s, s[1].path, undisturbed)
  PROVE  /\ s[n].op = s[1].op /\ s[1].path \in Paths /\ s[n] \in Frames
         /\ s[1].op = "makePath" => Climbs(t, s, s[1].path, undisturbed)
         /\ s[1].op = "makeDir" => /\ n = 1 /\ F!IsDirIn(t, F!Front(s[1].path))
                                   /\ undisturbed /\ s[1].pc = "mkdir" => ~F!IsDirIn(t, s[1].path)
         /\ s[1].op = "makeDirRecursive" => n = 1 /\ \A k \in 1..s[1].n - 1 : F!IsDirIn(t, Beginning(s[1].path, k))
<1>1. 1 \in 1..Len(s) /\ n \in 1..Len(s)
  OBVIOUS
<1>2. s[1].path \in Paths /\ s[n] \in Frames
  BY <1>1, FrameTypes
<1>3. s[1].op = "makePath" => Climbs(t, s, s[1].path, undisturbed)
  BY DEF Making
<1>4. s[1].op = "makePath" => s[n].op = "makePath"
  BY <1>1, <1>3 DEF Climbs
<1>5. s[1].op # "makePath" => n = 1
  BY DEF Making
<1> QED BY <1>2, <1>3, <1>4, <1>5 DEF Making

LEMMA MakeDirStatGoes ==
  ASSUME DirsInv, CallsTyped, NEW p \in Processes, F!MakeDirStat(p), NEW undisturbed
  PROVE  StackMoves(p) /\ (Making(entries, stack[p], stack[p][1].path, undisturbed) => GoesMaking(p, undisturbed))
<1> DEFINE s == stack[p]
           n == Len(stack[p])
           t == entries
           P == stack[p][1].path
<1>1. /\ stack[p] # <<>> /\ F!Top(p).op = "makeDir" /\ entries' = t
      /\ IF F!IsDirIn(t, F!Top(p).path) THEN F!Returns(p) ELSE F!Goto(p, "mkdir") /\ UNCHANGED returned
  BY DEF F!MakeDirStat, F!At, F!IsDir
<1>2. s \in Seq(Frames) /\ s # <<>> /\ n \in Nat \ {0} /\ F!Top(p) = s[n] /\ n = Len(s)
  BY <1>1, FrontOf
<1> HIDE DEF s, n, t, P
<1>3. ASSUME Making(t, s, P, undisturbed) PROVE n = 1 /\ s[1].op = "makeDir" /\ F!IsDirIn(t, F!Front(P)) /\ F!Top(p).path = P
  <2>1. Making(t, s, s[1].path, undisturbed)
    BY <1>3 DEF s, P
  <2>2. s[n].op = s[1].op
    BY <1>2, <2>1, KindIs
  <2>3. s[1].op = "makeDir"
    BY <1>1, <1>2, <2>2
  <2>4. n = 1 /\ F!IsDirIn(t, F!Front(s[1].path))
    BY <1>2, <2>1, <2>3, KindIs
  <2> QED BY <1>2, <2>3, <2>4 DEF s, P
<1>4. CASE F!IsDirIn(t, F!Top(p).path)
  <2>1. StackMoves(p) /\ (n = 1 => IsOver(p, "ok"))
    BY <1>1, <1>4, ReturnsMoves DEF n
  <2>2. ASSUME Making(t, s, P, undisturbed) PROVE IsOver(p, "ok") /\ Made(t, s[1].op, P, "ok", undisturbed)
    BY <1>3, <1>4, <2>1, <2>2 DEF Made
  <2> QED BY <1>1, <2>1, <2>2 DEF GoesMaking, s, P, t
<1>5. CASE ~F!IsDirIn(t, F!Top(p).path)
  <2> DEFINE f == [F!Top(p) EXCEPT !.pc = "mkdir"]
  <2>1. "mkdir" \in Pcs
    BY DEF Pcs
  <2>2. Turns(s, stack'[p], n, f) /\ StackMoves(p) /\ GoesOn(p)
    BY <1>1, <1>5, <2>1, GotoTurns DEF s, n
  <2> HIDE DEF f
  <2>3. ASSUME Making(t, s, P, undisturbed) PROVE Making(t, stack'[p], P, undisturbed)
    <3>1. stack'[p][1] = f /\ Len(stack'[p]) = 1 /\ f.op = "makeDir"
      BY <1>3, <2>2, <2>3 DEF Turns
    <3> QED BY <1>3, <1>5, <2>3, <3>1 DEF Making
  <2> QED BY <1>1, <2>2, <2>3 DEF GoesMaking, s, P, t
<1> QED BY <1>4, <1>5

LEMMA MakeDirMkdirGoes ==
  ASSUME DirsInv, CallsTyped, Sound(entries), NEW p \in Processes, F!MakeDirMkdir(p), NEW undisturbed
  PROVE  /\ StackMoves(p)
         /\ Making(entries, stack[p], stack[p][1].path, undisturbed) /\ FreeWay(entries, stack[p][1].path) =>
              GoesMaking(p, undisturbed)
<1> DEFINE s == stack[p]
           n == Len(stack[p])
           t == entries
           P == stack[p][1].path
           u == F!AfterMkdir(F!Top(p).path)
           r == F!MkdirResult(F!Top(p).path)
<1>1. /\ stack[p] # <<>> /\ F!Top(p).op = "makeDir" /\ F!Top(p).pc = "mkdir" /\ entries' = u
      /\ IF r = "ok" THEN F!Returns(p) ELSE F!Ends(p, "throws")
  BY DEF F!MakeDirMkdir, F!At, F!Throws, F!Becomes
<1>2. s \in Seq(Frames) /\ s # <<>> /\ n \in Nat \ {0} /\ F!Top(p) = s[n] /\ n = Len(s)
  BY <1>1, FrontOf
<1> HIDE DEF s, n, t, P, u, r
<1>3. ASSUME Making(t, s, P, undisturbed)
      PROVE  /\ n = 1 /\ s[1].op = "makeDir" /\ F!IsDirIn(t, F!Front(P)) /\ F!Top(p).path = P /\ P \in Paths
             /\ undisturbed => ~F!IsDirIn(t, P)
  <2>1. Making(t, s, s[1].path, undisturbed)
    BY <1>3 DEF s, P
  <2>2. s[n].op = s[1].op /\ s[1].path \in Paths
    BY <1>2, <2>1, KindIs
  <2>3. s[1].op = "makeDir"
    BY <1>1, <1>2, <2>2
  <2>4. n = 1 /\ F!IsDirIn(t, F!Front(s[1].path)) /\ (undisturbed /\ s[1].pc = "mkdir" => ~F!IsDirIn(t, s[1].path))
    BY <1>2, <2>1, <2>3, KindIs
  <2> QED BY <1>1, <1>2, <2>2, <2>3, <2>4 DEF s, P
<1>4. ASSUME Making(t, s, P, undisturbed), FreeWay(t, P)
      PROVE  (r = "ok" \/ r = "EEXIST") /\ F!IsDirIn(u, P) /\ (r = "EEXIST" => ~undisturbed)
  <2>1. P \in Paths /\ F!Top(p).path = P
    BY <1>3, <1>4
  <2>2. Len(P) \in 1..Len(P)
    BY <2>1 DEF Paths
  <2>3. Beginning(P, Len(P)) = P /\ F!Front(P) = Beginning(P, Len(P) - 1)
    BY <2>1, <2>2, BeginningIs
  <2>4. F!IsDirIn(t, Beginning(P, Len(P) - 1))
    BY <1>3, <1>4, <2>3
  <2>5. /\ r \in {"ok", "EEXIST", "ENOENT"} /\ r # "ENOENT" /\ (r # "ENOENT" => F!IsDirIn(u, P))
        /\ r = "EEXIST" => F!IsDirIn(t, P)
    BY <1>4, <2>1, <2>2, <2>3, <2>4, MkdirOnTheWay DEF t, r, u
  <2> QED BY <1>3, <1>4, <2>5
<1>5. CASE r = "ok"
  <2>1. StackMoves(p) /\ (n = 1 => IsOver(p, "ok"))
    BY <1>1, <1>5, ReturnsMoves DEF n
  <2>2. ASSUME Making(t, s, P, undisturbed), FreeWay(t, P) PROVE IsOver(p, "ok") /\ Made(u, s[1].op, P, "ok", undisturbed)
    BY <1>3, <1>4, <2>1, <2>2 DEF Made
  <2> QED BY <1>1, <2>1, <2>2 DEF GoesMaking, s, P, t
<1>6. CASE r # "ok"
  <2>1. StackMoves(p) /\ IsOver(p, "throws")
    BY <1>1, <1>6, EndsMoves
  <2>2. ASSUME Making(t, s, P, undisturbed), FreeWay(t, P) PROVE Made(u, s[1].op, P, "throws", undisturbed)
    BY <1>4, <1>6, <2>2 DEF Made
  <2> QED BY <1>1, <2>1, <2>2 DEF GoesMaking, s, P, t
<1> QED BY <1>5, <1>6

LEMMA MakeDirRecursiveGoes ==
  ASSUME DirsInv, CallsTyped, Sound(entries), NEW p \in Processes, F!MakeDirRecursive(p), NEW undisturbed
  PROVE  /\ StackMoves(p)
         /\ Making(entries, stack[p], stack[p][1].path, undisturbed) /\ FreeWay(entries, stack[p][1].path) =>
              GoesMaking(p, undisturbed)
<1> DEFINE s == stack[p]
           n == Len(stack[p])
           t == entries
           P == stack[p][1].path
           top == F!Top(p)
           m == top.n
           x == Beginning(top.path, m)
           u == F!AfterMkdir(x)
           f == [top EXCEPT !.n = m + 1]
<1>1. /\ stack[p] # <<>> /\ top.op = "makeDirRecursive" /\ entries' = u
      /\ IF m = Len(top.path) THEN F!Returns(p) ELSE F!SetTop(p, f) /\ UNCHANGED returned
  BY DEF F!MakeDirRecursive, F!At, F!Becomes, Beginning
<1>2. s \in Seq(Frames) /\ s # <<>> /\ n \in Nat \ {0} /\ top = s[n] /\ n = Len(s)
  BY <1>1, FrontOf
<1>3. /\ top \in Frames /\ top.path \in Paths
      /\ top = [op |-> top.op, path |-> top.path, pc |-> top.pc, dirs |-> top.dirs,
                files |-> top.files, names |-> top.names, n |-> top.n]
  BY <1>1, TopIs
<1> HIDE DEF top
<1>4. m \in 1..Len(top.path) /\ m \in Nat \ {0} /\ Len(top.path) \in Nat
  BY <1>3 DEF Frames, Paths
<1>5. m # Len(top.path) => Continues(p, f) /\ f.n = m + 1 /\ f.op = top.op /\ f.path = top.path
  <2> SUFFICES ASSUME m # Len(top.path) PROVE f \in Frames /\ f.op = top.op /\ f.path = top.path /\ f.n = m + 1
    BY DEF Continues, top
  <2>1. m + 1 \in Nat \ {0} /\ m + 1 <= Len(top.path)
    BY <1>4
  <2> QED BY <1>3, <2>1 DEF Frames
<1> HIDE DEF s, n, t, P, u, f, m, x
<1>6. ASSUME Making(t, s, P, undisturbed), FreeWay(t, P)
      PROVE  /\ n = 1 /\ s[1].op = "makeDirRecursive" /\ top.path = P /\ P \in Paths /\ F!IsDirIn(u, x)
             /\ \A k \in 1..m - 1 : F!IsDirIn(t, Beginning(P, k))
  <2>1. Making(t, s, s[1].path, undisturbed)
    BY <1>6 DEF s, P
  <2>2. s[n].op = s[1].op /\ s[1].path \in Paths
    BY <1>2, <2>1, KindIs
  <2>3. s[1].op = "makeDirRecursive"
    BY <1>1, <1>2, <2>2
  <2>4. n = 1 /\ \A k \in 1..s[1].n - 1 : F!IsDirIn(t, Beginning(s[1].path, k))
    BY <1>2, <2>1, <2>3, KindIs
  <2>5. top.path = P /\ P \in Paths /\ \A k \in 1..m - 1 : F!IsDirIn(t, Beginning(P, k))
    BY <1>2, <2>2, <2>4 DEF s, P, m
  <2>6. m = 1 \/ F!IsDirIn(t, Beginning(P, m - 1))
    <3>1. m = 1 \/ m - 1 \in 1..m - 1
      BY <1>4
    <3> QED BY <2>5, <3>1
  <2>7. F!MkdirResult(x) # "ENOENT" /\ (F!MkdirResult(x) # "ENOENT" => F!IsDirIn(u, x))
    BY <1>4, <1>6, <2>5, <2>6, MkdirOnTheWay DEF t, u, x
  <2> QED BY <2>3, <2>4, <2>5, <2>7
<1>7. CASE m = Len(top.path)
  <2>1. StackMoves(p) /\ (n = 1 => IsOver(p, "ok"))
    BY <1>1, <1>7, ReturnsMoves DEF n
  <2>2. ASSUME Making(t, s, P, undisturbed), FreeWay(t, P) PROVE IsOver(p, "ok") /\ Made(u, s[1].op, P, "ok", undisturbed)
    <3>1. x = P
      BY <1>4, <1>6, <1>7, <2>2, BeginningIs DEF x
    <3> QED BY <1>6, <2>1, <2>2, <3>1 DEF Made
  <2> QED BY <1>1, <2>1, <2>2 DEF GoesMaking, s, P, t
<1>8. CASE m # Len(top.path)
  <2>1. F!SetTop(p, f) /\ UNCHANGED returned /\ Continues(p, f)
    BY <1>1, <1>5, <1>8
  <2>2. Turns(s, stack'[p], n, f) /\ StackMoves(p) /\ GoesOn(p)
    BY <1>1, <2>1, SetTopTurns DEF s, n
  <2>3. ASSUME Making(t, s, P, undisturbed), FreeWay(t, P) PROVE Making(u, stack'[p], P, undisturbed)
    <3>1. stack'[p][1] = f /\ Len(stack'[p]) = 1 /\ f.op = "makeDirRecursive" /\ f.n - 1 = m
      BY <1>1, <1>4, <1>5, <1>6, <1>8, <2>2, <2>3 DEF Turns
    <3>2. ASSUME NEW k \in 1..m PROVE F!IsDirIn(u, Beginning(P, k))
      <4>1. CASE k = m
        BY <1>6, <2>3, <4>1 DEF x
      <4>2. CASE k # m
        <5>1. k \in 1..m - 1 /\ k \in 1..Len(P)
          BY <1>4, <1>6, <2>3, <4>2
        <5>2. F!IsDirIn(t, Beginning(P, k)) /\ Beginning(P, k) \in Seq(STRING)
          BY <1>6, <2>3, <5>1, BeginningIs DEF Paths
        <5>3. Grown(u, t)
          BY <1>3, <1>4, BeginningIs, MkdirGrows DEF u, t, x
        <5> QED BY <5>2, <5>3, GrownIs
      <4> QED BY <4>1, <4>2
    <3>3. \A k \in 1..f.n - 1 : F!IsDirIn(u, Beginning(P, k))
      BY <3>1, <3>2
    <3> QED BY <3>1, <3>3 DEF Making
  <2> QED BY <1>1, <2>2, <2>3 DEF GoesMaking, s, P, t
<1> QED BY <1>7, <1>8
-----------------------------------------------------------------------------
\* mkdir of makePath has made its directory, or found it: the frame is done.
LEMMA PathIsThere ==
  ASSUME DirsInv, CallsTyped, Sound(entries), NEW p \in Processes, stack[p] # <<>>, NEW undisturbed \in BOOLEAN,
         Climbs(entries, stack[p], stack[p][1].path, undisturbed), FreeWay(entries, stack[p][1].path),
         F!MkdirResult(F!Top(p).path) \in {"ok", "EEXIST"}, entries' = F!AfterMkdir(F!Top(p).path), F!Returns(p)
  PROVE  GoesMaking(p, undisturbed)
<1> DEFINE s == stack[p]
           n == Len(stack[p])
           t == entries
           P == stack[p][1].path
           x == F!Top(p).path
           u == F!AfterMkdir(x)
<1>1. s \in Seq(Frames) /\ s # <<>> /\ n \in Nat \ {0} /\ F!Top(p) = s[n] /\ n = Len(s)
  BY FrontOf
<1>2. P \in Paths
  <2>1. 1 \in 1..Len(s)
    BY <1>1
  <2> QED BY <1>1, <2>1, FrameTypes
<1>3. /\ StackMoves(p)
      /\ n = 1 => IsOver(p, "ok")
      /\ n # 1 => GoesOn(p) /\ Popped(s, stack'[p], n)
  BY ReturnsMoves
<1>4. Climbs(t, s, P, undisturbed) /\ FreeWay(t, P) /\ F!MkdirResult(x) \in {"ok", "EEXIST"} /\ entries' = u /\ Sound(t)
  OBVIOUS
<1>5. x = s[n].path
  BY <1>1
<1> HIDE DEF s, n, P, x
<1>6. Len(P) + 1 - n \in 1..Len(P) /\ x = Beginning(P, Len(P) + 1 - n) /\ s[1].path = P /\ s[1].op = "makePath" /\ n \in 1..n
  BY <1>1, <1>2, <1>4, <1>5, RungIs
<1>7. F!IsDirIn(u, x)
  <2>1. F!MkdirResult(x) # "ENOENT"
    BY <1>4
  <2> QED BY <1>2, <1>4, <1>6, <2>1, MkdirOnTheWay
<1> HIDE DEF t, u
<1>8. CASE n = 1
  <2>1. Made(u, s[1].op, P, "ok", undisturbed)
    BY <1>5, <1>6, <1>7, <1>8 DEF Made
  <2> QED BY <1>3, <1>4, <1>8, <2>1 DEF GoesMaking, s, P
<1>9. CASE n # 1
  <2>1. undisturbed => \A i \in 1..n - 1 : ~F!IsDirIn(u, s[i].path)
    <3> SUFFICES ASSUME undisturbed PROVE \A i \in 1..n - 1 : ~F!IsDirIn(u, s[i].path)
      OBVIOUS
    <3>1. undisturbed = TRUE
      OBVIOUS
    <3>2. Climbs(t, s, P, TRUE)
      BY <1>4, <3>1
    <3> QED BY <1>1, <1>2, <1>4, <1>5, <3>2, OuterStay DEF t, u
  <2>2. Climbs(u, stack'[p], P, undisturbed) /\ stack'[p][1].op = "makePath"
    BY <1>2, <1>3, <1>4, <1>5, <1>7, <1>9, <2>1, ClimbsDown
  <2>3. Making(u, stack'[p], P, undisturbed)
    BY <2>2 DEF Making
  <2> QED BY <1>3, <1>4, <1>9, <2>3 DEF GoesMaking, P
<1> QED BY <1>8, <1>9

LEMMA MakePathMkdirGoes ==
  ASSUME DirsInv, CallsTyped, Sound(entries), NEW p \in Processes, F!MakePathMkdir(p), NEW undisturbed \in BOOLEAN
  PROVE  /\ StackMoves(p)
         /\ Making(entries, stack[p], stack[p][1].path, undisturbed) /\ FreeWay(entries, stack[p][1].path) =>
              GoesMaking(p, undisturbed)
<1> DEFINE s == stack[p]
           n == Len(stack[p])
           t == entries
           P == stack[p][1].path
           top == F!Top(p)
           x == top.path
           u == F!AfterMkdir(x)
           r == F!MkdirResult(x)
           f == [top EXCEPT !.pc = "again"]
           g == F!Frame("makePath", F!Front(x))
<1>1. stack[p] # <<>> /\ top.op = "makePath" /\ entries' = u
  BY DEF F!MakePathMkdir, F!At, F!Becomes
<1>2. /\ r \in {"ok", "EEXIST"} => F!Returns(p)
      /\ r = "ENOENT" => stack' = [stack EXCEPT ![p] = Append(F!Front(stack[p]), f) \o <<g>>] /\ UNCHANGED returned
      /\ r = "ENOTDIR" => F!Ends(p, "false")
      /\ r \in {"ok", "EEXIST", "ENOENT", "ENOTDIR"}
  <2>1. r \in {"ok", "EEXIST", "ENOENT", "ENOTDIR"}
    BY DEF F!MkdirResult
  <2>2. CASE r \in {"ok", "EEXIST"}
    BY <2>1, <2>2 DEF F!MakePathMkdir
  <2>3. CASE r = "ENOENT"
    BY <2>1, <2>3 DEF F!MakePathMkdir, F!Push
  <2>4. CASE r = "ENOTDIR"
    BY <2>1, <2>4 DEF F!MakePathMkdir
  <2> QED BY <2>1, <2>2, <2>3, <2>4
<1>3. s \in Seq(Frames) /\ s # <<>> /\ n \in Nat \ {0} /\ top = s[n] /\ n = Len(s) /\ F!Front(s) \in Seq(Frames)
  BY <1>1, FrontOf
<1>4. /\ top \in Frames /\ top.path \in Paths
      /\ top = [op |-> top.op, path |-> top.path, pc |-> top.pc, dirs |-> top.dirs,
                files |-> top.files, names |-> top.names, n |-> top.n]
  BY <1>1, TopIs
<1>5. r = "ENOENT" => F!Front(x) # <<>>
  BY DEF F!MkdirResult, F!Exists
<1> HIDE DEF s, n, t, P, top, r, f, g
<1>6. ASSUME Making(t, s, P, undisturbed) PROVE Climbs(t, s, P, undisturbed) /\ P \in Paths
  <2>1. Making(t, s, s[1].path, undisturbed)
    BY <1>6 DEF s, P
  <2>2. s[n].op = s[1].op /\ s[1].path \in Paths
    BY <1>3, <2>1, KindIs
  <2>3. s[1].op = "makePath"
    BY <1>1, <1>3, <2>2
  <2>4. Climbs(t, s, s[1].path, undisturbed)
    BY <1>3, <2>1, <2>3, KindIs
  <2> QED BY <2>2, <2>4 DEF s, P
<1>7. CASE r \in {"ok", "EEXIST"}
  <2>1. StackMoves(p)
    BY <1>1, <1>2, <1>7, ReturnsMoves
  <2>2. ASSUME Making(t, s, P, undisturbed), FreeWay(t, P) PROVE GoesMaking(p, undisturbed)
    <3>1. Climbs(t, s, P, undisturbed) /\ FreeWay(t, P)
      BY <1>6, <2>2
    <3> QED BY <1>1, <1>2, <1>7, <3>1, PathIsThere DEF s, P, t, r, top
  <2> QED BY <2>1, <2>2 DEF s, P, t
<1>8. CASE r = "ENOENT"
  <2>1. F!Front(x) \in Paths
    BY <1>4, <1>5, <1>8, Fronts DEF Paths
  <2>2. g \in Frames /\ g.op = "makePath" /\ g.path = F!Front(x)
    BY <2>1, FrameIs DEF Ops, g
  <2>3. g.pc = "start"
    BY DEF g, F!Frame
  <2>4. f \in Frames /\ f.op = top.op /\ f.path = top.path /\ f.pc = "again" /\ f.files = top.files
    BY <1>4 DEF Frames, Pcs, f
  <2>5. Append(F!Front(s), f) \o <<g>> = Append(Append(F!Front(s), f), g)
    BY <1>3, <2>2, <2>4
  <2>6. stack' = [stack EXCEPT ![p] = Append(Append(F!Front(stack[p]), f), g)] /\ UNCHANGED returned
    BY <1>2, <1>8, <2>5 DEF s
  <2>7. Continues(p, f)
    BY <2>4 DEF Continues, top
  <2>8. StackMoves(p) /\ GoesOn(p) /\ Pushed(s, stack'[p], n, f, g)
    BY <1>1, <2>2, <2>4, <2>6, <2>7, PushMoves DEF s, n, top
  <2>9. ASSUME Making(t, s, P, undisturbed), FreeWay(t, P) PROVE Making(u, stack'[p], P, undisturbed)
    <3>1. Climbs(t, s, P, undisturbed) /\ P \in Paths
      BY <1>6, <2>9
    <3>2. /\ Len(P) + 1 - n \in 1..Len(P) /\ s[n].path = Beginning(P, Len(P) + 1 - n) /\ (Len(P) + 1 - n) - 1 = Len(P) - n
          /\ n <= Len(P) /\ Len(P) \in Nat
      BY <1>3, <3>1, RungIs
    <3>3. x = Beginning(P, Len(P) + 1 - n)
      BY <1>3, <3>2
    <3>4. ~F!IsDirIn(t, x) /\ Len(P) + 1 - n # 1 /\ F!Front(x) = Beginning(P, Len(P) - n)
      BY <1>8, <2>9, <3>1, <3>2, <3>3, MkdirOnTheWay DEF t, r
    <3>5. n < Len(P)
      BY <1>3, <3>2, <3>4
    <3>6. u = t
      BY <1>4, <1>8, MkdirSound DEF r, t
    <3>7. ~F!IsDirIn(t, s[n].path)
      BY <1>3, <3>4
    <3> HIDE DEF u, x
    <3>8. Climbs(t, stack'[p], P, undisturbed) /\ stack'[p][1].op = "makePath"
      BY <2>2, <2>3, <2>4, <2>8, <3>1, <3>4, <3>5, <3>7, ClimbsUp
    <3> QED BY <3>6, <3>8 DEF Making
  <2> QED BY <1>1, <2>8, <2>9 DEF GoesMaking, s, P, t
<1>9. CASE r = "ENOTDIR"
  <2>1. StackMoves(p)
    BY <1>1, <1>2, <1>9, EndsMoves
  <2>2. ASSUME Making(t, s, P, undisturbed), FreeWay(t, P) PROVE FALSE
    <3>1. Climbs(t, s, P, undisturbed) /\ P \in Paths
      BY <1>6, <2>2
    <3>2. Len(P) + 1 - n \in 1..Len(P) /\ s[n].path = Beginning(P, Len(P) + 1 - n)
      BY <1>3, <3>1, RungIs
    <3>3. r \in {"ok", "EEXIST", "ENOENT"}
      BY <1>3, <2>2, <3>1, <3>2, MkdirOnTheWay DEF t, r
    <3> QED BY <1>9, <3>3
  <2> QED BY <2>1, <2>2 DEF s, P, t
<1> QED BY <1>2, <1>7, <1>8, <1>9

LEMMA MakePathAgainGoes ==
  ASSUME DirsInv, CallsTyped, Sound(entries), NEW p \in Processes, F!MakePathAgain(p), NEW undisturbed \in BOOLEAN
  PROVE  /\ StackMoves(p)
         /\ Making(entries, stack[p], stack[p][1].path, undisturbed) /\ FreeWay(entries, stack[p][1].path) =>
              GoesMaking(p, undisturbed)
<1> DEFINE s == stack[p]
           n == Len(stack[p])
           t == entries
           P == stack[p][1].path
           top == F!Top(p)
           x == top.path
           u == F!AfterMkdir(x)
           r == F!MkdirResult(x)
<1>1. /\ stack[p] # <<>> /\ top.op = "makePath" /\ top.pc = "again" /\ entries' = u
      /\ IF r = "ok" THEN F!Returns(p) ELSE F!Ends(p, "false")
  BY DEF F!MakePathAgain, F!At, F!Becomes
<1>2. s \in Seq(Frames) /\ s # <<>> /\ n \in Nat \ {0} /\ top = s[n] /\ n = Len(s)
  BY <1>1, FrontOf
<1> HIDE DEF s, n, t, P, top, r
<1>3. ASSUME Making(t, s, P, undisturbed) PROVE Climbs(t, s, P, undisturbed) /\ P \in Paths /\ s[1].op = "makePath"
  <2>1. Making(t, s, s[1].path, undisturbed)
    BY <1>3 DEF s, P
  <2>2. s[n].op = s[1].op /\ s[1].path \in Paths
    BY <1>2, <2>1, KindIs
  <2>3. s[1].op = "makePath"
    BY <1>1, <1>2, <2>2
  <2>4. Climbs(t, s, s[1].path, undisturbed)
    BY <1>2, <2>1, <2>3, KindIs
  <2> QED BY <2>2, <2>3, <2>4 DEF s, P
<1>4. CASE r = "ok"
  <2>1. StackMoves(p)
    BY <1>1, <1>4, ReturnsMoves
  <2>2. ASSUME Making(t, s, P, undisturbed), FreeWay(t, P) PROVE GoesMaking(p, undisturbed)
    <3>1. Climbs(t, s, P, undisturbed) /\ FreeWay(t, P) /\ F!Returns(p) /\ r \in {"ok", "EEXIST"}
      BY <1>1, <1>3, <1>4, <2>2
    <3> QED BY <1>1, <3>1, PathIsThere DEF s, P, t, r, top
  <2> QED BY <2>1, <2>2 DEF s, P, t
<1>5. CASE r # "ok"
  <2>1. StackMoves(p) /\ IsOver(p, "false")
    BY <1>1, <1>5, EndsMoves
  <2>2. ASSUME Making(t, s, P, undisturbed), FreeWay(t, P) PROVE Made(u, s[1].op, P, "false", undisturbed)
    <3>1. Climbs(t, s, P, undisturbed) /\ P \in Paths
      BY <1>3, <2>2
    <3>2. /\ Len(P) + 1 - n \in 1..Len(P) /\ s[n].path = Beginning(P, Len(P) + 1 - n) /\ (Len(P) + 1 - n) - 1 = Len(P) - n
          /\ n <= Len(P) /\ Len(P) \in Nat /\ s[1].path = P /\ n \in 1..n /\ s[1].op = "makePath"
      BY <1>2, <3>1, RungIs
    <3>3. n < Len(P) /\ F!IsDirIn(t, Beginning(P, Len(P) - n))
      BY <1>1, <1>2, <3>1 DEF Climbs
    <3>4. x = Beginning(P, Len(P) + 1 - n) /\ x \in Paths
      BY <1>2, <3>1, <3>2, BeginningIs
    <3>5. r = "EEXIST" /\ F!IsDirIn(t, x)
      <4>1. F!IsDirIn(t, Beginning(P, (Len(P) + 1 - n) - 1))
        BY <3>2, <3>3
      <4> QED BY <1>5, <2>2, <3>1, <3>2, <3>4, <4>1, MkdirOnTheWay DEF t, r
    <3>6. ~undisturbed
      <4>1. s[n].pc = "again" /\ s[n].path = x /\ n \in 1..Len(s)
        BY <1>1, <1>2, <3>2
      <4> QED BY <3>1, <3>5, <4>1 DEF Climbs
    <3>7. u = t
      BY <1>5, <3>4, MkdirSound DEF r, t
    <3>8. CASE n = 1
      BY <1>2, <3>2, <3>5, <3>6, <3>7, <3>8 DEF Made
    <3>9. CASE n # 1
      <4>1. Len(P) > 2
        BY <1>2, <3>2, <3>3, <3>9
      <4> QED BY <3>2, <3>6, <4>1 DEF Made
    <3> QED BY <3>8, <3>9
  <2> QED BY <1>1, <2>1, <2>2 DEF GoesMaking, s, P, t
<1> QED BY <1>4, <1>5

LEMMA FileMoves ==
  ASSUME DirsInv, CallsTyped, NEW p \in Processes,
         F!RemoveFile(p) \/ F!SaveFileOpen(p) \/ F!SaveFileWrite(p) \/ F!LoadFile(p)
  PROVE  StackMoves(p)
<1>1. stack[p] # <<>>
  BY DEF F!RemoveFile, F!SaveFileOpen, F!SaveFileWrite, F!LoadFile, F!At
<1>2. F!Returns(p) \/ (\E outcome : F!Ends(p, outcome)) \/ (F!Goto(p, "write") /\ UNCHANGED returned)
  BY DEF F!RemoveFile, F!SaveFileOpen, F!SaveFileWrite, F!LoadFile, F!Throws
<1>3. "write" \in Pcs
  BY DEF Pcs
<1> QED BY <1>1, <1>2, <1>3, ReturnsMoves, EndsMoves, GotoTurns
-----------------------------------------------------------------------------
\* What holds of every call between two steps.
RemovesInv ==
  \A p \in Processes :
    /\ stack[p] # <<>> /\ alone[p] /\ stack[p][1].op = "removeDir" => Removal(entries, stack[p], before[p])
    /\ alone[p] /\ returned[p].op = "removeDir" => Ending(entries, before[p], returned[p].path, returned[p].outcome)

MayMake(p) == alone[p] \/ F!OnlyMaking(p)
Free(old, may, op, path) ==
  /\ op \in F!Making /\ may /\ ~F!Blocked(old, path)
  /\ op = "makeDir" => F!IsDirIn(old, F!Front(path))

MakesInv ==
  \A p \in Processes :
    /\ stack[p] # <<>> /\ Free(before[p], MayMake(p), stack[p][1].op, stack[p][1].path) =>
         Grown(entries, before[p]) /\ Making(entries, stack[p], stack[p][1].path, alone[p])
    /\ Free(before[p], MayMake(p), returned[p].op, returned[p].path) =>
         Grown(entries, before[p]) /\ Made(entries, returned[p].op, returned[p].path, returned[p].outcome, alone[p])

CallsKnown ==
  \A p \in Processes : /\ returned[p].path \in Seq(STRING)
                       /\ \A i \in 1..Len(stack[p]) : stack[p][i].op = stack[p][1].op
AllSound == Sound(entries) /\ \A p \in Processes : Sound(before[p])

WordInv == DirsInv /\ CallsTyped /\ CallsKnown /\ AllSound /\ RemovesInv /\ MakesInv

\* Every step, as far as all calls are concerned.
LEMMA StepIs ==
  ASSUME DirsInv, CallsTyped, CallsKnown, Sound(entries), NEW p \in Processes, F!Step(p)
  PROVE  /\ stack[p] # <<>> /\ UNCHANGED before /\ Sound(entries') /\ TreeMoves(p) /\ StackMoves(p)
         /\ TreeStep /\ StackStep(p)
         /\ F!Top(p).op = stack[p][1].op /\ stack[p][1].path \in Paths /\ F!Top(p).op # "none"
         /\ F!Top(p).op \in F!Making =>
              F!MakeDirStat(p) \/ F!MakeDirMkdir(p) \/ F!MakeDirRecursive(p) \/ F!MakePathMkdir(p) \/ F!MakePathAgain(p)
         /\ F!Top(p).op = "removeDir" => /\ \A o : Removal(entries, stack[p], o) => Goes(p, o)
<1>1. \/ F!MakeDirStat(p) \/ F!MakeDirMkdir(p) \/ F!MakeDirRecursive(p) \/ F!MakePathMkdir(p) \/ F!MakePathAgain(p)
      \/ F!RemoveDirExists(p) \/ F!ReadNames(p) \/ F!StatNames(p)
      \/ F!RemoveSubdirectory(p) \/ F!RemoveFileIn(p) \/ F!Rmdir(p)
      \/ F!RemoveFile(p) \/ F!SaveFileOpen(p) \/ F!SaveFileWrite(p) \/ F!LoadFile(p)
  BY DEF F!Step
<1>2. Sound(entries') /\ TreeMoves(p)
  BY StepsKeepSound
<1>3. stack[p] # <<>> /\ UNCHANGED before /\ TreeStep /\ StackStep(p)
  BY <1>1, MakingSteps, FileSteps, ReadingSteps, RemovingSteps DEF TreeStep
<1>4. StackMoves(p)
  <2>1. CASE F!MakeDirStat(p)
    BY <2>1, MakeDirStatGoes
  <2>2. CASE F!MakeDirMkdir(p)
    BY <2>2, MakeDirMkdirGoes
  <2>3. CASE F!MakeDirRecursive(p)
    BY <2>3, MakeDirRecursiveGoes
  <2>4. CASE F!MakePathMkdir(p)
    BY <2>4, MakePathMkdirGoes
  <2>5. CASE F!MakePathAgain(p)
    BY <2>5, MakePathAgainGoes
  <2>6. CASE F!RemoveDirExists(p)
    BY <2>6, RemoveDirExistsGoes
  <2>7. CASE F!ReadNames(p)
    BY <2>7, ReadNamesGoes
  <2>8. CASE F!StatNames(p)
    BY <2>8, StatNamesGoes
  <2>9. CASE F!RemoveSubdirectory(p)
    BY <2>9, RemoveSubdirectoryGoes
  <2>10. CASE F!RemoveFileIn(p)
    BY <2>10, RemoveFileInGoes
  <2>11. CASE F!Rmdir(p)
    BY <2>11, RmdirGoes
  <2>12. CASE F!RemoveFile(p) \/ F!SaveFileOpen(p) \/ F!SaveFileWrite(p) \/ F!LoadFile(p)
    BY <2>12, FileMoves
  <2> QED BY <1>1, <2>1, <2>2, <2>3, <2>4, <2>5, <2>6, <2>7, <2>8, <2>9, <2>10, <2>11, <2>12
<1>5. F!Top(p).op = stack[p][1].op /\ stack[p][1].path \in Paths
  <2>1. stack[p] \in Seq(Frames) /\ Len(stack[p]) \in Nat \ {0} /\ F!Top(p) = stack[p][Len(stack[p])]
    BY <1>3, FrontOf
  <2>2. 1 \in 1..Len(stack[p]) /\ Len(stack[p]) \in 1..Len(stack[p])
    BY <2>1
  <2> QED BY <2>1, <2>2, FrameTypes DEF CallsKnown
<1>6. /\ F!Top(p).op # "none"
      /\ F!Top(p).op \in F!Making =>
           F!MakeDirStat(p) \/ F!MakeDirMkdir(p) \/ F!MakeDirRecursive(p) \/ F!MakePathMkdir(p) \/ F!MakePathAgain(p)
  BY <1>1 DEF F!Making, F!At, F!MakeDirStat, F!MakeDirMkdir, F!MakeDirRecursive, F!MakePathMkdir, F!MakePathAgain,
     F!RemoveDirExists, F!ReadNames, F!StatNames, F!RemoveSubdirectory, F!RemoveFileIn, F!Rmdir,
     F!RemoveFile, F!SaveFileOpen, F!SaveFileWrite, F!LoadFile
<1>7. F!Top(p).op = "removeDir" => /\ \A o : Removal(entries, stack[p], o) => Goes(p, o)
  <2> SUFFICES ASSUME F!Top(p).op = "removeDir", NEW o PROVE Removal(entries, stack[p], o) => Goes(p, o)
    OBVIOUS
  <2>1. F!RemoveDirExists(p) \/ F!ReadNames(p) \/ F!StatNames(p) \/ F!RemoveSubdirectory(p) \/ F!RemoveFileIn(p) \/ F!Rmdir(p)
    BY <1>1, MakingSteps, FileSteps
  <2> QED BY <2>1, RemoveDirExistsGoes, ReadNamesGoes, StatNamesGoes, RemoveSubdirectoryGoes, RemoveFileInGoes, RmdirGoes
<1> QED BY <1>2, <1>3, <1>4, <1>5, <1>6, <1>7

\* A making step makes directories, or nothing.
LEMMA MakingGrows ==
  ASSUME DirsInv, Sound(entries), NEW p \in Processes,
         F!MakeDirStat(p) \/ F!MakeDirMkdir(p) \/ F!MakeDirRecursive(p) \/ F!MakePathMkdir(p) \/ F!MakePathAgain(p)
  PROVE  Grown(entries', entries)
<1> DEFINE top == F!Top(p)
<1>1. stack[p] # <<>>
  BY MakingSteps
<1>2. top \in Frames /\ top.path \in Paths
  BY <1>1, TopIs
<1>3. top.n \in 1..Len(top.path)
  BY <1>2 DEF Frames, Paths
<1>4. Beginning(top.path, top.n) \in Paths
  BY <1>2, <1>3, BeginningIs
<1>5. entries' = entries \/ entries' = F!AfterMkdir(top.path) \/ entries' = F!AfterMkdir(Beginning(top.path, top.n))
  BY DEF F!MakeDirStat, F!MakeDirMkdir, F!MakeDirRecursive, F!MakePathMkdir, F!MakePathAgain, F!Becomes, Beginning
<1>6. Grown(entries, entries)
  BY DEF Grown
<1> HIDE DEF top
<1> QED BY <1>2, <1>4, <1>5, <1>6, MkdirGrows

LEMMA MakingOn ==
  ASSUME NEW t, NEW u, Grown(u, t), NEW alone1 \in BOOLEAN, NEW alone2 \in BOOLEAN, alone2 => alone1 /\ u = t
  PROVE  /\ \A s \in Seq(Frames) : s # <<>> /\ Making(t, s, s[1].path, alone1) => Making(u, s, s[1].path, alone2)
         /\ \A path \in Seq(STRING) : \A op, outcome :
              Made(t, op, path, outcome, alone1) => Made(u, op, path, outcome, alone2)
<1>1. \A path \in Seq(STRING) : F!IsDirIn(t, path) => F!IsDirIn(u, path)
  BY GrownIs
<1>2. ASSUME NEW s \in Seq(Frames), s # <<>>, Making(t, s, s[1].path, alone1) PROVE Making(u, s, s[1].path, alone2)
  <2> DEFINE P == s[1].path
             n == Len(s)
  <2>1. /\ P \in Paths /\ s[1] \in Frames
        /\ s[1].op = "makePath" => Climbs(t, s, P, alone1)
        /\ s[1].op = "makeDir" => /\ n = 1 /\ F!IsDirIn(t, F!Front(P)) /\ (alone1 /\ s[1].pc = "mkdir" => ~F!IsDirIn(t, P))
        /\ s[1].op = "makeDirRecursive" => n = 1 /\ \A k \in 1..s[1].n - 1 : F!IsDirIn(t, Beginning(P, k))
    <3>1. 1 \in 1..Len(s)
      BY <1>2
    <3>2. s[1] \in Frames
      BY <3>1, FrameTypes
    <3> QED BY <1>2, <3>2, KindIs
  <2>2. CASE s[1].op = "makeDir"
    <3>1. F!Front(P) \in Seq(STRING)
      BY <2>1, FrontIs
    <3> QED BY <1>1, <2>1, <2>2, <3>1 DEF Making
  <2>3. CASE s[1].op = "makeDirRecursive"
    <3>1. ASSUME NEW k \in 1..s[1].n - 1 PROVE F!IsDirIn(u, Beginning(P, k))
      <4>1. k \in 1..Len(P)
        BY <2>1 DEF Frames, Paths
      <4>2. Beginning(P, k) \in Seq(STRING)
        BY <2>1, <4>1, BeginningIs DEF Paths
      <4> QED BY <1>1, <2>1, <2>3, <4>2
    <3> QED BY <2>1, <2>3, <3>1 DEF Making
  <2>4. CASE s[1].op = "makePath"
    <3>1. Climbs(t, s, P, alone1)
      BY <2>1, <2>4
    <3>2. s[n].pc = "again" => n < Len(P) /\ F!IsDirIn(u, Beginning(P, Len(P) - n))
      <4> SUFFICES ASSUME s[n].pc = "again" PROVE n < Len(P) /\ F!IsDirIn(u, Beginning(P, Len(P) - n))
        OBVIOUS
      <4>1. n < Len(P) /\ F!IsDirIn(t, Beginning(P, Len(P) - n))
        BY <3>1 DEF Climbs
      <4>2. Len(P) - n \in 1..Len(P)
        BY <2>1, <4>1 DEF Paths
      <4>3. Beginning(P, Len(P) - n) \in Seq(STRING)
        BY <2>1, <4>2, BeginningIs DEF Paths
      <4> QED BY <1>1, <4>1, <4>3
    <3> HIDE DEF P
    <3>3. Climbs(u, s, P, alone2)
      BY <3>1, <3>2 DEF Climbs
    <3> QED BY <2>4, <3>3 DEF Making, P
  <2> QED BY <1>2, <2>2, <2>3, <2>4 DEF Making
<1>3. ASSUME NEW path \in Seq(STRING), NEW op, NEW outcome, Made(t, op, path, outcome, alone1)
      PROVE  Made(u, op, path, outcome, alone2)
  BY <1>1, <1>3 DEF Made
<1> QED BY <1>2, <1>3
-----------------------------------------------------------------------------
\* The calls are over, or what they were.
LEMMA CallsStay ==
  ASSUME DirsInv, CallsTyped, CallsKnown, Sound(entries), NEW p \in Processes, F!Step(p)
  PROVE  /\ CallsTyped' /\ CallsKnown'
         /\ stack'[p] # <<>> => stack'[p][1].op = stack[p][1].op /\ stack'[p][1].path = stack[p][1].path
<1>1. /\ stack[p] # <<>> /\ TreeMoves(p) /\ StackMoves(p) /\ StackStep(p) /\ stack[p][1].path \in Paths
      /\ F!Top(p).op = stack[p][1].op
  BY StepIs
<1>2. PICK s : stack' = [stack EXCEPT ![p] = s] /\ NextStack(p, s)
  BY <1>1 DEF StackStep
<1>3. stack'[p] = s
  BY <1>2 DEF DirsInv, DirsTyped
<1>4. /\ s # <<>> => s[1].op = stack[p][1].op /\ s[1].path = stack[p][1].path
      /\ \A i \in 1..Len(s) : \E j \in 1..Len(stack[p]) : s[i].op = stack[p][j].op
      /\ s \in Seq(Frames)
  BY <1>1, <1>2, StackKept
<1>5. CallsTyped'
  <2>1. ASSUME NEW q \in Processes, stack'[q] # <<>> PROVE returned'[q] = F!Nothing
    BY <1>1, <2>1 DEF CallsTyped, StackMoves, GoesOn, IsOver
  <2> QED BY <1>1, <2>1 DEF CallsTyped, StackMoves, TreeMoves
<1>6. ASSUME NEW q \in Processes
      PROVE  returned'[q].path \in Seq(STRING) /\ \A i \in 1..Len(stack'[q]) : stack'[q][i].op = stack'[q][1].op
  <2>1. CASE q # p
    BY <1>1, <2>1 DEF CallsKnown, StackMoves
  <2>2. CASE q = p
    <3>1. returned'[p].path \in Seq(STRING)
      BY <1>1 DEF CallsKnown, StackMoves, GoesOn, IsOver, Paths
    <3>2. ASSUME NEW i \in 1..Len(s) PROVE s[i].op = s[1].op
      <4>1. s # <<>>
        BY <1>4
      <4> QED BY <1>4, <4>1 DEF CallsKnown
    <3> QED BY <1>3, <2>2, <3>1, <3>2
  <2> QED BY <2>1, <2>2
<1>7. CallsKnown'
  BY <1>6 DEF CallsKnown
<1> QED BY <1>3, <1>4, <1>5, <1>7

LEMMA RemovesStep ==
  ASSUME WordInv, NEW p \in Processes, F!Step(p)
  PROVE  RemovesInv'
<1>1. DirsInv /\ CallsTyped /\ CallsKnown /\ Sound(entries) /\ RemovesInv
  BY DEF WordInv, AllSound
<1>2. /\ stack[p] # <<>> /\ TreeMoves(p) /\ StackMoves(p) /\ UNCHANGED before /\ F!Top(p).op = stack[p][1].op
      /\ F!Top(p).op = "removeDir" => \A o : Removal(entries, stack[p], o) => Goes(p, o)
  BY <1>1, StepIs
<1>3. stack'[p] # <<>> => stack'[p][1].op = stack[p][1].op /\ stack'[p][1].path = stack[p][1].path
  BY <1>1, CallsStay
<1>4. returned[p].op = "none"
  BY <1>1, <1>2 DEF CallsTyped, F!Nothing
<1> SUFFICES ASSUME NEW q \in Processes
             PROVE  /\ stack'[q] # <<>> /\ alone'[q] /\ stack'[q][1].op = "removeDir" =>
                         Removal(entries', stack'[q], before'[q])
                    /\ alone'[q] /\ returned'[q].op = "removeDir" =>
                         Ending(entries', before'[q], returned'[q].path, returned'[q].outcome)
  BY DEF RemovesInv
<1>5. CASE q # p
  <2>1. stack'[q] = stack[q] /\ returned'[q] = returned[q] /\ before'[q] = before[q]
    BY <1>2, <1>5 DEF StackMoves
  <2>2. alone'[q] => alone[q] /\ entries' = entries
    BY <1>2, <1>5 DEF TreeMoves
  <2>3. /\ stack[q] # <<>> /\ alone[q] /\ stack[q][1].op = "removeDir" => Removal(entries, stack[q], before[q])
        /\ alone[q] /\ returned[q].op = "removeDir" => Ending(entries, before[q], returned[q].path, returned[q].outcome)
    BY <1>1 DEF RemovesInv
  <2> QED BY <2>1, <2>2, <2>3
<1>6. CASE q = p
  <2>1. alone'[p] => alone[p]
    BY <1>2 DEF TreeMoves
  <2>2. before'[p] = before[p]
    BY <1>2
  <2>3. alone'[p] /\ stack[p][1].op = "removeDir" => Goes(p, before[p])
    BY <1>1, <1>2, <2>1 DEF RemovesInv
  <2>4. CASE GoesOn(p)
    <3>1. stack'[p] # <<>> /\ returned'[p].op = "none"
      BY <1>4, <2>4 DEF GoesOn
    <3>2. ASSUME alone'[p], stack'[p][1].op = "removeDir" PROVE Removal(entries', stack'[p], before[p])
      <4>1. Goes(p, before[p])
        BY <1>3, <2>3, <3>1, <3>2
      <4> QED BY <3>1, <4>1 DEF Goes, IsOver
    <3> QED BY <1>6, <2>2, <3>1, <3>2
  <2>5. ASSUME NEW outcome, IsOver(p, outcome)
        PROVE  /\ stack'[p] = <<>>
               /\ alone'[p] /\ returned'[p].op = "removeDir" =>
                    Ending(entries', before[p], returned'[p].path, returned'[p].outcome)
    <3>1. stack'[p] = <<>>
      BY <2>5 DEF IsOver
    <3>2. returned'[p].op = stack[p][1].op /\ returned'[p].path = stack[p][1].path /\ returned'[p].outcome = outcome
      BY <2>5 DEF IsOver
    <3>3. ASSUME alone'[p], returned'[p].op = "removeDir" PROVE Ending(entries', before[p], stack[p][1].path, outcome)
      <4>1. Goes(p, before[p])
        BY <2>3, <3>2, <3>3
      <4>2. PICK other : IsOver(p, other) /\ Ending(entries', before[p], stack[p][1].path, other)
        BY <3>1, <4>1 DEF Goes, GoesOn
      <4>3. returned'[p].outcome = other
        BY <4>2 DEF IsOver
      <4> QED BY <3>2, <4>2, <4>3
    <3> QED BY <3>1, <3>2, <3>3
  <2>6. GoesOn(p) \/ \E outcome : IsOver(p, outcome)
    BY <1>2 DEF StackMoves
  <2> QED BY <1>6, <2>2, <2>4, <2>5, <2>6
<1> QED BY <1>5, <1>6

\* Who is free to make a directory was so before, and the file system has only grown.
LEMMA FreeBefore ==
  ASSUME WordInv, NEW p \in Processes, F!Step(p), NEW q \in Processes, alone'[q] \/ F!OnlyMaking(q)'
  PROVE  /\ alone[q] \/ F!OnlyMaking(q)
         /\ q # p => Grown(entries', entries)
<1>1. DirsInv /\ CallsTyped /\ CallsKnown /\ Sound(entries)
  BY DEF WordInv, AllSound
<1>2. /\ stack[p] # <<>> /\ TreeMoves(p) /\ StackMoves(p) /\ F!Top(p).op = stack[p][1].op /\ F!Top(p).op # "none"
      /\ F!Top(p).op \in F!Making =>
           F!MakeDirStat(p) \/ F!MakeDirMkdir(p) \/ F!MakeDirRecursive(p) \/ F!MakePathMkdir(p) \/ F!MakePathAgain(p)
  BY <1>1, StepIs
<1>3. stack'[p] # <<>> => stack'[p][1].op = stack[p][1].op
  BY <1>1, CallsStay
<1>4. CASE alone'[q]
  <2>1. alone[q] /\ (q # p => entries' = entries)
    BY <1>2, <1>4 DEF TreeMoves
  <2> QED BY <2>1 DEF Grown
<1>5. CASE F!OnlyMaking(q)'
  <2>1. \A r \in Processes \ {q} : /\ stack'[r] # <<>> => stack'[r][1].op \in F!Making
                                   /\ returned'[r].op \in F!Making \cup {"none"}
    BY <1>5 DEF F!OnlyMaking
  <2>2. p # q => stack[p][1].op \in F!Making /\ returned[p].op = "none"
    <3> SUFFICES ASSUME p # q PROVE stack[p][1].op \in F!Making
      BY <1>1, <1>2 DEF CallsTyped, F!Nothing
    <3>1. CASE GoesOn(p)
      BY <1>3, <2>1, <3>1 DEF GoesOn
    <3>2. ASSUME NEW outcome, IsOver(p, outcome) PROVE stack[p][1].op \in F!Making
      <4>1. returned'[p].op = stack[p][1].op
        BY <3>2 DEF IsOver
      <4> QED BY <1>2, <2>1, <4>1
    <3> QED BY <1>2, <3>1, <3>2 DEF StackMoves
  <2>3. ASSUME NEW r \in Processes \ {q}
        PROVE  (stack[r] # <<>> => stack[r][1].op \in F!Making) /\ returned[r].op \in F!Making \cup {"none"}
    <3>1. CASE r = p
      BY <2>2, <3>1
    <3>2. CASE r # p
      BY <1>2, <2>1, <3>2 DEF StackMoves
    <3> QED BY <3>1, <3>2
  <2>4. F!OnlyMaking(q)
    BY <2>3 DEF F!OnlyMaking
  <2>5. q # p => Grown(entries', entries)
    BY <1>1, <1>2, <2>2, MakingGrows
  <2> QED BY <2>4, <2>5
<1> QED BY <1>4, <1>5

LEMMA MakesStep ==
  ASSUME WordInv, NEW p \in Processes, F!Step(p), Free(before[p], MayMake(p), stack[p][1].op, stack[p][1].path)
  PROVE  Grown(entries', before[p]) /\ GoesMaking(p, alone'[p])
<1> DEFINE s == stack[p]
           P == stack[p][1].path
<1>1. DirsInv /\ CallsTyped /\ CallsKnown /\ Sound(entries) /\ MakesInv
  BY DEF WordInv, AllSound
<1>2. /\ stack[p] # <<>> /\ TreeMoves(p) /\ F!Top(p).op = stack[p][1].op /\ P \in Paths
      /\ F!Top(p).op \in F!Making =>
           F!MakeDirStat(p) \/ F!MakeDirMkdir(p) \/ F!MakeDirRecursive(p) \/ F!MakePathMkdir(p) \/ F!MakePathAgain(p)
  BY <1>1, StepIs
<1>3. F!Top(p).op \in F!Making /\ ~F!Blocked(before[p], P)
  BY <1>2 DEF Free
<1>4. Grown(entries, before[p]) /\ Making(entries, s, P, alone[p])
  BY <1>1, <1>2 DEF MakesInv
<1>5. Grown(entries', entries)
  BY <1>1, <1>2, <1>3, MakingGrows
<1>6. Grown(entries', before[p])
  BY <1>4, <1>5, GrownOn
<1>7. alone[p] \in BOOLEAN /\ alone'[p] \in BOOLEAN /\ (alone'[p] => alone[p])
  BY <1>1, <1>2 DEF CallsTyped, TreeMoves
<1>8. Making(entries, s, P, alone'[p])
  <2>1. Grown(entries, entries)
    BY DEF Grown
  <2>2. s \in Seq(Frames) /\ s # <<>>
    BY <1>1, <1>2 DEF DirsInv, DirsTyped
  <2> QED BY <1>4, <1>7, <2>1, <2>2, MakingOn
<1>9. FreeWay(entries, P)
  BY <1>1, <1>2, <1>3, <1>4, FreeWayIs
<1>10. GoesMaking(p, alone'[p])
  BY <1>1, <1>2, <1>3, <1>7, <1>8, <1>9,
     MakeDirStatGoes, MakeDirMkdirGoes, MakeDirRecursiveGoes, MakePathMkdirGoes, MakePathAgainGoes
<1> QED BY <1>6, <1>10
-----------------------------------------------------------------------------
LEMMA MakesKept ==
  ASSUME WordInv, NEW p \in Processes, F!Step(p)
  PROVE  MakesInv'
<1>1. DirsInv /\ CallsTyped /\ CallsKnown /\ Sound(entries) /\ MakesInv
  BY DEF WordInv, AllSound
<1>2. stack[p] # <<>> /\ TreeMoves(p) /\ StackMoves(p) /\ UNCHANGED before
  BY <1>1, StepIs
<1>3. stack'[p] # <<>> => stack'[p][1].op = stack[p][1].op /\ stack'[p][1].path = stack[p][1].path
  BY <1>1, CallsStay
<1>4. returned[p].op = "none"
  BY <1>1, <1>2 DEF CallsTyped, F!Nothing
<1>5. ASSUME NEW q \in Processes, NEW op, NEW path, Free(before'[q], MayMake(q)', op, path)
      PROVE  Free(before[q], MayMake(q), op, path) /\ (q # p => Grown(entries', entries)) /\ op \in F!Making
  <2>1. op \in F!Making /\ (alone'[q] \/ F!OnlyMaking(q)') /\ ~F!Blocked(before[q], path)
        /\ (op = "makeDir" => F!IsDirIn(before[q], F!Front(path)))
    BY <1>2, <1>5 DEF Free, MayMake
  <2>2. (alone[q] \/ F!OnlyMaking(q)) /\ (q # p => Grown(entries', entries))
    BY <2>1, FreeBefore
  <2> QED BY <2>1, <2>2 DEF Free, MayMake
<1> SUFFICES ASSUME NEW q \in Processes
             PROVE  /\ stack'[q] # <<>> /\ Free(before'[q], MayMake(q)', stack'[q][1].op, stack'[q][1].path) =>
                         Grown(entries', before'[q]) /\ Making(entries', stack'[q], stack'[q][1].path, alone'[q])
                    /\ Free(before'[q], MayMake(q)', returned'[q].op, returned'[q].path) =>
                         Grown(entries', before'[q])
                           /\ Made(entries', returned'[q].op, returned'[q].path, returned'[q].outcome, alone'[q])
  BY DEF MakesInv
<1>6. CASE q # p
  <2>1. stack'[q] = stack[q] /\ returned'[q] = returned[q] /\ before'[q] = before[q]
    BY <1>2, <1>6 DEF StackMoves
  <2>2. alone[q] \in BOOLEAN /\ alone'[q] \in BOOLEAN /\ (alone'[q] => alone[q] /\ entries' = entries)
    BY <1>1, <1>2, <1>6 DEF CallsTyped, TreeMoves
  <2>3. stack[q] \in Seq(Frames) /\ returned[q].path \in Seq(STRING)
    BY <1>1 DEF DirsInv, DirsTyped, CallsKnown
  <2>4. /\ stack[q] # <<>> /\ Free(before[q], MayMake(q), stack[q][1].op, stack[q][1].path) =>
             Grown(entries, before[q]) /\ Making(entries, stack[q], stack[q][1].path, alone[q])
        /\ Free(before[q], MayMake(q), returned[q].op, returned[q].path) =>
             Grown(entries, before[q]) /\ Made(entries, returned[q].op, returned[q].path, returned[q].outcome, alone[q])
    BY <1>1 DEF MakesInv
  <2>5. ASSUME stack[q] # <<>>, Free(before'[q], MayMake(q)', stack'[q][1].op, stack'[q][1].path)
        PROVE  Grown(entries', before[q]) /\ Making(entries', stack[q], stack[q][1].path, alone'[q])
    <3>1. Free(before'[q], MayMake(q)', stack[q][1].op, stack[q][1].path)
      BY <2>1, <2>5
    <3>2. Free(before[q], MayMake(q), stack[q][1].op, stack[q][1].path) /\ Grown(entries', entries)
      BY <1>5, <1>6, <3>1
    <3>3. Grown(entries, before[q]) /\ Making(entries, stack[q], stack[q][1].path, alone[q])
      BY <2>4, <2>5, <3>2
    <3> QED BY <2>2, <2>3, <2>5, <3>2, <3>3, MakingOn, GrownOn
  <2>6. ASSUME Free(before'[q], MayMake(q)', returned'[q].op, returned'[q].path)
        PROVE  Grown(entries', before[q]) /\ Made(entries', returned[q].op, returned[q].path, returned[q].outcome, alone'[q])
    <3>1. Free(before[q], MayMake(q), returned[q].op, returned[q].path) /\ Grown(entries', entries)
      BY <1>5, <1>6, <2>1, <2>6
    <3>2. Grown(entries, before[q]) /\ Made(entries, returned[q].op, returned[q].path, returned[q].outcome, alone[q])
      BY <2>4, <3>1
    <3> QED BY <2>2, <2>3, <3>1, <3>2, MakingOn, GrownOn
  <2> QED BY <2>1, <2>5, <2>6
<1>7. CASE q = p
  <2>1. CASE GoesOn(p)
    <3>1. stack'[p] # <<>> /\ returned'[p].op = "none"
      BY <1>4, <2>1 DEF GoesOn
    <3>2. ~Free(before'[p], MayMake(p)', returned'[p].op, returned'[p].path)
      BY <3>1 DEF Free, F!Making
    <3>3. ASSUME Free(before'[p], MayMake(p)', stack'[p][1].op, stack'[p][1].path)
          PROVE  Grown(entries', before'[p]) /\ Making(entries', stack'[p], stack'[p][1].path, alone'[p])
      <4>1. Free(before[p], MayMake(p), stack[p][1].op, stack[p][1].path)
        BY <1>3, <1>5, <3>1, <3>3
      <4>2. Grown(entries', before[p]) /\ GoesMaking(p, alone'[p])
        BY <4>1, MakesStep
      <4>3. Making(entries', stack'[p], stack[p][1].path, alone'[p])
        BY <3>1, <4>2 DEF GoesMaking, IsOver
      <4> QED BY <1>2, <1>3, <3>1, <4>2, <4>3
    <3> QED BY <1>7, <3>2, <3>3
  <2>2. ASSUME NEW outcome, IsOver(p, outcome)
        PROVE  /\ stack'[p] = <<>>
               /\ Free(before'[p], MayMake(p)', returned'[p].op, returned'[p].path) =>
                    Grown(entries', before'[p])
                      /\ Made(entries', returned'[p].op, returned'[p].path, returned'[p].outcome, alone'[p])
    <3>1. stack'[p] = <<>>
      BY <2>2 DEF IsOver
    <3>2. returned'[p].op = stack[p][1].op /\ returned'[p].path = stack[p][1].path
      BY <2>2 DEF IsOver
    <3>3. ASSUME Free(before'[p], MayMake(p)', returned'[p].op, returned'[p].path)
          PROVE  Grown(entries', before'[p])
                   /\ Made(entries', returned'[p].op, returned'[p].path, returned'[p].outcome, alone'[p])
      <4>1. Free(before[p], MayMake(p), stack[p][1].op, stack[p][1].path)
        BY <1>5, <3>2, <3>3
      <4>2. Grown(entries', before[p]) /\ GoesMaking(p, alone'[p])
        BY <4>1, MakesStep
      <4>3. PICK other : /\ IsOver(p, other)
                         /\ Made(entries', stack[p][1].op, stack[p][1].path, other, alone'[p])
        BY <3>1, <4>2 DEF GoesMaking, GoesOn
      <4>4. returned'[p].outcome = other
        BY <4>3 DEF IsOver
      <4> QED BY <1>2, <3>2, <4>2, <4>3, <4>4
    <3> QED BY <3>1, <3>3
  <2>3. GoesOn(p) \/ \E outcome : IsOver(p, outcome)
    BY <1>2 DEF StackMoves
  <2> QED BY <1>7, <2>1, <2>2, <2>3
<1> QED BY <1>6, <1>7

\* A new call has everything before it.
LEMMA CallsBegin ==
  ASSUME WordInv, NEW p \in Processes, NEW call \in Calls, F!Call(p, call.op, call.path)
  PROVE  WordInv'
<1> DEFINE f == F!Frame(call.op, call.path)
           t == entries
<1>1. /\ DirsInv /\ CallsTyped /\ CallsKnown /\ Sound(t) /\ RemovesInv /\ MakesInv
      /\ \A q \in Processes : Sound(before[q])
  BY DEF WordInv, AllSound
<1>2. /\ stack[p] = <<>> /\ returned[p] = F!Nothing /\ stack' = [stack EXCEPT ![p] = <<f>>]
      /\ alone' = [alone EXCEPT ![p] = TRUE] /\ before' = [before EXCEPT ![p] = t]
      /\ entries' = t /\ returned' = returned
  BY DEF F!Call
<1>3. f \in Frames /\ f.path \in Paths
  BY FrameIs, TreesAssumption DEF Ops
<1>4. f.pc = "start" /\ NoLists(f) /\ f.n = 1 /\ f.dirs = <<>> /\ f.files = <<>>
  BY DEF F!Frame, NoLists
<1> HIDE DEF f, t
<1>5. /\ <<f>> \in Seq(Frames) /\ Len(<<f>>) = 1 /\ <<f>>[1] = f
      /\ stack'[p] = <<f>> /\ alone'[p] = TRUE /\ before'[p] = t
      /\ \A q \in Processes : q # p => stack'[q] = stack[q] /\ alone'[q] = alone[q] /\ before'[q] = before[q]
      /\ alone' \in [Processes -> BOOLEAN]
  BY <1>1, <1>2, <1>3 DEF DirsInv, DirsTyped, CallsTyped
<1> DEFINE s == <<f>>
<1>6. s \in Seq(Frames) /\ Len(s) = 1 /\ s[1] = f /\ stack'[p] = s /\ s # <<>>
  BY <1>5
<1> HIDE DEF s
<1>7. DirsInv'
  BY <1>1, CallKeeps
<1>8. CallsTyped'
  BY <1>1, <1>2, <1>5 DEF CallsTyped
<1>9. CallsKnown'
  <2>1. \A i \in 1..1 : i = 1
    BY OnlyOne
  <2> QED BY <1>1, <1>2, <1>5, <1>6, <2>1 DEF CallsKnown
<1>10. AllSound'
  BY <1>1, <1>2, <1>5 DEF AllSound, t
<1>11. RemovesInv'
  <2>1. f.op = "removeDir" => Removal(t, s, t)
    <3> SUFFICES ASSUME f.op = "removeDir" PROVE Removal(t, s, t)
      OBVIOUS
    <3>1. \A i \in 1..Len(s) : i = 1
      BY <1>6, OnlyOne
    <3>2. \A i \in 1..Len(s) : s[i] = f /\ ~(i < Len(s)) /\ ~(i > 1)
      BY <1>6, <3>1
    <3>3. Chained(s)
      BY <3>2 DEF Chained
    <3>4. Fresh(s)
      BY <1>4, <3>2 DEF Fresh
    <3>5. PlainFiles(t, s)
      BY <1>4, <3>2 DEF PlainFiles
    <3>6. ~Entered(s, 1)
      BY <1>4, <1>6 DEF Entered
    <3> QED BY <3>3, <3>4, <3>5, <3>6 DEF Removal, Shrunk
  <2>2. returned[p].op # "removeDir"
    BY <1>2 DEF F!Nothing
  <2> SUFFICES ASSUME NEW q \in Processes
               PROVE  /\ stack'[q] # <<>> /\ alone'[q] /\ stack'[q][1].op = "removeDir" =>
                           Removal(t, stack'[q], before'[q])
                      /\ alone'[q] /\ returned[q].op = "removeDir" =>
                           Ending(t, before'[q], returned[q].path, returned[q].outcome)
    BY <1>2 DEF RemovesInv
  <2>3. CASE q = p
    BY <1>5, <1>6, <2>1, <2>2, <2>3
  <2>4. CASE q # p
    BY <1>1, <1>5, <2>4 DEF RemovesInv, t
  <2> QED BY <2>3, <2>4
<1>12. MakesInv'
  <2>1. ASSUME Free(before'[p], MayMake(p)', f.op, f.path) PROVE Grown(t, t) /\ Making(t, s, f.path, TRUE)
    <3>1. f.op \in F!Making /\ (f.op = "makeDir" => F!IsDirIn(t, F!Front(f.path)))
      BY <1>5, <2>1 DEF Free
    <3>2. Climbs(t, s, f.path, TRUE) \/ f.op # "makePath"
      <4> SUFFICES ASSUME f.op = "makePath" PROVE Climbs(t, s, f.path, TRUE)
        OBVIOUS
      <4>1. \A i \in 1..Len(s) : i = 1
        BY <1>6, OnlyOne
      <4>2. Len(f.path) \in Nat \ {0} /\ Len(f.path) + 1 - 1 = Len(f.path) /\ Len(f.path) \in 1..Len(f.path) /\ 1 <= Len(f.path)
        BY <1>3 DEF Paths
      <4>3. Beginning(f.path, Len(f.path)) = f.path
        BY <1>3, <4>2, BeginningIs
      <4>4. \A i \in 1..Len(s) : s[i] = f /\ i = 1 /\ ~(i < Len(s))
        BY <1>6, <4>1
      <4> QED BY <1>4, <1>6, <4>2, <4>3, <4>4 DEF Climbs
    <3>3. \A k \in 1..f.n - 1 : F!IsDirIn(t, Beginning(f.path, k))
      BY <1>4
    <3> QED BY <1>4, <1>6, <3>1, <3>2, <3>3 DEF F!Making, Making, Grown
  <2>2. ASSUME NEW q \in Processes, q # p, NEW op, NEW path, Free(before'[q], MayMake(q)', op, path) PROVE Free(before[q], MayMake(q), op, path)
    <3>1. alone'[q] = alone[q] /\ before'[q] = before[q]
      BY <1>5, <2>2
    <3>2. F!OnlyMaking(q)' => F!OnlyMaking(q)
      BY <1>2, <1>5 DEF F!OnlyMaking
    <3> QED BY <2>2, <3>1, <3>2 DEF Free, MayMake
  <2>3. ~Free(before'[p], MayMake(p)', returned'[p].op, returned'[p].path)
    BY <1>2 DEF F!Nothing, Free, F!Making
  <2> SUFFICES ASSUME NEW q \in Processes
               PROVE  /\ stack'[q] # <<>> /\ Free(before'[q], MayMake(q)', stack'[q][1].op, stack'[q][1].path) =>
                           Grown(entries', before'[q]) /\ Making(entries', stack'[q], stack'[q][1].path, alone'[q])
                      /\ Free(before'[q], MayMake(q)', returned'[q].op, returned'[q].path) =>
                           Grown(entries', before'[q])
                             /\ Made(entries', returned'[q].op, returned'[q].path, returned'[q].outcome, alone'[q])
    BY DEF MakesInv
  <2>4. CASE q = p
    <3>1. Free(before'[p], MayMake(p)', stack'[p][1].op, stack'[p][1].path) => Free(before'[p], MayMake(p)', f.op, f.path)
      BY <1>6
    <3> QED BY <1>2, <1>5, <1>6, <2>1, <2>3, <2>4, <3>1
  <2>5. CASE q # p
    <3>1. stack'[q] = stack[q] /\ returned'[q] = returned[q] /\ before'[q] = before[q] /\ alone'[q] = alone[q] /\ entries' = entries
      BY <1>2, <1>5, <2>5 DEF t
    <3>2. Free(before'[q], MayMake(q)', stack'[q][1].op, stack'[q][1].path) => Free(before[q], MayMake(q), stack[q][1].op, stack[q][1].path)
      BY <2>2, <2>5, <3>1
    <3>3. Free(before'[q], MayMake(q)', returned'[q].op, returned'[q].path) => Free(before[q], MayMake(q), returned[q].op, returned[q].path)
      BY <2>2, <2>5, <3>1
    <3> QED BY <1>1, <3>1, <3>2, <3>3 DEF MakesInv
  <2> QED BY <2>4, <2>5
<1> QED BY <1>7, <1>8, <1>9, <1>10, <1>11, <1>12 DEF WordInv
-----------------------------------------------------------------------------
\* In the beginning nothing is called, and nothing has been said.
LEMMA NothingIsSaid == F!Init => WordInv
<1> SUFFICES ASSUME F!Init PROVE WordInv
  OBVIOUS
<1>1. /\ entries \in Trees /\ stack = [p \in Processes |-> <<>>] /\ returned = [p \in Processes |-> F!Nothing]
      /\ alone = [p \in Processes |-> TRUE] /\ before = [p \in Processes |-> entries]
  BY DEF F!Init
<1>2. DirsInv
  BY DirsInit
<1>3. \A p \in Processes : stack[p] = <<>> /\ returned[p] = F!Nothing /\ before[p] = entries
  BY <1>1
<1>4. CallsTyped
  BY <1>1 DEF CallsTyped
<1>5. F!Nothing.path = <<>> /\ F!Nothing.op = "none"
  BY DEF F!Nothing
<1>6. CallsKnown
  <2>1. <<>> \in Seq(STRING) /\ \A s : s = <<>> => \A i \in 1..Len(s) : FALSE
    OBVIOUS
  <2> QED BY <1>3, <1>5, <2>1 DEF CallsKnown
<1>7. AllSound
  BY <1>1, <1>3, TreesAssumption DEF AllSound, Sound
<1>8. RemovesInv
  BY <1>3, <1>5 DEF RemovesInv
<1>9. MakesInv
  BY <1>3, <1>5 DEF MakesInv, Free, F!Making
<1> QED BY <1>2, <1>4, <1>6, <1>7, <1>8, <1>9 DEF WordInv

LEMMA WordStep == WordInv /\ [F!Next]_(F!vars) => WordInv'
<1> SUFFICES ASSUME WordInv, [F!Next]_(F!vars) PROVE WordInv'
  OBVIOUS
<1>1. ASSUME NEW p \in Processes, F!Step(p) PROVE WordInv'
  <2>1. DirsInv /\ CallsTyped /\ CallsKnown /\ Sound(entries) /\ \A q \in Processes : Sound(before[q])
    BY DEF WordInv, AllSound
  <2>2. UNCHANGED before /\ Sound(entries')
    BY <1>1, <2>1, StepIs
  <2>3. DirsInv'
    BY <1>1, <2>1, DirsStep DEF F!Next
  <2>4. CallsTyped' /\ CallsKnown'
    BY <1>1, <2>1, CallsStay
  <2>5. AllSound'
    BY <2>1, <2>2 DEF AllSound
  <2>6. RemovesInv'
    BY <1>1, RemovesStep
  <2>7. MakesInv'
    BY <1>1, MakesKept
  <2> QED BY <2>3, <2>4, <2>5, <2>6, <2>7 DEF WordInv
<1>2. ASSUME NEW p \in Processes, NEW call \in Calls, F!Call(p, call.op, call.path) PROVE WordInv'
  BY <1>2, CallsBegin
<1>3. CASE UNCHANGED F!vars
  <2>1. UNCHANGED <<entries, stack, returned, alone, before>>
    BY <1>3 DEF F!vars
  <2>2. DirsInv'
    BY <1>3, DirsStep DEF WordInv
  <2>3. CallsTyped' /\ CallsKnown'
    BY <2>1 DEF WordInv, CallsTyped, CallsKnown
  <2>4. AllSound'
    BY <2>1 DEF WordInv, AllSound
  <2>5. RemovesInv'
    BY <2>1 DEF WordInv, RemovesInv
  <2>6. \A p : MayMake(p)' = MayMake(p)
    BY <2>1 DEF MayMake, F!OnlyMaking
  <2>7. MakesInv'
    BY <2>1, <2>6 DEF WordInv, MakesInv
  <2> QED BY <2>2, <2>3, <2>4, <2>5, <2>7 DEF WordInv
<1> QED BY <1>1, <1>2, <1>3 DEF F!Next

\* What is said in the end is what the property asks for.
LEMMA WordIsKept == WordInv => DirCallsKeepTheirWord
<1> SUFFICES ASSUME WordInv PROVE DirCallsKeepTheirWord
  OBVIOUS
<1>1. RemovesInv /\ MakesInv
  BY DEF WordInv
<1>2. F!RemoveDirIsThorough
  <2> SUFFICES ASSUME NEW p \in Processes, alone[p], returned[p].op = "removeDir"
               PROVE  LET place == F!NamedIn(before[p], returned[p].path)
                          below == F!Below(place, before[p])
                          awkward == {e \in below : F!Last(e) \in Hidden \/ before[p][e] = "link"}
                      IN  IF returned[p].outcome = "throws" THEN awkward # {}
                          ELSE IF place \in below /\ before[p][place] = "dir"
                            THEN entries = [e \in DOMAIN before[p] \ below |-> before[p][e]]
                          ELSE entries = before[p]
    BY DEF F!RemoveDirIsThorough
  <2>1. Ending(entries, before[p], returned[p].path, returned[p].outcome)
    BY <1>1 DEF RemovesInv
  <2> QED BY <2>1 DEF Ending
<1>3. F!PathsAreMade
  <2> SUFFICES ASSUME NEW p \in Processes, returned[p].op \in F!Making, alone[p] \/ F!OnlyMaking(p),
                      ~F!Blocked(before[p], returned[p].path),
                      returned[p].op = "makeDir" => F!IsDirIn(before[p], F!Front(returned[p].path))
               PROVE  /\ alone[p] => returned[p].outcome = "ok"
                      /\ \/ F!IsDir(returned[p].path)
                         \/ /\ returned[p].op = "makePath" /\ Len(returned[p].path) > 2
                            /\ returned[p].outcome = "false"
    BY DEF F!PathsAreMade
  <2>1. Free(before[p], MayMake(p), returned[p].op, returned[p].path)
    BY DEF Free, MayMake
  <2>2. Made(entries, returned[p].op, returned[p].path, returned[p].outcome, alone[p])
    BY <1>1, <2>1 DEF MakesInv
  <2> QED BY <2>2 DEF Made, F!IsDir
<1> QED BY <1>2, <1>3 DEF DirCallsKeepTheirWord

\* removeDir, makeDir, makePath and makeDirRecursive do what they say: removeDir,
\* undisturbed, leaves nothing of its directory and touches nothing else, or has met
\* what it cannot remove; and the directory that was to be made is there, though
\* others make directories at the same time (gaia_dir.cpp:186-330).
THEOREM DirCallsDoAsTheySay == F!Spec => []DirCallsKeepTheirWord
<1>1. F!Init => WordInv
  BY NothingIsSaid
<1>2. WordInv /\ [F!Next]_(F!vars) => WordInv'
  BY WordStep
<1>3. WordInv => DirCallsKeepTheirWord
  BY WordIsKept
<1> QED BY <1>1, <1>2, <1>3, PTL DEF F!Spec
=============================================================================
