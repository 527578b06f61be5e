------------------------- MODULE Components_proofs -------------------------
(***************************************************************************)
(* The components that stand alone.  The queue, for every size, every      *)
(* finite set of consumers and any number of pushes: its invariants, and   *)
(* that it implements LossyChannel.  The VSLAM adapters, for every number  *)
(* of systems they make.  The object detection adapter, for every size of  *)
(* picture and of network input and wherever the network sees an object.   *)
(* The clock, whatever the width of its words, the epoch and the settings  *)
(* are: it tells one time and does not go back.  The log hides nothing     *)
(* that is wanted, and the parser of the arguments takes just what its     *)
(* usage says.  Octet strings and texts of every length, for octets of any *)
(* number of bits that four divides: codings and edits are undone, shifts  *)
(* move the number, orders and hashes tell strings apart, and the parts of *)
(* a text make the text.                                                   *)
(***************************************************************************)
EXTENDS EventQueue, VslamAdapter, ObjectDetector, StringsClockAndStartup, CommonLemmas
-----------------------------------------------------------------------------
\* An event that is neither in the queue nor taken is an old one.
Queued == IsNewest(queue_, pushed) /\ Len(queue_) <= MaxSize

\* The inductive invariant.
IInv == TypeOK /\ Queued /\ OnlyStaleEventsLost /\ NoLostWakeup

LEMMA QueuedIsSuffix == TypeOK => (Queued <=> QueueIsNewestSuffix)
<1>1. SUFFICES ASSUME TypeOK PROVE Queued <=> QueueIsNewestSuffix
  OBVIOUS
<1>2. queue_ \in Seq(Nat) /\ pushed \in Nat
  BY <1>1 DEF TypeOK
<1>3. CASE Len(queue_) <= pushed
  BY <1>2, <1>3, NewestForm DEF Queued, QueueIsNewestSuffix
<1>4. CASE ~(Len(queue_) <= pushed)
  BY <1>4 DEF Queued, QueueIsNewestSuffix, IsNewest
<1>5. QED
  BY <1>3, <1>4

LEMMA InitIInv == Init => IInv
<1>1. SUFFICES ASSUME Init PROVE IInv
  OBVIOUS
<1>2. TypeOK
  BY <1>1, EmptySeq DEF Init, TypeOK
<1>3. Queued
  BY <1>1, EmptySeq, MaxSizeAssumption DEF Init, Queued, IsNewest
<1>4. OnlyStaleEventsLost /\ NoLostWakeup
  BY <1>1 DEF Init, OnlyStaleEventsLost, NoLostWakeup
<1>5. QED
  BY <1>2, <1>3, <1>4 DEF IInv

\* The sets of blocked and notified consumers stay finite, so that they can be
\* counted.
LEMMA WokenFinite ==
  ASSUME woken \in SUBSET Consumers
  PROVE  IsFiniteSet(woken) /\ Cardinality(woken) \in Nat
BY ConsumersAssumption, FS_Subset, FS_CardinalityType

\* notify_one adds a notified consumer unless nobody is blocked.
LEMMA NotifyCounts ==
  ASSUME TypeOK, NotifyOne
  PROVE  /\ waiting' \in SUBSET Consumers
         /\ woken' \in SUBSET (Consumers \ waiting')
         /\ waiting # {} => Cardinality(woken') = Cardinality(woken) + 1
         /\ waiting = {} => waiting' = {}
<1>1. waiting \in SUBSET Consumers /\ woken \in SUBSET (Consumers \ waiting)
  BY DEF TypeOK
<1>2. CASE waiting = {} /\ UNCHANGED <<waiting, woken>>
  BY <1>1, <1>2
<1>3. ASSUME NEW c \in waiting, waiting' = waiting \ {c}, woken' = woken \cup {c}
      PROVE  /\ waiting' \in SUBSET Consumers
             /\ woken' \in SUBSET (Consumers \ waiting')
             /\ Cardinality(woken') = Cardinality(woken) + 1
  <2>1. IsFiniteSet(woken) /\ c \notin woken
    BY <1>1, WokenFinite
  <2>2. Cardinality(woken \cup {c}) = Cardinality(woken) + 1
    BY <2>1, FS_AddElement
  <2>3. QED
    BY <1>1, <1>3, <2>2
<1>4. QED
  BY <1>2, <1>3 DEF NotifyOne

\* What a push does to the queue: one event more, or the oldest replaced.
LEMMA PushQueued ==
  ASSUME TypeOK, Queued, Push
  PROVE  /\ Queued' /\ queue_' \in Seq(Nat) /\ pushed' = pushed + 1
         /\ Len(queue_) \in Nat /\ Len(queue_)  <= MaxSize
         /\ Len(queue_') = IF Len(queue_) = MaxSize THEN Len(queue_) ELSE Len(queue_) + 1
         /\ Contents = (pushed - Len(queue_) + 1)..pushed
         /\ Contents' = (pushed - Len(queue_') + 2)..(pushed + 1)
<1>1. /\ pushed \in Nat /\ pushed' = pushed + 1 /\ queue_ \in Seq(Nat)
      /\ queue_' = PushTo(queue_, pushed + 1, MaxSize)
      /\ IsNewest(queue_, pushed) /\ Len(queue_) <= MaxSize
  BY DEF TypeOK, Queued, Push
<1>2. Len(queue_) \in Nat
  BY <1>1, LenProperties
<1>3. /\ IsNewest(queue_', pushed + 1)
      /\ Len(queue_') = IF Len(queue_) >= MaxSize THEN Len(queue_) ELSE Len(queue_) + 1
  BY <1>1, MaxSizeAssumption, PushKeepsNewest
<1>4. Len(queue_') = IF Len(queue_) = MaxSize THEN Len(queue_) ELSE Len(queue_) + 1
  BY <1>1, <1>2, <1>3, MaxSizeAssumption
<1>5. Len(queue_') <= MaxSize
  BY <1>1, <1>2, <1>4, MaxSizeAssumption
<1>6. Contents = (pushed - Len(queue_) + 1)..pushed
  BY <1>1, NewestIsInterval DEF Contents, Items
<1>7. Contents' = (pushed + 1 - Len(queue_') + 1)..(pushed + 1)
  <2>1. PICK n \in Nat : n = pushed + 1
    BY <1>1
  <2>2. IsNewest(queue_', n)
    BY <1>3, <2>1
  <2>3. Items(queue_') = (n - Len(queue_') + 1)..n
    BY <2>2, NewestIsInterval
  <2>4. Contents' = Items(queue_')
    BY DEF Contents, Items
  <2>5. (n - Len(queue_') + 1)..n = (pushed + 1 - Len(queue_') + 1)..(pushed + 1)
    BY <1>1, <1>2, <1>4, <2>1
  <2>6. QED
    BY <2>3, <2>4, <2>5
<1>8. (pushed + 1 - Len(queue_') + 1)..(pushed + 1) = (pushed - Len(queue_') + 2)..(pushed + 1)
  BY <1>1, <1>2, <1>4
<1>9. Queued' /\ queue_' \in Seq(Nat)
  BY <1>1, <1>3, <1>5 DEF Queued, IsNewest
<1>10. QED
  BY <1>1, <1>2, <1>4, <1>6, <1>7, <1>8, <1>9

\* What taking the front does to the queue.
LEMMA TakeQueued ==
  ASSUME TypeOK, Queued, TakeFront
  PROVE  /\ Queued' /\ queue_' \in Seq(Nat) /\ pushed' = pushed
         /\ Len(queue_) \in Nat \ {0}
         /\ Len(queue_') = Len(queue_) - 1
         /\ Head(queue_) = pushed - Len(queue_) + 1
         /\ Len(queue_) <= pushed
         /\ Contents = (pushed - Len(queue_) + 1)..pushed
         /\ Contents' = (pushed - Len(queue_) + 2)..pushed
<1>1. /\ pushed \in Nat /\ pushed' = pushed /\ queue_ \in Seq(Nat)
      /\ queue_ # <<>> /\ queue_' = Tail(queue_)
      /\ IsNewest(queue_, pushed) /\ Len(queue_) <= MaxSize
      /\ Len(queue_) <= pushed
  BY DEF TypeOK, Queued, TakeFront, IsNewest
<1>2. /\ IsNewest(queue_', pushed)
      /\ Len(queue_') = Len(queue_) - 1
      /\ Head(queue_) = pushed - Len(queue_) + 1
      /\ Len(queue_) \in Nat \ {0}
  BY <1>1, TailKeepsNewest
<1>3. Contents = (pushed - Len(queue_) + 1)..pushed
  BY <1>1, NewestIsInterval DEF Contents, Items
<1>4. Contents' = (pushed - Len(queue_') + 1)..pushed
  BY <1>1, <1>2, NewestIsInterval DEF Contents, Items
<1>5. (pushed - Len(queue_') + 1)..pushed = (pushed - Len(queue_) + 2)..pushed
  BY <1>1, <1>2
<1>6. Queued' /\ queue_' \in Seq(Nat)
  BY <1>1, <1>2, MaxSizeAssumption DEF Queued, IsNewest
<1>7. QED
  BY <1>1, <1>2, <1>3, <1>4, <1>5, <1>6

\* Steps that leave the queue and its history alone.
LEMMA QueueUnchanged ==
  ASSUME IInv, UNCHANGED <<queue_, pushed, taken, last>>
  PROVE  Queued' /\ OnlyStaleEventsLost' /\ Contents' = Contents
BY DEF IInv, Queued, OnlyStaleEventsLost, Contents

\* Taking the front loses nothing.
LEMMA TakeLosesNothing ==
  ASSUME IInv, TakeFront
  PROVE  OnlyStaleEventsLost' /\ taken' \in SUBSET Nat /\ last' \in Nat
<1>1. TypeOK /\ Queued /\ OnlyStaleEventsLost
  BY DEF IInv
<1>2. /\ pushed \in Nat /\ pushed' = pushed /\ taken \in SUBSET Nat
      /\ taken' = taken \cup {Head(queue_)} /\ last' = Head(queue_)
  BY <1>1 DEF TypeOK, TakeFront
<1>3. /\ Len(queue_) \in Nat \ {0}
      /\ Head(queue_) = pushed - Len(queue_) + 1 /\ Len(queue_) <= pushed
      /\ Contents = (pushed - Len(queue_) + 1)..pushed
      /\ Contents' = (pushed - Len(queue_) + 2)..pushed
  BY <1>1, TakeQueued
<1>4. ASSUME NEW e \in 1..pushed, e \notin taken', e \notin Contents'
      PROVE  e + MaxSize <= pushed
  <2>1. e \notin taken /\ e # Head(queue_)
    BY <1>2, <1>4
  <2>2. e \notin Contents
    BY <1>2, <1>3, <1>4, <2>1
  <2>3. QED
    BY <1>1, <2>1, <2>2 DEF OnlyStaleEventsLost
<1>5. Head(queue_) \in Nat
  BY <1>2, <1>3
<1>6. QED
  BY <1>2, <1>4, <1>5 DEF OnlyStaleEventsLost

\* A push loses at most the oldest of MaxSize + 1 events.
LEMMA PushLosesStale ==
  ASSUME IInv, Push
  PROVE  OnlyStaleEventsLost'
<1>1. TypeOK /\ Queued /\ OnlyStaleEventsLost
  BY DEF IInv
<1>2. pushed \in Nat /\ taken' = taken
  BY <1>1 DEF TypeOK, Push
<1>3. /\ pushed' = pushed + 1
      /\ Len(queue_) \in Nat /\ Len(queue_) <= MaxSize
      /\ Len(queue_') = IF Len(queue_) = MaxSize THEN Len(queue_) ELSE Len(queue_) + 1
      /\ Contents = (pushed - Len(queue_) + 1)..pushed
      /\ Contents' = (pushed - Len(queue_') + 2)..(pushed + 1)
  BY <1>1, PushQueued
<1>4. ASSUME NEW e \in 1..(pushed + 1), e \notin taken, e \notin Contents'
      PROVE  e + MaxSize <= pushed + 1
  <2>1. CASE e \in Contents
    BY <1>2, <1>3, <1>4, <2>1, MaxSizeAssumption
  <2>2. CASE e \notin Contents
    <3>1. e \in 1..pushed
      BY <1>2, <1>3, <1>4, MaxSizeAssumption
    <3>2. e + MaxSize <= pushed
      BY <1>1, <1>4, <2>2, <3>1 DEF OnlyStaleEventsLost
    <3>3. QED
      BY <1>2, <3>1, <3>2, MaxSizeAssumption
  <2>3. QED
    BY <2>1, <2>2
<1>5. QED
  BY <1>2, <1>3, <1>4 DEF OnlyStaleEventsLost

\* One consumer fewer among the notified.
LEMMA WokenLeaves ==
  ASSUME TypeOK, NEW c \in woken
  PROVE  Cardinality(woken \ {c}) = Cardinality(woken) - 1
<1>1. IsFiniteSet(woken)
  BY WokenFinite DEF TypeOK
<1>2. QED
  BY <1>1, FS_RemoveElement

\* One step of the queue, action by action.
LEMMA PushInv == ASSUME IInv, Push PROVE IInv'
<1>1. TypeOK /\ Queued /\ NoLostWakeup /\ NotifyOne /\ UNCHANGED <<taken, last>>
  BY DEF IInv, Push
<1>2. /\ Queued' /\ queue_' \in Seq(Nat) /\ pushed' = pushed + 1 /\ pushed \in Nat
      /\ Len(queue_) \in Nat
      /\ Len(queue_') = IF Len(queue_) = MaxSize THEN Len(queue_) ELSE Len(queue_) + 1
  BY <1>1, PushQueued DEF TypeOK
<1>3. /\ waiting' \in SUBSET Consumers /\ woken' \in SUBSET (Consumers \ waiting')
      /\ waiting # {} => Cardinality(woken') = Cardinality(woken) + 1
      /\ waiting = {} => waiting' = {}
  BY <1>1, NotifyCounts
<1>4. Cardinality(woken) \in Nat
  BY <1>1, WokenFinite DEF TypeOK
<1>5. TypeOK'
  BY <1>1, <1>2, <1>3 DEF TypeOK
<1>6. NoLostWakeup'
  BY <1>1, <1>2, <1>3, <1>4 DEF NoLostWakeup
<1>7. QED
  BY <1>2, <1>5, <1>6, PushLosesStale DEF IInv

LEMMA TakeInv ==
  ASSUME IInv, TakeFront, waiting' = waiting,
         NEW c, woken' = woken \/ (c \in woken /\ woken' = woken \ {c})
  PROVE  IInv'
<1>1. TypeOK /\ Queued /\ NoLostWakeup
  BY DEF IInv
<1>2. /\ Queued' /\ queue_' \in Seq(Nat) /\ pushed' = pushed
      /\ Len(queue_) \in Nat \ {0} /\ Len(queue_') = Len(queue_) - 1
  BY <1>1, TakeQueued
<1>3. OnlyStaleEventsLost' /\ taken' \in SUBSET Nat /\ last' \in Nat
  BY TakeLosesNothing
<1>4. TypeOK'
  BY <1>1, <1>2, <1>3 DEF TypeOK
<1>5. Cardinality(woken) \in Nat
  BY <1>1, WokenFinite DEF TypeOK
<1>6. ASSUME woken' = woken PROVE NoLostWakeup'
  BY <1>1, <1>2, <1>5, <1>6 DEF NoLostWakeup
<1>7. ASSUME c \in woken, woken' = woken \ {c} PROVE NoLostWakeup'
  <2>1. Cardinality(woken') = Cardinality(woken) - 1
    BY <1>1, <1>7, WokenLeaves
  <2>2. QED
    BY <1>1, <1>2, <1>5, <2>1 DEF NoLostWakeup
<1>8. NoLostWakeup'
  BY <1>6, <1>7
<1>9. QED
  BY <1>2, <1>3, <1>4, <1>8 DEF IInv

\* A consumer goes to sleep on an empty queue.
LEMMA SleepInv ==
  ASSUME IInv, NEW c \in Consumers, queue_ = <<>>,
         waiting' = waiting \cup {c}, woken' = woken \ {c},
         UNCHANGED <<queue_, pushed, taken, last>>
  PROVE  IInv'
<1>1. Queued' /\ OnlyStaleEventsLost'
  BY QueueUnchanged
<1>2. TypeOK'
  BY DEF IInv, TypeOK
<1>3. Len(queue_') = 0
  BY EmptySeq
<1>4. Cardinality(woken') \in Nat
  <2>1. woken' \in SUBSET Consumers
    BY <1>2 DEF TypeOK
  <2>2. QED
    BY <2>1, ConsumersAssumption, FS_Subset, FS_CardinalityType
<1>5. NoLostWakeup'
  BY <1>3, <1>4 DEF NoLostWakeup
<1>6. QED
  BY <1>1, <1>2, <1>5 DEF IInv

LEMMA SpuriousInv ==
  ASSUME IInv, NEW c \in Consumers, SpuriousWakeup(c)
  PROVE  IInv'
<1>1. TypeOK /\ NoLostWakeup /\ Queued' /\ OnlyStaleEventsLost'
  BY QueueUnchanged DEF IInv, SpuriousWakeup
<1>2. TypeOK'
  BY <1>1 DEF TypeOK, SpuriousWakeup
<1>3. IsFiniteSet(woken) /\ Cardinality(woken) \in Nat /\ c \notin woken
  BY <1>1, WokenFinite DEF TypeOK, SpuriousWakeup
<1>4. Cardinality(woken') = Cardinality(woken) + 1
  <2>1. woken' = woken \cup {c}
    BY DEF SpuriousWakeup
  <2>2. QED
    BY <1>3, <2>1, FS_AddElement
<1>5. queue_ \in Seq(Nat) /\ Len(queue_) \in Nat /\ queue_' = queue_ /\ waiting # {}
  BY <1>1, LenProperties DEF TypeOK, SpuriousWakeup
<1>6. NoLostWakeup'
  BY <1>1, <1>3, <1>4, <1>5 DEF NoLostWakeup
<1>7. QED
  BY <1>1, <1>2, <1>6 DEF IInv

LEMMA StepIInv == IInv /\ [Next]_vars => IInv'
<1>1. SUFFICES ASSUME IInv, [Next]_vars PROVE IInv'
  OBVIOUS
<1>2. CASE Push
  BY <1>1, <1>2, PushInv
<1>3. ASSUME NEW c \in Consumers, Pop(c) PROVE IInv'
  <2>1. CASE TakeFront /\ UNCHANGED <<waiting, woken>>
    BY <1>1, <2>1, TakeInv
  <2>2. CASE /\ queue_ = <<>>
             /\ waiting' = waiting \cup {c}
             /\ UNCHANGED <<queue_, pushed, woken, taken, last>>
    <3>1. woken' = woken \ {c}
      BY <1>3, <2>2 DEF Pop
    <3>2. QED
      BY <1>1, <1>3, <2>2, <3>1, SleepInv
  <2>3. QED
    BY <1>3, <2>1, <2>2 DEF Pop
<1>4. ASSUME NEW c \in Consumers, Resume(c) PROVE IInv'
  <2>1. CASE TakeFront /\ UNCHANGED waiting
    BY <1>1, <1>4, <2>1, TakeInv DEF Resume
  <2>2. CASE /\ queue_ = <<>>
             /\ waiting' = waiting \cup {c}
             /\ UNCHANGED <<queue_, pushed, taken, last>>
    BY <1>1, <1>4, <2>2, SleepInv DEF Resume
  <2>3. QED
    BY <1>4, <2>1, <2>2 DEF Resume
<1>5. ASSUME NEW c \in Consumers, SpuriousWakeup(c) PROVE IInv'
  BY <1>1, <1>5, SpuriousInv
<1>6. CASE UNCHANGED vars
  BY <1>1, <1>6 DEF vars, IInv, TypeOK, Queued, OnlyStaleEventsLost, Contents, NoLostWakeup
<1>7. QED
  BY <1>1, <1>2, <1>3, <1>4, <1>5, <1>6 DEF Next
-----------------------------------------------------------------------------
\* The type invariant and the strengthening it needs hold in every state.
THEOREM Invariance == Spec => []IInv
<1>1. QED
  BY InitIInv, StepIInv, PTL DEF Spec

\* TypeOK, event_queue.hpp:39-43: every state of the queue is well typed.
THEOREM TypeCorrect == Spec => []TypeOK
<1>1. IInv => TypeOK
  BY DEF IInv
<1>2. QED
  BY <1>1, Invariance, PTL

\* The queue is exactly its newest events, in order and at most max_size_.
THEOREM HoldsNewest == Spec => []QueueIsNewestSuffix
<1>1. IInv => QueueIsNewestSuffix
  BY QueuedIsSuffix DEF IInv
<1>2. QED
  BY <1>1, Invariance, PTL

\* Only events displaced by max_size_ newer ones are lost.
THEOREM LosesOnlyStale == Spec => []OnlyStaleEventsLost
<1>1. IInv => OnlyStaleEventsLost
  BY DEF IInv
<1>2. QED
  BY <1>1, Invariance, PTL

\* One notify_one per push is enough for any number of consumers.
THEOREM WakesEnough == Spec => []NoLostWakeup
<1>1. IInv => NoLostWakeup
  BY DEF IInv
<1>2. QED
  BY <1>1, Invariance, PTL
-----------------------------------------------------------------------------
\* The channel counts with the same Cardinality.
LEMMA SameCardinality == \A S : Channel!Cardinality(S) = Cardinality(S)
BY DEF Channel!Cardinality, Cardinality

\* push implements Send: it loses nothing, or the front of a full queue.
LEMMA PushSends ==
  ASSUME TypeOK, Queued, Push
  PROVE  Channel!Send
<1>1. /\ pushed \in Nat /\ pushed' = pushed + 1 /\ last' = last
      /\ IsNewest(queue_, pushed) /\ Len(queue_) <= MaxSize
      /\ queue_' = PushTo(queue_, pushed + 1, MaxSize)
  BY DEF TypeOK, Queued, Push
<1>2. Contents = Items(queue_) /\ Contents' = Items(queue_')
  BY DEF Contents, Items
<1>3. \E lost \in SUBSET Contents :
         /\ \A i \in lost, j \in Contents \ lost : i < j
         /\ lost # {} => Cardinality(Contents \ lost) + 1 = MaxSize
         /\ Contents' = (Contents \ lost) \cup {pushed + 1}
  BY <1>1, <1>2, MaxSizeAssumption, PushLosesOldest
<1>4. pushed' \in Nat /\ pushed < pushed'
  BY <1>1
<1>5. QED
  BY <1>1, <1>3, <1>4, SameCardinality DEF Channel!Send

\* Taking the front implements Deliver.
LEMMA TakeDelivers ==
  ASSUME TypeOK, Queued, TakeFront
  PROVE  Channel!Deliver
<1>1. /\ pushed \in Nat /\ pushed' = pushed /\ last' = Head(queue_)
      /\ IsNewest(queue_, pushed) /\ queue_ # <<>> /\ queue_' = Tail(queue_)
  BY DEF TypeOK, Queued, TakeFront
<1>2. Contents = Items(queue_) /\ Contents' = Items(queue_')
  BY DEF Contents, Items
<1>3. last' \in Contents /\ (\A i \in Contents : last' <= i) /\ Contents' = Contents \ {last'}
  BY <1>1, <1>2, TailTakesOldest
<1>4. QED
  BY <1>1, <1>3 DEF Channel!Deliver

\* A step that leaves queue and history alone is a stutter of the channel.
LEMMA QueueStutters ==
  ASSUME UNCHANGED <<queue_, pushed, last>>
  PROVE  UNCHANGED Channel!vars
BY DEF Channel!vars, Contents

LEMMA StepChannel == TypeOK /\ Queued /\ [Next]_vars => [Channel!Next]_(Channel!vars)
<1>1. SUFFICES ASSUME TypeOK, Queued, [Next]_vars
               PROVE  Channel!Send \/ Channel!Deliver \/ UNCHANGED Channel!vars
  BY DEF Channel!Next
<1>2. CASE Push
  BY <1>1, <1>2, PushSends
<1>3. CASE TakeFront
  BY <1>1, <1>3, TakeDelivers
<1>4. CASE UNCHANGED <<queue_, pushed, last>>
  BY <1>4, QueueStutters
<1>5. ASSUME NEW c \in Consumers, Pop(c) \/ Resume(c) \/ SpuriousWakeup(c)
      PROVE  TakeFront \/ UNCHANGED <<queue_, pushed, last>>
  BY <1>5 DEF Pop, Resume, SpuriousWakeup
<1>6. QED
  BY <1>1, <1>2, <1>3, <1>4, <1>5 DEF Next, vars

\* The queue implements the abstract lossy channel: the reader sees the events
\* in the order of the pushes, each at most once, and one is lost only to keep
\* the max_size_ newest.
THEOREM Implements == Spec => ImplementsLossyChannel
<1>1. Init => Channel!Init
  BY EmptySeq DEF Init, Channel!Init, Contents
<1>2. IInv => TypeOK /\ Queued
  BY DEF IInv
<1>3. TypeOK /\ Queued /\ [Next]_vars => [Channel!Next]_(Channel!vars)
  BY StepChannel
<1>4. QED
  BY <1>1, <1>2, <1>3, Invariance, PTL DEF Spec, ImplementsLossyChannel, Channel!Spec
-----------------------------------------------------------------------------
\* The invariants of the run are inductive together: a flag that is raised means
\* that the system held runs, and a system is replaced only under a lowered flag.
\* A lowered flag of the mono adapter means that the system held does not run.
LoweredMeansStopped == kind = "mono" /\ ~slam_is_initialized_ => ~Running(slam_system_)

SlamIInv == SlamTypeOK /\ FedSystemRuns /\ NoRunningSystemLost /\ LoweredMeansStopped

LEMMA SlamInitInv == SlamInit => SlamIInv
<1> SUFFICES ASSUME SlamInit PROVE SlamIInv
  OBVIOUS
<1>1. systems = <<>> /\ Len(systems) = 0 /\ slam_system_ = 0
  BY DEF SlamInit
<1>2. SlamTypeOK
  <2>1. <<>> \in Seq(Statuses) /\ 0 \in 0..0
    OBVIOUS
  <2> QED BY <1>1, <2>1 DEF SlamInit, SlamTypeOK
<1>3. FedSystemRuns /\ LoweredMeansStopped
  BY <1>1 DEF SlamInit, FedSystemRuns, LoweredMeansStopped, Running
<1>4. NoRunningSystemLost
  BY <1>1 DEF NoRunningSystemLost
<1> QED BY <1>2, <1>3, <1>4 DEF SlamIInv

\* Creating a system keeps the others: the one held before, if any, was down or
\* never started in the mono adapter.
LEMMA CreateInv ==
  ASSUME SlamIInv, NEW status \in {"created", "running"}, Create(status),
         slam_is_initialized_' = (status = "running")
  PROVE  SlamIInv'
<1>0. status \in Statuses
  BY DEF Statuses
<1>1. SlamTypeOK'
  <2>1. systems' \in Seq(Statuses) /\ Len(systems') = Len(systems) + 1 /\ Len(systems) \in Nat
    BY <1>0 DEF SlamIInv, SlamTypeOK, Create
  <2>2. slam_system_' \in 0..Len(systems')
    BY <2>1 DEF Create
  <2>3. slam_is_initialized_' \in BOOLEAN /\ loopBA' \in BOOLEAN
    BY DEF Create
  <2>4. kind' \in {"mono", "stereo"} /\ client' \in {"outside", "updating", "destroyed"}
    BY DEF SlamIInv, SlamTypeOK, Create
  <2> QED BY <2>1, <2>2, <2>3, <2>4 DEF SlamTypeOK
<1>2. /\ Len(systems') = Len(systems) + 1 /\ slam_system_' = Len(systems')
      /\ systems'[slam_system_'] = status
      /\ \A i \in 1..Len(systems) : systems'[i] = systems[i]
  BY DEF SlamIInv, SlamTypeOK, Create
<1>3. FedSystemRuns'
  BY <1>2 DEF SlamIInv, SlamTypeOK, FedSystemRuns, Running, Create
<1>4. LoweredMeansStopped'
  BY <1>2 DEF LoweredMeansStopped, Running, Create
<1>5. NoRunningSystemLost'
  <2> SUFFICES ASSUME kind = "mono", NEW i \in 1..Len(systems'), systems'[i] = "running"
               PROVE  i = slam_system_' /\ client' # "destroyed"
    BY DEF NoRunningSystemLost, Running, Create
  <2>1. client' # "destroyed"
    BY DEF Create
  <2>2. CASE i \in 1..Len(systems)
    BY <1>2, <2>2 DEF SlamIInv, SlamTypeOK, NoRunningSystemLost, LoweredMeansStopped, Running, Create
  <2>3. CASE i \notin 1..Len(systems)
    BY <1>2, <2>1, <2>3 DEF SlamIInv, SlamTypeOK
  <2> QED BY <2>2, <2>3
<1> QED BY <1>1, <1>3, <1>4, <1>5 DEF SlamIInv

\* After shutdown() the system held is down and the others are as they were.
LEMMA ShutdownInv ==
  ASSUME SlamIInv, Shutdown, kind' = kind, slam_system_' = slam_system_,
         client = "outside", client' \in {"outside", "destroyed"},
         slam_is_initialized_' = FALSE \/ (client' = "destroyed" /\ slam_is_initialized_' = slam_is_initialized_)
  PROVE  SlamIInv'
<1>1. "down" \in Statuses
  BY DEF Statuses
<1>2. /\ systems' \in Seq(Statuses)
      /\ Len(systems') = Len(systems)
      /\ \A i \in 1..Len(systems) :
            systems'[i] = IF i = slam_system_ THEN "down" ELSE systems[i]
  BY <1>1 DEF SlamIInv, SlamTypeOK, Shutdown
<1>3. SlamTypeOK'
  BY <1>2 DEF SlamIInv, SlamTypeOK, Shutdown
<1>4. FedSystemRuns' /\ LoweredMeansStopped'
  BY <1>2 DEF SlamIInv, SlamTypeOK, FedSystemRuns, LoweredMeansStopped, Running
<1>5. NoRunningSystemLost'
  BY <1>2 DEF SlamIInv, SlamTypeOK, NoRunningSystemLost, Running
<1> QED BY <1>3, <1>4, <1>5 DEF SlamIInv

LEMMA SlamNextInv == SlamIInv /\ [SlamNext]_slamVars => SlamIInv'
<1> SUFFICES ASSUME SlamIInv, [SlamNext]_slamVars PROVE SlamIInv'
  OBVIOUS
<1>1. CASE InitializeSystem
  BY <1>1, CreateInv DEF InitializeSystem
<1>2. CASE StartupThrows
  <2>1. slam_is_initialized_' = FALSE
    BY <1>2 DEF StartupThrows, Create, SlamIInv, SlamTypeOK
  <2> QED BY <1>2, <2>1, CreateInv DEF StartupThrows
<1>3. CASE StopMono
  BY <1>3, ShutdownInv DEF StopMono, Leave
<1>4. CASE StopStereo
  BY <1>4 DEF StopStereo, Leave, SlamIInv, SlamTypeOK, FedSystemRuns, NoRunningSystemLost,
              LoweredMeansStopped, Running
<1>5. CASE Destroy
  BY <1>5, ShutdownInv DEF Destroy
<1>6. CASE Update
  BY <1>6 DEF Update, SlamIInv, SlamTypeOK, FedSystemRuns, NoRunningSystemLost, LoweredMeansStopped,
              Running
<1>7. CASE UpdateReturns
  BY <1>7 DEF UpdateReturns, SlamIInv, SlamTypeOK, FedSystemRuns, NoRunningSystemLost,
              LoweredMeansStopped, Running
<1>8. CASE LoopBAEnds
  BY <1>8 DEF LoopBAEnds, SlamIInv, SlamTypeOK, FedSystemRuns, NoRunningSystemLost,
              LoweredMeansStopped, Running
<1>9. CASE UNCHANGED slamVars
  BY <1>9 DEF slamVars, SlamIInv, SlamTypeOK, FedSystemRuns, NoRunningSystemLost, LoweredMeansStopped,
              Running
<1> QED BY <1>1, <1>2, <1>3, <1>4, <1>5, <1>6, <1>7, <1>8, <1>9 DEF SlamNext

THEOREM SlamInvariance == SlamSpec => []SlamIInv
BY SlamInitInv, SlamNextInv, PTL DEF SlamSpec

\* A picture is fed only to a system that runs (update, lines 63 and 101).
THEOREM FeedsOnlyRunning == SlamSpec => []FedSystemRuns
<1>1. SlamIInv => FedSystemRuns
  BY DEF SlamIInv
<1> QED BY <1>1, SlamInvariance, PTL

\* The mono adapter shuts every running system down before it lets it go.
THEOREM LosesNoRunningSystem == SlamSpec => []NoRunningSystemLost
<1>1. SlamIInv => NoRunningSystemLost
  BY DEF SlamIInv
<1> QED BY <1>1, SlamInvariance, PTL
--------------------------------------------------------------------------------
IntExtents == [from : Int, len : Int]
IntBoxes == [x : IntExtents, y : IntExtents]

\* Lines 260 to 263: the order in which corner and length are clamped makes every
\* extent a non-empty part of the picture.
LEMMA ClampedInside ==
  ASSUME NEW extent \in IntExtents, NEW length \in Nat \ {0}
  PROVE  Clamped(extent, length) \in IntExtents /\ Within(Clamped(extent, length), length)
<1> DEFINE from == Most(0, Least(extent.from, length - 1))
           len == Most(1, Least(extent.len, length - from))
<1>1. extent.from \in Int /\ extent.len \in Int
  BY DEF IntExtents
<1>2. from \in Int /\ 0 <= from /\ from <= length - 1
  BY <1>1 DEF Most, Least
<1>3. len \in Int /\ 1 <= len /\ len <= length - from
  <2> HIDE DEF from
  <2> QED BY <1>1, <1>2 DEF Most, Least
<1>4. Clamped(extent, length) = [from |-> from, len |-> len]
  BY DEF Clamped
<1> HIDE DEF from, len
<1> QED BY <1>2, <1>3, <1>4 DEF IntExtents, Within

LEMMA ProductPositive ==
  ASSUME NEW a \in Nat \ {0}, NEW b \in Nat \ {0}
  PROVE  a * b \in Nat \ {0}
BY SMT

LEMMA Towards0Int ==
  ASSUME NEW a \in Int, NEW b \in Nat \ {0}
  PROVE  Towards0(a, b) \in Int
<1>1. a \div b \in Int /\ -((-a) \div b) \in Int
  BY SMT
<1> QED BY <1>1 DEF Towards0

\* The scale is a positive fraction.
LEMMA ScalePositive ==
  ASSUME NEW pic \in [w : Nat \ {0}, h : Nat \ {0}]
  PROVE  Scale(pic).num \in Nat \ {0} /\ Scale(pic).den \in Nat \ {0}
BY InputAssumption DEF Scale

\* What comes back from the letterbox are whole numbers.
LEMMA RestoredInt ==
  ASSUME NEW pic \in [w : Nat \ {0}, h : Nat \ {0}], NEW extent \in Extents,
         NEW length \in Nat \ {0}, NEW target \in Nat \ {0}
  PROVE  Restored(pic, Projected(pic, extent, length, target), length, target) \in IntExtents
<1> DEFINE num == Scale(pic).num
           den == Scale(pic).den
           scaled == Scaled(pic, length)
           padding == Padding(pic, length, target)
           out == Projected(pic, extent, length, target)
           unpadded == out.center - 2 * length * padding
<1>1. num \in Nat \ {0} /\ den \in Nat \ {0}
  BY ScalePositive
<1>2. extent.from \in Int /\ extent.len \in Int
  BY DEF Extents
<1> HIDE DEF num, den
<1>3. scaled \in Int
  <2>1. 2 * den \in Nat \ {0} /\ 2 * (length * num) + den \in Int
    BY <1>1
  <2>2. (2 * (length * num) + den) \div (2 * den) \in Int
    BY <2>1
  <2> QED BY <2>2 DEF num, den, Scaled, Rounded
<1>4. padding \in Int
  <2>1. target - scaled \in Int
    BY <1>3
  <2> HIDE DEF scaled
  <2>2. (target - scaled) \div 2 \in Int
    BY <2>1
  <2> QED BY <2>2 DEF Padding, scaled
<1> HIDE DEF scaled, padding
<1>5. out.center \in Int /\ out.len \in Int
  <2>1. /\ out.center = 2 * length * padding + (2 * extent.from + extent.len) * scaled
        /\ out.len = 2 * extent.len * scaled
    BY DEF Projected, scaled, padding
  <2>2. 2 * length * padding + (2 * extent.from + extent.len) * scaled \in Int
    BY <1>2, <1>3, <1>4
  <2>3. 2 * extent.len * scaled \in Int
    BY <1>2, <1>3
  <2> QED BY <2>1, <2>2, <2>3
<1> HIDE DEF out
<1>6. unpadded \in Int
  BY <1>4, <1>5
<1> HIDE DEF unpadded
<1>7. /\ (2 * unpadded - out.len) * den \in Int /\ 4 * length * num \in Nat \ {0}
      /\ out.len * den \in Int /\ 2 * length * num \in Nat \ {0}
  BY <1>1, <1>5, <1>6, ProductPositive
<1>8. Restored(pic, out, length, target) =
        [from |-> Towards0((2 * unpadded - out.len) * den, 4 * length * num),
         len |-> Towards0(out.len * den, 2 * length * num)]
  BY DEF Restored, unpadded, padding, num, den
<1>9. Restored(pic, out, length, target) \in IntExtents
  <2> DEFINE from == Towards0((2 * unpadded - out.len) * den, 4 * length * num)
             len == Towards0(out.len * den, 2 * length * num)
  <2>1. from \in Int
    BY <1>7, Towards0Int
  <2>2. len \in Int
    BY <1>7, Towards0Int
  <2> HIDE DEF from, len
  <2>3. [from |-> from, len |-> len] \in IntExtents
    BY <2>1, <2>2 DEF IntExtents
  <2> QED BY <1>8, <2>3 DEF from, len
<1> QED BY <1>9 DEF out

LEMMA BoxInside ==
  ASSUME NEW pic \in [w : Nat \ {0}, h : Nat \ {0}], NEW object \in [x : Extents, y : Extents]
  PROVE  /\ Box(pic, object) \in IntBoxes
         /\ Within(Box(pic, object).x, pic.w) /\ Within(Box(pic, object).y, pic.h)
<1>1. object.x \in Extents /\ object.y \in Extents /\ pic.w \in Nat \ {0} /\ pic.h \in Nat \ {0}
  OBVIOUS
<1> DEFINE x == Restored(pic, Projected(pic, object.x, pic.w, InputWidth), pic.w, InputWidth)
           y == Restored(pic, Projected(pic, object.y, pic.h, InputHeight), pic.h, InputHeight)
<1>2. x \in IntExtents /\ y \in IntExtents
  BY <1>1, RestoredInt, InputAssumption
<1>3. /\ BoxAlong(pic, object.x, pic.w, InputWidth) = Clamped(x, pic.w)
      /\ BoxAlong(pic, object.y, pic.h, InputHeight) = Clamped(y, pic.h)
  BY DEF BoxAlong
<1> HIDE DEF x, y
<1>4. /\ Clamped(x, pic.w) \in IntExtents /\ Within(Clamped(x, pic.w), pic.w)
      /\ Clamped(y, pic.h) \in IntExtents /\ Within(Clamped(y, pic.h), pic.h)
  BY <1>1, <1>2, ClampedInside
<1> QED BY <1>3, <1>4 DEF Box, IntBoxes
-----------------------------------------------------------------------------
\* Boxes exist only during a call, and belong to the picture of that call.
DetectorIInv ==
  /\ img \in Pictures \cup {Nothing}
  /\ boxes \in Seq(IntBoxes)
  /\ Idle => boxes = <<>>
  /\ BoxesInside

LEMMA NoBoxes == <<>> \in Seq(IntBoxes) /\ Len(<<>>) = 0
OBVIOUS

LEMMA RealPicture ==
  ASSUME NEW pic \in Pictures
  PROVE  pic \in [w : Nat \ {0}, h : Nat \ {0}] /\ pic # Nothing
<1>1. pic \in [w : Sizes, h : Sizes] /\ pic.w \in Sizes /\ pic.h \in Sizes
  BY DEF Pictures
<1>2. pic.w \in Nat \ {0} /\ pic.h \in Nat \ {0} /\ pic = [w |-> pic.w, h |-> pic.h]
  BY <1>1, SizesAssumption
<1>3. pic \in [w : Nat \ {0}, h : Nat \ {0}]
  BY <1>2
<1>4. pic # Nothing
  BY <1>2 DEF Nothing
<1> QED BY <1>3, <1>4

LEMMA AnchorRowInv ==
  ASSUME DetectorIInv, NEW object \in Objects, NEW scores \in [ClassIds -> Scores],
         AnchorRow(object, scores)
  PROVE  DetectorIInv'
<1>1. img \in Pictures /\ img' = img
  BY DEF DetectorIInv, AnchorRow, Idle
<1>2. /\ Box(img, object) \in IntBoxes
      /\ Within(Box(img, object).x, img.w) /\ Within(Box(img, object).y, img.h)
  <2>1. object \in [x : Extents, y : Extents]
    BY ObjectAssumption
  <2> QED BY <1>1, <2>1, RealPicture, BoxInside
<1>3. CASE boxes' = Append(boxes, Box(img, object))
  <2>1. /\ boxes' \in Seq(IntBoxes) /\ Len(boxes') = Len(boxes) + 1
        /\ boxes'[Len(boxes) + 1] = Box(img, object)
        /\ \A i \in 1..Len(boxes) : boxes'[i] = boxes[i]
    BY <1>2, <1>3 DEF DetectorIInv
  <2>2. BoxesInside'
    BY <1>1, <1>2, <2>1 DEF DetectorIInv, BoxesInside
  <2> QED BY <1>1, <2>1, <2>2 DEF DetectorIInv, AnchorRow, Idle
<1>4. CASE boxes' = boxes
  BY <1>1, <1>4 DEF DetectorIInv, AnchorRow, Idle, BoxesInside
<1>5. boxes' = Append(boxes, Box(img, object)) \/ boxes' = boxes
  BY Zenon DEF AnchorRow
<1> QED BY <1>3, <1>4, <1>5

LEMMA DetectorInitInv == DetectorInit => DetectorIInv
BY NoBoxes DEF DetectorInit, DetectorIInv, BoxesInside

LEMMA DetectorNextInv == DetectorIInv /\ [DetectorNext]_detectorVars => DetectorIInv'
<1> SUFFICES ASSUME DetectorIInv, [DetectorNext]_detectorVars PROVE DetectorIInv'
  OBVIOUS
<1>1. CASE LoadNetwork
  BY <1>1 DEF LoadNetwork, candidates, DetectorIInv, Idle, BoxesInside
<1>2. CASE DropNetwork
  BY <1>2 DEF DropNetwork, candidates, DetectorIInv, Idle, BoxesInside
<1>3. CASE DetectNothing
  BY <1>3 DEF DetectNothing, candidates, DetectorIInv, Idle, BoxesInside
<1>4. CASE Return
  BY <1>4, NoBoxes DEF Return, DetectorIInv, Idle, BoxesInside
<1>5. ASSUME NEW pic \in Pictures, Begin(pic)
      PROVE  DetectorIInv'
  BY <1>5, NoBoxes DEF Begin, candidates, DetectorIInv, Idle, BoxesInside
<1>6. ASSUME NEW object \in Objects, NEW scores \in [ClassIds -> Scores], AnchorRow(object, scores)
      PROVE  DetectorIInv'
  BY <1>6, AnchorRowInv
<1>7. CASE UNCHANGED detectorVars
  BY <1>7 DEF detectorVars, candidates, DetectorIInv, Idle, BoxesInside
<1> QED BY <1>1, <1>2, <1>3, <1>4, <1>5, <1>6, <1>7 DEF DetectorNext

THEOREM DetectorInvariance == DetectorSpec => []DetectorIInv
BY DetectorInitInv, DetectorNextInv, PTL DEF DetectorSpec

\* Every candidate box is a non-empty part of the picture.
THEOREM BoxesStayInside == DetectorSpec => []BoxesInside
<1>1. DetectorIInv => BoxesInside
  BY DEF DetectorIInv
<1> QED BY <1>1, DetectorInvariance, PTL
-----------------------------------------------------------------------------
\* Rounding to the nearest whole number is off by at most a half.
LEMMA RoundedNear ==
  ASSUME NEW a \in Nat, NEW b \in Nat \ {0}
  PROVE  /\ Rounded(a, b) \in Nat
         /\ 2 * a - b <= 2 * (b * Rounded(a, b)) /\ 2 * (b * Rounded(a, b)) <= 2 * a + b
<1> DEFINE n == 2 * a + b
           d == 2 * b
           q == n \div d
<1>1. n \in Nat /\ d \in Nat \ {0}
  OBVIOUS
<1> HIDE DEF n, d
<1>2. q \in Nat /\ d * q <= n /\ n < d * q + d
  BY <1>1
<1>3. q = Rounded(a, b)
  BY DEF Rounded, n, d
<1> HIDE DEF q
<1>4. d * q = 2 * (b * q)
  BY <1>2 DEF d
<1> QED BY <1>2, <1>3, <1>4 DEF n, d

\* Cutting the fraction off a quotient of naturals.
LEMMA CutOff ==
  ASSUME NEW a \in Nat, NEW b \in Nat \ {0}
  PROVE  /\ Towards0(a, b) \in Nat
         /\ b * Towards0(a, b) <= a /\ a < b * Towards0(a, b) + b
<1>1. Towards0(a, b) = a \div b
  BY DEF Towards0
<1> QED BY <1>1

LEMMA Monotone ==
  ASSUME NEW k \in Nat, NEW a \in Int, NEW b \in Int, a <= b
  PROVE  k * a <= k * b
BY SMT

\* The rounding of the scaled length s moves the point f of a side by half a pixel
\* of the network's input, cutting off the fraction by less than a whole one.
LEMMA NearPoint ==
  ASSUME NEW length \in Nat \ {0}, NEW num \in Nat \ {0}, NEW den \in Nat \ {0},
         NEW s \in Nat, NEW f \in 0..length, NEW r \in Nat,
         2 * (length * num) - den <= 2 * (den * s), 2 * (den * s) <= 2 * (length * num) + den,
         (length * num) * r <= f * (den * s), f * (den * s) < (length * num) * r + length * num
  PROVE  2 * num * (r - f) <= den /\ 2 * num * (f - r) <= 2 * num + den
<1> DEFINE ds == den * s
           ln == length * num
           nf == num * f
           nr == num * r
<1>1. ds \in Nat /\ ln \in Nat /\ nf \in Nat /\ nr \in Nat /\ f \in Nat /\ f <= length
  BY ProductPositive
<1>2. f * den <= length * den
  BY SMT
<1>3. 2 * (f * ds) <= 2 * (f * ln) + f * den /\ 2 * (f * ln) - f * den <= 2 * (f * ds)
  <2>1. 2 * ln - den <= 2 * ds /\ 2 * ds <= 2 * ln + den
    OBVIOUS
  <2> HIDE DEF ds, ln
  <2>2. f * (2 * ds) <= f * (2 * ln + den)
    BY <1>1, <2>1, Monotone
  <2>3. f * (2 * ln - den) <= f * (2 * ds)
    BY <1>1, <2>1, Monotone
  <2>4. /\ f * (2 * ds) = 2 * (f * ds) /\ f * (2 * ln + den) = 2 * (f * ln) + f * den
        /\ f * (2 * ln - den) = 2 * (f * ln) - f * den
    BY <1>1
  <2> QED BY <2>2, <2>3, <2>4
<1>4. ln * r <= f * ds /\ f * ds < ln * r + ln
  OBVIOUS
<1>5. f * ln = length * nf /\ ln * r = length * nr
  BY <1>1
<1>6. f * ds \in Nat /\ f * den \in Nat /\ length * den \in Nat /\ length * nf \in Nat /\ length * nr \in Nat
  BY <1>1
<1> HIDE DEF ds, nf, nr
<1>7. length * (2 * nr - 2 * nf - den) <= 0
  <2>1. length * (2 * nr - 2 * nf - den) = 2 * (length * nr) - 2 * (length * nf) - length * den
    BY <1>1
  <2> QED BY <1>2, <1>3, <1>4, <1>5, <1>6, <2>1
<1>8. length * (2 * nf - 2 * nr - 2 * num - den) <= 0
  <2>1. length * (2 * nf - 2 * nr - 2 * num - den)
          = 2 * (length * nf) - 2 * (length * nr) - 2 * ln - length * den
    BY <1>1 DEF ln
  <2> HIDE DEF ln
  <2> QED BY <1>1, <1>2, <1>3, <1>4, <1>5, <1>6, <2>1
<1>9. 2 * nr - 2 * nf - den <= 0
  <2> DEFINE x == 2 * nr - 2 * nf - den
  <2>1. x \in Int
    BY <1>1
  <2> HIDE DEF x
  <2>2. x <= 0
    BY <1>7, <2>1 DEF x
  <2> QED BY <2>2 DEF x
<1>10. 2 * nf - 2 * nr - 2 * num - den <= 0
  <2> DEFINE x == 2 * nf - 2 * nr - 2 * num - den
  <2>1. x \in Int
    BY <1>1
  <2> HIDE DEF x
  <2>2. x <= 0
    BY <1>8, <2>1 DEF x
  <2> QED BY <2>2 DEF x
<1>11. 2 * num * (r - f) = 2 * nr - 2 * nf /\ 2 * num * (f - r) = 2 * nf - 2 * nr
  BY <1>1 DEF nr, nf
<1> QED BY <1>1, <1>9, <1>10, <1>11

\* What is 2 * num * distance, in the words of Near.
LEMMA NearEither ==
  ASSUME NEW pic, NEW a \in Int, NEW b \in Int,
         Scale(pic).num \in Nat \ {0}, Scale(pic).den \in Nat \ {0},
         2 * Scale(pic).num * (a - b) <= 2 * Scale(pic).num + Scale(pic).den,
         2 * Scale(pic).num * (b - a) <= 2 * Scale(pic).num + Scale(pic).den
  PROVE  Near(pic, a, b)
<1> DEFINE num == Scale(pic).num
           den == Scale(pic).den
<1> HIDE DEF num, den
<1>1. Most(a - b, b - a) = a - b \/ Most(a - b, b - a) = b - a
  BY DEF Most
<1>2. 2 * num * (a - b) <= 2 * num + den /\ 2 * num * (b - a) <= 2 * num + den
  BY DEF num, den
<1>3. 2 * num * Most(a - b, b - a) <= 2 * num + den
  BY <1>1, <1>2
<1> QED BY <1>3 DEF Near, num, den

\* Clamping moves an extent towards any extent inside the side: neither the corner
\* nor the length gets further from it than rounding has put them.
LEMMA ClampedNear ==
  ASSUME NEW length \in Nat \ {0}, NEW num \in Nat \ {0}, NEW den \in Nat \ {0},
         NEW from \in Int, NEW len \in Int, NEW f \in Nat, NEW l \in Nat, l >= 1, f + l <= length,
         2 * num * (from - f) <= den, 2 * num * (f - from) <= 2 * num + den,
         2 * num * (len - l) <= den, 2 * num * (l - len) <= 2 * num + den,
         NEW from2 \in Int, from2 = Most(0, Least(from, length - 1)),
         NEW len2 \in Int, len2 = Most(1, Least(len, length - from2))
  PROVE  /\ 2 * num * (from2 - f) <= 2 * num + den /\ 2 * num * (f - from2) <= 2 * num + den
         /\ 2 * num * (len2 - l) <= 2 * num + den /\ 2 * num * (l - len2) <= 2 * num + den
<1> DEFINE k == 2 * num
<1>1. k \in Nat
  OBVIOUS
<1>2. k * (from - f) <= den /\ k * (f - from) <= k + den /\ k * (len - l) <= den
      /\ k * (l - len) <= k + den
  OBVIOUS
<1>3. \A a, b, c \in Int : a <= b /\ k * b <= c => k * a <= c
  <2> SUFFICES ASSUME NEW a \in Int, NEW b \in Int, NEW c \in Int, a <= b, k * b <= c
               PROVE  k * a <= c
    OBVIOUS
  <2>1. k * a <= k * b /\ k * a \in Int /\ k * b \in Int
    BY <1>1, Monotone
  <2> QED BY <2>1
<1>4. k * 0 <= den /\ k * 0 <= k + den
  BY <1>1
<1> HIDE DEF k
<1>5. from2 - f <= from - f \/ from2 - f <= 0
  BY DEF Most, Least
<1>6. f - from2 <= f - from \/ f - from2 <= 0
  BY DEF Most, Least
<1>7. k * (from2 - f) <= den
  BY <1>2, <1>3, <1>4, <1>5
<1>8. k * (f - from2) <= k + den
  BY <1>1, <1>2, <1>3, <1>4, <1>6
<1>9. len2 - l <= len - l \/ len2 - l <= 0
  BY DEF Most, Least
<1>10. l - len2 <= l - len \/ l - len2 <= from2 - f
  <2>1. len2 >= Least(len, length - from2)
    BY DEF Most, Least
  <2> QED BY <2>1 DEF Least
<1>11. k * (len2 - l) <= den
  BY <1>2, <1>3, <1>4, <1>9
<1>12. k * (from2 - f) <= k + den
  <2>1. k * (from2 - f) \in Int
    BY <1>1
  <2> QED BY <1>1, <1>7, <2>1
<1>13. k * (l - len2) <= k + den
  BY <1>1, <1>2, <1>3, <1>10, <1>12
<1>14. k * (len2 - l) <= k + den
  <2>1. k * (len2 - l) \in Int
    BY <1>1
  <2> QED BY <1>1, <1>11, <2>1
<1> QED BY <1>8, <1>12, <1>13, <1>14 DEF k

\* Along one axis: the box of an extent inside the picture is near it.
LEMMA BoxAlongNear ==
  ASSUME NEW pic \in [w : Nat \ {0}, h : Nat \ {0}], NEW extent \in Extents,
         NEW length \in Nat \ {0}, NEW target \in Nat \ {0}, Within(extent, length)
  PROVE  /\ Near(pic, BoxAlong(pic, extent, length, target).from, extent.from)
         /\ Near(pic, BoxAlong(pic, extent, length, target).len, extent.len)
<1> DEFINE num == Scale(pic).num
           den == Scale(pic).den
           s == Scaled(pic, length)
           pad == Padding(pic, length, target)
           f == extent.from
           l == extent.len
           out == Projected(pic, extent, length, target)
           from == Towards0((2 * (out.center - 2 * length * pad) - out.len) * den, 4 * length * num)
           len == Towards0(out.len * den, 2 * length * num)
<1>1. num \in Nat \ {0} /\ den \in Nat \ {0}
  BY ScalePositive
<1>2. f \in Nat /\ l \in Nat /\ l >= 1 /\ f + l <= length
  BY DEF Extents, Within
<1>3. /\ s \in Nat
      /\ 2 * (length * num) - den <= 2 * (den * s) /\ 2 * (den * s) <= 2 * (length * num) + den
  <2>1. length * num \in Nat /\ s = Rounded(length * num, den)
    BY <1>1, ProductPositive DEF Scaled
  <2> HIDE DEF num, den, s
  <2> QED BY <1>1, <2>1, RoundedNear
<1>4. pad \in Int
  <2>1. target - s \in Int
    BY <1>3
  <2> HIDE DEF s
  <2>2. (target - s) \div 2 \in Int
    BY <2>1
  <2> QED BY <2>2 DEF Padding, s
<1>5. /\ out.center = 2 * length * pad + (2 * f + l) * s
      /\ out.len = 2 * l * s
  BY DEF Projected
<1> HIDE DEF num, den, s, pad, f, l, out
<1>6. /\ (2 * (out.center - 2 * length * pad) - out.len) * den = 4 * (f * (den * s))
      /\ out.len * den = 2 * (l * (den * s))
  <2>1. out.center - 2 * length * pad = (2 * f + l) * s
    BY <1>2, <1>3, <1>4, <1>5
  <2>2. 2 * ((2 * f + l) * s) - 2 * l * s = 4 * (f * s)
    BY <1>2, <1>3
  <2>3. (4 * (f * s)) * den = 4 * (f * (den * s)) /\ (2 * l * s) * den = 2 * (l * (den * s))
    BY <1>1, <1>2, <1>3
  <2> QED BY <1>5, <2>1, <2>2, <2>3
<1>7. /\ f * (den * s) \in Nat /\ l * (den * s) \in Nat /\ length * num \in Nat \ {0}
      /\ 4 * length * num = 4 * (length * num) /\ 2 * length * num = 2 * (length * num)
  BY <1>1, <1>2, <1>3, ProductPositive
<1>8. /\ from \in Nat
      /\ (length * num) * from <= f * (den * s)
      /\ f * (den * s) < (length * num) * from + length * num
  <2> DEFINE a == f * (den * s)
             b == length * num
  <2>1. a \in Nat /\ b \in Nat \ {0} /\ from = Towards0(4 * a, 4 * b)
    BY <1>6, <1>7
  <2> HIDE DEF a, b, from
  <2>2. 4 * a \in Nat /\ 4 * b \in Nat \ {0}
    BY <2>1
  <2>3. from \in Nat /\ (4 * b) * from <= 4 * a /\ 4 * a < (4 * b) * from + 4 * b
    BY <2>1, <2>2, CutOff
  <2>4. (4 * b) * from = 4 * (b * from) /\ b * from \in Nat
    BY <2>1, <2>3
  <2> QED BY <2>1, <2>3, <2>4 DEF a, b
<1>9. /\ len \in Nat
      /\ (length * num) * len <= l * (den * s)
      /\ l * (den * s) < (length * num) * len + length * num
  <2> DEFINE a == l * (den * s)
             b == length * num
  <2>1. a \in Nat /\ b \in Nat \ {0} /\ len = Towards0(2 * a, 2 * b)
    BY <1>6, <1>7
  <2> HIDE DEF a, b, len
  <2>2. 2 * a \in Nat /\ 2 * b \in Nat \ {0}
    BY <2>1
  <2>3. len \in Nat /\ (2 * b) * len <= 2 * a /\ 2 * a < (2 * b) * len + 2 * b
    BY <2>1, <2>2, CutOff
  <2>4. (2 * b) * len = 2 * (b * len) /\ b * len \in Nat
    BY <2>1, <2>3
  <2> QED BY <2>1, <2>3, <2>4 DEF a, b
<1>10. Restored(pic, out, length, target) = [from |-> from, len |-> len]
  BY DEF Restored, num, den, pad
<1> HIDE DEF from, len
<1>11. f \in 0..length /\ l \in 0..length
  BY <1>2
<1>12. 2 * num * (from - f) <= den /\ 2 * num * (f - from) <= 2 * num + den
  BY <1>1, <1>3, <1>8, <1>11, NearPoint
<1>13. 2 * num * (len - l) <= den /\ 2 * num * (l - len) <= 2 * num + den
  BY <1>1, <1>3, <1>9, <1>11, NearPoint
<1> DEFINE from2 == Most(0, Least(from, length - 1))
           len2 == Most(1, Least(len, length - from2))
<1>14. from2 \in Int /\ len2 \in Int
  BY <1>8, <1>9 DEF Most, Least
<1>15. BoxAlong(pic, extent, length, target) = [from |-> from2, len |-> len2]
  BY <1>10 DEF BoxAlong, Clamped, out
<1> HIDE DEF from2, len2
<1>16. /\ 2 * num * (from2 - f) <= 2 * num + den /\ 2 * num * (f - from2) <= 2 * num + den
       /\ 2 * num * (len2 - l) <= 2 * num + den /\ 2 * num * (l - len2) <= 2 * num + den
  <2>1. /\ from2 = Most(0, Least(from, length - 1))
        /\ len2 = Most(1, Least(len, length - from2))
    BY DEF from2, len2
  <2>2. from \in Int /\ len \in Int
    BY <1>8, <1>9
  <2> QED BY <1>1, <1>2, <1>12, <1>13, <1>14, <2>1, <2>2, ClampedNear
<1>17. Near(pic, from2, f) /\ Near(pic, len2, l)
  BY <1>1, <1>2, <1>14, <1>16, NearEither DEF num, den
<1> QED BY <1>15, <1>17 DEF f, l

\* Both axes.
LEMMA BoxNear ==
  ASSUME NEW pic \in [w : Nat \ {0}, h : Nat \ {0}], NEW object \in [x : Extents, y : Extents],
         Within(object.x, pic.w), Within(object.y, pic.h)
  PROVE  /\ Near(pic, Box(pic, object).x.from, object.x.from)
         /\ Near(pic, Box(pic, object).x.len, object.x.len)
         /\ Near(pic, Box(pic, object).y.from, object.y.from)
         /\ Near(pic, Box(pic, object).y.len, object.y.len)
<1>1. object.x \in Extents /\ object.y \in Extents /\ pic.w \in Nat \ {0} /\ pic.h \in Nat \ {0}
  OBVIOUS
<1>2. /\ Near(pic, BoxAlong(pic, object.x, pic.w, InputWidth).from, object.x.from)
      /\ Near(pic, BoxAlong(pic, object.x, pic.w, InputWidth).len, object.x.len)
  BY <1>1, BoxAlongNear, InputAssumption
<1>3. /\ Near(pic, BoxAlong(pic, object.y, pic.h, InputHeight).from, object.y.from)
      /\ Near(pic, BoxAlong(pic, object.y, pic.h, InputHeight).len, object.y.len)
  BY <1>1, BoxAlongNear, InputAssumption
<1> QED BY <1>2, <1>3 DEF Box
-----------------------------------------------------------------------------
\* Among the scores of a row there is a highest: one more class either beats the
\* best of those before it or does not.
LEMMA HighestExists ==
  ASSUME NEW scores \in [ClassIds -> Nat], Classes > 0
  PROVE  \E c \in ClassIds : \A d \in ClassIds : scores[d] <= scores[c]
<1> USE CountAssumption DEF ClassIds
<1> DEFINE HasTop(n) == \E c \in 0..n - 1 : \A d \in 0..n - 1 : scores[d] <= scores[c]
           Without == {n \in 1..Classes : ~HasTop(n)}
<1>1. ASSUME Without # {} PROVE FALSE
  <2>1. PICK n \in Without : \A k \in Without : n <= k
    <3>1. Without \subseteq Nat
      OBVIOUS
    <3> HIDE DEF Without
    <3> QED BY <1>1, <3>1, Smallest
  <2>2. n \in 1..Classes /\ ~HasTop(n)
    BY <2>1
  <2>3. CASE n = 1
    <3>1. \A d \in 0..n - 1 : d = 0
      BY <2>3
    <3>2. 0 \in ClassIds /\ scores[0] <= scores[0] /\ 0 \in 0..n - 1
      BY <2>3
    <3> QED BY <2>2, <3>1, <3>2
  <2>4. CASE n > 1
    <3>1. n - 1 \in 1..Classes /\ ~(n <= n - 1)
      BY <2>2, <2>4
    <3>2. HasTop(n - 1)
      BY <2>1, <3>1
    <3>3. PICK c \in 0..n - 2 : \A d \in 0..n - 2 : scores[d] <= scores[c]
      BY <2>2, <3>2
    <3>4. /\ n - 1 \in ClassIds /\ c \in ClassIds /\ c \in 0..n - 1 /\ n - 1 \in 0..n - 1
          /\ \A d \in 0..n - 1 : d \in ClassIds /\ (d \in 0..n - 2 \/ d = n - 1)
      BY <2>2, <2>4, <3>3
    <3>5. CASE scores[n - 1] <= scores[c]
      <4>1. \A d \in 0..n - 1 : scores[d] <= scores[c]
        BY <3>3, <3>4, <3>5
      <4> QED BY <2>2, <3>4, <4>1
    <3>6. CASE scores[c] < scores[n - 1]
      <4>1. ASSUME NEW d \in 0..n - 1 PROVE scores[d] <= scores[n - 1]
        <5>1. scores[d] \in Nat /\ scores[c] \in Nat /\ scores[n - 1] \in Nat
          BY <3>4
        <5>2. CASE d = n - 1
          BY <5>1, <5>2
        <5>3. CASE d \in 0..n - 2
          <6>1. scores[d] <= scores[c]
            BY <3>3, <5>3
          <6> QED BY <3>6, <5>1, <6>1
        <5> QED BY <3>4, <5>2, <5>3
      <4> QED BY <2>2, <3>4, <4>1
    <3> QED BY <3>4, <3>5, <3>6
  <2> QED BY <2>2, <2>3, <2>4
<1>2. Without = {}
  BY <1>1, Zenon
<1>3. Classes \in 1..Classes
  OBVIOUS
<1>4. HasTop(Classes)
  BY <1>2, <1>3, Zenon
<1> QED BY <1>4

\* A row with a confidence above 0 is of the first class with the highest score.
LEMMA BestIsHighest ==
  ASSUME NEW scores \in [ClassIds -> Scores]
  PROVE  /\ Best(scores).conf \in Nat /\ Best(scores).class \in ClassIds \cup {Unknown}
         /\ Best(scores).conf > 0 =>
              /\ Best(scores).class \in ClassIds
              /\ Best(scores).conf = scores[Best(scores).class]
              /\ \A c \in ClassIds : scores[c] <= Best(scores).conf
<1>1. scores \in [ClassIds -> Nat]
  BY ScoreAssumption
<1>2. CASE \A c \in ClassIds : scores[c] = 0
  BY <1>2 DEF Best
<1>3. CASE ~ \A c \in ClassIds : scores[c] = 0
  <2> DEFINE First(c) == \A d \in ClassIds : scores[d] <= scores[c] /\ (d < c => scores[d] < scores[c])
             tops == {c \in ClassIds : \A d \in ClassIds : scores[d] <= scores[c]}
             best == CHOOSE c \in ClassIds : First(c)
  <2>1. Classes > 0 /\ ClassIds \subseteq Nat
    BY <1>3, CountAssumption DEF ClassIds
  <2>2. tops # {} /\ tops \subseteq Nat
    BY <1>1, <2>1, HighestExists
  <2>3. PICK m \in tops : \A n \in tops : m <= n
    BY <2>2, Smallest
  <2>4. First(m)
    <3> SUFFICES ASSUME NEW d \in ClassIds PROVE scores[d] <= scores[m] /\ (d < m => scores[d] < scores[m])
      OBVIOUS
    <3>1. scores[d] <= scores[m] /\ scores[d] \in Nat /\ scores[m] \in Nat
      BY <1>1, <2>3
    <3>2. ASSUME d < m PROVE scores[d] # scores[m]
      <4>1. d \notin tops
        BY <2>1, <2>2, <2>3, <3>2
      <4>2. PICK e \in ClassIds : ~(scores[e] <= scores[d])
        BY <4>1
      <4>3. scores[e] <= scores[m]
        BY <2>3
      <4> QED BY <4>2, <4>3
    <3> QED BY <3>1, <3>2
  <2>5. best \in ClassIds /\ First(best)
    BY <2>3, <2>4
  <2>6. Best(scores) = [class |-> best, conf |-> scores[best]]
    BY <1>3 DEF Best
  <2> HIDE DEF best
  <2> QED BY <1>1, <2>5, <2>6
<1> QED BY <1>2, <1>3
-----------------------------------------------------------------------------
Rows == [object : Objects, scores : [ClassIds -> Scores]]

\* Candidate j has box, confidence and class of row i.
FromRow(j, i) ==
  /\ boxes[j] = Box(img, shown[i].object)
  /\ confidences[j] = Best(shown[i].scores).conf
  /\ class_ids[j] = Best(shown[i].scores).class

\* The three vectors are in step: each candidate comes from one row.
RowsInv ==
  /\ shown \in Seq(Rows)
  /\ Idle => shown = <<>>
  /\ confidences \in Seq(Nat) /\ Len(confidences) = Len(boxes)
  /\ class_ids \in Seq(ClassIds \cup {Unknown}) /\ Len(class_ids) = Len(boxes)
  /\ \A j \in 1..Len(boxes) : \E i \in 1..Len(shown) : FromRow(j, i)

LEMMA NoRows ==
  ASSUME boxes = <<>>, confidences = <<>>, class_ids = <<>>, shown = <<>>
  PROVE  RowsInv
BY DEF RowsInv

\* One more row: the candidates of before keep theirs, a new one is of this row.
LEMMA AnchorRowKeepsRows ==
  ASSUME DetectorIInv, RowsInv, NEW object \in Objects, NEW scores \in [ClassIds -> Scores],
         AnchorRow(object, scores)
  PROVE  RowsInv'
<1> DEFINE row == [object |-> object, scores |-> scores]
           best == Best(scores)
<1>1. ~Idle' /\ img' = img /\ row \in Rows
  BY DEF AnchorRow, Idle, Rows
<1>2. shown' = Append(shown, row)
  BY DEF AnchorRow
<1>3. /\ shown' \in Seq(Rows) /\ Len(shown') = Len(shown) + 1 /\ Len(shown) \in Nat
      /\ shown'[Len(shown) + 1] = row
      /\ \A i \in 1..Len(shown) : i \in 1..Len(shown') /\ shown'[i] = shown[i]
  BY <1>1, <1>2 DEF RowsInv
<1>4. best.conf \in Nat /\ best.class \in ClassIds \cup {Unknown}
  BY BestIsHighest
<1> HIDE DEF row, best
<1>5. CASE UNCHANGED <<boxes, confidences, class_ids>>
  <2>1. ASSUME NEW j \in 1..Len(boxes) PROVE \E i \in 1..Len(shown') : FromRow(j, i)'
    <3>1. PICK i \in 1..Len(shown) : FromRow(j, i)
      BY DEF RowsInv
    <3>2. i \in 1..Len(shown') /\ shown'[i] = shown[i]
      BY <1>3
    <3> QED BY <1>1, <1>5, <3>1, <3>2 DEF FromRow
  <2> QED BY <1>1, <1>3, <1>5, <2>1 DEF RowsInv
<1>6. CASE /\ boxes' = Append(boxes, Box(img, object))
           /\ confidences' = Append(confidences, best.conf)
           /\ class_ids' = Append(class_ids, best.class)
  <2>1. /\ boxes \in Seq(IntBoxes) /\ Len(boxes) \in Nat
        /\ Len(boxes') = Len(boxes) + 1 /\ boxes'[Len(boxes) + 1] = Box(img, object)
        /\ \A j \in 1..Len(boxes) : boxes'[j] = boxes[j]
    <3>1. img \in Pictures /\ object \in [x : Extents, y : Extents]
      BY ObjectAssumption DEF AnchorRow, DetectorIInv, Idle
    <3>2. Box(img, object) \in IntBoxes
      BY <3>1, RealPicture, BoxInside
    <3> QED BY <1>6, <3>2 DEF DetectorIInv
  <2>2. /\ confidences' \in Seq(Nat) /\ Len(confidences') = Len(boxes) + 1
        /\ confidences'[Len(boxes) + 1] = best.conf
        /\ \A j \in 1..Len(boxes) : confidences'[j] = confidences[j]
    BY <1>4, <1>6 DEF RowsInv
  <2>3. /\ class_ids' \in Seq(ClassIds \cup {Unknown}) /\ Len(class_ids') = Len(boxes) + 1
        /\ class_ids'[Len(boxes) + 1] = best.class
        /\ \A j \in 1..Len(boxes) : class_ids'[j] = class_ids[j]
    BY <1>4, <1>6 DEF RowsInv
  <2>4. ASSUME NEW j \in 1..Len(boxes') PROVE \E i \in 1..Len(shown') : FromRow(j, i)'
    <3>1. CASE j = Len(boxes) + 1
      <4>1. PICK n \in 1..Len(shown') : n = Len(shown) + 1
        BY <1>3
      <4>2. /\ boxes'[j] = Box(img, object)
            /\ confidences'[j] = best.conf /\ class_ids'[j] = best.class
        BY <2>1, <2>2, <2>3, <3>1
      <4>3. row.object = object /\ Best(row.scores) = best
        BY DEF row, best
      <4>4. FromRow(j, n)'
        BY <1>1, <1>3, <4>1, <4>2, <4>3 DEF FromRow
      <4> QED BY <4>1, <4>4
    <3>2. CASE j \in 1..Len(boxes)
      <4>1. PICK i \in 1..Len(shown) : FromRow(j, i)
        BY <3>2 DEF RowsInv
      <4>2. i \in 1..Len(shown') /\ shown'[i] = shown[i]
        BY <1>3
      <4> QED BY <1>1, <2>1, <2>2, <2>3, <3>2, <4>1, <4>2 DEF FromRow
    <3> QED BY <2>1, <3>1, <3>2
  <2> QED BY <1>1, <1>3, <2>1, <2>2, <2>3, <2>4 DEF RowsInv
<1> QED BY <1>5, <1>6, Zenon DEF AnchorRow, best

LEMMA NextRowsInv == DetectorIInv /\ RowsInv /\ [DetectorNext]_detectorVars => RowsInv'
<1> SUFFICES ASSUME DetectorIInv, RowsInv, [DetectorNext]_detectorVars PROVE RowsInv'
  OBVIOUS
<1>1. CASE UNCHANGED <<img, candidates>>
  BY <1>1 DEF candidates, RowsInv, FromRow, Idle
<1>2. CASE Return
  BY <1>2, NoRows DEF Return, RowsInv, Idle, FromRow
<1>3. ASSUME NEW pic \in Pictures, Begin(pic) PROVE RowsInv'
  <2>1. boxes = <<>> /\ shown = <<>>
    BY <1>3 DEF Begin, DetectorIInv, RowsInv
  <2>2. Len(boxes) = 0
    BY <2>1
  <2>3. confidences = <<>> /\ class_ids = <<>>
    BY <2>2 DEF RowsInv
  <2>4. boxes' = <<>> /\ shown' = <<>> /\ confidences' = <<>> /\ class_ids' = <<>>
    BY <1>3, <2>1, <2>3 DEF Begin, candidates
  <2> QED BY <2>4 DEF RowsInv
<1>4. ASSUME NEW object \in Objects, NEW scores \in [ClassIds -> Scores], AnchorRow(object, scores)
      PROVE  RowsInv'
  BY <1>4, AnchorRowKeepsRows
<1>5. LoadNetwork \/ DropNetwork \/ DetectNothing => UNCHANGED <<img, candidates>>
  BY DEF LoadNetwork, DropNetwork, DetectNothing
<1>6. UNCHANGED detectorVars => UNCHANGED <<img, candidates>>
  BY DEF detectorVars, candidates
<1> QED BY <1>1, <1>2, <1>3, <1>4, <1>5, <1>6 DEF DetectorNext

\* While the anchors of an inference are read, every candidate so far is the row
\* of one anchor of that inference, and the picture is the one it began with.
THEOREM RowsInvariance == DetectorSpec => []RowsInv
<1>1. DetectorInit => RowsInv
  BY NoRows DEF DetectorInit
<1> QED BY <1>1, NextRowsInv, DetectorInvariance, PTL DEF DetectorSpec

\* Boxes come back to where the objects are: within one pixel of the picture and
\* half a pixel of the network's input on each edge, for every size of both.
THEOREM RestoresEveryObject == DetectorSpec => []RestoresObject
<1>1. ASSUME DetectorIInv, RowsInv PROVE RestoresObject
  <2> SUFFICES ASSUME NEW i \in 1..Len(shown),
                      Within(shown[i].object.x, img.w), Within(shown[i].object.y, img.h)
               PROVE  LET seen == shown[i].object
                          box == Box(img, seen)
                      IN  /\ Near(img, box.x.from, seen.x.from) /\ Near(img, box.x.len, seen.x.len)
                          /\ Near(img, box.y.from, seen.y.from) /\ Near(img, box.y.len, seen.y.len)
    BY DEF RestoresObject
  <2>1. shown # <<>> /\ shown[i] \in Rows
    BY <1>1 DEF RowsInv
  <2>2. img \in [w : Nat \ {0}, h : Nat \ {0}]
    BY <1>1, <2>1, RealPicture DEF RowsInv, DetectorIInv, Idle
  <2>3. shown[i].object \in [x : Extents, y : Extents]
    BY <2>1, ObjectAssumption DEF Rows
  <2> QED BY <2>2, <2>3, BoxNear
<1> QED BY <1>1, DetectorInvariance, RowsInvariance, PTL

\* No detection mixes two anchors, and the class it names is the anchor's best.
THEOREM AlignsDetections == DetectorSpec => DetectionsAligned
<1> DEFINE OfOneRow ==
      \A d \in detections' :
         d \in detections \/
         \E i \in 1..Len(shown) :
            /\ d.bbox = Box(img, shown[i].object)
            /\ d.class_id \in ClassIds
            /\ d.confidence = shown[i].scores[d.class_id]
            /\ \A c \in ClassIds : shown[i].scores[c] <= d.confidence
<1>1. ASSUME DetectorIInv, RowsInv, Return PROVE OfOneRow
  <2>1. PICK keep \in SUBSET (1..Len(boxes)) :
           /\ Survivors(keep)
           /\ detections' = {[class_id |-> class_ids[j], confidence |-> confidences[j],
                              bbox |-> boxes[j]] : j \in keep}
    BY <1>1 DEF Return
  <2> SUFFICES ASSUME NEW d \in detections'
               PROVE  \E i \in 1..Len(shown) :
                         /\ d.bbox = Box(img, shown[i].object)
                         /\ d.class_id \in ClassIds
                         /\ d.confidence = shown[i].scores[d.class_id]
                         /\ \A c \in ClassIds : shown[i].scores[c] <= d.confidence
    OBVIOUS
  <2>2. PICK j \in keep : d = [class_id |-> class_ids[j], confidence |-> confidences[j],
                               bbox |-> boxes[j]]
    BY <2>1
  <2>3. j \in 1..Len(boxes) /\ confidences[j] > ConfThreshold
    BY <2>1 DEF Survivors
  <2>4. PICK i \in 1..Len(shown) : FromRow(j, i)
    BY <1>1, <2>3 DEF RowsInv
  <2>5. shown[i].scores \in [ClassIds -> Scores]
    <3>1. shown[i] \in Rows
      BY <1>1 DEF RowsInv
    <3> QED BY <3>1 DEF Rows
  <2>6. Best(shown[i].scores).conf > 0
    <3>1. Best(shown[i].scores).conf = confidences[j]
      BY <2>4 DEF FromRow
    <3>2. Best(shown[i].scores).conf \in Nat /\ ConfThreshold \in Nat
      BY <2>5, BestIsHighest, ScoreAssumption
    <3> QED BY <2>3, <3>1, <3>2
  <2>7. /\ Best(shown[i].scores).class \in ClassIds
        /\ Best(shown[i].scores).conf = shown[i].scores[Best(shown[i].scores).class]
        /\ \A c \in ClassIds : shown[i].scores[c] <= Best(shown[i].scores).conf
    BY <2>5, <2>6, BestIsHighest
  <2> QED BY <2>2, <2>4, <2>7 DEF FromRow
<1>2. DetectorIInv /\ RowsInv /\ [DetectorNext]_detectorVars => [OfOneRow]_detectorVars
  <2>1. detections' \in {detections, {}} => OfOneRow
    OBVIOUS
  <2>2. [DetectorNext]_detectorVars => Return \/ detections' \in {detections, {}}
    BY DEF DetectorNext, detectorVars, LoadNetwork, DropNetwork, DetectNothing, Begin, AnchorRow
  <2> QED BY <1>1, <2>1, <2>2
<1> QED BY <1>2, DetectorInvariance, RowsInvariance, PTL DEF DetectorSpec, DetectionsAligned
-----------------------------------------------------------------------------
\* A number of the upper digit and the lower one of it are found again.
LEMMA TwoDigits ==
  ASSUME NEW m \in Nat \ {0}, NEW x \in Nat, NEW u \in 0..m - 1
  PROVE  m * x + u \in Nat /\ (m * x + u) \div m = x
<1> DEFINE n == m * x + u
           q == n \div m
<1>1. n \in Nat
  BY SMT
<1> HIDE DEF n
<1>2. q \in Nat /\ m * q <= n /\ n < m * q + m
  BY <1>1
<1>3. n = m * x + u
  BY DEF n
<1> HIDE DEF q
<1>4. ASSUME q < x PROVE FALSE
  <2>1. m * (q + 1) <= m * x
    BY <1>2, <1>4, SMT
  <2>2. m * (q + 1) = m * q + m
    BY <1>2, SMT
  <2> QED BY <1>2, <1>3, <2>1, <2>2
<1>5. ASSUME x < q PROVE FALSE
  <2>1. m * (x + 1) <= m * q
    BY <1>2, <1>5, SMT
  <2>2. m * (x + 1) = m * x + m
    BY SMT
  <2> QED BY <1>2, <1>3, <2>1, <2>2
<1>6. q = x
  BY <1>2, <1>4, <1>5
<1> QED BY <1>1, <1>6 DEF q, n

\* A second is made of whole microseconds.
LEMMA NowSplit ==
  ASSUME ClockAssumption, now \in Nat
  PROVE  T!Seconds \in Nat /\ T!Usec \in 0..MicroSec - 1 /\ now = MicroSec * T!Seconds + T!Usec
BY DEF ClockAssumption, T!Seconds, T!Usec

\* Numbers of a word are themselves.
LEMMA WordIs ==
  ASSUME ClockAssumption
  PROVE  /\ \A n \in 0..Word - 1 : n % Word = n
         /\ \A n \in Word..2 * Word - 1 : n % Word = n - Word
         /\ \A n \in -Word..-1 : n % Word = n + Word
         /\ \A n \in Int : n % Word \in 0..Word - 1
BY SMT DEF ClockAssumption

SettingsTyped == now \in Nat /\ leapSec \in Nat /\ epoch_time_base_gap \in Int

\* What both clocks should tell of a time since 1970, before its width matters.
Told(time) == T!AtLeast2004(time) - Ts20040101 + leapSec

LEMMA ToldIs ==
  ASSUME ClockAssumption, SettingsTyped
  PROVE  /\ \A time \in Int : Told(time) \in Nat
         /\ \A time \in Int, later \in Int : time <= later => Told(time) <= Told(later)
         /\ \A time \in Int, later \in Int : time < later /\ Ts20040101 < later => Told(time) < Told(later)
         /\ \A time \in Int : T!Narrow(time) <=> time < Word /\ Told(time) < Word
         /\ \A time \in Int : T!TimeToTime32(time) = IF Told(time) < Word THEN Told(time) ELSE Word - 1
BY DEF ClockAssumption, SettingsTyped, Told, T!AtLeast2004, T!Narrow, T!TimeToTime32, T!Least

LEMMA BaseTimeIs ==
  ASSUME ClockAssumption, SettingsTyped
  PROVE  T!GetTimeFromBaseTime \in Int /\ T!GetTimeFromBaseTime = T!Seconds - epoch_time_base_gap
BY NowSplit DEF SettingsTyped, T!GetTimeFromBaseTime

\* While seconds and times fit into a word the clock of 64 bits narrows nothing away.
Clock64At(time, u) ==
  MicroSec * ((T!AtLeast2004(IF time < 0 THEN 0 ELSE time % Word) - Ts20040101 + leapSec) % Word) + u

LEMMA NarrowsNothing ==
  ASSUME ClockAssumption, SettingsTyped, NEW time \in Int, T!Narrow(time), NEW u
  PROVE  Clock64At(time, u) = MicroSec * Told(time) + u
<1> DEFINE sec == T!AtLeast2004(IF time < 0 THEN 0 ELSE time % Word)
<1>1. time < Word /\ Told(time) \in 0..Word - 1
  BY ToldIs
<1>2. (IF time < 0 THEN 0 ELSE time % Word) = IF time < 0 THEN 0 ELSE time
  BY <1>1, WordIs
<1>3. sec = T!AtLeast2004(time)
  BY <1>1, <1>2 DEF T!AtLeast2004, ClockAssumption
<1>4. (sec - Ts20040101 + leapSec) % Word = Told(time)
  BY <1>1, <1>3, WordIs DEF Told
<1> QED BY <1>4 DEF Clock64At

LEMMA Clock64Is ==
  ASSUME ClockAssumption, SettingsTyped, T!Narrow(T!GetTimeFromBaseTime)
  PROVE  T!GetTime64 = MicroSec * Told(T!GetTimeFromBaseTime) + T!Usec
<1>1. T!GetTime64 = Clock64At(T!GetTimeFromBaseTime, T!Usec)
  BY DEF T!GetTime64, Clock64At
<1>2. T!GetTimeFromBaseTime \in Int
  BY BaseTimeIs
<1> QED BY <1>1, <1>2, NarrowsNothing

\* From a time of 32 bits the time since 1970 comes back.
LEMMA ComesBack ==
  ASSUME ClockAssumption, SettingsTyped, NEW time \in Int, Ts20040101 <= time, T!Narrow(time)
  PROVE  T!Time32ToTime(Told(time)) = time
<1>1. time \in 0..Word - 1 /\ leapSec \in 0..Word - 1 /\ Told(time) + Ts20040101 = time + leapSec
  BY ToldIs DEF ClockAssumption, SettingsTyped, Told, T!AtLeast2004
<1>2. T!Time32ToTime(Told(time)) = (((time + leapSec) % Word) - leapSec) % Word
  BY <1>1 DEF T!Time32ToTime
<1>3. CASE time + leapSec < Word
  <2>1. (time + leapSec) % Word = time + leapSec
    BY <1>1, <1>3, WordIs
  <2>2. time + leapSec - leapSec = time
    BY <1>1
  <2> QED BY <1>1, <1>2, <2>1, <2>2, WordIs
<1>4. CASE ~(time + leapSec < Word)
  <2> DEFINE n == time + leapSec
             r == time - Word
  <2>1. n \in Word..2 * Word - 1 /\ n - Word - leapSec = r /\ r \in -Word..-1 /\ r + Word = time
    BY <1>1, <1>4 DEF ClockAssumption
  <2>2. T!Time32ToTime(Told(time)) = ((n % Word) - leapSec) % Word
    BY <1>2
  <2> HIDE DEF n, r
  <2>3. n % Word = n - Word /\ r % Word = r + Word
    BY <2>1, WordIs
  <2> QED BY <2>1, <2>2, <2>3
<1> QED BY <1>3, <1>4

LEMMA ClocksTellOneTime ==
  ASSUME ClockAssumption, SettingsTyped
  PROVE  ClocksAgree
<1> DEFINE g == T!GetTimeFromBaseTime
<1>1. ASSUME NEW time \in Int, T!Narrow(time)
      PROVE  /\ Told(time) \in 0..Word - 1 /\ T!TimeToTime32(time) = Told(time)
             /\ \A u \in 0..MicroSec - 1 : T!Time64ToTime32(MicroSec * Told(time) + u) = Told(time)
  <2>1. Told(time) \in 0..Word - 1 /\ T!TimeToTime32(time) = Told(time)
    BY <1>1, ToldIs
  <2>2. ASSUME NEW u \in 0..MicroSec - 1 PROVE T!Time64ToTime32(MicroSec * Told(time) + u) = Told(time)
    <3>1. (MicroSec * Told(time) + u) \div MicroSec = Told(time)
      BY <2>1, TwoDigits DEF ClockAssumption
    <3> QED BY <2>1, <3>1, WordIs DEF T!Time64ToTime32
  <2> QED BY <2>1, <2>2
<1>2. ASSUME T!Narrow(g) PROVE T!GetTime32 = T!Time64ToTime32(T!GetTime64) /\ T!GetTime32 = Told(g)
  <2>1. g \in Int /\ T!Usec \in 0..MicroSec - 1
    BY BaseTimeIs, NowSplit DEF SettingsTyped
  <2> QED BY <1>1, <1>2, <2>1, Clock64Is DEF T!GetTime32
<1>3. ASSUME T!Narrow(g), g >= Ts20040101 PROVE T!Time64ToTime(T!GetTime64) = g
  <2>1. g \in Int /\ Ts20040101 <= g
    BY <1>3, BaseTimeIs DEF ClockAssumption
  <2> HIDE DEF g
  <2>2. T!Time32ToTime(Told(g)) = g
    BY <1>3, <2>1, ComesBack
  <2> QED BY <1>2, <1>3, <2>2 DEF T!Time64ToTime
<1>4. ASSUME NEW time \in Ts20040101..Word - 1, T!Narrow(time)
      PROVE  T!Time32ToTime(T!TimeToTime32(time)) = time /\ T!Time64ToTime(T!TimeToTime64(time)) = time
  <2>1. time \in Int /\ Ts20040101 <= time
    BY DEF ClockAssumption
  <2>2. T!Time32ToTime(Told(time)) = time /\ T!TimeToTime32(time) = Told(time) /\ Told(time) \in Nat
    BY <1>1, <1>4, <2>1, ComesBack
  <2>3. T!TimeToTime64(time) = MicroSec * Told(time) + 0
    BY <2>2 DEF T!TimeToTime64, T!Time32ToTime64, ClockAssumption
  <2>4. 0 \in 0..MicroSec - 1
    BY DEF ClockAssumption
  <2>5. T!Time64ToTime32(T!TimeToTime64(time)) = Told(time)
    BY <1>1, <1>4, <2>1, <2>3, <2>4
  <2> QED BY <2>2, <2>5 DEF T!Time64ToTime
<1> QED BY <1>2, <1>3, <1>4 DEF ClocksAgree, T!ClocksAgree
-----------------------------------------------------------------------------
\* What was read is not ahead of what the clocks say now.  In the first second of
\* 2004 the clock of 64 bits may be behind what it said in 2003, by less than a second.
NotAhead ==
  LET g == T!GetTimeFromBaseTime
  IN  /\ read.time32 <= T!GetTime32
      /\ T!Narrow(g) => read.time64 < MicroSec * Told(g) + MicroSec
      /\ T!Narrow(g) /\ Ts20040101 < g => read.time64 <= T!GetTime64

ClockInv == SettingsTyped /\ read \in [time32 : Nat, time64 : Nat] /\ NotAhead

LEMMA GetTime32Is ==
  ASSUME ClockAssumption, SettingsTyped
  PROVE  /\ T!GetTime32 \in 0..Word - 1
         /\ T!GetTime32 = IF Told(T!GetTimeFromBaseTime) < Word THEN Told(T!GetTimeFromBaseTime) ELSE Word - 1
<1>1. T!GetTimeFromBaseTime \in Int /\ Told(T!GetTimeFromBaseTime) \in Nat
  BY BaseTimeIs, ToldIs
<1> QED BY <1>1, ToldIs DEF T!GetTime32, ClockAssumption

LEMMA GetTime64Typed ==
  ASSUME ClockAssumption, SettingsTyped
  PROVE  T!GetTime64 \in Nat
<1> DEFINE sec == T!AtLeast2004(IF T!GetTimeFromBaseTime < 0 THEN 0 ELSE T!GetTimeFromBaseTime % Word)
           w == (sec - Ts20040101 + leapSec) % Word
<1>1. T!GetTime64 = MicroSec * w + T!Usec /\ T!Usec \in Nat
  BY NowSplit DEF T!GetTime64, SettingsTyped, ClockAssumption
<1>2. T!GetTimeFromBaseTime \in Int
  BY BaseTimeIs
<1>3. (IF T!GetTimeFromBaseTime < 0 THEN 0 ELSE T!GetTimeFromBaseTime % Word) \in Nat
  BY <1>2, WordIs
<1>4. sec \in Nat
  BY <1>3 DEF T!AtLeast2004, ClockAssumption
<1> HIDE DEF sec
<1>5. w \in Nat
  BY <1>4, WordIs DEF ClockAssumption, SettingsTyped
<1> HIDE DEF w
<1> QED BY <1>1, <1>5, SMT DEF ClockAssumption

\* Nothing that was read is ahead of anything.
LEMMA NothingReadIsBehind ==
  ASSUME ClockAssumption, SettingsTyped, read = T!NotRead
  PROVE  ClockInv
<1>1. read.time32 = 0 /\ read.time64 = 0 /\ read \in [time32 : Nat, time64 : Nat]
  BY DEF T!NotRead
<1>2. T!GetTime32 \in Nat /\ T!GetTime64 \in Nat
  BY GetTime32Is, GetTime64Typed DEF ClockAssumption
<1>3. T!Narrow(T!GetTimeFromBaseTime) => 0 < MicroSec * Told(T!GetTimeFromBaseTime) + MicroSec
  <2>1. Told(T!GetTimeFromBaseTime) \in Nat
    BY BaseTimeIs, ToldIs
  <2> QED BY <2>1, SMT DEF ClockAssumption
<1> QED BY <1>1, <1>2, <1>3 DEF ClockInv, NotAhead

\* A reading of now is not ahead of now.
LEMMA NowIsNotAhead ==
  ASSUME ClockAssumption, SettingsTyped, T!Narrow(T!GetTimeFromBaseTime)
  PROVE  T!GetTime64 < MicroSec * Told(T!GetTimeFromBaseTime) + MicroSec
<1>1. Told(T!GetTimeFromBaseTime) \in Nat /\ T!Usec \in 0..MicroSec - 1
  BY BaseTimeIs, ToldIs, NowSplit DEF SettingsTyped
<1> HIDE DEF Told
<1> QED BY <1>1, Clock64Is, SMT DEF ClockAssumption

\* The next microsecond is in the same second or begins the next one.
LEMMA NextMicrosecond ==
  ASSUME NEW m \in Nat \ {0}
  PROVE  \A s, t \in Nat : \A u, v \in 0..m - 1 :
           m * t + v = (m * s + u) + 1 => (t = s /\ v = u + 1) \/ (t = s + 1 /\ v = 0)
<1> SUFFICES ASSUME NEW s \in Nat, NEW t \in Nat, NEW u \in 0..m - 1, NEW v \in 0..m - 1,
                    m * t + v = (m * s + u) + 1
             PROVE  (t = s /\ v = u + 1) \/ (t = s + 1 /\ v = 0)
  BY Zenon
<1>1. CASE u + 1 < m
  <2>1. m * t + v = m * s + (u + 1) /\ u + 1 \in 0..m - 1
    BY <1>1, SMT
  <2>2. t = s
    BY <2>1, TwoDigits
  <2> QED BY <2>1, <2>2, SMT
<1>2. CASE ~(u + 1 < m)
  <2>1. m * (s + 1) = m * s + m /\ m * t \in Int /\ m * s \in Int
    BY SMT
  <2>2. m * t + v = m * (s + 1) + 0 /\ 0 \in 0..m - 1
    BY <1>2, <2>1
  <2>3. t = s + 1
    BY <2>2, TwoDigits
  <2> QED BY <2>2, <2>3, SMT
<1> QED BY <1>1, <1>2

\* The next moment: the clock of 32 bits is as far or further, and so is that of
\* 64 bits when the new second is one after 2004.
LEMMA TicksForward ==
  ASSUME ClockAssumption, SettingsTyped, T!Tick
  PROVE  LET g == T!GetTimeFromBaseTime
         IN  /\ SettingsTyped' /\ T!GetTime32 <= T!GetTime32'
             /\ T!Narrow(g)' => T!Narrow(g)
             /\ T!Narrow(g)' => \/ g' = g /\ Told(g)' = Told(g) /\ T!GetTime64' = T!GetTime64 + 1
                                \/ /\ g' = g + 1 /\ Told(g) <= Told(g)'
                                   /\ T!GetTime64' = MicroSec * Told(g)'
                                   /\ Ts20040101 < g' => Told(g) + 1 <= Told(g)'
<1> DEFINE g == T!GetTimeFromBaseTime
<1>1. now' = now + 1 /\ UNCHANGED <<leapSec, epoch_time_base_gap, read>> /\ SettingsTyped'
  BY DEF T!Tick, SettingsTyped
<1>2. /\ T!Seconds \in Nat /\ T!Usec \in 0..MicroSec - 1 /\ now = MicroSec * T!Seconds + T!Usec
      /\ T!Seconds' \in Nat /\ T!Usec' \in 0..MicroSec - 1 /\ now' = MicroSec * T!Seconds' + T!Usec'
  BY <1>1, NowSplit DEF SettingsTyped, T!Seconds, T!Usec
<1>3. /\ T!Seconds \in Nat /\ T!Usec \in 0..MicroSec - 1
      /\ T!Seconds' \in Nat /\ T!Usec' \in 0..MicroSec - 1 /\ MicroSec \in Nat \ {0}
  BY <1>2, Zenon DEF ClockAssumption
<1>4. \/ T!Seconds' = T!Seconds /\ T!Usec' = T!Usec + 1
      \/ T!Seconds' = T!Seconds + 1 /\ T!Usec' = 0
  <2>1. MicroSec * T!Seconds' + T!Usec' = (MicroSec * T!Seconds + T!Usec) + 1
    BY <1>1, <1>2, Zenon
  <2> DEFINE s == T!Seconds
             t == T!Seconds'
             u == T!Usec
             v == T!Usec'
  <2>2. /\ s \in Nat /\ t \in Nat /\ u \in 0..MicroSec - 1 /\ v \in 0..MicroSec - 1
        /\ MicroSec * t + v = (MicroSec * s + u) + 1
    BY <1>3, <2>1
  <2> HIDE DEF s, t, u, v
  <2>3. (t = s /\ v = u + 1) \/ (t = s + 1 /\ v = 0)
    BY <1>3, <2>2, NextMicrosecond
  <2> QED BY <2>3 DEF s, t, u, v
<1>5. /\ g \in Int /\ g' \in Int
      /\ T!Seconds' = T!Seconds => g' = g
      /\ T!Seconds' = T!Seconds + 1 => g' = g + 1
  <2>1. g = T!Seconds - epoch_time_base_gap /\ g' = T!Seconds' - epoch_time_base_gap
    BY <1>1 DEF T!GetTimeFromBaseTime
  <2> HIDE DEF g
  <2>2. T!Seconds \in Int /\ T!Seconds' \in Int /\ epoch_time_base_gap \in Int
    BY <1>3 DEF SettingsTyped
  <2>3. g \in Int /\ g' \in Int
    BY <2>1, <2>2
  <2>4. T!Seconds' = T!Seconds => g' = g
    BY <2>1, Zenon
  <2>5. ASSUME T!Seconds' = T!Seconds + 1 PROVE g' = g + 1
    BY <2>1, <2>2, <2>5
  <2> QED BY <2>3, <2>4, <2>5
<1> HIDE DEF g
<1>6. Told(g)' = Told(g')
  BY <1>1 DEF Told, T!AtLeast2004
<1>7. g <= g' /\ Told(g) \in Nat /\ Told(g') \in Nat /\ Told(g) <= Told(g')
  BY <1>3, <1>4, <1>5, ToldIs
<1>8. T!GetTime32 = T!TimeToTime32(g) /\ T!GetTime32' = T!TimeToTime32(g')
  BY <1>1 DEF g, T!GetTime32, T!TimeToTime32, T!AtLeast2004, T!Least
<1>9. T!GetTime32 <= T!GetTime32'
  BY <1>5, <1>7, <1>8, ToldIs DEF ClockAssumption
<1>10. T!Narrow(g)' <=> T!Narrow(g')
  BY <1>1 DEF T!Narrow, T!AtLeast2004
<1>11. T!Narrow(g)' => T!Narrow(g)
  BY <1>5, <1>7, <1>10, ToldIs DEF ClockAssumption
<1>12. ASSUME T!Narrow(g)' PROVE T!GetTime64 = MicroSec * Told(g) + T!Usec /\ T!GetTime64' = MicroSec * Told(g') + T!Usec'
  <2>1. T!GetTime64 = Clock64At(g, T!Usec) /\ T!GetTime64' = Clock64At(g', T!Usec')
    BY <1>1 DEF g, T!GetTime64, Clock64At, T!AtLeast2004
  <2> QED BY <1>5, <1>10, <1>11, <1>12, <2>1, NarrowsNothing
<1>13. ASSUME T!Narrow(g)', T!Seconds' = T!Seconds, T!Usec' = T!Usec + 1
       PROVE  g' = g /\ T!GetTime64' = T!GetTime64 + 1
  <2>1. g' = g
    BY <1>5, <1>13
  <2>2. MicroSec * Told(g) \in Nat
    BY <1>7, SMT DEF ClockAssumption
  <2> QED BY <1>3, <1>12, <1>13, <2>1, <2>2
<1>14. ASSUME T!Narrow(g)', T!Seconds' = T!Seconds + 1, T!Usec' = 0
       PROVE  g' = g + 1 /\ T!GetTime64' = MicroSec * Told(g') /\ (Ts20040101 < g' => Told(g) + 1 <= Told(g'))
  <2>1. g' = g + 1
    BY <1>5, <1>14
  <2>2. MicroSec * Told(g') \in Nat
    BY <1>7, SMT DEF ClockAssumption
  <2>3. T!GetTime64' = MicroSec * Told(g')
    BY <1>12, <1>14, <2>2
  <2>4. Ts20040101 < g' => Told(g) + 1 <= Told(g')
    BY <1>5, <1>7, <2>1, ToldIs
  <2> QED BY <2>1, <2>3, <2>4
<1> QED BY <1>1, <1>4, <1>6, <1>7, <1>9, <1>11, <1>13, <1>14 DEF g

LEMMA ClockInvInit == T!Init => ClockInv
<1> SUFFICES ASSUME T!Init PROVE ClockInv
  OBVIOUS
<1>1. SettingsTyped /\ read = T!NotRead
  BY DEF T!Init, SettingsTyped
<1> QED BY <1>1, ClockAssumption, NothingReadIsBehind

LEMMA ClockInvTick == ClockInv /\ T!Tick => ClockInv'
<1> SUFFICES ASSUME ClockInv, T!Tick PROVE ClockInv'
  OBVIOUS
<1> DEFINE g == T!GetTimeFromBaseTime
<1> USE ClockAssumption
<1>1. SettingsTyped /\ read' = read /\ read \in [time32 : Nat, time64 : Nat] /\ g \in Int /\ Told(g) \in Nat
  BY BaseTimeIs, ToldIs DEF ClockInv, T!Tick
<1>2. SettingsTyped' /\ Told(g)' \in Nat /\ T!GetTime32' \in Int /\ T!GetTime32 \in Int /\ T!GetTime64 \in Nat
  <2>1. SettingsTyped'
    BY <1>1, TicksForward
  <2>2. T!GetTimeFromBaseTime' \in Int
    BY <1>1, <2>1 DEF T!GetTimeFromBaseTime, SettingsTyped, T!Seconds, ClockAssumption
  <2>3. Told(g)' = Told(g') /\ Told(g') \in Nat
    BY <1>1, <2>2, ToldIs DEF Told, T!AtLeast2004, T!Tick
  <2>4. T!GetTime32' = T!TimeToTime32(g') /\ T!TimeToTime32(g') \in Int
    BY <1>1, <2>2, <2>3, ToldIs DEF T!GetTime32, T!TimeToTime32, T!AtLeast2004, T!Least, T!Tick, ClockAssumption
  <2> QED BY <1>1, <2>1, <2>3, <2>4, GetTime32Is, GetTime64Typed
<1>3. /\ T!GetTime32 <= T!GetTime32'
      /\ T!Narrow(g)' => T!Narrow(g)
      /\ T!Narrow(g)' => \/ g' = g /\ Told(g)' = Told(g) /\ T!GetTime64' = T!GetTime64 + 1
                         \/ /\ g' = g + 1 /\ Told(g) <= Told(g)'
                            /\ T!GetTime64' = MicroSec * Told(g)'
                            /\ Ts20040101 < g' => Told(g) + 1 <= Told(g)'
  BY <1>1, TicksForward
<1>4. /\ read.time32 <= T!GetTime32
      /\ T!Narrow(g) => read.time64 < MicroSec * Told(g) + MicroSec
      /\ T!Narrow(g) /\ Ts20040101 < g => read.time64 <= T!GetTime64
  BY DEF ClockInv, NotAhead
<1> HIDE DEF g
<1>5. read.time32 <= T!GetTime32'
  BY <1>1, <1>2, <1>3, <1>4
<1>6. ASSUME T!Narrow(g)' PROVE read.time64 < MicroSec * Told(g)' + MicroSec
  <2>1. Told(g) <= Told(g)' /\ read.time64 < MicroSec * Told(g) + MicroSec
    BY <1>1, <1>3, <1>4, <1>6
  <2>2. MicroSec * Told(g) <= MicroSec * Told(g)' /\ MicroSec * Told(g) \in Int /\ MicroSec * Told(g)' \in Int
    BY <1>1, <1>2, <2>1, SMT DEF ClockAssumption
  <2> QED BY <1>1, <2>1, <2>2 DEF ClockAssumption
<1>7. ASSUME T!Narrow(g)', Ts20040101 < g' PROVE read.time64 <= T!GetTime64'
  <2>1. CASE g' = g /\ T!GetTime64' = T!GetTime64 + 1
    BY <1>1, <1>2, <1>3, <1>4, <1>7, <2>1
  <2>2. CASE T!GetTime64' = MicroSec * Told(g)' /\ Told(g) + 1 <= Told(g)'
    <3>1. read.time64 < MicroSec * Told(g) + MicroSec
      BY <1>3, <1>4, <1>7
    <3>2. MicroSec * (Told(g) + 1) <= MicroSec * Told(g)'
      BY <1>1, <1>2, <2>2, SMT DEF ClockAssumption
    <3>3. MicroSec * (Told(g) + 1) = MicroSec * Told(g) + MicroSec
      BY <1>1, SMT DEF ClockAssumption
    <3>4. MicroSec * Told(g) \in Int /\ MicroSec * Told(g)' \in Int /\ read.time64 \in Int
      BY <1>1, <1>2, SMT DEF ClockAssumption
    <3> QED BY <2>2, <3>1, <3>2, <3>3, <3>4 DEF ClockAssumption
  <2> QED BY <1>3, <1>7, <2>1, <2>2
<1> QED BY <1>1, <1>2, <1>5, <1>6, <1>7 DEF ClockInv, NotAhead, g

LEMMA SetAnew == (SettingsTyped /\ read = T!NotRead)' => ClockInv'
<1>1. SettingsTyped /\ read = T!NotRead => ClockInv
  BY ClockAssumption, NothingReadIsBehind
<1> QED BY <1>1, PTL

LEMMA ClockInvStep == ClockInv /\ [T!Next]_(T!vars) => ClockInv'
<1> SUFFICES ASSUME ClockInv, [T!Next]_(T!vars) PROVE ClockInv'
  OBVIOUS
<1> USE ClockAssumption
<1>1. SettingsTyped /\ read \in [time32 : Nat, time64 : Nat] /\ NotAhead
  BY DEF ClockInv
<1>2. CASE T!Tick
  BY <1>2, ClockInvTick
<1>3. CASE T!ReadTime32
  <2>1. read' = [read EXCEPT !.time32 = T!GetTime32] /\ UNCHANGED <<now, leapSec, epoch_time_base_gap>>
    BY <1>3 DEF T!ReadTime32
  <2>2. T!GetTime32 \in Nat /\ T!GetTime32' = T!GetTime32
    BY <1>1, <2>1, GetTime32Is DEF ClockAssumption, T!GetTime32, T!TimeToTime32, T!AtLeast2004, T!Least,
         T!GetTimeFromBaseTime, T!Seconds
  <2>3. read'.time32 = T!GetTime32 /\ read'.time64 = read.time64 /\ read' \in [time32 : Nat, time64 : Nat]
    BY <1>1, <2>1, <2>2
  <2>4. T!GetTimeFromBaseTime' = T!GetTimeFromBaseTime /\ SettingsTyped'
    BY <1>1, <2>1 DEF T!GetTimeFromBaseTime, T!Seconds, SettingsTyped
  <2>5. /\ T!Narrow(T!GetTimeFromBaseTime)' <=> T!Narrow(T!GetTimeFromBaseTime)
        /\ Told(T!GetTimeFromBaseTime)' = Told(T!GetTimeFromBaseTime) /\ T!GetTime64' = T!GetTime64
    BY <2>1, <2>4 DEF T!Narrow, Told, T!AtLeast2004, T!GetTime64, T!Seconds, T!Usec
  <2> QED BY <1>1, <2>2, <2>3, <2>4, <2>5 DEF ClockInv, NotAhead
<1>4. CASE T!ReadTime64
  <2>1. read' = [read EXCEPT !.time64 = T!GetTime64] /\ UNCHANGED <<now, leapSec, epoch_time_base_gap>>
    BY <1>4 DEF T!ReadTime64
  <2>2. T!GetTime64 \in Nat /\ T!GetTime32' = T!GetTime32
    BY <1>1, <2>1, GetTime64Typed DEF ClockAssumption, T!GetTime32, T!TimeToTime32, T!AtLeast2004, T!Least,
         T!GetTimeFromBaseTime, T!Seconds
  <2>3. read'.time64 = T!GetTime64 /\ read'.time32 = read.time32 /\ read' \in [time32 : Nat, time64 : Nat]
    BY <1>1, <2>1, <2>2
  <2>4. T!GetTimeFromBaseTime' = T!GetTimeFromBaseTime /\ SettingsTyped'
    BY <1>1, <2>1 DEF T!GetTimeFromBaseTime, T!Seconds, SettingsTyped
  <2>5. /\ T!Narrow(T!GetTimeFromBaseTime)' <=> T!Narrow(T!GetTimeFromBaseTime)
        /\ Told(T!GetTimeFromBaseTime)' = Told(T!GetTimeFromBaseTime) /\ T!GetTime64' = T!GetTime64
    BY <2>1, <2>4 DEF T!Narrow, Told, T!AtLeast2004, T!GetTime64, T!Seconds, T!Usec
  <2>6. T!Narrow(T!GetTimeFromBaseTime) => read'.time64 < MicroSec * Told(T!GetTimeFromBaseTime) + MicroSec
    BY <1>1, <2>3, NowIsNotAhead
  <2> QED BY <1>1, <2>2, <2>3, <2>4, <2>5, <2>6 DEF ClockInv, NotAhead
<1>5. ASSUME read' = T!NotRead, SettingsTyped' PROVE ClockInv'
  BY <1>5, SetAnew DEF T!NotRead
<1>6. ASSUME NEW e \in BaseTimes, T!SetBaseTime(e) PROVE ClockInv'
  <2>1. T!Seconds - e \in Int
    BY <1>1, NowSplit DEF ClockAssumption, SettingsTyped
  <2>2. T!Signed(T!Seconds - e) \in Int
    BY <2>1, WordIs DEF T!Signed, ClockAssumption
  <2> QED BY <1>1, <1>5, <1>6, <2>2 DEF T!SetBaseTime, SettingsTyped
<1>7. ASSUME NEW n \in LeapSecs, T!SetLeapSec(n) PROVE ClockInv'
  BY <1>1, <1>5, <1>7 DEF T!SetLeapSec, SettingsTyped, ClockAssumption
<1>8. CASE UNCHANGED T!vars
  BY <1>8 DEF T!vars, ClockInv, SettingsTyped, NotAhead, Told, T!Narrow, T!AtLeast2004, T!GetTime32, T!GetTime64,
       T!TimeToTime32, T!Least, T!GetTimeFromBaseTime, T!Seconds, T!Usec
<1> QED BY <1>2, <1>3, <1>4, <1>6, <1>7, <1>8 DEF T!Next

\* For every width of a word, epoch, number of leap seconds and base time: while the
\* time fits, the clocks of 32 and of 64 bits tell the same second, and every time
\* of the years 2004 to 2106 comes back from both formats as it was.
THEOREM TellsOneTime == T!Spec => []ClocksAgree
<1>1. ClockInv => ClocksAgree
  BY ClockAssumption, ClocksTellOneTime DEF ClockInv
<1> QED BY <1>1, ClockInvInit, ClockInvStep, PTL DEF T!Spec

\* While nobody sets it, neither clock goes back: not at the end of the words of 32
\* bits, and that of 64 bits not after the first second of 2004.
THEOREM MovesForward == T!Spec => NeverGoesBack
<1>1. ClockInv /\ [T!Next]_(T!vars) =>
        [read' # T!NotRead =>
           /\ read'.time32 >= read.time32
           /\ T!Narrow(T!GetTimeFromBaseTime) /\ T!GetTimeFromBaseTime > Ts20040101 =>
                read'.time64 >= read.time64]_(T!vars)
  <2> SUFFICES ASSUME ClockInv, [T!Next]_(T!vars), T!vars' # T!vars, read' # T!NotRead
               PROVE  /\ read'.time32 >= read.time32
                      /\ T!Narrow(T!GetTimeFromBaseTime) /\ T!GetTimeFromBaseTime > Ts20040101 =>
                           read'.time64 >= read.time64
    OBVIOUS
  <2> USE ClockAssumption
  <2>1. SettingsTyped /\ read \in [time32 : Nat, time64 : Nat] /\ NotAhead
    BY DEF ClockInv
  <2>2. CASE T!Tick
    BY <2>1, <2>2 DEF T!Tick
  <2>3. CASE T!ReadTime32
    <3>1. read'.time32 = T!GetTime32 /\ read'.time64 = read.time64
      BY <2>1, <2>3 DEF T!ReadTime32
    <3>2. T!GetTime32 \in Int
      BY <2>1, GetTime32Is
    <3> QED BY <2>1, <3>1, <3>2 DEF NotAhead
  <2>4. CASE T!ReadTime64
    <3>1. read'.time64 = T!GetTime64 /\ read'.time32 = read.time32
      BY <2>1, <2>4 DEF T!ReadTime64
    <3>2. T!GetTime64 \in Int /\ T!GetTimeFromBaseTime \in Int
      BY <2>1, GetTime64Typed, BaseTimeIs
    <3> QED BY <2>1, <3>1, <3>2 DEF NotAhead, ClockAssumption
  <2> QED BY <2>2, <2>3, <2>4 DEF T!Next, T!SetBaseTime, T!SetLeapSec
<1> QED BY <1>1, ClockInvInit, ClockInvStep, PTL DEF T!Spec, NeverGoesBack, T!NeverGoesBack
-----------------------------------------------------------------------------
(* Startup: the log.                                                       *)

\* What is compared before the logger is called lies below the levels of all sinks
\* there are, those of a logInit that is going on included, and the logger of before
\* is dropped only while the new one is about to take its place.
LogInv ==
  /\ job = [rest |-> job.rest, sinks |-> job.sinks, going |-> job.going, made |-> job.made]
  /\ job.sinks \subseteq Int /\ registered \subseteq Int /\ spdlog_level \in Int
  /\ \A level \in job.sinks \cup registered : spdlog_level <= level
  /\ job.made => job.going /\ job.rest = <<>>
  /\ ~job.going => job.sinks = {}
  /\ logger = "dropped" => job.made

LEMMA LevelIs ==
  ASSUME NEW word, M!IsLevel(word)
  PROVE  M!LevelOf(word) \in Int
<1> DEFINE wanted == CHOOSE i \in DOMAIN M!LevelNames : M!LevelNames[i] = word
<1>1. \E i \in DOMAIN M!LevelNames : M!LevelNames[i] = word
  BY DEF M!IsLevel, M!Range
<1>2. wanted \in DOMAIN M!LevelNames
  BY <1>1
<1>3. DOMAIN M!LevelNames = 1..6
  BY DEF M!LevelNames
<1> HIDE DEF wanted
<1>4. wanted - 1 \in Int
  BY <1>2, <1>3
<1> QED BY <1>4 DEF M!LevelOf, wanted

LEMMA LogInvInit == M!Init => LogInv
<1> SUFFICES ASSUME M!Init PROVE LogInv
  OBVIOUS
<1>1. /\ spdlog_level = 2 /\ logger = "default" /\ registered = {}
      /\ job = [rest |-> <<>>, sinks |-> {}, going |-> FALSE, made |-> FALSE]
  BY DEF M!Init, M!NoJob, M!NoLogger, M!Info
<1>2. job.rest = <<>> /\ job.sinks = {} /\ ~job.going /\ ~job.made
  BY <1>1
<1>3. job = [rest |-> job.rest, sinks |-> job.sinks, going |-> job.going, made |-> job.made]
  BY <1>1
<1> QED BY <1>1, <1>2, <1>3 DEF LogInv

LEMMA LogInvStep == LogInv /\ [M!Next]_(M!vars) => LogInv'
<1> SUFFICES ASSUME LogInv, [M!Next]_(M!vars) PROVE LogInv'
  OBVIOUS
<1> USE DEF LogInv
<1>1. ASSUME NEW cnfs, M!LogInit(cnfs) PROVE LogInv'
  BY <1>1 DEF M!LogInit, M!NoLogger
<1>2. CASE M!AddSink
  <2>1. PICK level : /\ level = M!LevelOf(Head(job.rest).level)
                     /\ job' = [job EXCEPT !.rest = Tail(@), !.sinks = @ \cup {level}]
                     /\ spdlog_level' = IF spdlog_level > level THEN level ELSE spdlog_level
    BY <1>2 DEF M!AddSink
  <2>2. level \in Int
    BY <1>2, <2>1, LevelIs DEF M!AddSink
  <2>3. job.going /\ job.rest # <<>> /\ UNCHANGED <<logger, registered>>
    BY <1>2 DEF M!AddSink
  <2>4. /\ job' = [rest |-> Tail(job.rest), sinks |-> job.sinks \cup {level}, going |-> job.going, made |-> job.made]
        /\ ~job.made
    BY <2>1, <2>3
  <2>5. spdlog_level' \in Int /\ spdlog_level' <= spdlog_level /\ spdlog_level' <= level
    BY <2>1, <2>2
  <2>6. \A l \in job'.sinks \cup registered : spdlog_level' <= l
    <3>1. \A l \in job.sinks \cup registered : l \in Int /\ spdlog_level <= l
      OBVIOUS
    <3> QED BY <2>2, <2>4, <2>5, <3>1
  <2> QED BY <2>2, <2>3, <2>4, <2>5, <2>6
<1>3. CASE M!AddSinkThrows
  BY <1>3 DEF M!AddSinkThrows, M!NoJob, M!NoLogger
<1>4. CASE M!DropOld
  <2>1. /\ job.going /\ job.rest = <<>> /\ registered' = job.sinks /\ UNCHANGED spdlog_level
        /\ job' = [rest |-> job.rest, sinks |-> job.sinks, going |-> job.going, made |-> TRUE]
    BY <1>4 DEF M!DropOld
  <2> QED BY <2>1
<1>5. CASE M!TakeNew
  BY <1>5 DEF M!TakeNew, M!NoJob, M!NoLogger
<1>6. CASE M!LogDeinit
  BY <1>6 DEF M!LogDeinit, M!NoLogger, M!Off
<1>7. CASE UNCHANGED M!log
  BY <1>7 DEF M!log
<1> QED BY <1>1, <1>2, <1>3, <1>4, <1>5, <1>6, <1>7
     DEF M!Next, M!vars, M!log, M!Parse, M!LogInitFromMain, M!LoadConfig, M!StartService, M!Logging
-----------------------------------------------------------------------------
(* Startup: the arguments.                                                 *)

AtFirst == [exit |-> M!NoExit, path |-> "", skip |-> FALSE]
Parses == [exit : {0, 1, M!NoExit}, path : STRING \cup {""}, skip : BOOLEAN]

\* What a round does, case by case.
RoundCases(list, i, was) ==
  /\ was.exit # M!NoExit => M!Round(was, list, i) = was
  /\ was.exit = M!NoExit /\ was.skip => M!Round(was, list, i) = [was EXCEPT !.skip = FALSE]
  /\ was.exit = M!NoExit /\ ~was.skip =>
       \/ /\ M!IsHelp(list[i]) /\ M!Round(was, list, i) = M!Stopped(0)
       \/ /\ M!IsConfig(list[i]) /\ ~M!IsHelp(list[i])
          /\ i = Len(list) \/ M!IsOption(list[i + 1])
          /\ M!Round(was, list, i) = M!Stopped(1)
       \/ /\ M!IsConfig(list[i]) /\ ~M!IsHelp(list[i])
          /\ i # Len(list) /\ ~M!IsOption(list[i + 1])
          /\ M!Round(was, list, i) = [was EXCEPT !.path = list[i + 1], !.skip = TRUE]
       \/ /\ ~M!IsConfig(list[i]) /\ ~M!IsHelp(list[i])
          /\ M!IsLevel(list[i]) \/ list[i] = "off"
          /\ M!Round(was, list, i) = was
       \/ /\ ~M!IsConfig(list[i]) /\ ~M!IsHelp(list[i])
          /\ ~(M!IsLevel(list[i]) \/ list[i] = "off")
          /\ M!Round(was, list, i) = M!Stopped(1)

LEMMA RoundIs ==
  ASSUME NEW list \in Seq(STRING), NEW i \in 1..Len(list), NEW was \in Parses
  PROVE  RoundCases(list, i, was)
<1> USE DEF RoundCases
<1>1. \A word : /\ M!IsConfig(word) => ~M!IsHelp(word)
                /\ M!IsLevel(word) \/ word = "off" => ~M!IsHelp(word) /\ ~M!IsConfig(word)
  BY DEF M!IsConfig, M!IsHelp, M!IsLevel, M!Range, M!LevelNames
<1>2. CASE was.exit # M!NoExit
  BY <1>2 DEF M!Round
<1>3. CASE was.exit = M!NoExit /\ was.skip
  BY <1>3 DEF M!Round
<1>4. CASE was.exit = M!NoExit /\ ~was.skip
  BY <1>1, <1>4 DEF M!Round
<1> QED BY <1>2, <1>3, <1>4

LEMMA RoundTyped ==
  ASSUME NEW list \in Seq(STRING), NEW i \in 1..Len(list), NEW was \in Parses
  PROVE  M!Round(was, list, i) \in Parses
<1>1. \A code \in {0, 1} : M!Stopped(code) \in Parses
  BY DEF M!Stopped, Parses
<1>2. i # Len(list) => list[i + 1] \in STRING
  <2>1. i # Len(list) => i + 1 \in 1..Len(list)
    OBVIOUS
  <2> QED BY <2>1
<1>3. [was EXCEPT !.skip = FALSE] \in Parses
  BY DEF Parses
<1>4. i # Len(list) => [was EXCEPT !.path = list[i + 1], !.skip = TRUE] \in Parses
  BY <1>2 DEF Parses
<1>5. was.skip \/ ~was.skip
  OBVIOUS
<1>0. RoundCases(list, i, was)
  BY RoundIs
<1> DEFINE skipped == [was EXCEPT !.skip = FALSE]
           pathTaken == [was EXCEPT !.path = list[i + 1], !.skip = TRUE]
<1>6. \/ M!Round(was, list, i) = was \/ M!Round(was, list, i) = skipped
      \/ M!Round(was, list, i) = M!Stopped(0) \/ M!Round(was, list, i) = M!Stopped(1)
      \/ i # Len(list) /\ M!Round(was, list, i) = pathTaken
  <2> HIDE DEF skipped, pathTaken
  <2>1. CASE was.exit # M!NoExit
    BY <1>0, <2>1 DEF RoundCases
  <2>2. CASE was.exit = M!NoExit /\ was.skip
    BY <1>0, <2>2 DEF RoundCases, skipped
  <2>3. CASE was.exit = M!NoExit /\ ~was.skip
    BY <1>0, <2>3 DEF RoundCases, pathTaken
  <2> QED BY <1>5, <2>1, <2>2, <2>3
<1> QED BY <1>1, <1>3, <1>4, <1>6

\* The loop of parseArgs exists: each round goes on from the one before.
LEMMA ParseBySteps ==
  ASSUME NEW list \in Seq(STRING)
  PROVE  \E p \in [0..Len(list) -> Parses] :
            /\ p[0] = AtFirst /\ (list # <<>> => M!ParseArgs(list) = p[Len(list)])
            /\ \A i \in 1..Len(list) : p[i] = M!Round(p[i - 1], list, i)
<1> DEFINE n == Len(list)
           g == [i \in 1..n |-> [s \in Parses |-> M!Round(s, list, i)]]
           up == CHOOSE p : p = [i \in 0..n |-> IF i = 0 THEN [exit |-> M!NoExit, path |-> "", skip |-> FALSE]
                                                ELSE M!Round(p[i - 1], list, i)]
<1>1. n \in Nat /\ n \in 0..n /\ AtFirst \in Parses
  BY DEF AtFirst, Parses
<1>2. g \in [1..n -> [Parses -> Parses]]
  BY RoundTyped
<1>3. \A i \in 1..n, s \in Parses : g[i][s] = M!Round(s, list, i)
  OBVIOUS
<1> HIDE DEF g
<1>4. PICK f \in [0..n -> Parses] : f[0] = AtFirst /\ \A i \in 1..n : f[i] = g[i][f[i - 1]]
  <2> HIDE DEF n
  <2>1. PICK f : f \in Iterations(Parses, n, AtFirst, g)
    BY <1>1, <1>2, Iterated, Zenon
  <2> QED BY <2>1 DEF Iterations
<1>5. \A i \in 1..n : i - 1 \in 0..n
  BY <1>1
<1>6. f = [i \in 0..n |-> IF i = 0 THEN [exit |-> M!NoExit, path |-> "", skip |-> FALSE]
                          ELSE M!Round(f[i - 1], list, i)]
  <2>1. f = [i \in 0..n |-> f[i]]
    OBVIOUS
  <2>2. ASSUME NEW i \in 0..n
        PROVE  f[i] = IF i = 0 THEN [exit |-> M!NoExit, path |-> "", skip |-> FALSE]
                      ELSE M!Round(f[i - 1], list, i)
    <3>1. i # 0 => i \in 1..n
      BY <1>1
    <3>2. i # 0 => f[i - 1] \in Parses
      BY <1>5, <3>1
    <3> QED BY <1>3, <1>4, <3>1, <3>2 DEF AtFirst
  <2> QED BY <2>1, <2>2, Zenon
<1>7. up = [i \in 0..n |-> IF i = 0 THEN [exit |-> M!NoExit, path |-> "", skip |-> FALSE]
                           ELSE M!Round(up[i - 1], list, i)]
  BY <1>6, Zenon
<1>8. list # <<>> => M!ParseArgs(list) = up[n]
  BY Zenon DEF M!ParseArgs
<1> HIDE DEF up
<1>9. up[0] = AtFirst /\ \A i \in 1..n : up[i] = M!Round(up[i - 1], list, i)
  <2>1. up[0] = AtFirst
    <3>1. 0 \in 0..n
      BY <1>1
    <3> HIDE DEF n
    <3> QED BY <1>7, <3>1 DEF AtFirst
  <2>2. ASSUME NEW i \in 1..n PROVE up[i] = M!Round(up[i - 1], list, i)
    <3>1. i \in 0..n /\ i # 0
      BY <1>1
    <3> HIDE DEF n
    <3> QED BY <1>7, <3>1
  <2> QED BY <2>1, <2>2
<1>10. \A i \in 0..n : up[i] \in Parses
  <2> DEFINE D == {i \in 0..n : up[i] \in Parses}
  <2>1. 0 \in D
    BY <1>1, <1>9
  <2>2. ASSUME NEW i \in 1..n, i - 1 \in D PROVE i \in D
    BY <1>9, <2>2, RoundTyped
  <2> HIDE DEF D
  <2>3. \A i \in 0..n : i \in D
    BY <1>1, <2>1, <2>2, UpTo
  <2> QED BY <2>3 DEF D
<1>11. DOMAIN up = 0..n /\ up = [i \in 0..n |-> up[i]]
  <2> HIDE DEF n
  <2> QED BY <1>7
<1>12. up \in [0..n -> Parses]
  <2> HIDE DEF n
  <2> QED BY <1>10, <1>11
<1> QED BY <1>8, <1>9, <1>12

\* So does the list of values: each argument may be added to those before it.
LEMMA ValuesBySteps ==
  ASSUME NEW list \in Seq(STRING)
  PROVE  \E v \in [0..Len(list) -> SUBSET Nat] :
            /\ v[0] = {} /\ (list # <<>> => v[1] = {}) /\ M!Values(list) = v[Len(list)]
            /\ \A i \in 2..Len(list) :
                 v[i] = v[i - 1] \cup (IF M!IsConfig(list[i - 1]) /\ i - 1 \notin v[i - 1] THEN {i} ELSE {})
<1> DEFINE n == Len(list)
           Then(s, i) == IF i < 2 THEN {}
                         ELSE s \cup (IF M!IsConfig(list[i - 1]) /\ i - 1 \notin s THEN {i} ELSE {})
           g == [i \in 1..n |-> [s \in SUBSET Nat |-> Then(s, i)]]
           up == CHOOSE v : v = [i \in 0..n |->
                   IF i < 2 THEN {}
                   ELSE v[i - 1] \cup (IF M!IsConfig(list[i - 1]) /\ i - 1 \notin v[i - 1] THEN {i} ELSE {})]
<1>1. n \in Nat /\ n \in 0..n /\ {} \in SUBSET Nat
  OBVIOUS
<1>2. g \in [1..n -> [SUBSET Nat -> SUBSET Nat]]
  <2>1. \A i \in 1..n, s \in SUBSET Nat : Then(s, i) \in SUBSET Nat
    BY <1>1
  <2> HIDE DEF Next
  <2> QED BY <2>1
<1>3. \A i \in 1..n, s \in SUBSET Nat : g[i][s] = Then(s, i)
  OBVIOUS
<1> HIDE DEF g
<1>4. PICK f \in [0..n -> SUBSET Nat] : f[0] = {} /\ \A i \in 1..n : f[i] = g[i][f[i - 1]]
  <2> HIDE DEF n, Then
  <2>1. PICK f : f \in Iterations(SUBSET Nat, n, {}, g)
    BY <1>1, <1>2, Iterated, Zenon
  <2> QED BY <2>1 DEF Iterations
<1>5. \A i \in 1..n : i - 1 \in 0..n /\ i \in 0..n
  BY <1>1
<1>6. f = [i \in 0..n |->
             IF i < 2 THEN {}
             ELSE f[i - 1] \cup (IF M!IsConfig(list[i - 1]) /\ i - 1 \notin f[i - 1] THEN {i} ELSE {})]
  <2>1. f = [i \in 0..n |-> f[i]]
    OBVIOUS
  <2>2. ASSUME NEW i \in 0..n
        PROVE  f[i] = IF i < 2 THEN {}
                      ELSE f[i - 1] \cup (IF M!IsConfig(list[i - 1]) /\ i - 1 \notin f[i - 1] THEN {i} ELSE {})
    <3>1. i # 0 => i \in 1..n
      BY <1>1
    <3>2. i # 0 => f[i - 1] \in SUBSET Nat
      BY <1>5, <3>1
    <3>3. i # 0 => f[i] = Then(f[i - 1], i)
      BY <1>3, <1>4, <3>1, <3>2
    <3> HIDE DEF n
    <3> QED BY <1>4, <3>3
  <2> QED BY <2>1, <2>2, Zenon
<1>7. up = [i \in 0..n |->
              IF i < 2 THEN {}
              ELSE up[i - 1] \cup (IF M!IsConfig(list[i - 1]) /\ i - 1 \notin up[i - 1] THEN {i} ELSE {})]
  BY <1>6, Zenon
<1>8. M!Values(list) = up[n]
  BY Zenon DEF M!Values
<1> HIDE DEF up
<1>9. \A i \in 0..n : up[i] = IF i < 2 THEN {}
                              ELSE up[i - 1] \cup (IF M!IsConfig(list[i - 1]) /\ i - 1 \notin up[i - 1] THEN {i} ELSE {})
  <2> HIDE DEF n
  <2> QED BY <1>7
<1>10. \A i \in 0..n : up[i] \in SUBSET Nat
  <2> DEFINE D == {i \in 0..n : up[i] \in SUBSET Nat}
  <2>1. 0 \in D
    <3>1. 0 \in 0..n /\ 0 < 2
      BY <1>1
    <3> HIDE DEF n
    <3> QED BY <1>9, <3>1
  <2>2. ASSUME NEW i \in 1..n, i - 1 \in D PROVE i \in D
    <3>1. i \in 0..n /\ i \in Nat /\ up[i - 1] \in SUBSET Nat
      BY <1>5, <2>2
    <3>2. up[i] = IF i < 2 THEN {}
                  ELSE up[i - 1] \cup (IF M!IsConfig(list[i - 1]) /\ i - 1 \notin up[i - 1] THEN {i} ELSE {})
      BY <1>9, <3>1
    <3>3. {i} \in SUBSET Nat
      BY <3>1
    <3>4. up[i] \in SUBSET Nat
      <4> HIDE DEF n
      <4> QED BY <3>1, <3>2, <3>3
    <3> QED BY <3>1, <3>4
  <2> HIDE DEF D
  <2>3. \A i \in 0..n : i \in D
    BY <1>1, <2>1, <2>2, UpTo
  <2> QED BY <2>3 DEF D
<1>11. up \in [0..n -> SUBSET Nat]
  <2> HIDE DEF n
  <2>1. DOMAIN up = 0..n /\ up = [i \in 0..n |-> up[i]]
    BY <1>7
  <2> QED BY <1>10, <2>1
<1>12. up[0] = {} /\ (list # <<>> => up[1] = {})
  <2>1. 0 \in 0..n /\ 0 < 2 /\ 1 < 2 /\ (list # <<>> => 1 \in 0..n)
    BY <1>1
  <2> HIDE DEF n
  <2> QED BY <1>9, <2>1
<1>13. ASSUME NEW i \in 2..n
       PROVE  up[i] = up[i - 1] \cup (IF M!IsConfig(list[i - 1]) /\ i - 1 \notin up[i - 1] THEN {i} ELSE {})
  <2>1. i \in 0..n /\ ~(i < 2)
    BY <1>1
  <2> HIDE DEF n
  <2> QED BY <1>9, <2>1
<1> QED BY <1>8, <1>11, <1>12, <1>13

\* An argument is a value just when it follows an option that is no value itself.
LEMMA ValuesAre ==
  ASSUME NEW list \in Seq(STRING)
  PROVE  /\ M!Values(list) \subseteq 2..Len(list)
         /\ \A j \in 1..Len(list) - 1 :
              j + 1 \in M!Values(list) <=> M!IsConfig(list[j]) /\ j \notin M!Values(list)
<1> DEFINE n == Len(list)
<1>1. PICK v \in [0..n -> SUBSET Nat] :
            /\ v[0] = {} /\ (list # <<>> => v[1] = {}) /\ M!Values(list) = v[n]
            /\ \A i \in 2..n :
                 v[i] = v[i - 1] \cup (IF M!IsConfig(list[i - 1]) /\ i - 1 \notin v[i - 1] THEN {i} ELSE {})
  BY ValuesBySteps
<1>2. n \in Nat /\ n \in 0..n
  OBVIOUS
<1> DEFINE Ok(i) == v[i] \subseteq 2..i /\ \A j \in 0..i : j \in v[i] <=> j \in v[j]
<1>3. \A i \in 0..n : Ok(i)
  <2> DEFINE D == {i \in 0..n : Ok(i)}
  <2>1. 0 \in D
    BY <1>1, <1>2
  <2>2. ASSUME NEW i \in 1..n, i - 1 \in D PROVE i \in D
    <3>1. i \in Nat /\ i \in 0..n /\ i - 1 \in 0..n /\ Ok(i - 1)
      BY <2>2
    <3>2. CASE i = 1
      <4>1. v[1] = {}
        BY <1>1, <3>2
      <4> QED BY <1>1, <3>1, <3>2, <4>1
    <3>3. CASE i # 1
      <4>1. i \in 2..n
        BY <3>1, <3>3
      <4>2. v[i] = v[i - 1] \cup (IF M!IsConfig(list[i - 1]) /\ i - 1 \notin v[i - 1] THEN {i} ELSE {})
        BY <1>1, <4>1
      <4>3. v[i - 1] \subseteq 2..i - 1 /\ \A j \in 0..i - 1 : j \in v[i - 1] <=> j \in v[j]
        BY <3>1
      <4> HIDE DEF n
      <4>4. v[i] \subseteq 2..i
        BY <4>1, <4>2, <4>3
      <4>5. ASSUME NEW j \in 0..i PROVE j \in v[i] <=> j \in v[j]
        <5>1. CASE j = i
          BY <5>1
        <5>2. CASE j # i
          <6>1. j \in 0..i - 1 /\ j \notin {i}
            BY <4>1, <5>2
          <6> QED BY <4>2, <4>3, <6>1
        <5> QED BY <5>1, <5>2
      <4> QED BY <3>1, <4>4, <4>5
    <3> QED BY <3>2, <3>3
  <2> HIDE DEF D
  <2>3. \A i \in 0..n : i \in D
    BY <1>2, <2>1, <2>2, UpTo
  <2> QED BY <2>3 DEF D
<1>4. v[n] \subseteq 2..n /\ \A j \in 0..n : j \in v[n] <=> j \in v[j]
  BY <1>2, <1>3
<1>5. ASSUME NEW j \in 1..n - 1 PROVE j + 1 \in v[n] <=> M!IsConfig(list[j]) /\ j \notin v[n]
  <2>1. j \in 0..n /\ j + 1 \in 2..n /\ j + 1 \in 0..n /\ j + 1 - 1 = j
    BY <1>2
  <2>2. v[j + 1] = v[j] \cup (IF M!IsConfig(list[j]) /\ j \notin v[j] THEN {j + 1} ELSE {})
    BY <1>1, <2>1
  <2>3. j + 1 \notin v[j]
    BY <1>3, <2>1
  <2> HIDE DEF n
  <2> QED BY <1>4, <2>1, <2>2, <2>3
<1> QED BY <1>1, <1>4, <1>5

\* What the usage asks of an argument that is no value.
Documented(list, k) ==
  \/ M!IsLevel(list[k]) \/ list[k] = "off"
  \/ M!IsConfig(list[k]) /\ k + 1 \in M!Values(list) /\ ~M!IsOption(list[k + 1])

\* The value that comes last among the first n arguments.
Latest(list, path, n) ==
  \/ path = "" /\ \A m \in M!Values(list) : ~(m <= n)
  \/ \E m \in M!Values(list) : m <= n /\ path = list[m] /\ \A k \in M!Values(list) : k <= n => k <= m

\* After i rounds: stopped just when one of the arguments read is not as documented;
\* otherwise the next one is skipped just when it is a value, and the path is the latest.
Parsed(list, p, i) ==
  /\ p.exit = M!NoExit <=> \A k \in 1..i : k \notin M!Values(list) => Documented(list, k)
  /\ p.exit = M!NoExit => (p.skip <=> i + 1 \in M!Values(list)) /\ Latest(list, p.path, i + 1)

LEMMA RoundKeepsParsed ==
  ASSUME NEW list \in Seq(STRING), NEW i \in 1..Len(list), NEW was \in Parses,
         Parsed(list, was, i - 1)
  PROVE  Parsed(list, M!Round(was, list, i), i)
<1> DEFINE V == M!Values(list)
           n == Len(list)
           p == M!Round(was, list, i)
<1>1. n \in Nat /\ i \in Nat /\ i <= n /\ i - 1 + 1 = i
  OBVIOUS
<1>2. /\ V \subseteq 2..n /\ (i = n => i + 1 \notin V)
      /\ i # n => (i + 1 \in V <=> M!IsConfig(list[i]) /\ i \notin V)
  <2>1. i # n => i \in 1..n - 1
    BY <1>1
  <2>2. V \subseteq 2..n
    BY ValuesAre
  <2>3. i = n => i + 1 \notin V
    BY <1>1, <2>2
  <2> QED BY <2>1, <2>2, <2>3, ValuesAre
<1>3. /\ was.exit = M!NoExit <=> \A k \in 1..i - 1 : k \notin V => Documented(list, k)
      /\ was.exit = M!NoExit => (was.skip <=> i \in V) /\ Latest(list, was.path, i)
  BY <1>1 DEF Parsed
<1>4. RoundCases(list, i, was)
  BY RoundIs
<1>5. /\ M!IsHelp(list[i]) => ~M!IsConfig(list[i]) /\ ~(M!IsLevel(list[i]) \/ list[i] = "off")
      /\ M!Stopped(0).exit # M!NoExit /\ M!Stopped(1).exit # M!NoExit
  BY DEF M!IsConfig, M!IsHelp, M!IsLevel, M!Range, M!LevelNames, M!Stopped, M!NoExit
<1>6. \A k \in 1..i : k \in 1..i - 1 \/ k = i
  BY <1>1
<1>7. \A k \in 1..i - 1 : k \in 1..i
  BY <1>1
<1> HIDE DEF V, n, p
<1>8. ASSUME was.exit # M!NoExit PROVE Parsed(list, p, i)
  BY <1>3, <1>4, <1>7, <1>8 DEF RoundCases, Parsed, p, V
<1>9. ASSUME was.exit = M!NoExit, was.skip PROVE Parsed(list, p, i)
  <2>1. p = [was EXCEPT !.skip = FALSE]
    BY <1>4, <1>9 DEF RoundCases, p
  <2>2. p.exit = M!NoExit /\ ~p.skip /\ p.path = was.path
    BY <1>9, <2>1 DEF Parses
  <2>3. i \in V /\ i + 1 \notin V
    BY <1>2, <1>3, <1>9
  <2>4. Latest(list, p.path, i + 1)
    <3>1. \A m \in V : m <= i + 1 <=> m <= i
      BY <1>1, <1>2, <2>3
    <3> QED BY <1>3, <1>9, <2>2, <3>1 DEF Latest, V
  <2>5. \A k \in 1..i : k \notin V => Documented(list, k)
    BY <1>3, <1>6, <1>9, <2>3
  <2> QED BY <2>2, <2>3, <2>4, <2>5 DEF Parsed, V
<1>10. ASSUME was.exit = M!NoExit, ~was.skip PROVE Parsed(list, p, i)
  <2>1. i \notin V /\ Latest(list, was.path, i)
    BY <1>3, <1>10
  <2>2. ASSUME ~Documented(list, i), p.exit # M!NoExit PROVE Parsed(list, p, i)
    <3>1. i \in 1..i
      BY <1>1
    <3> QED BY <2>1, <2>2, <3>1 DEF Parsed, V
  <2>3. ASSUME Documented(list, i), p.exit = M!NoExit, p.skip <=> i + 1 \in V, Latest(list, p.path, i + 1)
        PROVE  Parsed(list, p, i)
    BY <1>3, <1>6, <1>10, <2>3 DEF Parsed, V
  <2>4. CASE M!IsHelp(list[i]) /\ p = M!Stopped(0)
    BY <1>5, <2>2, <2>4 DEF Documented
  <2>5. CASE /\ M!IsConfig(list[i]) /\ ~M!IsHelp(list[i])
             /\ i = n \/ M!IsOption(list[i + 1])
             /\ p = M!Stopped(1)
    <3>1. ~(M!IsLevel(list[i]) \/ list[i] = "off")
      BY <2>5 DEF M!IsConfig, M!IsLevel, M!Range, M!LevelNames
    <3> QED BY <1>2, <1>5, <2>2, <2>5, <3>1 DEF Documented, V
  <2>6. CASE /\ M!IsConfig(list[i]) /\ i # n /\ ~M!IsOption(list[i + 1])
             /\ p = [was EXCEPT !.path = list[i + 1], !.skip = TRUE]
    <3>1. p.exit = M!NoExit /\ p.skip /\ p.path = list[i + 1]
      BY <1>10, <2>6 DEF Parses
    <3>2. i + 1 \in V
      BY <1>2, <2>1, <2>6
    <3>3. Latest(list, p.path, i + 1)
      <4>1. i + 1 <= i + 1
        BY <1>1
      <4> QED BY <3>1, <3>2, <4>1 DEF Latest, V
    <3>4. Documented(list, i)
      BY <2>6, <3>2 DEF Documented, V
    <3> QED BY <2>3, <3>1, <3>2, <3>3, <3>4
  <2>7. CASE ~M!IsConfig(list[i]) /\ (M!IsLevel(list[i]) \/ list[i] = "off") /\ p = was
    <3>1. i + 1 \notin V
      BY <1>2, <2>7
    <3>2. Latest(list, p.path, i + 1)
      <4>1. \A m \in V : m <= i + 1 <=> m <= i
        BY <1>1, <1>2, <3>1
      <4> QED BY <2>1, <2>7, <4>1 DEF Latest, V
    <3>3. Documented(list, i)
      BY <2>7 DEF Documented
    <3> QED BY <1>10, <2>3, <2>7, <3>1, <3>2, <3>3
  <2>8. CASE ~M!IsConfig(list[i]) /\ ~(M!IsLevel(list[i]) \/ list[i] = "off") /\ p = M!Stopped(1)
    BY <1>5, <2>2, <2>8 DEF Documented
  <2> QED BY <1>4, <1>10, <2>4, <2>5, <2>6, <2>7, <2>8 DEF RoundCases, p, n
<1>11. was.skip \/ ~was.skip
  OBVIOUS
<1> QED BY <1>8, <1>9, <1>10, <1>11 DEF p

\* The value that counts.
Asked(list) == IF M!Values(list) = {} THEN "" ELSE list[M!Max(M!Values(list))]

\* Given arguments, the parser goes on just when they are documented ones, and then
\* with the path that is named last.
LEMMA ParserIsRight ==
  ASSUME NEW list \in Seq(STRING), list # <<>>
  PROVE  /\ M!ParseArgs(list).exit = M!NoExit <=> M!Wellformed(list)
         /\ M!Wellformed(list) => M!ParseArgs(list).path = Asked(list)
<1> DEFINE n == Len(list)
           V == M!Values(list)
<1>1. n \in Nat /\ n \in 0..n /\ V \subseteq 2..n /\ DOMAIN list = 1..n
  BY ValuesAre
<1>2. PICK p \in [0..n -> Parses] :
         /\ p[0] = AtFirst /\ M!ParseArgs(list) = p[n]
         /\ \A i \in 1..n : p[i] = M!Round(p[i - 1], list, i)
  BY ParseBySteps
<1> DEFINE D == {i \in 0..n : Parsed(list, p[i], i)}
<1>3. 0 \in D
  <2>1. AtFirst.exit = M!NoExit /\ ~AtFirst.skip /\ AtFirst.path = ""
    BY DEF AtFirst
  <2>2. 1 \notin V /\ \A m \in V : ~(m <= 1)
    BY <1>1
  <2>3. Latest(list, "", 1)
    BY <2>2 DEF Latest
  <2>4. Parsed(list, AtFirst, 0)
    <3>1. 0 + 1 = 1 /\ 1..0 = {}
      OBVIOUS
    <3> HIDE DEF V
    <3> QED BY <2>1, <2>2, <2>3, <3>1 DEF Parsed, V
  <2> QED BY <1>1, <1>2, <2>4
<1>4. ASSUME NEW i \in 1..n, i - 1 \in D PROVE i \in D
  <2>1. i \in 0..n /\ i - 1 \in 0..n /\ p[i - 1] \in Parses /\ Parsed(list, p[i - 1], i - 1)
    BY <1>1, <1>4
  <2>2. Parsed(list, M!Round(p[i - 1], list, i), i)
    BY <2>1, RoundKeepsParsed
  <2> QED BY <1>2, <2>1, <2>2
<1> HIDE DEF D
<1>5. \A i \in 0..n : i \in D
  BY <1>1, <1>3, <1>4, UpTo
<1>6. Parsed(list, p[n], n)
  BY <1>1, <1>5 DEF D
<1>7. M!Wellformed(list) <=> \A k \in 1..n : k \notin V => Documented(list, k)
  BY <1>1 DEF M!Wellformed, Documented
<1>8. ASSUME Latest(list, p[n].path, n + 1) PROVE p[n].path = Asked(list)
  <2> DEFINE path == p[n].path
             latest == CHOOSE m \in V : \A k \in V : m >= k
  <2>1. \A m \in V : m \in Nat /\ m <= n + 1
    BY <1>1
  <2>2. M!Max(V) = latest
    BY DEF M!Max
  <2> HIDE DEF V, n
  <2>3. \/ path = "" /\ V = {}
        \/ \E m \in V : path = list[m] /\ \A k \in V : k <= m
    <3>1. \/ path = "" /\ \A m \in V : ~(m <= n + 1)
          \/ \E m \in V : m <= n + 1 /\ path = list[m] /\ \A k \in V : k <= n + 1 => k <= m
      BY <1>8 DEF Latest, V
    <3> HIDE DEF path
    <3> QED BY <2>1, <3>1
  <2> HIDE DEF path
  <2>4. ASSUME NEW m \in V, \A k \in V : k <= m PROVE m = latest
    <3>1. \A k \in V : m >= k
      BY <2>1, <2>4
    <3>2. latest \in V /\ \A k \in V : latest >= k
      BY <3>1
    <3> HIDE DEF latest
    <3> QED BY <2>1, <2>4, <3>2
  <2> QED BY <2>2, <2>3, <2>4 DEF Asked, V, path
<1> QED BY <1>2, <1>6, <1>7, <1>8 DEF Parsed
-----------------------------------------------------------------------------
(* Startup: main.                                                          *)

\* Past the parser there are arguments, documented ones, and the path that is taken
\* to the configuration is the one named last.
StartsInv ==
  /\ args \in Seq(STRING)
  /\ at \in {"args", "log", "config", "assembly", "end"}
  /\ at \in {"log", "config", "assembly"} => args # <<>> /\ M!Wellformed(args)
  /\ at \in {"log", "config"} => config_path = Asked(args)
  /\ args # <<>> =>
       /\ at = "end" /\ exit = 1 => ~M!Wellformed(args)
       /\ at \in {"assembly", "end"} /\ M!Wellformed(args) =>
            LET path == IF Asked(args) = "" THEN DefaultPath ELSE Asked(args)
            IN  assembly_config = IF path \in Loadable THEN path ELSE "defaults"

LEMMA StartsInvInit == M!Init => StartsInv
  BY ArgsAssumption DEF M!Init, StartsInv

\* The arguments stay, and with them what is asked of them.
LEMMA ArgumentsStay ==
  ASSUME args' = args
  PROVE  (M!Wellformed(args))' = M!Wellformed(args) /\ Asked(args)' = Asked(args)
<1>1. M!Values(args)' = M!Values(args)
  BY DEF M!Values
<1>2. Asked(args)' = Asked(args)
  BY <1>1 DEF Asked
<1>3. (M!Wellformed(args))' = M!Wellformed(args)
  BY <1>1 DEF M!Wellformed
<1> QED BY <1>2, <1>3

LEMMA StartsInvStep == StartsInv /\ [M!Next]_(M!vars) => StartsInv'
<1> SUFFICES ASSUME StartsInv, [M!Next]_(M!vars) PROVE StartsInv'
  OBVIOUS
<1>1. args \in Seq(STRING)
  BY DEF StartsInv
<1>0. args' = args => (M!Wellformed(args))' = M!Wellformed(args) /\ Asked(args)' = Asked(args)
  BY ArgumentsStay
<1>2. CASE M!Parse
  <2>1. /\ args # <<>> => /\ M!ParseArgs(args).exit = M!NoExit <=> M!Wellformed(args)
                          /\ M!Wellformed(args) => M!ParseArgs(args).path = Asked(args)
        /\ args = <<>> => M!ParseArgs(args).exit # M!NoExit
    <3>1. args = <<>> => M!ParseArgs(args).exit # M!NoExit
      BY DEF M!ParseArgs, M!Stopped, M!NoExit
    <3> QED BY <1>1, <3>1, ParserIsRight
  <2>2. /\ at' = IF M!ParseArgs(args).exit = M!NoExit THEN "log" ELSE "end"
        /\ config_path' = M!ParseArgs(args).path /\ args' = args
    BY <1>2 DEF M!Parse
  <2> QED BY <1>0, <1>1, <2>1, <2>2 DEF StartsInv
<1>3. CASE M!LogInitFromMain
  BY <1>0, <1>3 DEF M!LogInitFromMain, StartsInv
<1>4. CASE M!LoadConfig
  BY <1>0, <1>4 DEF M!LoadConfig, StartsInv
<1>5. CASE M!StartService
  <2>1. /\ at = "assembly" /\ at' = "end" /\ exit' # 1
        /\ UNCHANGED <<args, config_path, assembly_config>>
    BY <1>5 DEF M!StartService
  <2> QED BY <1>0, <2>1 DEF StartsInv
<1>6. CASE UNCHANGED <<at, args, config_path, exit, assembly_config>>
  BY <1>0, <1>6 DEF StartsInv
<1> QED BY <1>2, <1>3, <1>4, <1>5, <1>6 DEF M!Next, M!vars, M!Logging

\* Called with any arguments, the program starts just when they are ones its usage
\* documents, with the configuration named last, and its log keeps back nothing that
\* one of its sinks is to print (main.cpp, gaia_log.cpp).  Of a call without
\* arguments, which the usage allows and the program refuses, nothing is said.
THEOREM StartsAsItsUsageSays == M!Spec => []StartsAndLogs
<1>1. StartsInv /\ LogInv => StartsAndLogs
  <2> SUFFICES ASSUME StartsInv, LogInv PROVE StartsAndLogs
    OBVIOUS
  <2>1. M!StartsAsTold
    <3>1. Asked(args) = "" <=> M!Values(args) = {} \/ args[M!Max(M!Values(args))] = ""
      BY DEF Asked
    <3> QED BY <3>1 DEF StartsInv, M!StartsAsTold, Asked
  <2>2. M!LogsWhatIsWanted
    BY DEF LogInv, M!LogsWhatIsWanted
  <2> QED BY <2>1, <2>2 DEF StartsAndLogs
<1> QED BY <1>1, StartsInvInit, StartsInvStep, LogInvInit, LogInvStep, PTL DEF M!Spec
-----------------------------------------------------------------------------
(* Octets: powers and widths.                                              *)

\* Quotient and rest, and that nothing else is.
LEMMA DivIs ==
  ASSUME NEW x \in Int, NEW d \in Nat \ {0}
  PROVE  /\ x = d * (x \div d) + (x % d) /\ x % d \in 0..d - 1 /\ x \div d \in Int
         /\ x >= 0 => x \div d \in Nat
OBVIOUS

\* No other numbers are quotient and rest.
LEMMA DivUnique ==
  ASSUME NEW d \in Nat \ {0}, NEW q \in Int, NEW r \in 0..d - 1, NEW x \in Int, x = d * q + r
  PROVE  x \div d = q /\ x % d = r
OBVIOUS

\* Values that come each from the one before it stay in a set that is closed.
LEMMA Typed ==
  ASSUME NEW n \in Nat, NEW V, NEW up, up[0] \in V, \A i \in 1..n : up[i - 1] \in V => up[i] \in V
  PROVE  \A i \in 0..n : up[i] \in V
<1> DEFINE D == {i \in 0..n : up[i] \in V}
<1>1. 0 \in D /\ \A i \in 1..n : i - 1 \in D => i \in D
  OBVIOUS
<1> HIDE DEF D
<1>2. \A i \in 0..n : i \in D
  BY <1>1, UpTo
<1> QED BY <1>2 DEF D

\* Powers, one after the other.
LEMMA PowerUp ==
  ASSUME NEW base \in Nat, NEW n \in Nat
  PROVE  \E up \in [0..n -> Nat] :
           O!Power(base, n) = up[n] /\ up[0] = 1 /\ \A i \in 1..n : up[i] = base * up[i - 1]
<1> DEFINE V == Nat
           Step(x, i) == base * x
           g == [i \in 1..n |-> [x \in V |-> Step(x, i)]]
           up == CHOOSE upTo : upTo = [i \in 0..n |-> IF i = 0 THEN 1 ELSE base * upTo[i - 1]]
<1>1. n \in Nat /\ 1 \in V
  OBVIOUS
<1>2. \A i \in 1..n, x \in V : Step(x, i) \in V
  OBVIOUS
<1>3. O!Power(base, n) = up[n]
  BY Zenon DEF O!Power
<1> HIDE DEF V, Step
<1>4. g \in [1..n -> [V -> V]] /\ \A i \in 1..n, x \in V : g[i][x] = Step(x, i)
  BY <1>2
<1> HIDE DEF g
<1>5. PICK f : f \in Iterations(V, n, 1, g)
  BY <1>1, <1>4, Iterated, Zenon
<1>6. f = [i \in 0..n |-> IF i = 0 THEN 1 ELSE Step(f[i - 1], i)]
  <2>1. f \in [0..n -> V] /\ f[0] = 1 /\ \A i \in 1..n : f[i] = g[i][f[i - 1]]
    BY <1>5 DEF Iterations
  <2>2. \A i \in 1..n : f[i] = Step(f[i - 1], i)
    BY <1>1, <1>4, <2>1
  <2> QED BY <1>1, <2>1, <2>2
<1>7. up = [i \in 0..n |-> IF i = 0 THEN 1 ELSE Step(up[i - 1], i)]
  BY <1>6, Zenon DEF Step
<1> HIDE DEF up
<1>8. up[0] = 1 /\ \A i \in 1..n : up[i] = Step(up[i - 1], i)
  BY <1>1, <1>7
<1>9. \A i \in 0..n : up[i] \in V
  <2>1. up[0] \in V
    BY <1>1, <1>8
  <2>2. \A i \in 1..n : up[i - 1] \in V => up[i] \in V
    BY <1>2, <1>8
  <2> QED BY <1>1, <2>1, <2>2, Typed, Zenon
<1>10. up \in [0..n -> V]
  BY <1>7, <1>9
<1> QED BY <1>3, <1>8, <1>10, Zenon DEF V, Step

\* A power is the base times the one before it.
LEMMA PowerIs ==
  ASSUME NEW base \in Nat, NEW n \in Nat
  PROVE  /\ O!Power(base, 0) = 1 /\ O!Power(base, n) \in Nat
         /\ O!Power(base, n + 1) = base * O!Power(base, n)
<1>1. O!Power(base, 0) = 1
  BY PowerUp
<1>2. PICK up \in [0..n -> Nat] : O!Power(base, n) = up[n] /\ up[0] = 1 /\ \A i \in 1..n : up[i] = base * up[i - 1]
  BY PowerUp
<1>3. PICK on \in [0..n + 1 -> Nat] :
        O!Power(base, n + 1) = on[n + 1] /\ on[0] = 1 /\ \A i \in 1..n + 1 : on[i] = base * on[i - 1]
  <2>1. n + 1 \in Nat
    OBVIOUS
  <2> QED BY <2>1, PowerUp
<1> DEFINE D == {i \in 0..n : on[i] = up[i]}
<1>4. 0 \in D /\ \A i \in 1..n : i - 1 \in D => i \in D
  BY <1>2, <1>3
<1>5. n \in D
  <2> HIDE DEF D
  <2>1. \A i \in 0..n : i \in D
    BY <1>4, UpTo
  <2> QED BY <2>1
<1>6. on[n + 1] = base * on[n]
  BY <1>3
<1> QED BY <1>1, <1>2, <1>3, <1>5, <1>6

\* Exponents add.
LEMMA PowerAdds ==
  ASSUME NEW base \in Nat, NEW m \in Nat, NEW n \in Nat
  PROVE  O!Power(base, m + n) = O!Power(base, m) * O!Power(base, n)
<1> DEFINE D == {i \in 0..n : O!Power(base, m + i) = O!Power(base, m) * O!Power(base, i)}
<1>1. 0 \in D
  BY PowerIs
<1>2. ASSUME NEW i \in 1..n, i - 1 \in D PROVE i \in D
  <2>1. O!Power(base, (i - 1) + 1) = base * O!Power(base, i - 1) /\ O!Power(base, i - 1) \in Nat
    BY PowerIs
  <2>2. O!Power(base, (m + (i - 1)) + 1) = base * O!Power(base, m + (i - 1))
    BY PowerIs
  <2>3. O!Power(base, m) \in Nat
    BY PowerIs
  <2>4. O!Power(base, m + (i - 1)) = O!Power(base, m) * O!Power(base, i - 1)
    BY <1>2
  <2>5. (i - 1) + 1 = i /\ (m + (i - 1)) + 1 = m + i
    OBVIOUS
  <2>6. O!Power(base, m + i) = base * (O!Power(base, m) * O!Power(base, i - 1))
    BY <2>2, <2>4, <2>5
  <2>7. O!Power(base, i) = base * O!Power(base, i - 1)
    BY <2>1, <2>5
  <2>8. base * (O!Power(base, m) * O!Power(base, i - 1)) = O!Power(base, m) * (base * O!Power(base, i - 1))
    BY <2>1, <2>3
  <2> QED BY <2>6, <2>7, <2>8
<1> HIDE DEF D
<1>3. \A i \in 0..n : i \in D
  BY <1>1, <1>2, UpTo
<1> QED BY <1>3 DEF D

\* A power is not 0.
LEMMA PowerPositive ==
  ASSUME NEW base \in Nat \ {0}, NEW n \in Nat
  PROVE  O!Power(base, n) \in Nat \ {0}
<1> DEFINE D == {i \in 0..n : O!Power(base, i) \in Nat \ {0}}
<1>1. 0 \in D
  BY PowerIs
<1>2. ASSUME NEW i \in 1..n, i - 1 \in D PROVE i \in D
  <2>1. O!Power(base, (i - 1) + 1) = base * O!Power(base, i - 1) /\ (i - 1) + 1 = i
    BY PowerIs
  <2>2. O!Power(base, i - 1) \in Nat \ {0}
    BY <1>2
  <2>3. base * O!Power(base, i - 1) \in Nat \ {0}
    BY <2>2
  <2> QED BY <2>1, <2>3
<1> HIDE DEF D
<1>3. \A i \in 0..n : i \in D
  BY <1>1, <1>2, UpTo
<1> QED BY <1>3 DEF D

\* A power of two is more than its exponent.
LEMMA PowerGrows ==
  ASSUME NEW n \in Nat
  PROVE  O!Power(2, n) > n
<1> DEFINE D == {i \in 0..n : O!Power(2, i) > i}
<1>1. 0 \in D
  BY PowerIs
<1>2. ASSUME NEW i \in 1..n, i - 1 \in D PROVE i \in D
  <2>1. O!Power(2, (i - 1) + 1) = 2 * O!Power(2, i - 1) /\ (i - 1) + 1 = i /\ O!Power(2, i - 1) \in Nat
    BY PowerIs
  <2> QED BY <1>2, <2>1
<1> HIDE DEF D
<1>3. \A i \in 0..n : i \in D
  BY <1>1, <1>2, UpTo
<1> QED BY <1>3 DEF D

\* Exponents multiply.
LEMMA PowerOfPower ==
  ASSUME NEW base \in Nat, NEW m \in Nat, NEW n \in Nat
  PROVE  O!Power(O!Power(base, m), n) = O!Power(base, m * n)
<1> DEFINE D == {i \in 0..n : O!Power(O!Power(base, m), i) = O!Power(base, m * i)}
<1>0. O!Power(base, m) \in Nat
  BY PowerIs
<1>1. 0 \in D
  BY <1>0, PowerIs
<1>2. ASSUME NEW i \in 1..n, i - 1 \in D PROVE i \in D
  <2>1. O!Power(O!Power(base, m), (i - 1) + 1) = O!Power(base, m) * O!Power(O!Power(base, m), i - 1) /\ (i - 1) + 1 = i
    BY <1>0, PowerIs
  <2>2. O!Power(base, m + m * (i - 1)) = O!Power(base, m) * O!Power(base, m * (i - 1))
    <3>1. m * (i - 1) \in Nat
      OBVIOUS
    <3> QED BY <3>1, PowerAdds
  <2>3. m + m * (i - 1) = m * i
    OBVIOUS
  <2> QED BY <1>2, <2>1, <2>2, <2>3
<1> HIDE DEF D
<1>3. \A i \in 0..n : i \in D
  BY <1>1, <1>2, UpTo
<1> QED BY <1>3 DEF D

\* A quarter of an octet's bits; octets and digits are made of such quarters.
QuarterBits == OctetBits \div 4
Quarter == O!Power(2, QuarterBits)

\* Octet, digit of base 64 and hexadecimal digit as powers of the same bits.
LEMMA Widths ==
  /\ QuarterBits \in Nat \ {0} /\ OctetBits = 4 * QuarterBits
  /\ O!DigitBits = 3 * QuarterBits /\ O!HexBits = 2 * QuarterBits
  /\ Quarter \in Nat /\ Quarter >= 2
  /\ O!HexBase = Quarter * Quarter
  /\ O!Pad = Quarter * O!HexBase
  /\ O!Octet = O!HexBase * O!HexBase
  /\ WordBits \in Nat /\ WordBits >= 2 * OctetBits
<1> DEFINE h == QuarterBits
<1>1. /\ h \in Nat \ {0} /\ OctetBits = 4 * h /\ O!DigitBits = 3 * h /\ O!HexBits = 2 * h
      /\ WordBits \in Nat /\ WordBits >= 2 * OctetBits
  BY WidthsAssumption DEF QuarterBits, O!DigitBits, O!HexBits
<1> HIDE DEF h
<1>2. Quarter \in Nat /\ Quarter >= 2
  <2>1. O!Power(2, h) \in Nat /\ O!Power(2, h) > h
    BY <1>1, PowerIs, PowerGrows
  <2> QED BY <1>1, <2>1 DEF Quarter, h
<1>3. O!HexBase = Quarter * Quarter
  <2>1. h + h = 2 * h
    BY <1>1
  <2> QED BY <1>1, <2>1, PowerAdds DEF O!HexBase, Quarter, h
<1>4. O!Pad = Quarter * O!HexBase
  <2>1. h + 2 * h = 3 * h /\ 2 * h \in Nat
    BY <1>1
  <2>2. O!Power(2, h + 2 * h) = O!Power(2, h) * O!Power(2, 2 * h)
    BY <1>1, <2>1, PowerAdds
  <2> QED BY <1>1, <2>1, <2>2 DEF O!Pad, O!HexBase, Quarter, h
<1>5. O!Octet = O!HexBase * O!HexBase
  <2>1. 2 * h + 2 * h = 4 * h /\ 2 * h \in Nat
    BY <1>1
  <2> QED BY <1>1, <2>1, PowerAdds DEF O!Octet, O!HexBase
<1> QED BY <1>1, <1>2, <1>3, <1>4, <1>5 DEF h

\* How many octets and digits there are at least.
LEMMA OctetSizes ==
  /\ O!HexBase \in Nat /\ O!HexBase >= 4 /\ O!Pad \in Nat /\ O!Pad >= 8 /\ O!Octet \in Nat /\ O!Octet >= 16
  /\ O!UInt \in Nat \ {0}
<1>1. O!HexBase \in Nat /\ O!HexBase >= 4
  BY Widths
<1>2. O!Pad \in Nat /\ O!Pad >= 8
  <2>1. O!HexBase >= 4 => Quarter * O!HexBase >= 8
    BY <1>1, Widths
  <2>2. Quarter * O!HexBase \in Nat
    BY <1>1, Widths
  <2> QED BY <1>1, <2>1, <2>2, Widths
<1>3. O!Octet \in Nat /\ O!Octet >= 16
  BY <1>1, Widths
<1> QED BY <1>1, <1>2, <1>3, PowerPositive, Widths DEF O!UInt
-----------------------------------------------------------------------------
(* Octets: edits.                                                          *)

\* What is returned is not what is thrown.
LEMMA ReturnsIs == \A r : O!Returns(r).returns = r /\ O!Returns(r) # O!Throws
<1> TAKE r
<1>1. O!Returns(r).returns = r
  BY DEF O!Returns
<1>2. DOMAIN O!Returns(r) = {"returns"} /\ DOMAIN O!Throws = {"throws"}
  BY DEF O!Returns, O!Throws
<1> QED BY <1>1, <1>2

\* The lesser of two numbers.
LEMMA MinIs ==
  ASSUME NEW a \in Int, NEW b \in Int
  PROVE  O!Min({a, b}) = IF a <= b THEN a ELSE b
BY DEF O!Min

\* The octets from one place to another.
LEMMA PartIs ==
  ASSUME NEW s \in Seq(Nat), NEW m \in Int, NEW n \in Int, m >= 1, n <= Len(s)
  PROVE  /\ SubSeq(s, m, n) \in Seq(Nat)
         /\ Len(SubSeq(s, m, n)) = IF m <= n THEN n - m + 1 ELSE 0
         /\ \A i \in 1..n - m + 1 : SubSeq(s, m, n)[i] = s[m + i - 1]
<1>1. \A i \in m..n : s[i] \in Nat
  <2>1. Len(s) \in Nat /\ s \in [1..Len(s) -> Nat]
    BY LenProperties
  <2> QED BY <2>1
<1> QED BY <1>1, SubSeqProperties

\* The octets from a place on.
LEMMA SubstrFromIs ==
  ASSUME NEW s \in Seq(Nat), NEW pos \in Nat
  PROVE  /\ O!SubstrFrom(s, pos) \in Seq(Nat)
         /\ Len(O!SubstrFrom(s, pos)) = IF pos <= Len(s) THEN Len(s) - pos ELSE 0
         /\ \A i \in 1..Len(s) - pos : O!SubstrFrom(s, pos)[i] = s[pos + i]
<1>1. Len(s) \in Nat
  BY LenProperties
<1>2. pos + 1 \in Int /\ pos + 1 >= 1 /\ Len(s) - (pos + 1) + 1 = Len(s) - pos /\ \A i \in Int : (pos + 1) + i - 1 = pos + i
  BY <1>1
<1>3. /\ SubSeq(s, pos + 1, Len(s)) \in Seq(Nat)
      /\ Len(SubSeq(s, pos + 1, Len(s))) = IF pos + 1 <= Len(s) THEN Len(s) - (pos + 1) + 1 ELSE 0
      /\ \A i \in 1..Len(s) - (pos + 1) + 1 : SubSeq(s, pos + 1, Len(s))[i] = s[(pos + 1) + i - 1]
  BY <1>1, <1>2, PartIs
<1> QED BY <1>1, <1>2, <1>3 DEF O!SubstrFrom

\* Of an octet string in front of and behind a place.
LEMMA TwoParts ==
  ASSUME NEW s \in Seq(Nat), NEW t \in Seq(Nat)
  PROVE  /\ s \o t \in Seq(Nat) /\ Len(s \o t) = Len(s) + Len(t) /\ Len(s) \in Nat /\ Len(t) \in Nat
         /\ \A i \in 1..Len(s) : (s \o t)[i] = s[i]
         /\ \A i \in 1..Len(t) : (s \o t)[Len(s) + i] = t[i]
<1>1. /\ s \o t \in Seq(Nat) /\ Len(s \o t) = Len(s) + Len(t)
      /\ \A i \in 1..Len(s) + Len(t) : (s \o t)[i] = IF i <= Len(s) THEN s[i] ELSE t[i - Len(s)]
  BY ConcatProperties
<1>2. Len(s) \in Nat /\ Len(t) \in Nat
  BY LenProperties
<1>3. \A i \in 1..Len(t) : Len(s) + i \in 1..Len(s) + Len(t) /\ ~(Len(s) + i <= Len(s)) /\ Len(s) + i - Len(s) = i
  BY <1>2
<1> QED BY <1>1, <1>2, <1>3

\* substr of a place inside: the octets from there, as many as there are.
LEMMA SubstrIs ==
  ASSUME NEW s \in Seq(Nat), NEW pos \in 0..Len(s), NEW count \in Nat
  PROVE  LET moved == O!Min({count, Len(s) - pos})
             part == O!Substr(s, pos, count).returns
         IN  /\ O!Substr(s, pos, count) = O!Returns(part) /\ part \in Seq(Nat)
             /\ moved \in 0..Len(s) - pos /\ moved = Len(part)
             /\ \A i \in 1..moved : part[i] = s[pos + i]
<1> DEFINE moved == O!Min({count, Len(s) - pos})
           part == SubSeq(s, pos + 1, O!Min({pos + count, Len(s)}))
<1>1. Len(s) \in Nat
  BY LenProperties
<1>2. moved \in 0..Len(s) - pos /\ O!Min({pos + count, Len(s)}) = pos + moved
  <2>1. moved = IF count <= Len(s) - pos THEN count ELSE Len(s) - pos
    BY <1>1, MinIs
  <2>2. O!Min({pos + count, Len(s)}) = IF pos + count <= Len(s) THEN pos + count ELSE Len(s)
    BY <1>1, MinIs
  <2> QED BY <1>1, <2>1, <2>2
<1>3. O!Substr(s, pos, count) = O!Returns(part)
  BY <1>1 DEF O!Substr
<1> HIDE DEF moved
<1>4. part = SubSeq(s, pos + 1, pos + moved)
  BY <1>2
<1>5. /\ SubSeq(s, pos + 1, pos + moved) \in Seq(Nat)
      /\ Len(SubSeq(s, pos + 1, pos + moved)) = IF pos + 1 <= pos + moved THEN ((pos + moved) - (pos + 1)) + 1 ELSE 0
      /\ \A i \in 1..((pos + moved) - (pos + 1)) + 1 : SubSeq(s, pos + 1, pos + moved)[i] = s[(pos + 1) + i - 1]
  <2>1. pos + 1 \in Int /\ pos + moved \in Int /\ pos + 1 >= 1 /\ pos + moved <= Len(s)
    BY <1>1, <1>2
  <2> QED BY <2>1, PartIs, Zenon
<1> HIDE DEF part
<1>6. ((pos + moved) - (pos + 1)) + 1 = moved /\ \A i \in Int : (pos + 1) + i - 1 = pos + i
  BY <1>1, <1>2
<1>7. part \in Seq(Nat) /\ moved = Len(part) /\ \A i \in 1..moved : part[i] = s[pos + i]
  BY <1>1, <1>2, <1>4, <1>5, <1>6
<1> QED BY <1>2, <1>3, <1>7, ReturnsIs DEF moved

\* insert at a place inside: what was there, with the new octets between.
LEMMA InsertIs ==
  ASSUME NEW s \in Seq(Nat), NEW t \in Seq(Nat), NEW pos \in 0..Len(s)
  PROVE  LET w == O!Insert(s, pos, t).returns
         IN  /\ O!Insert(s, pos, t) = O!Returns(w)
             /\ w \in Seq(Nat) /\ Len(w) = Len(s) + Len(t)
             /\ \A i \in 1..pos : w[i] = s[i]
             /\ \A i \in 1..Len(t) : w[pos + i] = t[i]
             /\ \A i \in pos + 1..Len(s) : w[Len(t) + i] = s[i]
<1> DEFINE front == SubSeq(s, 1, pos)
           back == O!SubstrFrom(s, pos)
           w == front \o t \o back
<1>1. Len(s) \in Nat /\ Len(t) \in Nat /\ O!Insert(s, pos, t) = O!Returns(w)
  BY LenProperties DEF O!Insert
<1>2. front \in Seq(Nat) /\ Len(front) = pos /\ \A i \in 1..pos : front[i] = s[i]
  <2>1. 1 \in Int /\ 1 >= 1 /\ pos \in Int /\ pos <= Len(s) /\ pos - 1 + 1 = pos /\ \A i \in Int : 1 + i - 1 = i
    BY <1>1
  <2>2. /\ front \in Seq(Nat) /\ Len(front) = IF 1 <= pos THEN pos - 1 + 1 ELSE 0
        /\ \A i \in 1..pos - 1 + 1 : front[i] = s[1 + i - 1]
    BY <2>1, PartIs
  <2> HIDE DEF front
  <2> QED BY <1>1, <2>1, <2>2
<1>3. back \in Seq(Nat) /\ Len(back) = Len(s) - pos /\ \A i \in 1..Len(s) - pos : back[i] = s[pos + i]
  <2>1. pos \in Nat /\ pos <= Len(s)
    BY <1>1
  <2> QED BY <2>1, SubstrFromIs
<1> HIDE DEF front, back
<1>4. /\ front \o t \in Seq(Nat) /\ Len(front \o t) = pos + Len(t)
      /\ \A i \in 1..pos : (front \o t)[i] = s[i]
      /\ \A i \in 1..Len(t) : (front \o t)[pos + i] = t[i]
  BY <1>2, TwoParts
<1> DEFINE ft == front \o t
<1>5. /\ w \in Seq(Nat) /\ Len(w) = pos + Len(t) + (Len(s) - pos)
      /\ \A i \in 1..pos + Len(t) : w[i] = ft[i]
      /\ \A i \in 1..Len(s) - pos : w[pos + Len(t) + i] = back[i]
  <2> HIDE DEF ft
  <2>1. ft \o back = w
    BY DEF ft
  <2>2. /\ ft \o back \in Seq(Nat) /\ Len(ft \o back) = Len(ft) + Len(back)
        /\ \A i \in 1..Len(ft) : (ft \o back)[i] = ft[i]
        /\ \A i \in 1..Len(back) : (ft \o back)[Len(ft) + i] = back[i]
    BY <1>3, <1>4, TwoParts DEF ft
  <2>3. Len(ft) = pos + Len(t)
    BY <1>4 DEF ft
  <2> HIDE DEF w
  <2> QED BY <1>3, <2>1, <2>2, <2>3
<1>6. \A i \in pos + 1..Len(s) : i - pos \in 1..Len(s) - pos /\ pos + Len(t) + (i - pos) = Len(t) + i /\ pos + (i - pos) = i
  BY <1>1
<1>7. ASSUME NEW i \in pos + 1..Len(s) PROVE w[Len(t) + i] = s[i]
  <2> HIDE DEF w
  <2>1. i - pos \in 1..Len(s) - pos /\ pos + Len(t) + (i - pos) = Len(t) + i /\ pos + (i - pos) = i
    BY <1>6
  <2>2. w[pos + Len(t) + (i - pos)] = back[i - pos] /\ back[i - pos] = s[pos + (i - pos)]
    BY <1>3, <1>5, <2>1
  <2> QED BY <2>1, <2>2
<1>8. (\A i \in 1..pos : i \in 1..pos + Len(t)) /\ \A i \in 1..Len(t) : pos + i \in 1..pos + Len(t)
  BY <1>1
<1>9. (\A i \in 1..pos : w[i] = s[i]) /\ \A i \in 1..Len(t) : w[pos + i] = t[i]
  <2> HIDE DEF w
  <2> QED BY <1>4, <1>5, <1>8
<1>10. Len(w) = Len(s) + Len(t)
  <2> HIDE DEF w
  <2> QED BY <1>1, <1>5
<1>11. O!Returns(w).returns = w
  BY ReturnsIs
<1> HIDE DEF w
<1>12. O!Insert(s, pos, t).returns = w
  BY <1>1, <1>11
<1> QED BY <1>1, <1>5, <1>7, <1>9, <1>10, <1>12

\* erase at a place inside: what was there, without the octets from it on.
LEMMA EraseIs ==
  ASSUME NEW s \in Seq(Nat), NEW pos \in 0..Len(s), NEW count \in Nat
  PROVE  LET w == O!Erase(s, pos, count).returns
             gone == O!Min({count, Len(s) - pos})
         IN  /\ O!Erase(s, pos, count) = O!Returns(w)
             /\ gone \in 0..Len(s) - pos
             /\ w \in Seq(Nat) /\ Len(w) = Len(s) - gone
             /\ \A i \in 1..pos : w[i] = s[i]
             /\ \A i \in pos + 1..Len(s) - gone : w[i] = s[gone + i]
<1> DEFINE gone == O!Min({count, Len(s) - pos})
           front == SubSeq(s, 1, pos)
           back == O!SubstrFrom(s, pos + gone)
           w == front \o back
<1>1. Len(s) \in Nat
  BY LenProperties
<1>2. gone \in 0..Len(s) - pos /\ O!Min({pos + count, Len(s)}) = pos + gone
  <2>1. gone = IF count <= Len(s) - pos THEN count ELSE Len(s) - pos
    BY <1>1, MinIs
  <2>2. O!Min({pos + count, Len(s)}) = IF pos + count <= Len(s) THEN pos + count ELSE Len(s)
    BY <1>1, MinIs
  <2> QED BY <1>1, <2>1, <2>2
<1>3. O!Erase(s, pos, count) = O!Returns(w)
  BY <1>1, <1>2 DEF O!Erase
<1> HIDE DEF gone
<1>4. front \in Seq(Nat) /\ Len(front) = pos /\ \A i \in 1..pos : front[i] = s[i]
  <2>1. 1 \in Int /\ 1 >= 1 /\ pos \in Int /\ pos <= Len(s) /\ pos - 1 + 1 = pos /\ \A i \in Int : 1 + i - 1 = i
    BY <1>1
  <2>2. /\ front \in Seq(Nat) /\ Len(front) = IF 1 <= pos THEN pos - 1 + 1 ELSE 0
        /\ \A i \in 1..pos - 1 + 1 : front[i] = s[1 + i - 1]
    BY <2>1, PartIs
  <2> HIDE DEF front
  <2>3. Len(front) = pos
    BY <2>1, <2>2
  <2>4. ASSUME NEW i \in 1..pos PROVE front[i] = s[i]
    <3>1. i \in 1..pos - 1 + 1 /\ 1 + i - 1 = i
      BY <2>1
    <3>2. front[i] = s[1 + i - 1]
      BY <2>2, <3>1
    <3> QED BY <3>1, <3>2
  <2> QED BY <2>2, <2>3, <2>4
<1>5. /\ back \in Seq(Nat) /\ Len(back) = Len(s) - (pos + gone)
      /\ \A i \in 1..Len(s) - (pos + gone) : back[i] = s[pos + gone + i]
  <2>1. pos + gone \in Nat /\ pos + gone <= Len(s)
    BY <1>1, <1>2
  <2> QED BY <2>1, SubstrFromIs
<1> HIDE DEF front, back
<1>6. /\ w \in Seq(Nat) /\ Len(w) = pos + Len(back) /\ \A i \in 1..pos : w[i] = front[i]
      /\ \A i \in 1..Len(back) : w[pos + i] = back[i]
  BY <1>4, <1>5, TwoParts
<1> HIDE DEF w
<1>7. \A i \in pos + 1..Len(s) - gone :
        i - pos \in 1..Len(s) - (pos + gone) /\ pos + gone + (i - pos) = gone + i /\ pos + (i - pos) = i
  BY <1>1, <1>2
<1>8. \A i \in pos + 1..Len(s) - gone : w[i] = s[gone + i]
  BY <1>5, <1>6, <1>7
<1>9. Len(w) = Len(s) - gone
  BY <1>1, <1>2, <1>5, <1>6
<1>10. O!Erase(s, pos, count).returns = w
  BY <1>3, ReturnsIs
<1> QED BY <1>2, <1>3, <1>4, <1>6, <1>8, <1>9, <1>10 DEF gone

\* Two strings are one when they have the same octets.
LEMMA SameString ==
  ASSUME NEW s \in Seq(Nat), NEW t \in Seq(Nat), Len(s) = Len(t), \A i \in 1..Len(s) : s[i] = t[i]
  PROVE  s = t
BY SeqEqual

\* What is inserted can be erased, what is erased inserted again.
LEMMA EraseUndoesInsert ==
  ASSUME NEW s \in Seq(Nat), NEW t \in Seq(Nat), NEW pos \in 0..Len(s)
  PROVE  O!Erase(O!Insert(s, pos, t).returns, pos, Len(t)) = O!Returns(s)
<1> DEFINE w == O!Insert(s, pos, t).returns
           v == O!Erase(w, pos, Len(t)).returns
           gone == O!Min({Len(t), Len(w) - pos})
<1>1. Len(s) \in Nat /\ Len(t) \in Nat
  BY LenProperties
<1>2. /\ w \in Seq(Nat) /\ Len(w) = Len(s) + Len(t)
      /\ \A i \in 1..pos : w[i] = s[i]
      /\ \A i \in pos + 1..Len(s) : w[Len(t) + i] = s[i]
  BY InsertIs
<1> HIDE DEF w
<1>3. gone = Len(t)
  <2>1. Len(t) \in Int /\ Len(w) - pos \in Int /\ Len(t) <= Len(w) - pos
    BY <1>1, <1>2
  <2> QED BY <2>1, MinIs, Zenon
<1>4. /\ O!Erase(w, pos, Len(t)) = O!Returns(v)
      /\ v \in Seq(Nat) /\ Len(v) = Len(w) - gone
      /\ \A i \in 1..pos : v[i] = w[i]
      /\ \A i \in pos + 1..Len(w) - gone : v[i] = w[gone + i]
  <2>1. pos \in 0..Len(w)
    BY <1>1, <1>2
  <2> QED BY <1>1, <1>2, <2>1, EraseIs
<1> HIDE DEF v, gone
<1>5. Len(v) = Len(s)
  BY <1>1, <1>2, <1>3, <1>4
<1>7. ASSUME NEW i \in 1..Len(v) PROVE v[i] = s[i]
  <2>1. CASE i <= pos
    BY <1>2, <1>4, <1>5, <2>1
  <2>2. CASE i > pos
    <3>1. i \in pos + 1..Len(s) /\ i \in pos + 1..Len(w) - gone
      BY <1>1, <1>2, <1>3, <1>5, <2>2
    <3> QED BY <1>2, <1>3, <1>4, <3>1
  <2> QED BY <1>1, <1>5, <2>1, <2>2
<1>6. v = s
  BY <1>2, <1>4, <1>5, <1>7, SameString
<1> QED BY <1>4, <1>6 DEF w

\* What was erased can be put back.
LEMMA InsertUndoesErase ==
  ASSUME NEW s \in Seq(Nat), NEW pos \in 0..Len(s), NEW count \in Nat
  PROVE  O!Insert(O!Erase(s, pos, count).returns, pos, O!Substr(s, pos, count).returns) = O!Returns(s)
<1> DEFINE w == O!Erase(s, pos, count).returns
           t == O!Substr(s, pos, count).returns
           v == O!Insert(w, pos, t).returns
           gone == O!Min({count, Len(s) - pos})
<1>1. Len(s) \in Nat
  BY LenProperties
<1>2. /\ gone \in 0..Len(s) - pos /\ w \in Seq(Nat) /\ Len(w) = Len(s) - gone
      /\ \A i \in 1..pos : w[i] = s[i]
      /\ \A i \in pos + 1..Len(s) - gone : w[i] = s[gone + i]
  BY EraseIs
<1>3. t \in Seq(Nat) /\ gone = Len(t) /\ \A i \in 1..gone : t[i] = s[pos + i]
  BY SubstrIs
<1> HIDE DEF w, t, gone
<1>4. /\ O!Insert(w, pos, t) = O!Returns(v) /\ v \in Seq(Nat) /\ Len(v) = Len(w) + Len(t)
      /\ \A i \in 1..pos : v[i] = w[i]
      /\ \A i \in 1..Len(t) : v[pos + i] = t[i]
      /\ \A i \in pos + 1..Len(w) : v[Len(t) + i] = w[i]
  <2>1. pos \in 0..Len(w)
    BY <1>1, <1>2
  <2> QED BY <1>2, <1>3, <2>1, InsertIs
<1> HIDE DEF v
<1>5. Len(v) = Len(s)
  <2>1. gone \in Int
    BY <1>1, <1>2
  <2>2. Len(w) = Len(s) - gone /\ Len(t) = gone
    BY <1>2, <1>3
  <2>3. Len(v) = Len(w) + Len(t)
    BY <1>4
  <2> QED BY <1>1, <2>1, <2>2, <2>3
<1>6. ASSUME NEW i \in 1..Len(v) PROVE v[i] = s[i]
  <2>1. CASE i <= pos
    BY <1>2, <1>4, <1>5, <2>1
  <2>2. CASE i > pos /\ i <= pos + gone
    <3>1. i - pos \in 1..gone /\ pos + (i - pos) = i
      BY <1>2, <2>2
    <3> QED BY <1>3, <1>4, <3>1
  <2>3. CASE i > pos + gone
    <3>1. i - gone \in pos + 1..Len(w) /\ i - gone \in pos + 1..Len(s) - gone /\ gone + (i - gone) = i
      BY <1>1, <1>2, <1>5, <2>3
    <3>2. v[Len(t) + (i - gone)] = w[i - gone] /\ w[i - gone] = s[gone + (i - gone)]
      BY <1>2, <1>4, <3>1
    <3> QED BY <1>3, <3>1, <3>2
  <2> QED BY <1>1, <1>2, <1>5, <2>1, <2>2, <2>3
<1>7. v = s
  BY <1>4, <1>5, <1>6, SameString
<1> QED BY <1>4, <1>7 DEF w, t

\* What holds of texts holds of octet strings.
LEMMA StringsAreTexts ==
  ASSUME NEW s \in O!OctetStrings
  PROVE  s \in Seq(Nat) /\ Len(s) \in Nat /\ \A i \in 1..Len(s) : s[i] \in 0..O!Octet - 1
<1>1. 0..O!Octet - 1 \subseteq Nat
  BY OctetSizes
<1>2. s \in Seq(0..O!Octet - 1)
  BY DEF O!OctetStrings
<1>3. s \in Seq(Nat)
  BY <1>1, <1>2, SeqMonotonic
<1> HIDE DEF O!OctetStrings
<1>4. Len(s) \in Nat /\ s \in [1..Len(s) -> 0..O!Octet - 1]
  BY <1>2, LenProperties
<1> QED BY <1>3, <1>4

\* insert of a part: when it throws, and that erase undoes it.
LEMMA InsertedIs ==
  ASSUME NEW s \in Seq(Nat), NEW t \in Seq(Nat), NEW pos \in Nat, NEW from \in Nat, NEW count \in Nat
  PROVE  LET r == O!InsertPart(s, pos, t, from, count)
             moved == O!Min({count, Len(t) - from})
         IN  /\ r = O!Throws <=> from > Len(t) \/ pos > Len(s)
             /\ r # O!Throws => /\ O!Erase(r.returns, pos, moved) = O!Returns(s)
                              /\ \A i \in 1..moved : r.returns[pos + i] = t[from + i]
<1> DEFINE r == O!InsertPart(s, pos, t, from, count)
           moved == O!Min({count, Len(t) - from})
           part == O!Substr(t, from, count).returns
<1>1. Len(s) \in Nat /\ Len(t) \in Nat
  BY LenProperties
<1>2. CASE from > Len(t)
  <2>1. O!Substr(t, from, count) = O!Throws
    BY <1>2 DEF O!Substr
  <2>2. r = O!Throws
    BY <2>1 DEF O!InsertPart
  <2> QED BY <1>2, <2>2
<1>3. CASE ~(from > Len(t)) /\ pos > Len(s)
  <2>1. from \in 0..Len(t)
    BY <1>1, <1>3
  <2>2. O!Substr(t, from, count) = O!Returns(part)
    BY <2>1, SubstrIs
  <2>3. O!Insert(s, pos, part) = O!Throws
    BY <1>3 DEF O!Insert
  <2>4. O!Returns(part) # O!Throws /\ O!Returns(part).returns = part
    BY ReturnsIs
  <2> HIDE DEF part
  <2>5. r = O!Throws
    BY <2>2, <2>3, <2>4 DEF O!InsertPart
  <2> QED BY <1>3, <2>5
<1>4. CASE ~(from > Len(t)) /\ ~(pos > Len(s))
  <2>1. from \in 0..Len(t) /\ pos \in 0..Len(s)
    BY <1>1, <1>4
  <2>2. /\ O!Substr(t, from, count) = O!Returns(part) /\ part \in Seq(Nat)
        /\ moved = Len(part) /\ \A i \in 1..moved : part[i] = t[from + i]
    BY <2>1, SubstrIs
  <2>3. O!Returns(part) # O!Throws /\ O!Returns(part).returns = part
    BY ReturnsIs
  <2> HIDE DEF part, moved
  <2>4. r = O!Insert(s, pos, part)
    BY <2>2, <2>3 DEF O!InsertPart
  <2> HIDE DEF r
  <2>5. r = O!Returns(r.returns) /\ \A i \in 1..Len(part) : r.returns[pos + i] = part[i]
    BY <2>1, <2>2, <2>4, InsertIs
  <2>6. O!Erase(r.returns, pos, Len(part)) = O!Returns(s)
    BY <2>1, <2>2, <2>4, EraseUndoesInsert
  <2>7. r # O!Throws
    BY <2>5, ReturnsIs
  <2>8. \A i \in 1..moved : r.returns[pos + i] = t[from + i]
    BY <2>2, <2>5
  <2> QED BY <1>4, <2>2, <2>6, <2>7, <2>8 DEF r, moved
<1> QED BY <1>2, <1>3, <1>4

\* copy: when it throws, and that what it does not write stays.
LEMMA CopiedIs ==
  ASSUME NEW s \in Seq(Nat), NEW t \in Seq(Nat), NEW from \in Nat, NEW count \in Nat
  PROVE  LET r == O!Copy(t, s, count, from)
             moved == O!Min({count, Len(t) - from})
         IN  /\ r = O!Throws <=> from > Len(t)
             /\ r # O!Throws => \A i \in DOMAIN s : r.returns[i] = IF i <= moved THEN t[from + i] ELSE s[i]
<1> DEFINE r == O!Copy(t, s, count, from)
           moved == O!Min({count, Len(t) - from})
           part == O!Substr(t, from, count).returns
<1>1. Len(s) \in Nat /\ Len(t) \in Nat /\ DOMAIN s = 1..Len(s)
  BY LenProperties
<1>2. CASE from > Len(t)
  <2>1. O!Substr(t, from, count) = O!Throws
    BY <1>2 DEF O!Substr
  <2>2. r = O!Throws
    BY <2>1 DEF O!Copy
  <2> QED BY <1>2, <2>2
<1>3. CASE ~(from > Len(t))
  <2>1. from \in 0..Len(t)
    BY <1>1, <1>3
  <2>2. /\ O!Substr(t, from, count) = O!Returns(part) /\ part \in Seq(Nat)
        /\ moved = Len(part) /\ \A i \in 1..moved : part[i] = t[from + i]
    BY <2>1, SubstrIs
  <2>3. O!Returns(part) # O!Throws /\ O!Returns(part).returns = part
    BY ReturnsIs
  <2> HIDE DEF part, moved
  <2> DEFINE back == O!SubstrFrom(s, Len(part))
  <2>4. r = O!Returns(part \o back)
    BY <2>2, <2>3 DEF O!Copy
  <2>5. r # O!Throws /\ r.returns = part \o back
    BY <2>4, ReturnsIs
  <2>6. Len(part) \in Nat
    BY <2>2, LenProperties
  <2>7. /\ back \in Seq(Nat) /\ \A i \in 1..Len(s) - Len(part) : back[i] = s[Len(part) + i]
        /\ Len(back) = IF Len(part) <= Len(s) THEN Len(s) - Len(part) ELSE 0
    BY <2>6, SubstrFromIs
  <2> HIDE DEF r, back
  <2>8. /\ \A i \in 1..Len(part) : (part \o back)[i] = part[i]
        /\ \A i \in 1..Len(back) : (part \o back)[Len(part) + i] = back[i]
    BY <2>2, <2>7, TwoParts
  <2>9. ASSUME NEW i \in 1..Len(s)
        PROVE  r.returns[i] = IF i <= moved THEN t[from + i] ELSE s[i]
    <3>1. CASE i <= moved
      BY <2>2, <2>5, <2>6, <2>8, <3>1
    <3>2. CASE i > moved
      <4>1. i - Len(part) \in 1..Len(back) /\ i - Len(part) \in 1..Len(s) - Len(part) /\ Len(part) + (i - Len(part)) = i
        <5>1. Len(part) <= Len(s) /\ i - Len(part) \in 1..Len(s) - Len(part) /\ Len(part) + (i - Len(part)) = i
          BY <1>1, <2>2, <2>6, <3>2
        <5>2. Len(back) = Len(s) - Len(part)
          BY <2>7, <5>1
        <5> QED BY <5>1, <5>2
      <4>2. (part \o back)[Len(part) + (i - Len(part))] = back[i - Len(part)]
            /\ back[i - Len(part)] = s[Len(part) + (i - Len(part))]
        BY <2>7, <2>8, <4>1
      <4> QED BY <2>2, <2>5, <2>6, <3>2, <4>1, <4>2
    <3> QED BY <2>2, <2>6, <3>1, <3>2
  <2> QED BY <1>1, <1>3, <2>5, <2>9 DEF r, moved
<1> QED BY <1>2, <1>3

\* erase: when it throws, and that insert undoes it.
LEMMA ErasedIs ==
  ASSUME NEW s \in Seq(Nat), NEW pos \in Nat, NEW count \in Nat
  PROVE  LET r == O!Erase(s, pos, count)
         IN  IF pos > Len(s) THEN r = O!Throws
             ELSE O!Insert(r.returns, pos, O!Substr(s, pos, count).returns) = O!Returns(s)
<1>1. Len(s) \in Nat
  BY LenProperties
<1>2. CASE pos > Len(s)
  BY <1>2 DEF O!Erase
<1>3. CASE ~(pos > Len(s))
  <2>1. pos \in 0..Len(s)
    BY <1>1, <1>3
  <2> QED BY <1>3, <2>1, InsertUndoesErase
<1> QED BY <1>2, <1>3

\* erase between two iterators, of which the octet in front of the last stays.
LEMMA ErasedRangeIs ==
  ASSUME NEW s \in Seq(Nat), NEW first \in Nat, NEW final \in first + 1..Len(s)
  PROVE  O!InsertPart(O!EraseRange(s, first, final).returns, first, s, first, final - first - 1) = O!Returns(s)
<1> DEFINE w == O!EraseRange(s, first, final).returns
           part == O!Substr(s, first, final - first - 1).returns
<1>1. Len(s) \in Nat /\ first \in 0..Len(s) /\ final - first - 1 \in Nat /\ final - 1 - first = final - first - 1
  BY LenProperties
<1>2. O!Insert(w, first, part) = O!Returns(s)
  BY <1>1, InsertUndoesErase DEF O!EraseRange
<1>3. O!Substr(s, first, final - first - 1) = O!Returns(part)
  BY <1>1, SubstrIs
<1>4. O!Returns(part) # O!Throws /\ O!Returns(part).returns = part
  BY ReturnsIs
<1> HIDE DEF part, w
<1> QED BY <1>2, <1>3, <1>4 DEF O!InsertPart, w

\* resize there and back.
LEMMA ResizedIs ==
  ASSUME NEW s \in Seq(Nat), NEW n \in Nat, NEW octet \in Nat
  PROVE  O!Resize(O!Resize(s, n, octet), Len(s), octet) = [i \in DOMAIN s |-> IF i <= n THEN s[i] ELSE octet]
<1>1. Len(s) \in Nat /\ DOMAIN s = 1..Len(s)
  BY LenProperties
<1> DEFINE w == [i \in 1..n |-> IF i <= Len(s) THEN s[i] ELSE octet]
<1>2. O!Resize(s, n, octet) = w /\ Len(w) = n /\ \A i \in 1..n : w[i] = IF i <= Len(s) THEN s[i] ELSE octet
  BY <1>1 DEF O!Resize
<1> HIDE DEF w
<1>3. O!Resize(w, Len(s), octet) = [i \in 1..Len(s) |-> IF i <= n THEN w[i] ELSE octet]
  BY <1>2 DEF O!Resize
<1>4. \A i \in 1..Len(s) : (IF i <= n THEN w[i] ELSE octet) = IF i <= n THEN s[i] ELSE octet
  BY <1>1, <1>2
<1> QED BY <1>1, <1>2, <1>3, <1>4
-----------------------------------------------------------------------------
(* Octets: the order, and what hexlify prints.                             *)

\* Two texts up to a place.
LEMMA SameStart ==
  ASSUME NEW a \in Seq(Nat), NEW b \in Seq(Nat), NEW k \in Nat, k <= Len(a), k <= Len(b)
  PROVE  SubSeq(a, 1, k) = SubSeq(b, 1, k) <=> \A j \in 1..k : a[j] = b[j]
<1>1. k \in Int /\ (k - 1) + 1 = k /\ \A j \in Int : (1 + j) - 1 = j
  OBVIOUS
<1>2. /\ SubSeq(a, 1, k) \in Seq(Nat) /\ Len(SubSeq(a, 1, k)) = k
      /\ \A j \in 1..k : SubSeq(a, 1, k)[j] = a[j]
  <2>1. /\ SubSeq(a, 1, k) \in Seq(Nat) /\ Len(SubSeq(a, 1, k)) = IF 1 <= k THEN k - 1 + 1 ELSE 0
        /\ \A j \in 1..k - 1 + 1 : SubSeq(a, 1, k)[j] = a[1 + j - 1]
    BY PartIs
  <2> QED BY <1>1, <2>1
<1>3. /\ SubSeq(b, 1, k) \in Seq(Nat) /\ Len(SubSeq(b, 1, k)) = k
      /\ \A j \in 1..k : SubSeq(b, 1, k)[j] = b[j]
  <2>1. /\ SubSeq(b, 1, k) \in Seq(Nat) /\ Len(SubSeq(b, 1, k)) = IF 1 <= k THEN k - 1 + 1 ELSE 0
        /\ \A j \in 1..k - 1 + 1 : SubSeq(b, 1, k)[j] = b[1 + j - 1]
    BY PartIs
  <2> QED BY <1>1, <2>1
<1> DEFINE s == SubSeq(a, 1, k)
           t == SubSeq(b, 1, k)
<1> HIDE DEF s, t
<1>4. ASSUME \A j \in 1..k : a[j] = b[j] PROVE s = t
  <2>1. s \in Seq(Nat) /\ t \in Seq(Nat) /\ Len(s) = Len(t) /\ \A j \in 1..Len(s) : s[j] = t[j]
    BY <1>2, <1>3, <1>4 DEF s, t
  <2> QED BY <2>1, SameString
<1>5. ASSUME s = t PROVE \A j \in 1..k : a[j] = b[j]
  BY <1>2, <1>3, <1>5 DEF s, t
<1> QED BY <1>4, <1>5 DEF s, t

\* std::mismatch: the first place with a difference.
LEMMA MismatchIs ==
  ASSUME NEW a \in Seq(Nat), NEW b \in Seq(Nat)
  PROVE  LET n == IF Len(a) < Len(b) THEN Len(a) ELSE Len(b)
             i == O!Mismatch(a, b)
         IN  /\ Len(a) \in Nat /\ Len(b) \in Nat /\ i \in 1..n + 1 /\ (i = n + 1 \/ a[i] # b[i])
             /\ \A j \in 1..i - 1 : a[j] = b[j]
<1> DEFINE n == IF Len(a) < Len(b) THEN Len(a) ELSE Len(b)
           D == {i \in 1..n + 1 : i = n + 1 \/ a[i] # b[i]}
<1>1. Len(a) \in Nat /\ Len(b) \in Nat /\ n \in Nat
  BY LenProperties
<1> HIDE DEF n
<1>2. D \in SUBSET Nat /\ n + 1 \in D
  BY <1>1
<1>3. PICK m \in D : \A k \in D : m <= k
  <2> HIDE DEF D
  <2>1. D # {}
    BY <1>2
  <2> QED BY <1>2, <2>1, Smallest
<1>4. m \in 1..n + 1 /\ (m = n + 1 \/ a[m] # b[m]) /\ \A j \in 1..m - 1 : a[j] = b[j]
  <2>1. m \in 1..n + 1 /\ (m = n + 1 \/ a[m] # b[m])
    BY <1>3
  <2>2. ASSUME NEW j \in 1..m - 1 PROVE a[j] = b[j]
    <3>1. j \in 1..n + 1 /\ ~(m <= j)
      BY <1>1, <2>1
    <3>2. j \notin D
      <4> HIDE DEF D
      <4> QED BY <1>3, <3>1
    <3> QED BY <3>1, <3>2
  <2> QED BY <2>1, <2>2
<1> DEFINE P(i) == (i = n + 1 \/ a[i] # b[i]) /\ \A j \in 1..i - 1 : a[j] = b[j]
<1>5. O!Mismatch(a, b) = CHOOSE i \in 1..n + 1 : P(i)
  BY DEF O!Mismatch, n
<1>6. \E i \in 1..n + 1 : P(i)
  BY <1>4
<1> HIDE DEF P
<1>7. O!Mismatch(a, b) \in 1..n + 1 /\ P(O!Mismatch(a, b))
  BY <1>5, <1>6, Zenon
<1> QED BY <1>1, <1>7 DEF P, n

\* Which of two texts is less, at their first difference.
LEMMA BeforeIs ==
  ASSUME NEW a \in Seq(Nat), NEW b \in Seq(Nat), NEW i \in Nat,
         i >= 1, i <= Len(a) + 1, i <= Len(b) + 1,
         i <= Len(a) /\ i <= Len(b) => a[i] # b[i],
         \A j \in 1..i - 1 : a[j] = b[j]
  PROVE  O!Before(a, b) <=> i <= Len(b) /\ (i > Len(a) \/ a[i] < b[i])
<1>1. Len(a) \in Nat /\ Len(b) \in Nat /\ DOMAIN a = 1..Len(a) /\ DOMAIN b = 1..Len(b)
      /\ (\A j \in 1..Len(a) : a[j] \in Nat) /\ \A j \in 1..Len(b) : b[j] \in Nat
  BY LenProperties
<1>2. SubSeq(a, 1, Len(a)) = a
  BY SubSeqFull
<1>3. ASSUME Len(a) < Len(b)
      PROVE  SubSeq(b, 1, Len(a)) = a <=> \A j \in 1..Len(a) : a[j] = b[j]
  <2>1. SubSeq(a, 1, Len(a)) = SubSeq(b, 1, Len(a)) <=> \A j \in 1..Len(a) : a[j] = b[j]
    BY <1>1, <1>3, SameStart
  <2> QED BY <1>2, <2>1
<1>4. ASSUME NEW k \in 1..Len(a), k \in 1..Len(b)
      PROVE  SubSeq(b, 1, k - 1) = SubSeq(a, 1, k - 1) <=> \A j \in 1..k - 1 : a[j] = b[j]
  <2>1. k - 1 \in Nat /\ k - 1 <= Len(a) /\ k - 1 <= Len(b)
    BY <1>1, <1>4
  <2>2. SubSeq(a, 1, k - 1) = SubSeq(b, 1, k - 1) <=> \A j \in 1..k - 1 : a[j] = b[j]
    BY <2>1, SameStart
  <2> QED BY <2>2
<1>5. O!Before(a, b) <=> \/ Len(a) < Len(b) /\ \A j \in 1..Len(a) : a[j] = b[j]
                       \/ \E k \in 1..Len(a) : k \in 1..Len(b) /\ a[k] < b[k] /\ \A j \in 1..k - 1 : a[j] = b[j]
  BY <1>1, <1>3, <1>4 DEF O!Before
<1>6. ASSUME Len(a) < Len(b), \A j \in 1..Len(a) : a[j] = b[j] PROVE i <= Len(b) /\ i > Len(a)
  BY <1>1, <1>6
<1>7. ASSUME NEW k \in 1..Len(a), k \in 1..Len(b), a[k] < b[k], \A j \in 1..k - 1 : a[j] = b[j]
      PROVE  i = k
  <2>1. a[k] # b[k]
    BY <1>1, <1>7
  <2>2. ~(k < i)
    <3>1. k < i => k \in 1..i - 1
      BY <1>1
    <3> QED BY <2>1, <3>1
  <2>3. ~(i < k)
    <3>1. i < k => i \in 1..k - 1 /\ i <= Len(a) /\ i <= Len(b)
      BY <1>1, <1>7
    <3> QED BY <1>7, <3>1
  <2> QED BY <1>1, <2>2, <2>3
<1>8. ASSUME i <= Len(b), i > Len(a) PROVE Len(a) < Len(b) /\ \A j \in 1..Len(a) : a[j] = b[j]
  BY <1>1, <1>8
<1>9. ASSUME i <= Len(b), ~(i > Len(a)), a[i] < b[i]
      PROVE  i \in 1..Len(a) /\ i \in 1..Len(b)
  BY <1>1, <1>9
<1> HIDE DEF O!Before
<1>10. ASSUME O!Before(a, b) PROVE i <= Len(b) /\ (i > Len(a) \/ a[i] < b[i])
  BY <1>1, <1>5, <1>6, <1>7, <1>10
<1>11. ASSUME i <= Len(b), i > Len(a) \/ a[i] < b[i] PROVE O!Before(a, b)
  BY <1>5, <1>8, <1>9, <1>11
<1> QED BY <1>10, <1>11

\* Of two texts just one is less, or they are one text.
LEMMA CompareIs ==
  ASSUME NEW a \in Seq(Nat), NEW b \in Seq(Nat)
  PROVE  /\ O!Compare(a, b) < 0 <=> O!Before(a, b)
         /\ O!Compare(a, b) > 0 <=> O!Before(b, a)
         /\ O!Compare(a, b) = 0 <=> a = b
         /\ O!Compare(a, b) \in {-1, 0, 1}
<1> DEFINE n == IF Len(a) < Len(b) THEN Len(a) ELSE Len(b)
           i == O!Mismatch(a, b)
<1>1. /\ Len(a) \in Nat /\ Len(b) \in Nat /\ i \in 1..n + 1 /\ (i = n + 1 \/ a[i] # b[i])
      /\ \A j \in 1..i - 1 : a[j] = b[j]
  BY MismatchIs
<1> HIDE DEF i
<1>2. /\ i \in Nat /\ i >= 1 /\ i <= Len(a) + 1 /\ i <= Len(b) + 1
      /\ (i <= Len(a) /\ i <= Len(b) => a[i] # b[i])
      /\ (i <= Len(a) => a[i] \in Nat) /\ (i <= Len(b) => b[i] \in Nat)
  <2>1. (\A j \in 1..Len(a) : a[j] \in Nat) /\ \A j \in 1..Len(b) : b[j] \in Nat
    BY LenProperties
  <2> QED BY <1>1, <2>1
<1>3. O!Before(a, b) <=> i <= Len(b) /\ (i > Len(a) \/ a[i] < b[i])
  BY <1>1, <1>2, BeforeIs
<1>4. O!Before(b, a) <=> i <= Len(a) /\ (i > Len(b) \/ b[i] < a[i])
  <2>1. (i <= Len(b) /\ i <= Len(a) => b[i] # a[i]) /\ \A j \in 1..i - 1 : b[j] = a[j]
    BY <1>1, <1>2
  <2> QED BY <1>2, <2>1, BeforeIs
<1>5. O!Compare(a, b) = IF i > Len(a) /\ i > Len(b) THEN 0 ELSE IF i > Len(a) /\ i <= Len(b) THEN -1
                      ELSE IF i <= Len(a) /\ i > Len(b) THEN 1 ELSE IF a[i] < b[i] THEN -1 ELSE 1
  <2>1. CASE i > Len(a) /\ i > Len(b)
    BY <1>1, <1>2, <2>1 DEF O!Compare, i
  <2>2. CASE i > Len(a) /\ i <= Len(b)
    BY <1>1, <1>2, <2>2 DEF O!Compare, i
  <2>3. CASE i <= Len(a) /\ i > Len(b)
    BY <1>1, <1>2, <2>3 DEF O!Compare, i
  <2>4. CASE i <= Len(a) /\ i <= Len(b)
    BY <1>1, <1>2, <2>4 DEF O!Compare, i
  <2> QED BY <1>1, <1>2, <2>1, <2>2, <2>3, <2>4
<1>6. a = b <=> i > Len(a) /\ i > Len(b)
  <2>1. ASSUME i > Len(a), i > Len(b) PROVE a = b
    <3>1. Len(a) = Len(b) /\ \A j \in 1..Len(a) : a[j] = b[j]
      BY <1>1, <1>2, <2>1
    <3> QED BY <3>1, SameString
  <2>2. ASSUME a = b PROVE i > Len(a) /\ i > Len(b)
    BY <1>1, <1>2, <2>2
  <2> QED BY <2>1, <2>2
<1> QED BY <1>1, <1>2, <1>3, <1>4, <1>5, <1>6

\* The two digits of an octet.
LEMMA HexDigits ==
  ASSUME NEW c \in Nat
  PROVE  /\ c = O!HexBase * (c \div O!HexBase) + (c % O!HexBase)
         /\ c \div O!HexBase \in Nat /\ c % O!HexBase \in 0..O!HexBase - 1 /\ c % O!HexBase \in Nat
<1>1. c \in Int /\ O!HexBase \in Nat \ {0} /\ c >= 0
  BY OctetSizes
<1>2. /\ c = O!HexBase * (c \div O!HexBase) + (c % O!HexBase) /\ c % O!HexBase \in 0..O!HexBase - 1
      /\ c \div O!HexBase \in Int /\ (c >= 0 => c \div O!HexBase \in Nat)
  BY <1>1, DivIs, Zenon
<1>3. c % O!HexBase \in Nat
  BY <1>1, <1>2
<1> QED BY <1>1, <1>2, <1>3

\* Hexadecimal digits, octet by octet.
LEMMA HexlifyUp ==
  ASSUME NEW bytes \in O!OctetStrings
  PROVE  \E up \in [0..Len(bytes) -> Seq(Nat)] :
           O!Hexlify(bytes) = up[Len(bytes)] /\ up[0] = <<>> /\ \A i \in 1..Len(bytes) : up[i] = up[i - 1] \o <<bytes[i] \div O!HexBase, bytes[i] % O!HexBase>>
<1> DEFINE n == Len(bytes)
           V == Seq(Nat)
           Step(x, i) == x \o <<bytes[i] \div O!HexBase, bytes[i] % O!HexBase>>
           g == [i \in 1..n |-> [x \in V |-> Step(x, i)]]
           up == CHOOSE upTo : upTo = [i \in 0..n |-> IF i = 0 THEN <<>> ELSE upTo[i - 1] \o <<bytes[i] \div O!HexBase, bytes[i] % O!HexBase>>]
<1>1. n \in Nat /\ <<>> \in V
  BY StringsAreTexts, EmptySeq
<1>2. \A i \in 1..n, x \in V : Step(x, i) \in V
  <2>1. ASSUME NEW i \in 1..Len(bytes), NEW x \in Seq(Nat) PROVE Step(x, i) \in Seq(Nat)
    <3>1. bytes[i] \in Nat
      BY StringsAreTexts, LenProperties
    <3>2. bytes[i] \div O!HexBase \in Nat /\ bytes[i] % O!HexBase \in Nat
      BY <3>1, HexDigits
    <3>3. <<bytes[i] \div O!HexBase, bytes[i] % O!HexBase>> \in Seq(Nat)
      BY <3>2
    <3> QED BY <3>3, ConcatProperties
  <2> QED BY <2>1
<1>3. O!Hexlify(bytes) = up[Len(bytes)]
  BY Zenon DEF O!Hexlify
<1> HIDE DEF n, V, Step
<1>4. g \in [1..n -> [V -> V]] /\ \A i \in 1..n, x \in V : g[i][x] = Step(x, i)
  BY <1>2
<1> HIDE DEF g
<1>5. PICK f : f \in Iterations(V, n, <<>>, g)
  BY <1>1, <1>4, Iterated, Zenon
<1>6. f = [i \in 0..n |-> IF i = 0 THEN <<>> ELSE Step(f[i - 1], i)]
  <2>1. f \in [0..n -> V] /\ f[0] = <<>> /\ \A i \in 1..n : f[i] = g[i][f[i - 1]]
    BY <1>5 DEF Iterations
  <2>2. \A i \in 1..n : f[i] = Step(f[i - 1], i)
    BY <1>1, <1>4, <2>1
  <2> QED BY <1>1, <2>1, <2>2
<1>7. up = [i \in 0..n |-> IF i = 0 THEN <<>> ELSE Step(up[i - 1], i)]
  BY <1>6, Zenon DEF Step
<1> HIDE DEF up
<1>8. up[0] = <<>> /\ \A i \in 1..n : up[i] = Step(up[i - 1], i)
  BY <1>1, <1>7
<1>9. \A i \in 0..n : up[i] \in V
  <2>1. up[0] \in V
    BY <1>1, <1>8
  <2>2. \A i \in 1..n : up[i - 1] \in V => up[i] \in V
    BY <1>2, <1>8
  <2> QED BY <1>1, <2>1, <2>2, Typed, Zenon
<1>10. up \in [0..n -> V]
  BY <1>7, <1>9
<1> QED BY <1>3, <1>8, <1>10, Zenon DEF n, V, Step

\* hexlify: two digits of each octet.
LEMMA HexlifyIs ==
  ASSUME NEW s \in O!OctetStrings
  PROVE  /\ O!Hexlify(s) \in Seq(Nat) /\ Len(O!Hexlify(s)) = 2 * Len(s) /\ Len(s) \in Nat
         /\ \A i \in 1..Len(s) : /\ O!Hexlify(s)[2 * i - 1] = s[i] \div O!HexBase
                                 /\ O!Hexlify(s)[2 * i] = s[i] % O!HexBase
<1>1. Len(s) \in Nat
  BY StringsAreTexts
<1>2. PICK up \in [0..Len(s) -> Seq(Nat)] :
        /\ O!Hexlify(s) = up[Len(s)] /\ up[0] = <<>>
        /\ \A i \in 1..Len(s) : up[i] = up[i - 1] \o <<s[i] \div O!HexBase, s[i] % O!HexBase>>
  BY HexlifyUp
<1> DEFINE Right(i) == /\ Len(up[i]) = 2 * i
                       /\ \A j \in 1..i : up[i][2 * j - 1] = s[j] \div O!HexBase /\ up[i][2 * j] = s[j] % O!HexBase
           D == {i \in 0..Len(s) : Right(i)}
<1>3. 0 \in D
  BY <1>1, <1>2
<1>4. ASSUME NEW i \in 1..Len(s), i - 1 \in D PROVE i \in D
  <2> DEFINE x == up[i - 1]
             q == s[i] \div O!HexBase
             r == s[i] % O!HexBase
             y == <<q, r>>
  <2>1. q \in Nat /\ r \in Nat
    <3>1. s[i] \in Nat
      BY StringsAreTexts, LenProperties
    <3> QED BY <3>1, HexDigits
  <2>2. x \in Seq(Nat) /\ Right(i - 1) /\ up[i] = x \o y
    BY <1>2, <1>4
  <2> HIDE DEF q, r
  <2>3. y \in Seq(Nat) /\ Len(y) = 2 /\ y[1] = q /\ y[2] = r
    BY <2>1
  <2> HIDE DEF x, y
  <2>4. /\ Len(x \o y) = Len(x) + Len(y)
        /\ \A j \in 1..Len(x) : (x \o y)[j] = x[j]
        /\ \A j \in 1..Len(y) : (x \o y)[Len(x) + j] = y[j]
    BY <2>2, <2>3, TwoParts
  <2>5. /\ Len(x) = 2 * (i - 1)
        /\ \A j \in 1..i - 1 : x[2 * j - 1] = s[j] \div O!HexBase /\ x[2 * j] = s[j] % O!HexBase
    BY <2>2 DEF x
  <2>6. Len(up[i]) = 2 * i
    BY <2>2, <2>3, <2>4, <2>5
  <2>7. up[i][2 * i - 1] = q /\ up[i][2 * i] = r
    <3>1. (x \o y)[Len(x) + 1] = q /\ (x \o y)[Len(x) + 2] = r
      BY <2>3, <2>4
    <3>2. Len(x) + 1 = 2 * i - 1 /\ Len(x) + 2 = 2 * i
      BY <2>5
    <3> QED BY <2>2, <3>1, <3>2
  <2>8. ASSUME NEW j \in 1..i - 1 PROVE up[i][2 * j - 1] = x[2 * j - 1] /\ up[i][2 * j] = x[2 * j]
    <3>1. 2 * j - 1 \in 1..Len(x) /\ 2 * j \in 1..Len(x)
      BY <2>5
    <3> QED BY <2>2, <2>4, <3>1
  <2>9. ASSUME NEW j \in 1..i PROVE up[i][2 * j - 1] = s[j] \div O!HexBase /\ up[i][2 * j] = s[j] % O!HexBase
    <3>1. CASE j = i
      BY <2>7, <3>1 DEF q, r
    <3>2. CASE j # i
      <4>1. j \in 1..i - 1
        BY <3>2
      <4> QED BY <2>5, <2>8, <4>1
    <3> QED BY <3>1, <3>2
  <2> QED BY <2>6, <2>9
<1>5. Right(Len(s))
  <2> HIDE DEF D
  <2>1. \A i \in 0..Len(s) : i \in D
    BY <1>1, <1>3, <1>4, UpTo
  <2> USE DEF D
  <2> QED BY <1>1, <2>1
<1> QED BY <1>1, <1>2, <1>5

\* The digits are in the order of the octets.
LEMMA HexlifyKeepsOrder ==
  ASSUME NEW a \in O!OctetStrings, NEW b \in O!OctetStrings, O!Before(a, b)
  PROVE  O!Before(O!Hexlify(a), O!Hexlify(b))
<1> DEFINE x == O!Hexlify(a)
           y == O!Hexlify(b)
           High(c) == c \div O!HexBase
           Low(c) == c % O!HexBase
<1>0. /\ \A i \in 1..Len(a) : x[2 * i - 1] = High(a[i]) /\ x[2 * i] = Low(a[i])
      /\ \A i \in 1..Len(b) : y[2 * i - 1] = High(b[i]) /\ y[2 * i] = Low(b[i])
  BY HexlifyIs
<1>1. x \in Seq(Nat) /\ Len(x) = 2 * Len(a) /\ Len(a) \in Nat /\ Len(x) \in Nat
  BY HexlifyIs, LenProperties
<1>2. y \in Seq(Nat) /\ Len(y) = 2 * Len(b) /\ Len(b) \in Nat /\ Len(y) \in Nat
  BY HexlifyIs, LenProperties
<1>3. a \in Seq(Nat) /\ b \in Seq(Nat) /\ DOMAIN a = 1..Len(a) /\ DOMAIN b = 1..Len(b)
      /\ (\A i \in 1..Len(a) : a[i] \in Nat) /\ \A i \in 1..Len(b) : b[i] \in Nat
  <2>1. a \in Seq(Nat) /\ b \in Seq(Nat)
    BY StringsAreTexts
  <2> QED BY <2>1, LenProperties
<1> HIDE DEF x, y, High, Low
<1>4. ASSUME NEW n \in Nat, n <= Len(a), n <= Len(b), \A i \in 1..n : a[i] = b[i],
             NEW k \in 1..2 * n
      PROVE  x[k] = y[k]
  <2>1. PICK i \in 1..n : k = 2 * i - 1 \/ k = 2 * i
    <3>1. CASE k % 2 = 0
      <4>1. k \div 2 \in 1..n /\ k = 2 * (k \div 2)
        BY <3>1
      <4> QED BY <4>1
    <3>2. CASE k % 2 = 1
      <4>1. (k + 1) \div 2 \in 1..n /\ k = 2 * ((k + 1) \div 2) - 1
        BY <3>2
      <4> QED BY <4>1
    <3> QED BY <3>1, <3>2
  <2>2. i \in 1..Len(a) /\ i \in 1..Len(b) /\ a[i] = b[i]
    BY <1>1, <1>2, <1>4
  <2> QED BY <1>0, <2>1, <2>2
<1>5. CASE Len(a) < Len(b) /\ SubSeq(b, 1, Len(a)) = a
  <2>1. \A i \in 1..Len(a) : a[i] = b[i]
    <3>1. SubSeq(a, 1, Len(a)) = a
      BY <1>3, SubSeqFull
    <3>2. SubSeq(a, 1, Len(a)) = SubSeq(b, 1, Len(a))
      BY <1>5, <3>1
    <3> QED BY <1>1, <1>2, <1>3, <1>5, <3>2, SameStart
  <2>2. \A k \in 1..2 * Len(a) : x[k] = y[k]
    <3>1. Len(a) \in Nat /\ Len(a) <= Len(a) /\ Len(a) <= Len(b)
      BY <1>1, <1>2, <1>5
    <3> QED BY <1>4, <2>1, <3>1, Zenon
  <2>3. Len(x) + 1 \in Nat /\ Len(x) + 1 >= 1 /\ Len(x) + 1 <= Len(x) + 1 /\ Len(x) + 1 <= Len(y)
        /\ Len(x) + 1 > Len(x) /\ (Len(x) + 1) - 1 = 2 * Len(a)
    BY <1>1, <1>2, <1>5
  <2> DEFINE i == Len(x) + 1
  <2>4. i \in Nat /\ i >= 1 /\ i <= Len(x) + 1 /\ i <= Len(y) + 1 /\ ~(i <= Len(x))
        /\ i <= Len(y) /\ i > Len(x) /\ \A j \in 1..i - 1 : x[j] = y[j]
    BY <1>1, <1>2, <2>2, <2>3
  <2> HIDE DEF i
  <2> QED BY <1>1, <1>2, <2>4, BeforeIs DEF x, y
<1>6. CASE \E i \in DOMAIN a \cap DOMAIN b : a[i] < b[i] /\ SubSeq(a, 1, i - 1) = SubSeq(b, 1, i - 1)
  <2>1. PICK i \in 1..Len(a) : i \in 1..Len(b) /\ a[i] < b[i] /\ SubSeq(a, 1, i - 1) = SubSeq(b, 1, i - 1)
    BY <1>3, <1>6, Zenon
  <2>2. i \in 1..Len(a) /\ i \in 1..Len(b) /\ i - 1 \in Nat /\ i - 1 <= Len(a) /\ i - 1 <= Len(b)
    BY <1>1, <1>2, <2>1
  <2>3. \A j \in 1..i - 1 : a[j] = b[j]
    BY <1>3, <2>1, <2>2, SameStart
  <2>4. \A k \in 1..2 * (i - 1) : x[k] = y[k]
    BY <1>4, <2>2, <2>3
  <2> DEFINE qa == High(a[i])
             ra == Low(a[i])
             qb == High(b[i])
             rb == Low(b[i])
  <2>5. a[i] \in Nat /\ b[i] \in Nat /\ a[i] < b[i]
    BY <1>3, <2>1, <2>2
  <2>6. /\ a[i] = O!HexBase * qa + ra /\ ra \in 0..O!HexBase - 1 /\ qa \in Nat /\ ra \in Nat
        /\ b[i] = O!HexBase * qb + rb /\ rb \in 0..O!HexBase - 1 /\ qb \in Nat /\ rb \in Nat
    BY <2>5, HexDigits DEF High, Low
  <2>8. /\ x[2 * i - 1] = qa /\ x[2 * i] = ra /\ y[2 * i - 1] = qb /\ y[2 * i] = rb
    BY <1>0, <2>2
  <2> HIDE DEF qa, qb, ra, rb
  <2>7. qa < qb \/ (qa = qb /\ ra < rb)
    <3>2. ASSUME qa > qb PROVE FALSE
      <4>1. O!HexBase * qa >= O!HexBase * (qb + 1)
        BY <2>6, <3>2, OctetSizes
      <4>2. O!HexBase * (qb + 1) = O!HexBase * qb + O!HexBase /\ O!HexBase * qa \in Int /\ O!HexBase * qb \in Int
        BY <2>6, OctetSizes
      <4> QED BY <2>5, <2>6, <4>1, <4>2, OctetSizes
    <3>3. ASSUME qa = qb PROVE ra < rb
      <4>1. O!HexBase * qa \in Int
        BY <2>6, OctetSizes
      <4> QED BY <2>5, <2>6, <3>3, <4>1, OctetSizes
    <3> QED BY <2>6, <3>2, <3>3
  <2>9. CASE qa < qb
    <3> DEFINE k == 2 * i - 1
    <3>1. k \in Nat /\ k >= 1 /\ k <= Len(x) /\ k <= Len(y) /\ k - 1 = 2 * (i - 1)
      BY <1>1, <1>2, <2>2
    <3>2. x[k] < y[k] /\ x[k] # y[k]
      BY <2>6, <2>8, <2>9
    <3> HIDE DEF k
    <3>3. k <= Len(x) + 1 /\ k <= Len(y) + 1
      BY <1>1, <1>2, <3>1
    <3>4. \A j \in 1..k - 1 : x[j] = y[j]
      <4>1. 1..k - 1 = 1..2 * (i - 1)
        BY <3>1
      <4> QED BY <2>4, <4>1
    <3> QED BY <1>1, <1>2, <3>1, <3>2, <3>3, <3>4, BeforeIs DEF x, y
  <2>10. CASE qa = qb /\ ra < rb
    <3> DEFINE k == 2 * i
    <3>1. k \in Nat /\ k >= 1 /\ k <= Len(x) /\ k <= Len(y) /\ k - 1 = 2 * i - 1
      BY <1>1, <1>2, <2>2
    <3>2. x[k] < y[k] /\ x[k] # y[k]
      BY <2>6, <2>8, <2>10
    <3> HIDE DEF k
    <3>3. k <= Len(x) + 1 /\ k <= Len(y) + 1
      BY <1>1, <1>2, <3>1
    <3>4. ASSUME NEW j \in 1..k - 1 PROVE x[j] = y[j]
      <4>1. j \in 1..2 * (i - 1) \/ j = 2 * i - 1
        BY <2>2, <3>1
      <4> QED BY <2>4, <2>8, <2>10, <4>1
    <3> QED BY <1>1, <1>2, <3>1, <3>2, <3>3, <3>4, BeforeIs DEF x, y
  <2> QED BY <2>7, <2>9, <2>10
<1> QED BY <1>5, <1>6 DEF O!Before

\* The order of octet strings is that of what hexlify prints.
LEMMA HexlifyOrders ==
  ASSUME NEW a \in O!OctetStrings, NEW b \in O!OctetStrings
  PROVE  /\ O!Compare(a, b) < 0 <=> O!Before(O!Hexlify(a), O!Hexlify(b))
         /\ O!Compare(a, b) > 0 <=> O!Before(O!Hexlify(b), O!Hexlify(a))
<1> DEFINE x == O!Hexlify(a)
           y == O!Hexlify(b)
<1>1. x \in Seq(Nat) /\ y \in Seq(Nat) /\ a \in Seq(Nat) /\ b \in Seq(Nat)
  BY HexlifyIs, StringsAreTexts
<1>2. (O!Before(a, b) => O!Before(x, y)) /\ (O!Before(b, a) => O!Before(y, x)) /\ (a = b => x = y)
  BY HexlifyKeepsOrder
<1> HIDE DEF x, y
<1>3. /\ O!Compare(a, b) < 0 <=> O!Before(a, b)
      /\ O!Compare(a, b) > 0 <=> O!Before(b, a)
      /\ O!Compare(a, b) = 0 <=> a = b
      /\ O!Compare(a, b) \in {-1, 0, 1}
  BY <1>1, CompareIs
<1>4. /\ O!Compare(x, y) < 0 <=> O!Before(x, y)
      /\ O!Compare(x, y) > 0 <=> O!Before(y, x)
      /\ O!Compare(x, y) = 0 <=> x = y
      /\ O!Compare(x, y) \in {-1, 0, 1}
  BY <1>1, CompareIs
<1> QED BY <1>2, <1>3, <1>4 DEF x, y
-----------------------------------------------------------------------------
(* Octets: exclusive or, bit by bit.                                       *)

\* The bits of a number: one more of them.
LEMMA OneMoreBit ==
  ASSUME NEW n \in Nat, NEW k \in Nat
  PROVE  /\ n % O!Power(2, k + 1) = (n % O!Power(2, k)) + O!Power(2, k) * O!Bit(n, k)
         /\ O!Bit(n, k) \in {0, 1} /\ n % O!Power(2, k) \in 0..O!Power(2, k) - 1 /\ O!Power(2, k) \in Nat \ {0}
<1> DEFINE p == O!Power(2, k)
           q == n \div p
           b == q % 2
           c == q \div 2
           r == n % p
<1>1. p \in Nat \ {0} /\ O!Power(2, k + 1) = 2 * p
  BY PowerIs, PowerPositive
<1> HIDE DEF p
<1>2. n = p * q + r /\ r \in 0..p - 1 /\ q \in Nat
  <2>1. n \in Int /\ n >= 0
    OBVIOUS
  <2> QED BY <1>1, <2>1, DivIs, Zenon
<1>3. O!Bit(n, k) = b
  BY DEF O!Bit, p
<1> HIDE DEF q, r
<1>4. q = 2 * c + b /\ b \in {0, 1} /\ c \in Int
  BY <1>2
<1> HIDE DEF b, c
<1>5. p * q = p * (2 * c) + p * b /\ p * (2 * c) = (2 * p) * c /\ p * b \in {0, p}
  BY <1>1, <1>2, <1>4
<1> DEFINE s == r + p * b
           d == 2 * p
<1>6. s \in 0..d - 1 /\ d \in Nat \ {0}
  BY <1>1, <1>2, <1>5
<1>7. n = d * c + s
  <2>1. (2 * p) * c \in Int
    BY <1>1, <1>4
  <2> QED BY <1>1, <1>2, <1>5, <2>1
<1> HIDE DEF s, d
<1>8. n % d = s
  BY <1>4, <1>6, <1>7, DivUnique
<1> QED BY <1>1, <1>2, <1>3, <1>4, <1>8 DEF s, d, r, p

\* Bit by bit.
LEMMA XorUp ==
  ASSUME NEW m \in Nat, NEW k \in Nat
  PROVE  \E up \in [0..OctetBits -> Nat] :
           O!XorOctet(m, k) = up[OctetBits] /\ up[0] = 0 /\ \A i \in 1..OctetBits : up[i] = up[i - 1] + O!Power(2, i - 1) * ((O!Bit(m, i - 1) + O!Bit(k, i - 1)) % 2)
<1> DEFINE n == OctetBits
           V == Nat
           Step(x, i) == x + O!Power(2, i - 1) * ((O!Bit(m, i - 1) + O!Bit(k, i - 1)) % 2)
           g == [i \in 1..n |-> [x \in V |-> Step(x, i)]]
           up == CHOOSE upTo : upTo = [i \in 0..n |-> IF i = 0 THEN 0 ELSE upTo[i - 1] + O!Power(2, i - 1) * ((O!Bit(m, i - 1) + O!Bit(k, i - 1)) % 2)]
<1>1. n \in Nat /\ 0 \in V
  BY WidthsAssumption
<1>2. \A i \in 1..n, x \in V : Step(x, i) \in V
  <2>1. ASSUME NEW i \in 1..OctetBits, NEW x \in Nat PROVE Step(x, i) \in Nat
    <3>1. i - 1 \in Nat
      OBVIOUS
    <3>2. O!Power(2, i - 1) \in Nat /\ O!Bit(m, i - 1) \in {0, 1} /\ O!Bit(k, i - 1) \in {0, 1}
      BY <3>1, OneMoreBit
    <3>3. (O!Bit(m, i - 1) + O!Bit(k, i - 1)) % 2 \in {0, 1}
      BY <3>2
    <3> QED BY <3>2, <3>3
  <2> QED BY <2>1
<1>3. O!XorOctet(m, k) = up[OctetBits]
  BY Zenon DEF O!XorOctet
<1> HIDE DEF n, V, Step
<1>4. g \in [1..n -> [V -> V]] /\ \A i \in 1..n, x \in V : g[i][x] = Step(x, i)
  BY <1>2
<1> HIDE DEF g
<1>5. PICK f : f \in Iterations(V, n, 0, g)
  BY <1>1, <1>4, Iterated, Zenon
<1>6. f = [i \in 0..n |-> IF i = 0 THEN 0 ELSE Step(f[i - 1], i)]
  <2>1. f \in [0..n -> V] /\ f[0] = 0 /\ \A i \in 1..n : f[i] = g[i][f[i - 1]]
    BY <1>5 DEF Iterations
  <2>2. \A i \in 1..n : f[i] = Step(f[i - 1], i)
    BY <1>1, <1>4, <2>1
  <2> QED BY <1>1, <2>1, <2>2
<1>7. up = [i \in 0..n |-> IF i = 0 THEN 0 ELSE Step(up[i - 1], i)]
  BY <1>6, Zenon DEF Step
<1> HIDE DEF up
<1>8. up[0] = 0 /\ \A i \in 1..n : up[i] = Step(up[i - 1], i)
  BY <1>1, <1>7
<1>9. \A i \in 0..n : up[i] \in V
  <2>1. up[0] \in V
    BY <1>1, <1>8
  <2>2. \A i \in 1..n : up[i - 1] \in V => up[i] \in V
    BY <1>2, <1>8
  <2> QED BY <1>1, <2>1, <2>2, Typed, Zenon
<1>10. up \in [0..n -> V]
  BY <1>7, <1>9
<1> QED BY <1>3, <1>8, <1>10, Zenon DEF n, V, Step

\* An exclusive or is that of every bit, and with one operand it tells what the
\* other one was.
LEMMA XorStep ==
  ASSUME NEW m \in Nat, NEW n \in Nat, NEW j \in Nat, NEW u \in Nat, u < O!Power(2, j)
  PROVE  /\ (O!Bit(m, j) + O!Bit(n, j)) % 2 \in {0, 1} /\ O!Bit(m, j) \in {0, 1} /\ O!Bit(n, j) \in {0, 1}
         /\ O!Power(2, j) \in Nat \ {0}
         /\ u + O!Power(2, j) * ((O!Bit(m, j) + O!Bit(n, j)) % 2) < O!Power(2, j + 1)
<1>1. O!Power(2, j) \in Nat \ {0} /\ O!Bit(m, j) \in {0, 1} /\ O!Bit(n, j) \in {0, 1}
  BY OneMoreBit
<1>2. O!Power(2, j + 1) = 2 * O!Power(2, j)
  BY PowerIs
<1> DEFINE x == (O!Bit(m, j) + O!Bit(n, j)) % 2
<1>3. x \in {0, 1}
  BY <1>1
<1> HIDE DEF x
<1>4. O!Power(2, j) * x \in {0, O!Power(2, j)}
  BY <1>1, <1>3
<1>5. u + O!Power(2, j) * x < O!Power(2, j + 1)
  BY <1>1, <1>2, <1>4
<1> QED BY <1>1, <1>3, <1>5 DEF x

\* Of k bits none is made that is beyond them.
LEMMA XorSmall ==
  ASSUME NEW m \in Nat, NEW n \in Nat, NEW up \in [0..OctetBits -> Nat], up[0] = 0,
         \A i \in 1..OctetBits : up[i] = up[i - 1] + O!Power(2, i - 1) * ((O!Bit(m, i - 1) + O!Bit(n, i - 1)) % 2)
  PROVE  \A i \in 0..OctetBits : up[i] < O!Power(2, i)
<1>0. OctetBits \in Nat
  BY WidthsAssumption
<1> DEFINE D == {i \in 0..OctetBits : up[i] < O!Power(2, i)}
<1>1. 0 \in D
  BY <1>0, PowerIs
<1>2. ASSUME NEW i \in 1..OctetBits, i - 1 \in D PROVE i \in D
  <2>1. i - 1 \in Nat /\ (i - 1) + 1 = i /\ up[i - 1] \in Nat
    BY <1>0
  <2>2. up[i - 1] < O!Power(2, i - 1)
    BY <1>2
  <2>3. up[i - 1] + O!Power(2, i - 1) * ((O!Bit(m, i - 1) + O!Bit(n, i - 1)) % 2) < O!Power(2, (i - 1) + 1)
    BY <2>1, <2>2, XorStep
  <2> QED BY <2>1, <2>3
<1> HIDE DEF D
<1>3. \A i \in 0..OctetBits : i \in D
  BY <1>0, <1>1, <1>2, UpTo
<1> QED BY <1>3 DEF D

\* The exclusive or of an octet with two is the same only if these are.
LEMMA XorTells ==
  ASSUME NEW m \in 0..O!Octet - 1, NEW n \in 0..O!Octet - 1, NEW k \in 0..O!Octet - 1
  PROVE  /\ O!XorOctet(m, n) \in 0..O!Octet - 1
         /\ O!XorOctet(m, n) = O!XorOctet(m, k) => n = k
<1>1. m \in Nat /\ n \in Nat /\ k \in Nat /\ OctetBits \in Nat
  BY OctetSizes, WidthsAssumption
<1>2. PICK up \in [0..OctetBits -> Nat] :
        /\ O!XorOctet(m, n) = up[OctetBits] /\ up[0] = 0
        /\ \A i \in 1..OctetBits : up[i] = up[i - 1] + O!Power(2, i - 1) * ((O!Bit(m, i - 1) + O!Bit(n, i - 1)) % 2)
  BY <1>1, XorUp
<1>3. PICK on \in [0..OctetBits -> Nat] :
        /\ O!XorOctet(m, k) = on[OctetBits] /\ on[0] = 0
        /\ \A i \in 1..OctetBits : on[i] = on[i - 1] + O!Power(2, i - 1) * ((O!Bit(m, i - 1) + O!Bit(k, i - 1)) % 2)
  BY <1>1, XorUp
<1>4. (\A i \in 0..OctetBits : up[i] < O!Power(2, i)) /\ \A i \in 0..OctetBits : on[i] < O!Power(2, i)
  BY <1>1, <1>2, <1>3, XorSmall
<1> DEFINE D == {i \in 0..OctetBits : up[i] = on[i] => n % O!Power(2, i) = k % O!Power(2, i)}
<1>5. 0 \in D
  <2>1. n % 1 = 0 /\ k % 1 = 0
    BY <1>1
  <2> QED BY <1>1, <2>1, PowerIs
<1>6. ASSUME NEW i \in 1..OctetBits, i - 1 \in D PROVE i \in D
  <2> DEFINE x == (O!Bit(m, i - 1) + O!Bit(n, i - 1)) % 2
             y == (O!Bit(m, i - 1) + O!Bit(k, i - 1)) % 2
             p == O!Power(2, i - 1)
  <2>1. i - 1 \in Nat /\ i - 1 \in 0..OctetBits /\ (i - 1) + 1 = i
    BY <1>1
  <2>2. up[i - 1] < p /\ on[i - 1] < p
    BY <1>4, <2>1
  <2>3. /\ up[i] = up[i - 1] + p * x /\ x \in {0, 1}
        /\ O!Bit(m, i - 1) \in {0, 1} /\ O!Bit(n, i - 1) \in {0, 1} /\ up[i - 1] \in Nat /\ p \in Nat \ {0}
    BY <1>1, <1>2, <2>1, <2>2, XorStep DEF x, p
  <2>4. /\ on[i] = on[i - 1] + p * y /\ y \in {0, 1} /\ O!Bit(k, i - 1) \in {0, 1} /\ on[i - 1] \in Nat
    BY <1>1, <1>3, <2>1, <2>2, XorStep DEF y, p
  <2>5. /\ n % O!Power(2, i) = (n % p) + p * O!Bit(n, i - 1)
        /\ k % O!Power(2, i) = (k % p) + p * O!Bit(k, i - 1)
    BY <1>1, <2>1, OneMoreBit
  <2>6. ASSUME x = y PROVE O!Bit(n, i - 1) = O!Bit(k, i - 1)
    BY <2>3, <2>4, <2>6
  <2> HIDE DEF x, y, p
  <2>7. ASSUME up[i] = on[i] PROVE x = y /\ up[i - 1] = on[i - 1]
    <3>1. p * x \in {0, p} /\ p * y \in {0, p} /\ (x = 1 => p * x = p) /\ (x = 0 => p * x = 0)
          /\ (y = 1 => p * y = p) /\ (y = 0 => p * y = 0)
      BY <2>3, <2>4
    <3> QED BY <2>2, <2>3, <2>4, <2>7, <3>1
  <2>8. ASSUME up[i] = on[i] PROVE n % O!Power(2, i) = k % O!Power(2, i)
    <3>1. n % p = k % p
      BY <1>6, <2>7, <2>8 DEF p
    <3>2. O!Bit(n, i - 1) = O!Bit(k, i - 1)
      BY <2>6, <2>7, <2>8
    <3> QED BY <2>5, <3>1, <3>2
  <2> QED BY <2>8
<1> HIDE DEF D
<1>7. \A i \in 0..OctetBits : i \in D
  BY <1>1, <1>5, <1>6, UpTo
<1>8. up[OctetBits] = on[OctetBits] => n % O!Octet = k % O!Octet
  <2>1. OctetBits \in D
    BY <1>1, <1>7
  <2> QED BY <2>1 DEF D, O!Octet
<1>9. n % O!Octet = n /\ k % O!Octet = k
  BY OctetSizes
<1>10. up[OctetBits] \in Nat /\ up[OctetBits] < O!Octet
  BY <1>1, <1>4 DEF O!Octet
<1> QED BY <1>2, <1>3, <1>8, <1>9, <1>10, OctetSizes

\* The order does not matter, and 0 comes only of two equal ones.
LEMMA XorIs ==
  ASSUME NEW m \in 0..O!Octet - 1, NEW n \in 0..O!Octet - 1
  PROVE  /\ O!XorOctet(m, n) = O!XorOctet(n, m)
         /\ O!XorOctet(m, n) = 0 <=> m = n
<1>1. m \in Nat /\ n \in Nat /\ OctetBits \in Nat
  BY OctetSizes, WidthsAssumption
<1>2. O!XorOctet(m, n) = O!XorOctet(n, m)
  <2>1. PICK up \in [0..OctetBits -> Nat] :
          /\ O!XorOctet(m, n) = up[OctetBits] /\ up[0] = 0
          /\ \A i \in 1..OctetBits : up[i] = up[i - 1] + O!Power(2, i - 1) * ((O!Bit(m, i - 1) + O!Bit(n, i - 1)) % 2)
    BY <1>1, XorUp
  <2>2. PICK on \in [0..OctetBits -> Nat] :
          /\ O!XorOctet(n, m) = on[OctetBits] /\ on[0] = 0
          /\ \A i \in 1..OctetBits : on[i] = on[i - 1] + O!Power(2, i - 1) * ((O!Bit(n, i - 1) + O!Bit(m, i - 1)) % 2)
    BY <1>1, XorUp
  <2> DEFINE D == {i \in 0..OctetBits : up[i] = on[i]}
  <2>3. 0 \in D
    BY <1>1, <2>1, <2>2
  <2>4. ASSUME NEW i \in 1..OctetBits, i - 1 \in D PROVE i \in D
    <3>1. i - 1 \in Nat
      OBVIOUS
    <3>2. O!Bit(m, i - 1) \in {0, 1} /\ O!Bit(n, i - 1) \in {0, 1}
      BY <1>1, <3>1, OneMoreBit
    <3>3. O!Bit(n, i - 1) + O!Bit(m, i - 1) = O!Bit(m, i - 1) + O!Bit(n, i - 1)
      BY <3>2
    <3> QED BY <2>1, <2>2, <2>4, <3>3
  <2> HIDE DEF D
  <2>5. OctetBits \in D
    <3>1. \A i \in 0..OctetBits : i \in D
      BY <1>1, <2>3, <2>4, UpTo
    <3> QED BY <1>1, <3>1
  <2> QED BY <2>1, <2>2, <2>5 DEF D
<1>3. O!XorOctet(m, m) = 0
  <2>1. PICK up \in [0..OctetBits -> Nat] :
          /\ O!XorOctet(m, m) = up[OctetBits] /\ up[0] = 0
          /\ \A i \in 1..OctetBits : up[i] = up[i - 1] + O!Power(2, i - 1) * ((O!Bit(m, i - 1) + O!Bit(m, i - 1)) % 2)
    BY <1>1, XorUp
  <2> DEFINE D == {i \in 0..OctetBits : up[i] = 0}
  <2>3. 0 \in D
    BY <1>1, <2>1
  <2>4. ASSUME NEW i \in 1..OctetBits, i - 1 \in D PROVE i \in D
    <3>1. i - 1 \in Nat
      OBVIOUS
    <3>2. O!Bit(m, i - 1) \in {0, 1} /\ O!Power(2, i - 1) \in Nat
      BY <1>1, <3>1, OneMoreBit
    <3>3. (O!Bit(m, i - 1) + O!Bit(m, i - 1)) % 2 = 0
      BY <3>2
    <3>4. up[i] = 0 + O!Power(2, i - 1) * 0
      BY <2>1, <2>4, <3>3
    <3> QED BY <3>2, <3>4
  <2> HIDE DEF D
  <2>5. OctetBits \in D
    <3>1. \A i \in 0..OctetBits : i \in D
      BY <1>1, <2>3, <2>4, UpTo
    <3> QED BY <1>1, <3>1
  <2> QED BY <2>1, <2>5 DEF D
<1>4. O!XorOctet(m, n) = O!XorOctet(m, m) => n = m
  BY XorTells
<1> QED BY <1>2, <1>3, <1>4

\* Octet strings between which nothing differs.
LEMMA XorIsZeros ==
  ASSUME NEW a \in O!OctetStrings, NEW b \in O!OctetStrings
  PROVE  a = b <=> O!Xor(a, b) = O!Returns(O!Zeros(Len(b)))
<1>1. /\ a \in Seq(Nat) /\ Len(a) \in Nat /\ \A i \in 1..Len(a) : a[i] \in 0..O!Octet - 1
      /\ b \in Seq(Nat) /\ Len(b) \in Nat /\ \A i \in 1..Len(b) : b[i] \in 0..O!Octet - 1
  BY StringsAreTexts
<1> DEFINE x == [i \in 1..Len(a) |-> O!XorOctet(a[i], b[i])]
           z == [i \in 1..Len(b) |-> 0]
<1>2. CASE Len(b) < Len(a)
  <2>1. O!Xor(a, b) = O!Throws
    BY <1>2 DEF O!Xor
  <2>2. a # b
    BY <1>1, <1>2
  <2> QED BY <2>1, <2>2, ReturnsIs
<1>3. CASE ~(Len(b) < Len(a))
  <2>1. O!Xor(a, b) = O!Returns(x) /\ O!Zeros(Len(b)) = z
    BY <1>3 DEF O!Xor, O!Zeros
  <2>2. O!Returns(x) = O!Returns(z) <=> x = z
    <3>1. O!Returns(x).returns = x /\ O!Returns(z).returns = z
      BY ReturnsIs
    <3> QED BY <3>1
  <2>3. ASSUME a = b PROVE x = z
    <3>1. \A i \in 1..Len(a) : O!XorOctet(a[i], b[i]) = 0
      BY <1>1, <2>3, XorIs
    <3> QED BY <2>3, <3>1
  <2>4. ASSUME x = z PROVE a = b
    <3>1. Len(x) = Len(a) /\ Len(z) = Len(b)
      BY <1>1
    <3>2. Len(a) = Len(b)
      BY <2>4, <3>1
    <3>3. ASSUME NEW i \in 1..Len(a) PROVE a[i] = b[i]
      <4>1. x[i] = O!XorOctet(a[i], b[i]) /\ z[i] = 0 /\ i \in 1..Len(b)
        BY <3>2
      <4> HIDE DEF x, z
      <4>2. O!XorOctet(a[i], b[i]) = 0
        BY <2>4, <4>1
      <4> QED BY <1>1, <4>1, <4>2, XorIs
    <3> QED BY <1>1, <3>2, <3>3, SameString
  <2> QED BY <2>1, <2>2, <2>3, <2>4
<1> QED BY <1>2, <1>3
-----------------------------------------------------------------------------
(* Octets: texts without regard to case.                                   *)

\* toUpper: each letter by itself.
LEMMA UpperIs ==
  ASSUME NEW s \in Seq(Nat)
  PROVE  /\ O!Upper(s) \in Seq(Nat) /\ Len(O!Upper(s)) = Len(s) /\ Len(s) \in Nat
         /\ \A i \in 1..Len(s) : O!Upper(s)[i] = O!ToUpper(s[i])
<1>1. Len(s) \in Nat /\ DOMAIN s = 1..Len(s) /\ \A i \in 1..Len(s) : s[i] \in Nat
  BY LenProperties
<1>2. \A i \in 1..Len(s) : O!ToUpper(s[i]) \in Nat
  <2>1. O!HexBase \in Nat
    BY OctetSizes
  <2> QED BY <1>1, <2>1 DEF O!ToUpper
<1> DEFINE u == [i \in 1..Len(s) |-> O!ToUpper(s[i])]
<1>3. O!Upper(s) = u
  BY <1>1 DEF O!Upper
<1>4. u \in Seq(Nat) /\ Len(u) = Len(s) /\ \A i \in 1..Len(s) : u[i] = O!ToUpper(s[i])
  BY <1>1, <1>2
<1> QED BY <1>1, <1>3, <1>4

\* Texts that ci_equals finds equal have the same capitals.
LEMMA CiEqualsIs ==
  ASSUME NEW a \in Seq(Nat), NEW b \in Seq(Nat)
  PROVE  O!CiEquals(a, b) <=> O!Upper(a) = O!Upper(b)
<1> DEFINE u == O!Upper(a)
           v == O!Upper(b)
<1>1. u \in Seq(Nat) /\ Len(u) = Len(a) /\ Len(a) \in Nat /\ \A i \in 1..Len(a) : u[i] = O!ToUpper(a[i])
  BY UpperIs
<1>2. v \in Seq(Nat) /\ Len(v) = Len(b) /\ Len(b) \in Nat /\ \A i \in 1..Len(b) : v[i] = O!ToUpper(b[i])
  BY UpperIs
<1>3. DOMAIN a = 1..Len(a)
  BY LenProperties
<1>4. O!CiEquals(a, b) <=> Len(a) = Len(b) /\ \A i \in 1..Len(a) : O!ToUpper(a[i]) = O!ToUpper(b[i])
  BY <1>3 DEF O!CiEquals
<1> HIDE DEF u, v
<1>5. ASSUME O!CiEquals(a, b) PROVE u = v
  <2>1. Len(u) = Len(v) /\ \A i \in 1..Len(u) : u[i] = v[i]
    BY <1>1, <1>2, <1>4, <1>5
  <2> QED BY <1>1, <1>2, <2>1, SameString
<1>6. ASSUME u = v PROVE O!CiEquals(a, b)
  BY <1>1, <1>2, <1>4, <1>6
<1> QED BY <1>5, <1>6 DEF u, v

\* stricmp orders the capitals, and 0 is what ciEquals is true of.
LEMMA StricmpIs ==
  ASSUME NEW a \in Seq(Nat), NEW b \in Seq(Nat)
  PROVE  /\ O!Stricmp(a, b) < 0 <=> O!Before(O!Upper(a), O!Upper(b))
         /\ O!Stricmp(a, b) > 0 <=> O!Before(O!Upper(b), O!Upper(a))
         /\ O!Stricmp(a, b) = 0 <=> O!CiEquals(a, b)
<1> DEFINE u == O!Upper(a)
           v == O!Upper(b)
           n == IF Len(u) < Len(v) THEN Len(u) ELSE Len(v)
           i == O!Mismatch(u, v)
<1>1. u \in Seq(Nat) /\ Len(u) = Len(a) /\ Len(a) \in Nat /\ \A j \in 1..Len(a) : u[j] = O!ToUpper(a[j])
  BY UpperIs
<1>2. v \in Seq(Nat) /\ Len(v) = Len(b) /\ Len(b) \in Nat /\ \A j \in 1..Len(b) : v[j] = O!ToUpper(b[j])
  BY UpperIs
<1>3. O!Stricmp(a, b) = IF i > Len(a) \/ i > Len(b) THEN Len(a) - Len(b)
                      ELSE IF O!ToUpper(a[i]) < O!ToUpper(b[i]) THEN -1 ELSE 1
  BY DEF O!Stricmp
<1>4. O!CiEquals(a, b) <=> u = v
  BY CiEqualsIs
<1> HIDE DEF u, v
<1>5. /\ i \in 1..n + 1 /\ (i = n + 1 \/ u[i] # v[i])
      /\ \A j \in 1..i - 1 : u[j] = v[j]
  BY <1>1, <1>2, MismatchIs
<1> HIDE DEF i
<1>6. /\ i \in Nat /\ i >= 1 /\ i <= Len(u) + 1 /\ i <= Len(v) + 1
      /\ (i <= Len(u) /\ i <= Len(v) => u[i] # v[i])
      /\ (i <= Len(u) => u[i] \in Nat) /\ (i <= Len(v) => v[i] \in Nat)
  <2>1. (\A j \in 1..Len(u) : u[j] \in Nat) /\ \A j \in 1..Len(v) : v[j] \in Nat
    BY <1>1, <1>2, LenProperties
  <2> QED BY <1>1, <1>2, <1>5, <2>1
<1>7. O!Before(u, v) <=> i <= Len(v) /\ (i > Len(u) \/ u[i] < v[i])
  BY <1>1, <1>2, <1>5, <1>6, BeforeIs
<1>8. O!Before(v, u) <=> i <= Len(u) /\ (i > Len(v) \/ v[i] < u[i])
  <2>1. (i <= Len(v) /\ i <= Len(u) => v[i] # u[i]) /\ \A j \in 1..i - 1 : v[j] = u[j]
    BY <1>5, <1>6
  <2> QED BY <1>1, <1>2, <1>6, <2>1, BeforeIs
<1>9. u = v <=> i > Len(u) /\ i > Len(v)
  <2>1. ASSUME i > Len(u), i > Len(v) PROVE u = v
    <3>1. Len(u) = Len(v) /\ \A j \in 1..Len(u) : u[j] = v[j]
      BY <1>1, <1>2, <1>5, <1>6, <2>1
    <3> QED BY <1>1, <1>2, <3>1, SameString
  <2>2. ASSUME u = v PROVE i > Len(u) /\ i > Len(v)
    BY <1>1, <1>2, <1>5, <1>6, <2>2
  <2> QED BY <2>1, <2>2
<1>10. i <= Len(a) => u[i] = O!ToUpper(a[i])
  BY <1>1, <1>6
<1>11. i <= Len(b) => v[i] = O!ToUpper(b[i])
  BY <1>2, <1>6
<1>12. /\ O!Stricmp(a, b) < 0 <=> O!Before(u, v)
       /\ O!Stricmp(a, b) > 0 <=> O!Before(v, u)
       /\ O!Stricmp(a, b) = 0 <=> u = v
  <2>1. CASE i > Len(a) \/ i > Len(b)
    <3>1. i > Len(a) => Len(b) >= Len(a)
      BY <1>1, <1>2, <1>5, <1>6
    <3>2. O!Stricmp(a, b) = Len(a) - Len(b)
      BY <1>3, <2>1
    <3> QED BY <1>1, <1>2, <1>5, <1>6, <1>7, <1>8, <1>9, <2>1, <3>2
  <2>2. CASE ~(i > Len(a) \/ i > Len(b))
    <3>1. O!Stricmp(a, b) = IF u[i] < v[i] THEN -1 ELSE 1
      <4>1. u[i] = O!ToUpper(a[i]) /\ v[i] = O!ToUpper(b[i])
        BY <1>1, <1>2, <1>6, <1>10, <1>11, <2>2
      <4>2. O!Stricmp(a, b) = IF O!ToUpper(a[i]) < O!ToUpper(b[i]) THEN -1 ELSE 1
        BY <1>3, <2>2
      <4>3. u[i] \in Nat /\ v[i] \in Nat
        BY <1>1, <1>2, <1>6, <2>2
      <4> QED BY <4>1, <4>2, <4>3
    <3>2. i <= Len(u) /\ i <= Len(v)
      BY <1>1, <1>2, <1>6, <2>2
    <3>3. u[i] \in Nat /\ v[i] \in Nat /\ u[i] # v[i]
      BY <1>6, <3>2
    <3>4. u # v /\ (O!Before(u, v) <=> u[i] < v[i]) /\ (O!Before(v, u) <=> v[i] < u[i])
      <4>1. ~(i > Len(u)) /\ ~(i > Len(v))
        BY <1>1, <1>2, <1>6, <3>2
      <4> QED BY <1>7, <1>8, <1>9, <3>2, <4>1
    <3> QED BY <3>1, <3>3, <3>4
  <2> QED BY <2>1, <2>2
<1> QED BY <1>4, <1>12 DEF u, v
-----------------------------------------------------------------------------
(* Octets: octets as a number.                                             *)

\* To divide twice is to divide by the product.
LEMMA DivDiv ==
  ASSUME NEW x \in Nat, NEW a \in Nat \ {0}, NEW b \in Nat \ {0}
  PROVE  (x \div a) \div b = x \div (a * b) /\ a * b \in Nat \ {0}
<1> DEFINE q == x \div a
           r == x % a
           c == q \div b
           d == q % b
<1>1. x = a * q + r /\ r \in 0..a - 1 /\ q \in Int /\ (x >= 0 => q \in Nat)
  <2>1. x \in Int
    OBVIOUS
  <2> QED BY <2>1, DivIs, Zenon
<1> HIDE DEF q, r
<1>2. q = b * c + d /\ d \in 0..b - 1 /\ c \in Int
  BY <1>1, DivIs, Zenon
<1> HIDE DEF c, d
<1>3. a * q = a * (b * c) + a * d /\ a * (b * c) = (a * b) * c
  BY <1>1, <1>2
<1>4. a * d \in Nat /\ a * d <= a * (b - 1) /\ a * (b - 1) = a * b - a /\ a * b \in Nat \ {0}
  <2>1. d \in Nat /\ (b - 1) - d \in Nat
    BY <1>2
  <2>2. a * ((b - 1) - d) \in Nat
    BY <2>1
  <2>3. a * ((b - 1) - d) = a * (b - 1) - a * d
    BY <2>1
  <2>4. a * d \in Nat /\ a * (b - 1) \in Int
    BY <2>1
  <2>5. a * b \in Nat \ {0} /\ a * (b - 1) = a * b - a
    OBVIOUS
  <2> QED BY <2>2, <2>3, <2>4, <2>5
<1> DEFINE s == a * d + r
           m == a * b
<1>5. m \in Nat \ {0} /\ s \in 0..m - 1 /\ x = m * c + s
  <2>1. m * c \in Int
    BY <1>2, <1>4
  <2> QED BY <1>1, <1>2, <1>3, <1>4, <2>1
<1> HIDE DEF s, m
<1>6. x \div m = c
  BY <1>2, <1>5, DivUnique
<1> QED BY <1>4, <1>6 DEF c, m, q

\* Digit by digit a number.
LEMMA NumberInUp ==
  ASSUME NEW base \in Nat, NEW bytes \in Seq(Nat)
  PROVE  \E up \in [0..Len(bytes) -> Nat] :
           O!NumberIn(base, bytes) = up[Len(bytes)] /\ up[0] = 0 /\ \A i \in 1..Len(bytes) : up[i] = up[i - 1] * base + bytes[i]
<1> DEFINE n == Len(bytes)
           V == Nat
           Step(x, i) == x * base + bytes[i]
           g == [i \in 1..n |-> [x \in V |-> Step(x, i)]]
           up == CHOOSE upTo : upTo = [i \in 0..n |-> IF i = 0 THEN 0 ELSE upTo[i - 1] * base + bytes[i]]
<1>1. n \in Nat /\ 0 \in V
  BY LenProperties
<1>2. \A i \in 1..n, x \in V : Step(x, i) \in V
  <2>1. ASSUME NEW i \in 1..Len(bytes), NEW x \in Nat PROVE Step(x, i) \in Nat
    <3>1. bytes[i] \in Nat
      BY LenProperties
    <3>2. x * base \in Nat
      OBVIOUS
    <3> QED BY <3>1, <3>2
  <2> QED BY <2>1
<1>3. O!NumberIn(base, bytes) = up[Len(bytes)]
  BY Zenon DEF O!NumberIn
<1> HIDE DEF n, V, Step
<1>4. g \in [1..n -> [V -> V]] /\ \A i \in 1..n, x \in V : g[i][x] = Step(x, i)
  BY <1>2
<1> HIDE DEF g
<1>5. PICK f : f \in Iterations(V, n, 0, g)
  BY <1>1, <1>4, Iterated, Zenon
<1>6. f = [i \in 0..n |-> IF i = 0 THEN 0 ELSE Step(f[i - 1], i)]
  <2>1. f \in [0..n -> V] /\ f[0] = 0 /\ \A i \in 1..n : f[i] = g[i][f[i - 1]]
    BY <1>5 DEF Iterations
  <2>2. \A i \in 1..n : f[i] = Step(f[i - 1], i)
    BY <1>1, <1>4, <2>1
  <2> QED BY <1>1, <2>1, <2>2
<1>7. up = [i \in 0..n |-> IF i = 0 THEN 0 ELSE Step(up[i - 1], i)]
  BY <1>6, Zenon DEF Step
<1> HIDE DEF up
<1>8. up[0] = 0 /\ \A i \in 1..n : up[i] = Step(up[i - 1], i)
  BY <1>1, <1>7
<1>9. \A i \in 0..n : up[i] \in V
  <2>1. up[0] \in V
    BY <1>1, <1>8
  <2>2. \A i \in 1..n : up[i - 1] \in V => up[i] \in V
    BY <1>2, <1>8
  <2> QED BY <1>1, <2>1, <2>2, Typed, Zenon
<1>10. up \in [0..n -> V]
  BY <1>7, <1>9
<1> QED BY <1>3, <1>8, <1>10, Zenon DEF n, V, Step

\* Octets as a number, one after the other.
LEMMA NumberUp ==
  ASSUME NEW bytes \in Seq(Nat)
  PROVE  \E up \in [0..Len(bytes) -> Nat] :
           O!NumberOf(bytes) = up[Len(bytes)] /\ up[0] = 0 /\ \A i \in 1..Len(bytes) : up[i] = up[i - 1] * O!Octet + bytes[i]
<1>1. O!Octet \in Nat
  BY OctetSizes
<1> QED BY <1>1, NumberInUp, Zenon DEF O!NumberOf

\* There is one way to read digits as a number.
LEMMA NumberInIs ==
  ASSUME NEW base \in Nat, NEW s \in Seq(Nat), NEW f, f[0] = 0, \A i \in 1..Len(s) : f[i] = f[i - 1] * base + s[i]
  PROVE  O!NumberIn(base, s) = f[Len(s)] /\ O!NumberIn(base, s) \in Nat
<1>1. PICK up \in [0..Len(s) -> Nat] :
        O!NumberIn(base, s) = up[Len(s)] /\ up[0] = 0 /\ \A i \in 1..Len(s) : up[i] = up[i - 1] * base + s[i]
  BY NumberInUp
<1>2. Len(s) \in Nat
  BY LenProperties
<1> DEFINE D == {i \in 0..Len(s) : up[i] = f[i]}
<1>3. 0 \in D /\ \A i \in 1..Len(s) : i - 1 \in D => i \in D
  BY <1>1, <1>2
<1> HIDE DEF D
<1>4. Len(s) \in D
  <2>1. \A i \in 0..Len(s) : i \in D
    BY <1>2, <1>3, UpTo
  <2> QED BY <1>2, <2>1
<1> QED BY <1>1, <1>2, <1>4 DEF D

\* The same of octets.
LEMMA NumberIs ==
  ASSUME NEW s \in Seq(Nat), NEW f, f[0] = 0, \A i \in 1..Len(s) : f[i] = f[i - 1] * O!Octet + s[i]
  PROVE  O!NumberOf(s) = f[Len(s)] /\ O!NumberOf(s) \in Nat
BY NumberInIs, OctetSizes DEF O!NumberOf

\* The powers that octets have in a number.
LEMMA OctetIs == O!Octet \in Nat \ {0} /\ \A k \in Nat : O!Power(O!Octet, k) \in Nat \ {0} /\ O!Power(O!Octet, k + 1) = O!Octet * O!Power(O!Octet, k)
<1>1. O!Octet \in Nat \ {0} /\ O!Octet \in Nat
  BY OctetSizes
<1> QED BY <1>1, PowerIs, PowerPositive

\* The octets of a number give the number.
LEMMA UintIs ==
  ASSUME NEW n \in Nat, NEW size \in Nat, n < O!Power(O!Octet, size)
  PROVE  Len(O!FromUint(n, size)) = size /\ O!NumberOf(O!FromUint(n, size)) = n
<1> DEFINE At(k) == n \div O!Power(O!Octet, k)
           w == [i \in 1..size |-> At(i - 1) % O!Octet]
           s == [i \in 1..size |-> At(size - i) % O!Octet]
           f == [i \in 0..size |-> At(size - i)]
<1>1. ASSUME NEW k \in Nat PROVE At(k) \in Nat /\ At(k) % O!Octet \in Nat
  <2>1. O!Power(O!Octet, k) \in Nat \ {0} /\ O!Octet \in Nat \ {0}
    BY OctetIs
  <2>2. At(k) \in Nat
    BY <2>1
  <2> HIDE DEF At
  <2> QED BY <2>1, <2>2
<1>2. ASSUME NEW k \in Nat PROVE At(k) = At(k + 1) * O!Octet + (At(k) % O!Octet)
  <2>1. O!Power(O!Octet, k) \in Nat \ {0} /\ O!Octet \in Nat \ {0} /\ O!Power(O!Octet, k + 1) = O!Octet * O!Power(O!Octet, k)
    BY OctetIs
  <2>2. At(k) \div O!Octet = n \div (O!Power(O!Octet, k) * O!Octet)
    BY <2>1, DivDiv
  <2>3. O!Power(O!Octet, k) * O!Octet = O!Octet * O!Power(O!Octet, k)
    BY <2>1
  <2>4. At(k) \div O!Octet = At(k + 1)
    BY <2>1, <2>2, <2>3
  <2>5. At(k) \in Int /\ At(k + 1) \in Nat
    BY <1>1
  <2> HIDE DEF At
  <2>6. At(k) = O!Octet * (At(k) \div O!Octet) + (At(k) % O!Octet) /\ At(k) % O!Octet \in 0..O!Octet - 1
    BY <2>1, <2>5, DivIs, Zenon
  <2>7. O!Octet * At(k + 1) = At(k + 1) * O!Octet
    BY <2>1, <2>5
  <2> QED BY <2>4, <2>6, <2>7
<1>3. At(size) = 0
  <2>1. O!Power(O!Octet, size) \in Nat \ {0}
    BY OctetIs
  <2> QED BY <2>1
<1>4. At(0) = n
  <2>1. O!Power(O!Octet, 0) = 1
    BY PowerIs, OctetSizes
  <2> QED BY <2>1
<1> HIDE DEF At
<1>5. w \in Seq(Nat) /\ Len(w) = size
  BY <1>1
<1>6. O!FromUint(n, size) = s
  <2>1. O!FromUint(n, size) = O!Reverse(w)
    BY DEF O!FromUint, At
  <2>2. \A i \in 1..size : (size - i) + 1 \in 1..size /\ ((size - i) + 1) - 1 = size - i
    OBVIOUS
  <2>3. O!Reverse(w) = [i \in 1..size |-> w[(size - i) + 1]]
    BY <1>5 DEF O!Reverse
  <2> QED BY <2>1, <2>2, <2>3
<1>7. s \in Seq(Nat) /\ Len(s) = size
  <2>1. \A i \in 1..size : At(size - i) % O!Octet \in Nat
    BY <1>1
  <2> QED BY <2>1
<1>8. f[0] = 0 /\ f[size] = n
  BY <1>3, <1>4
<1>9. ASSUME NEW i \in 1..size PROVE f[i] = f[i - 1] * O!Octet + s[i]
  <2>1. size - i \in Nat /\ (size - i) + 1 = size - (i - 1) /\ i \in 0..size /\ i - 1 \in 0..size
    OBVIOUS
  <2>2. f[i] = At(size - i) /\ f[i - 1] = At(size - (i - 1)) /\ s[i] = At(size - i) % O!Octet
    BY <2>1
  <2> HIDE DEF f, s
  <2>3. At(size - i) = At((size - i) + 1) * O!Octet + (At(size - i) % O!Octet)
    BY <1>2, <2>1, Zenon
  <2> QED BY <2>1, <2>2, <2>3
<1> HIDE DEF f, s
<1>10. O!NumberOf(s) = f[size]
  BY <1>7, <1>8, <1>9, NumberIs
<1> QED BY <1>6, <1>7, <1>8, <1>10

\* Of octet strings of one length the lesser one is the lesser number.
LEMMA NumbersKeepOrder ==
  ASSUME NEW a \in O!OctetStrings, NEW b \in O!OctetStrings, Len(a) = Len(b), O!Before(a, b)
  PROVE  O!NumberOf(a) < O!NumberOf(b)
<1> DEFINE n == Len(a)
<1>1. /\ a \in Seq(Nat) /\ n \in Nat /\ \A i \in 1..n : a[i] \in 0..O!Octet - 1
      /\ b \in Seq(Nat) /\ n = Len(b) /\ \A i \in 1..n : b[i] \in 0..O!Octet - 1
      /\ DOMAIN a = 1..n /\ DOMAIN b = 1..n /\ O!Octet \in Nat
  BY StringsAreTexts, LenProperties, OctetSizes
<1>2. PICK i \in 1..n : a[i] < b[i] /\ SubSeq(a, 1, i - 1) = SubSeq(b, 1, i - 1)
  <2>1. ~(Len(a) < Len(b))
    BY <1>1
  <2>2. PICK i \in DOMAIN a \cap DOMAIN b : a[i] < b[i] /\ SubSeq(a, 1, i - 1) = SubSeq(b, 1, i - 1)
    BY <2>1, Zenon DEF O!Before
  <2>3. i \in 1..n
    <3>1. DOMAIN a = 1..n
      BY <1>1
    <3> HIDE DEF n
    <3> QED BY <2>2, <3>1, Zenon
  <2> QED BY <2>2, <2>3
<1>3. \A j \in 1..i - 1 : a[j] = b[j]
  <2>1. i - 1 \in Nat /\ i - 1 <= Len(a) /\ i - 1 <= Len(b)
    BY <1>1
  <2> QED BY <1>1, <1>2, <2>1, SameStart
<1>4. PICK f \in [0..n -> Nat] :
        O!NumberOf(a) = f[n] /\ f[0] = 0 /\ \A j \in 1..n : f[j] = f[j - 1] * O!Octet + a[j]
  BY <1>1, NumberUp
<1>5. PICK g \in [0..n -> Nat] :
        O!NumberOf(b) = g[n] /\ g[0] = 0 /\ \A j \in 1..n : g[j] = g[j - 1] * O!Octet + b[j]
  BY <1>1, NumberUp
<1> HIDE DEF n
<1> DEFINE D == {j \in 0..n : (j < i => f[j] = g[j]) /\ (j >= i => f[j] + 1 <= g[j])}
<1>6. 0 \in D
  BY <1>1, <1>4, <1>5
<1>7. ASSUME NEW j \in 1..n, j - 1 \in D PROVE j \in D
  <2>1. /\ f[j] = f[j - 1] * O!Octet + a[j] /\ g[j] = g[j - 1] * O!Octet + b[j]
        /\ f[j - 1] \in Nat /\ g[j - 1] \in Nat /\ a[j] \in 0..O!Octet - 1 /\ b[j] \in 0..O!Octet - 1
    <3>1. j - 1 \in 0..n
      BY <1>1
    <3>2. f[j - 1] \in Nat /\ g[j - 1] \in Nat
      BY <1>4, <1>5, <3>1
    <3>3. a[j] \in 0..O!Octet - 1 /\ b[j] \in 0..O!Octet - 1
      BY <1>1
    <3> QED BY <1>4, <1>5, <3>2, <3>3
  <2>2. f[j - 1] * O!Octet \in Nat /\ g[j - 1] * O!Octet \in Nat
    BY <2>1, OctetSizes
  <2>3. CASE j < i
    <3>1. j - 1 < i /\ j \in 1..i - 1
      BY <2>3
    <3> QED BY <1>3, <1>7, <2>1, <2>3, <3>1
  <2>4. CASE j = i
    <3>1. f[j - 1] = g[j - 1]
      BY <1>7, <2>4
    <3> QED BY <1>2, <1>1, <2>1, <2>2, <2>4, <3>1
  <2>5. CASE j > i
    <3>1. f[j - 1] + 1 <= g[j - 1]
      BY <1>7, <2>5
    <3>2. (g[j - 1] - (f[j - 1] + 1)) * O!Octet \in Nat
      <4> DEFINE d == g[j - 1] - (f[j - 1] + 1)
      <4>1. d \in Nat
        BY <2>1, <3>1
      <4> HIDE DEF d
      <4>2. d * O!Octet \in Nat
        BY <4>1, OctetSizes
      <4> QED BY <4>2 DEF d
    <3>3. (g[j - 1] - (f[j - 1] + 1)) * O!Octet = g[j - 1] * O!Octet - (f[j - 1] * O!Octet + O!Octet)
      <4>1. \A x, y, o \in Nat : (x - (y + 1)) * o = x * o - (y * o + o)
        OBVIOUS
      <4> QED BY <2>1, <4>1, OctetSizes, Zenon
    <3>4. g[j - 1] * O!Octet - (f[j - 1] * O!Octet + O!Octet) \in Nat
      BY <3>2, <3>3
    <3> DEFINE u == f[j - 1] * O!Octet
               v == g[j - 1] * O!Octet
    <3>5. u \in Nat /\ v \in Nat /\ v - (u + O!Octet) \in Nat /\ f[j] = u + a[j] /\ g[j] = v + b[j]
      BY <2>1, <2>2, <3>4
    <3> HIDE DEF u, v
    <3>6. f[j] + 1 <= g[j]
      <4>1. O!Octet \in Nat /\ a[j] \in Nat /\ b[j] \in Nat /\ a[j] < O!Octet
        BY <2>1, OctetSizes
      <4> QED BY <3>5, <4>1
    <3> QED BY <2>5, <3>6
  <2> QED BY <2>3, <2>4, <2>5
<1> HIDE DEF D
<1>8. n \in D
  <2>1. \A j \in 0..n : j \in D
    BY <1>1, <1>6, <1>7, UpTo
  <2> QED BY <1>1, <2>1
<1>9. f[n] \in Nat /\ g[n] \in Nat /\ n >= i
  <2>1. n \in 0..n /\ n >= i
    BY <1>1
  <2>2. f[n] \in Nat
    BY <2>1, <1>4, Zenon
  <2>3. g[n] \in Nat
    BY <2>1, <1>5, Zenon
  <2> QED BY <2>1, <2>2, <2>3
<1> QED BY <1>4, <1>5, <1>8, <1>9 DEF D

\* Of one length, octet strings are in the order of their numbers.
LEMMA NumbersCompare ==
  ASSUME NEW a \in O!OctetStrings, NEW b \in O!OctetStrings, Len(a) = Len(b)
  PROVE  O!Compare(a, b) < 0 <=> O!NumberOf(a) < O!NumberOf(b)
<1>1. a \in Seq(Nat) /\ b \in Seq(Nat)
  BY StringsAreTexts
<1>2. /\ O!Compare(a, b) < 0 <=> O!Before(a, b)
      /\ O!Compare(a, b) > 0 <=> O!Before(b, a)
      /\ O!Compare(a, b) = 0 <=> a = b
      /\ O!Compare(a, b) \in {-1, 0, 1}
  BY <1>1, CompareIs
<1>3. O!Before(a, b) => O!NumberOf(a) < O!NumberOf(b)
  BY NumbersKeepOrder
<1>4. O!Before(b, a) => O!NumberOf(b) < O!NumberOf(a)
  BY NumbersKeepOrder
<1>5. O!NumberOf(a) \in Nat /\ O!NumberOf(b) \in Nat
  <2>1. \E up \in [0..Len(a) -> Nat] : O!NumberOf(a) = up[Len(a)]
    BY <1>1, NumberUp
  <2>2. \E up \in [0..Len(b) -> Nat] : O!NumberOf(b) = up[Len(b)]
    BY <1>1, NumberUp
  <2> QED BY <1>1, <2>1, <2>2, LenProperties
<1> QED BY <1>2, <1>3, <1>4, <1>5
-----------------------------------------------------------------------------
(* Octets: the hash.                                                       *)

\* What an odd number makes a multiple of a power of two is one.
LEMMA OddFactor ==
  ASSUME NEW p \in Nat, p % 2 = 1, NEW n \in Nat
  PROVE  \A d, c \in Int : d * p = O!Power(2, n) * c => \E e \in Int : d = O!Power(2, n) * e
<1> DEFINE D == {i \in 0..n : \A d, c \in Int : d * p = O!Power(2, i) * c => \E e \in Int : d = O!Power(2, i) * e}
<1>1. 0 \in D
  <2>1. O!Power(2, 0) = 1
    BY PowerIs
  <2>2. \A d \in Int : d = 1 * d
    OBVIOUS
  <2> QED BY <2>1, <2>2
<1>2. ASSUME NEW i \in 1..n, i - 1 \in D PROVE i \in D
  <2>1. O!Power(2, i) = 2 * O!Power(2, i - 1) /\ O!Power(2, i - 1) \in Nat
    <3>1. i - 1 \in Nat /\ (i - 1) + 1 = i
      OBVIOUS
    <3> QED BY <3>1, PowerIs
  <2> DEFINE m == O!Power(2, i - 1)
  <2>2. \A d, c \in Int : d * p = m * c => \E e \in Int : d = m * e
    BY <1>2
  <2>3. m \in Nat /\ O!Power(2, i) = 2 * m
    BY <2>1
  <2> HIDE DEF m
  <2>4. ASSUME NEW d \in Int, NEW c \in Int, d * p = (2 * m) * c PROVE \E e \in Int : d = (2 * m) * e
    <3> DEFINE h == p \div 2
               mc == m * c
               dh == d * h
    <3>1. h \in Int /\ p = 2 * h + 1
      OBVIOUS
    <3>2. mc \in Int /\ (2 * m) * c = 2 * mc
      BY <2>3
    <3>3. dh \in Int /\ d * p = 2 * dh + d
      <4> HIDE DEF h
      <4>1. d * (2 * h + 1) = 2 * (d * h) + d /\ d * h \in Int
        BY <3>1
      <4> QED BY <3>1, <4>1
    <3> DEFINE half == mc - dh
    <3>4. d = 2 * half /\ half \in Int
      <4> HIDE DEF mc, dh
      <4> QED BY <2>4, <3>2, <3>3
    <3>5. half * p = m * c
      <4> HIDE DEF half
      <4>1. (2 * half) * p = 2 * (half * p) /\ half * p \in Int
        BY <3>4
      <4>2. 2 * (half * p) = 2 * mc
        BY <2>4, <3>2, <3>4, <4>1
      <4>3. half * p = mc
        BY <3>2, <4>1, <4>2
      <4> QED BY <4>3
    <3> HIDE DEF half, mc, dh, h
    <3>6. PICK e \in Int : half = m * e
      BY <2>2, <3>4, <3>5
    <3>7. d = (2 * m) * e
      <4>1. 2 * (m * e) = (2 * m) * e
        BY <2>3
      <4> QED BY <3>4, <3>6, <4>1
    <3> QED BY <3>7
  <2>5. \A d, c \in Int : d * p = O!Power(2, i) * c => \E e \in Int : d = O!Power(2, i) * e
    BY <2>3, <2>4, Zenon
  <2> QED BY <2>5
<1> HIDE DEF D
<1>3. \A i \in 0..n : i \in D
  BY <1>1, <1>2, UpTo
<1> QED BY <1>3 DEF D

\* Numbers of the machine that an odd number is multiplied by stay different.
LEMMA OddTimes ==
  ASSUME NEW x \in 0..O!UInt - 1, NEW y \in 0..O!UInt - 1, (x * HashPrime) % O!UInt = (y * HashPrime) % O!UInt
  PROVE  x = y
<1>1. HashPrime \in Nat /\ HashPrime % 2 = 1 /\ WordBits \in Nat /\ O!UInt \in Nat \ {0} /\ x \in Nat /\ y \in Nat
  BY WidthsAssumption, OctetSizes
<1> DEFINE u == x * HashPrime
           v == y * HashPrime
           a == u \div O!UInt
           b == v \div O!UInt
           r == u % O!UInt
<1>2. u \in Int /\ v \in Int
  BY <1>1
<1>3. u = O!UInt * a + r /\ v = O!UInt * b + r /\ a \in Int /\ b \in Int /\ r \in Int
  <2> HIDE DEF u, v
  <2>1. u = O!UInt * (u \div O!UInt) + (u % O!UInt) /\ u % O!UInt \in 0..O!UInt - 1 /\ u \div O!UInt \in Int
    BY <1>1, <1>2, DivIs, Zenon
  <2>2. v = O!UInt * (v \div O!UInt) + (v % O!UInt) /\ v \div O!UInt \in Int
    BY <1>1, <1>2, DivIs, Zenon
  <2>3. r = v % O!UInt
    BY DEF u, v
  <2> QED BY <1>1, <2>1, <2>2, <2>3
<1> DEFINE d == x - y
           c == a - b
<1>4. d * HashPrime = O!UInt * c
  <2>1. d * HashPrime = u - v
    BY <1>1
  <2> HIDE DEF a, b, u, v, r
  <2>2. O!UInt * c = O!UInt * a - O!UInt * b /\ O!UInt * a \in Int /\ O!UInt * b \in Int
    BY <1>1, <1>3
  <2> HIDE DEF d, c
  <2> QED BY <1>3, <2>1, <2>2
<1>5. d \in Int /\ c \in Int
  BY <1>1, <1>3
<1> HIDE DEF d, c
<1>6. PICK e \in Int : d = O!UInt * e
  <2>1. \A i, j \in Int : i * HashPrime = O!Power(2, WordBits) * j => \E e \in Int : i = O!Power(2, WordBits) * e
    BY <1>1, OddFactor
  <2> QED BY <1>4, <1>5, <2>1 DEF O!UInt
<1>7. e = 0
  <2>1. d < O!UInt /\ d > -O!UInt
    BY <1>1 DEF d
  <2>2. e >= 1 => O!UInt * e >= O!UInt
    BY <1>1
  <2>3. e <= -1 => O!UInt * e <= -O!UInt
    BY <1>1
  <2> QED BY <1>1, <1>5, <1>6, <2>1, <2>2, <2>3
<1>8. d = 0
  BY <1>1, <1>6, <1>7
<1> QED BY <1>1, <1>8 DEF d

\* A round of the hash tells octets, and what was there before, apart.
LEMMA HashOctetIs ==
  ASSUME NEW h \in 0..O!UInt - 1, NEW byte \in 0..O!Octet - 1
  PROVE  LET mixed == h - (h % O!Octet) + O!XorOctet(h % O!Octet, byte)
         IN  /\ O!HashOctet(h, byte) = (mixed * HashPrime) % O!UInt /\ O!HashOctet(h, byte) \in 0..O!UInt - 1
             /\ mixed \in 0..O!UInt - 1
             /\ mixed = O!Octet * (h \div O!Octet) + O!XorOctet(h % O!Octet, byte)
             /\ h = O!Octet * (h \div O!Octet) + (h % O!Octet) /\ h \div O!Octet \in Int
             /\ h % O!Octet \in 0..O!Octet - 1 /\ O!XorOctet(h % O!Octet, byte) \in 0..O!Octet - 1
<1> DEFINE l == h % O!Octet
           q == h \div O!Octet
           x == O!XorOctet(l, byte)
           mixed == h - l + x
           rest == O!Power(2, WordBits - OctetBits)
<1>1. O!Octet \in Nat \ {0} /\ O!UInt \in Nat \ {0} /\ HashPrime \in Nat /\ h \in Nat
  BY OctetIs, OctetSizes, WidthsAssumption
<1>2. O!UInt = O!Octet * rest /\ rest \in Nat \ {0}
  <2>1. WordBits - OctetBits \in Nat /\ OctetBits \in Nat /\ OctetBits + (WordBits - OctetBits) = WordBits
    BY WidthsAssumption
  <2>2. O!Power(2, OctetBits + (WordBits - OctetBits)) = O!Power(2, OctetBits) * rest
    BY <2>1, PowerAdds
  <2>3. rest \in Nat \ {0}
    BY <2>1, PowerPositive
  <2> QED BY <2>1, <2>2, <2>3 DEF O!UInt, O!Octet
<1> HIDE DEF rest
<1>3. h = O!Octet * q + l /\ l \in 0..O!Octet - 1 /\ q \in Int /\ (h >= 0 => q \in Nat)
  <2>1. h \in Int
    BY <1>1
  <2> QED BY <1>1, <2>1, DivIs, Zenon
<1> HIDE DEF l, q
<1>4. x \in 0..O!Octet - 1
  BY <1>3, XorTells
<1> HIDE DEF x
<1>5. q <= rest - 1
  <2>1. q >= rest => O!Octet * q >= O!Octet * rest
    <3>1. ASSUME q >= rest PROVE O!Octet * q >= O!Octet * rest
      <4>1. q - rest \in Nat
        BY <1>2, <1>3, <3>1
      <4>2. O!Octet * (q - rest) \in Nat /\ O!Octet * (q - rest) = O!Octet * q - O!Octet * rest
        BY <1>1, <1>2, <1>3, <4>1
      <4>3. O!Octet * q \in Int /\ O!Octet * rest \in Int
        BY <1>1, <1>2, <1>3
      <4> QED BY <4>2, <4>3
    <3> QED BY <3>1
  <2>2. O!Octet * q \in Int /\ O!Octet * rest \in Int
    BY <1>1, <1>2, <1>3
  <2> QED BY <1>1, <1>2, <1>3, <2>1, <2>2
<1>6. mixed = O!Octet * q + x
  <2>1. O!Octet * q \in Int
    BY <1>1, <1>3
  <2> QED BY <1>1, <1>3, <1>4, <2>1
<1>7. mixed \in 0..O!UInt - 1
  <2>1. O!Octet * ((rest - 1) - q) \in Nat
    <3>1. (rest - 1) - q \in Nat
      BY <1>2, <1>3, <1>5
    <3> QED BY <1>1, <3>1
  <2>2. O!Octet * ((rest - 1) - q) = (O!Octet * rest - O!Octet) - O!Octet * q
    BY <1>1, <1>2, <1>3
  <2>3. O!Octet * q \in Nat /\ O!Octet * rest \in Nat
    BY <1>1, <1>2, <1>3
  <2> HIDE DEF mixed
  <2> QED BY <1>1, <1>2, <1>4, <1>6, <2>1, <2>2, <2>3
<1>8. O!HashOctet(h, byte) = (mixed * HashPrime) % O!UInt
  BY DEF O!HashOctet, l, x
<1> HIDE DEF mixed
<1>9. O!HashOctet(h, byte) \in 0..O!UInt - 1
  <2> DEFINE z == mixed * HashPrime
  <2>1. z \in Int
    BY <1>1, <1>7
  <2> HIDE DEF z
  <2>2. z % O!UInt \in 0..O!UInt - 1
    BY <1>1, <2>1, DivIs, Zenon
  <2> QED BY <1>8, <2>2 DEF z
<1> QED BY <1>3, <1>4, <1>6, <1>7, <1>8, <1>9 DEF l, q, x, mixed

\* A round of the hash makes two of two states, and of two octets.
LEMMA HashOctetTells ==
  ASSUME NEW h \in 0..O!UInt - 1, NEW k \in 0..O!UInt - 1, NEW m \in 0..O!Octet - 1, NEW n \in 0..O!Octet - 1,
         O!HashOctet(h, m) = O!HashOctet(k, n)
  PROVE  (h = k => m = n) /\ (m = n => h = k)
<1> DEFINE hl == h % O!Octet
           hq == h \div O!Octet
           hx == O!XorOctet(hl, m)
           hm == h - hl + hx
           kl == k % O!Octet
           kq == k \div O!Octet
           kx == O!XorOctet(kl, n)
           km == k - kl + kx
<1>0. O!Octet \in Nat \ {0}
  BY OctetIs
<1>1. /\ O!HashOctet(h, m) = (hm * HashPrime) % O!UInt /\ hm \in 0..O!UInt - 1 /\ hm = O!Octet * hq + hx
      /\ h = O!Octet * hq + hl /\ hq \in Int /\ hl \in 0..O!Octet - 1 /\ hx \in 0..O!Octet - 1
  BY HashOctetIs, Zenon
<1>2. /\ O!HashOctet(k, n) = (km * HashPrime) % O!UInt /\ km \in 0..O!UInt - 1 /\ km = O!Octet * kq + kx
      /\ k = O!Octet * kq + kl /\ kq \in Int /\ kl \in 0..O!Octet - 1 /\ kx \in 0..O!Octet - 1
  BY HashOctetIs, Zenon
<1>3. hm = km
  <2> HIDE DEF hm, km
  <2> QED BY <1>1, <1>2, OddTimes
<1>4. hq = kq /\ hx = kx
  <2> HIDE DEF hl, hq, hx, kl, kq, kx, hm, km
  <2>1. hm \in Int
    BY <1>1
  <2>2. hm \div O!Octet = hq /\ hm % O!Octet = hx
    <3>1. hm = O!Octet * hq + hx /\ hq \in Int /\ hx \in 0..O!Octet - 1
      BY <1>1
    <3> QED BY <1>0, <2>1, <3>1, DivUnique
  <2>3. km \div O!Octet = kq /\ km % O!Octet = kx
    <3>1. km = O!Octet * kq + kx /\ kq \in Int /\ kx \in 0..O!Octet - 1 /\ km \in Int
      BY <1>2, <1>3, <2>1
    <3> QED BY <1>0, <3>1, DivUnique
  <2> QED BY <1>3, <2>2, <2>3
<1>5. ASSUME h = k PROVE m = n
  <2>1. O!XorOctet(hl, m) = O!XorOctet(hl, n)
    BY <1>4, <1>5
  <2> HIDE DEF hl
  <2> QED BY <1>1, <2>1, XorTells
<1>6. ASSUME m = n PROVE h = k
  <2>1. O!XorOctet(hl, m) = O!XorOctet(kl, m)
    BY <1>4, <1>6
  <2> HIDE DEF hl, kl, hq, kq
  <2>2. O!XorOctet(m, hl) = O!XorOctet(m, kl)
    BY <1>1, <1>2, <2>1, XorIs
  <2>3. hl = kl
    BY <1>1, <1>2, <2>2, XorTells
  <2> QED BY <1>1, <1>2, <1>4, <2>3
<1> QED BY <1>5, <1>6

\* Octet by octet a hash.
LEMMA HashUp ==
  ASSUME NEW bytes \in O!OctetStrings
  PROVE  \E up \in [0..Len(bytes) -> 0..O!UInt - 1] :
           O!Hash(bytes) = up[Len(bytes)] /\ up[0] = O!HashStart /\ \A i \in 1..Len(bytes) : up[i] = O!HashOctet(up[i - 1], bytes[i])
<1> DEFINE n == Len(bytes)
           V == 0..O!UInt - 1
           Step(x, i) == O!HashOctet(x, bytes[i])
           g == [i \in 1..n |-> [x \in V |-> Step(x, i)]]
           up == CHOOSE upTo : upTo = [i \in 0..n |-> IF i = 0 THEN O!HashStart ELSE O!HashOctet(upTo[i - 1], bytes[i])]
<1>1. n \in Nat /\ O!HashStart \in V
  <2>1. Len(bytes) \in Nat
    BY StringsAreTexts
  <2>2. O!UInt \in Nat \ {0}
    BY OctetSizes
  <2>3. O!HashStart \in 0..O!UInt - 1
    BY <2>2 DEF O!HashStart
  <2> QED BY <2>1, <2>3
<1>2. \A i \in 1..n, x \in V : Step(x, i) \in V
  <2>1. ASSUME NEW i \in 1..Len(bytes), NEW x \in 0..O!UInt - 1 PROVE Step(x, i) \in 0..O!UInt - 1
    <3>1. bytes[i] \in 0..O!Octet - 1
      BY StringsAreTexts
    <3>2. O!HashOctet(x, bytes[i]) \in 0..O!UInt - 1
      BY <3>1, HashOctetIs, Zenon
    <3> QED BY <3>2
  <2> QED BY <2>1
<1>3. O!Hash(bytes) = up[Len(bytes)]
  BY Zenon DEF O!Hash
<1> HIDE DEF n, V, Step
<1>4. g \in [1..n -> [V -> V]] /\ \A i \in 1..n, x \in V : g[i][x] = Step(x, i)
  BY <1>2
<1> HIDE DEF g
<1>5. PICK f : f \in Iterations(V, n, O!HashStart, g)
  BY <1>1, <1>4, Iterated, Zenon
<1>6. f = [i \in 0..n |-> IF i = 0 THEN O!HashStart ELSE Step(f[i - 1], i)]
  <2>1. f \in [0..n -> V] /\ f[0] = O!HashStart /\ \A i \in 1..n : f[i] = g[i][f[i - 1]]
    BY <1>5 DEF Iterations
  <2>2. \A i \in 1..n : f[i] = Step(f[i - 1], i)
    BY <1>1, <1>4, <2>1
  <2> QED BY <1>1, <2>1, <2>2
<1>7. up = [i \in 0..n |-> IF i = 0 THEN O!HashStart ELSE Step(up[i - 1], i)]
  BY <1>6, Zenon DEF Step
<1> HIDE DEF up
<1>8. up[0] = O!HashStart /\ \A i \in 1..n : up[i] = Step(up[i - 1], i)
  BY <1>1, <1>7
<1>9. \A i \in 0..n : up[i] \in V
  <2>1. up[0] \in V
    BY <1>1, <1>8
  <2>2. \A i \in 1..n : up[i - 1] \in V => up[i] \in V
    BY <1>2, <1>8
  <2> QED BY <1>1, <2>1, <2>2, Typed, Zenon
<1>10. up \in [0..n -> V]
  BY <1>7, <1>9
<1> QED BY <1>3, <1>8, <1>10, Zenon DEF n, V, Step

\* Another octet is another hash.
LEMMA HashTells ==
  ASSUME NEW s \in O!OctetStrings, NEW i \in DOMAIN s, NEW octet \in (0..O!Octet - 1) \ {s[i]}
  PROVE  O!Hash([s EXCEPT ![i] = octet]) # O!Hash(s)
<1> DEFINE t == [s EXCEPT ![i] = octet]
           n == Len(s)
<1>1. n \in Nat /\ DOMAIN s = 1..n /\ \A j \in 1..n : s[j] \in 0..O!Octet - 1
  BY StringsAreTexts, LenProperties
<1>2. t \in O!OctetStrings /\ Len(t) = n /\ t[i] = octet /\ \A j \in 1..n : t[j] \in 0..O!Octet - 1 /\ (j # i => t[j] = s[j])
  <2>1. s \in Seq(0..O!Octet - 1)
    BY DEF O!OctetStrings
  <2>2. t \in Seq(0..O!Octet - 1) /\ Len(t) = Len(s) /\ \A j \in 1..Len(s) : t[j] = IF j = i THEN octet ELSE s[j]
    <3>1. i \in 1..Len(s) /\ octet \in 0..O!Octet - 1
      BY <1>1
    <3> QED BY <2>1, <3>1, ExceptSeq
  <2> HIDE DEF t
  <2> QED BY <1>1, <2>2 DEF O!OctetStrings
<1> HIDE DEF t
<1>3. PICK f \in [0..n -> 0..O!UInt - 1] :
        O!Hash(s) = f[n] /\ f[0] = O!HashStart /\ \A j \in 1..n : f[j] = O!HashOctet(f[j - 1], s[j])
  BY HashUp
<1>4. PICK g \in [0..n -> 0..O!UInt - 1] :
        O!Hash(t) = g[n] /\ g[0] = O!HashStart /\ \A j \in 1..n : g[j] = O!HashOctet(g[j - 1], t[j])
  <2>1. \E g \in [0..Len(t) -> 0..O!UInt - 1] :
          O!Hash(t) = g[Len(t)] /\ g[0] = O!HashStart /\ \A j \in 1..Len(t) : g[j] = O!HashOctet(g[j - 1], t[j])
    BY <1>2, HashUp
  <2> HIDE DEF n
  <2> QED BY <1>2, <2>1
<1> HIDE DEF n
<1> DEFINE D == {j \in 0..n : f[j] = g[j] <=> j < i}
<1>5. 0 \in D
  BY <1>1, <1>3, <1>4
<1>6. ASSUME NEW j \in 1..n, j - 1 \in D PROVE j \in D
  <2>0. f[j - 1] = g[j - 1] <=> j - 1 < i
    BY <1>6
  <2>1. /\ f[j] = O!HashOctet(f[j - 1], s[j]) /\ g[j] = O!HashOctet(g[j - 1], t[j])
        /\ f[j - 1] \in 0..O!UInt - 1 /\ g[j - 1] \in 0..O!UInt - 1
        /\ s[j] \in 0..O!Octet - 1 /\ t[j] \in 0..O!Octet - 1 /\ j \in 0..n
    <3>1. j - 1 \in 0..n /\ j \in 0..n
      BY <1>1
    <3> QED BY <1>1, <1>2, <1>3, <1>4, <3>1
  <2>2. CASE j < i
    <3>1. f[j - 1] = g[j - 1] /\ s[j] = t[j]
      BY <1>1, <1>2, <2>0, <2>2
    <3> QED BY <2>1, <2>2, <3>1
  <2>3. CASE j = i
    <3>1. f[j - 1] = g[j - 1] /\ s[j] # t[j]
      BY <1>1, <1>2, <2>0, <2>3
    <3>2. f[j] # g[j]
      BY <2>1, <3>1, HashOctetTells
    <3> QED BY <2>1, <2>3, <3>2
  <2>4. CASE j > i
    <3>1. f[j - 1] # g[j - 1] /\ s[j] = t[j]
      BY <1>1, <1>2, <2>0, <2>4
    <3>2. f[j] # g[j]
      BY <2>1, <3>1, HashOctetTells
    <3> QED BY <1>1, <2>1, <2>4, <3>2
  <2>5. j < i \/ j = i \/ j > i
    BY <1>1
  <2> QED BY <2>2, <2>3, <2>4, <2>5
<1> HIDE DEF D
<1>7. n \in D
  <2>1. \A j \in 0..n : j \in D
    BY <1>1, <1>5, <1>6, UpTo
  <2> QED BY <1>1, <2>1
<1>8. f[n] # g[n]
  <2>1. ~(n < i)
    BY <1>1
  <2> QED BY <1>7, <2>1 DEF D
<1> QED BY <1>3, <1>4, <1>8 DEF t
-----------------------------------------------------------------------------
(* Octets: shifts, of the octets as one number.                            *)

\* A factor of both numbers leaves the quotient as it is.
LEMMA TimesDiv ==
  ASSUME NEW x \in Nat, NEW p \in Nat \ {0}, NEW r \in Nat \ {0}
  PROVE  /\ (x * p) % (p * r) = p * (x % r) /\ (x * p) \div (p * r) = x \div r
         /\ x % r \in 0..r - 1 /\ x \div r \in Nat /\ x = r * (x \div r) + (x % r)
         /\ x < p * r => x \div r \in 0..p - 1
<1> DEFINE q == x \div r
           l == x % r
           m == p * r
           y == x * p
           d == p * l
<1>1. x = r * q + l /\ l \in 0..r - 1 /\ q \in Int /\ (x >= 0 => q \in Nat)
  <2>1. x \in Int
    OBVIOUS
  <2> QED BY <2>1, DivIs, Zenon
<1> HIDE DEF q, l
<1>2. m \in Nat \ {0} /\ y \in Nat
  OBVIOUS
<1>3. y = m * q + d
  <2>1. (r * q + l) * p = (p * r) * q + p * l
    BY <1>1
  <2> QED BY <1>1, <2>1
<1>4. d \in 0..m - 1
  <2>1. p * ((r - 1) - l) \in Nat
    <3>1. (r - 1) - l \in Nat
      BY <1>1
    <3> QED BY <3>1
  <2>2. p * ((r - 1) - l) = (p * r - p) - p * l
    BY <1>1
  <2>3. p * l \in Nat
    <3>1. l \in Nat
      BY <1>1
    <3> QED BY <3>1
  <2>4. m - p - d \in Nat
    BY <2>1, <2>2
  <2> HIDE DEF m, d
  <2> QED BY <1>2, <2>3, <2>4 DEF d
<1>5. x < m => q <= p - 1
  <2>1. ASSUME q >= p PROVE r * q >= p * r
    <3>1. r * (q - p) \in Nat
      <4>1. q - p \in Nat
        BY <1>1, <2>1
      <4> QED BY <4>1
    <3>2. r * (q - p) = r * q - p * r /\ r * q \in Int /\ p * r \in Int
      BY <1>1
    <3> QED BY <3>1, <3>2
  <2>2. r * q \in Int
    BY <1>1
  <2> QED BY <1>1, <2>1, <2>2
<1> HIDE DEF m, y, d
<1>6. y \div m = q /\ y % m = d
  BY <1>1, <1>2, <1>3, <1>4, DivUnique
<1> QED BY <1>1, <1>5, <1>6 DEF q, l, m, y, d

\* A number of so many octets.
LEMMA NumberInBound ==
  ASSUME NEW base \in Nat \ {0}, NEW s \in Seq(0..base - 1)
  PROVE  O!NumberIn(base, s) \in Nat /\ O!NumberIn(base, s) < O!Power(base, Len(s)) /\ s \in Seq(Nat)
<1> DEFINE n == Len(s)
<1>1. s \in Seq(Nat) /\ n \in Nat /\ \A i \in 1..n : s[i] \in 0..base - 1
  <2>1. 0..base - 1 \subseteq Nat
    OBVIOUS
  <2>2. s \in Seq(Nat)
    BY <2>1, SeqMonotonic
  <2> QED BY <2>2, LenProperties
<1>2. PICK f \in [0..n -> Nat] : O!NumberIn(base, s) = f[n] /\ f[0] = 0 /\ \A i \in 1..n : f[i] = f[i - 1] * base + s[i]
  BY <1>1, NumberInUp
<1> HIDE DEF n
<1> DEFINE D == {i \in 0..n : f[i] < O!Power(base, i)}
<1>3. 0 \in D
  <2>1. O!Power(base, 0) = 1
    BY PowerIs
  <2> QED BY <1>1, <1>2, <2>1
<1>4. ASSUME NEW i \in 1..n, i - 1 \in D PROVE i \in D
  <2> DEFINE p == O!Power(base, i - 1)
             x == f[i - 1]
  <2>1. p \in Nat \ {0} /\ O!Power(base, i) = base * p /\ base \in Nat \ {0}
    <3>1. i - 1 \in Nat /\ (i - 1) + 1 = i
      OBVIOUS
    <3> QED BY <3>1, PowerIs, PowerPositive
  <2>2. x \in Nat /\ x < p /\ f[i] = x * base + s[i] /\ s[i] \in 0..base - 1
    <3>1. i - 1 \in 0..n
      BY <1>1
    <3> QED BY <1>1, <1>2, <1>4, <3>1
  <2> HIDE DEF p, x
  <2>3. base * ((p - 1) - x) \in Nat
    <3>1. (p - 1) - x \in Nat
      BY <2>1, <2>2
    <3> QED BY <2>1, <3>1
  <2>4. base * ((p - 1) - x) = (base * p - base) - x * base /\ base * p \in Nat /\ x * base \in Nat
    BY <2>1, <2>2
  <2>5. f[i] < O!Power(base, i)
    <3> DEFINE u == base * p
               v == x * base
    <3>1. u - base - v \in Nat /\ u \in Nat /\ v \in Nat
      BY <2>1, <2>3, <2>4
    <3>2. f[i] = v + s[i] /\ O!Power(base, i) = u
      BY <2>1, <2>2
    <3> HIDE DEF u, v
    <3> QED BY <2>1, <2>2, <3>1, <3>2
  <2> QED BY <2>5
<1> HIDE DEF D
<1>5. n \in D
  <2>1. \A i \in 0..n : i \in D
    BY <1>1, <1>3, <1>4, UpTo
  <2> QED BY <1>1, <2>1
<1>6. f[n] \in Nat
  BY <1>1, <1>2
<1> QED BY <1>1, <1>2, <1>5, <1>6 DEF D, n

\* A number of n octets is below the n-th power.
LEMMA NumberBound ==
  ASSUME NEW s \in O!OctetStrings
  PROVE  O!NumberOf(s) \in Nat /\ O!NumberOf(s) < O!Power(O!Octet, Len(s))
<1>1. O!Octet \in Nat \ {0} /\ s \in Seq(0..O!Octet - 1)
  BY OctetIs DEF O!OctetStrings
<1> QED BY <1>1, NumberInBound DEF O!NumberOf

\* Digits behind others.
LEMMA NumberInTwo ==
  ASSUME NEW base \in Nat, NEW s \in Seq(Nat), NEW t \in Seq(Nat)
  PROVE  O!NumberIn(base, s \o t) = O!NumberIn(base, s) * O!Power(base, Len(t)) + O!NumberIn(base, t)
<1> DEFINE m == Len(s)
           n == Len(t)
           w == s \o t
<1>1. w \in Seq(Nat) /\ Len(w) = m + n /\ m \in Nat /\ n \in Nat
      /\ (\A i \in 1..m : w[i] = s[i]) /\ \A i \in 1..n : w[m + i] = t[i]
  BY TwoParts
<1>2. PICK f \in [0..m -> Nat] : O!NumberIn(base, s) = f[m] /\ f[0] = 0 /\ \A i \in 1..m : f[i] = f[i - 1] * base + s[i]
  BY NumberInUp
<1>3. PICK g \in [0..n -> Nat] : O!NumberIn(base, t) = g[n] /\ g[0] = 0 /\ \A i \in 1..n : g[i] = g[i - 1] * base + t[i]
  BY NumberInUp
<1> HIDE DEF m, n, w
<1> DEFINE h == [i \in 0..m + n |-> IF i <= m THEN f[i] ELSE f[m] * O!Power(base, i - m) + g[i - m]]
<1>4. f[m] \in Nat /\ base \in Nat
  BY <1>1, <1>2
<1>5. \A i \in 0..n : h[m + i] = f[m] * O!Power(base, i) + g[i]
  <2>1. O!Power(base, 0) = 1
    BY PowerIs
  <2>2. h[m + 0] = f[m] * O!Power(base, 0) + g[0]
    BY <1>1, <1>3, <1>4, <2>1
  <2>3. ASSUME NEW i \in 1..n PROVE h[m + i] = f[m] * O!Power(base, i) + g[i]
    <3>1. m + i \in 0..m + n /\ ~(m + i <= m) /\ (m + i) - m = i
      BY <1>1
    <3> QED BY <3>1
  <2> HIDE DEF h
  <2>4. \A i \in 0..n : i = 0 \/ i \in 1..n
    BY <1>1
  <2> QED BY <2>2, <2>3, <2>4, Zenon
<1>6. ASSUME NEW i \in 1..m + n PROVE h[i] = h[i - 1] * base + w[i]
  <2>1. CASE i <= m
    <3>1. i \in 1..m /\ i - 1 \in 0..m /\ i - 1 <= m /\ i - 1 \in 0..m + n
      BY <1>1, <2>1
    <3> QED BY <1>1, <1>2, <2>1, <3>1
  <2>2. CASE ~(i <= m)
    <3> DEFINE j == i - m
               p == O!Power(base, j - 1)
               a == f[m]
               b == g[j - 1]
    <3>1. j \in 1..n /\ i = m + j /\ i - 1 = m + (j - 1) /\ j - 1 \in 0..n /\ j - 1 \in Nat /\ (j - 1) + 1 = j
      BY <1>1, <2>2
    <3> HIDE DEF j
    <3>2. h[i] = a * O!Power(base, j) + g[j] /\ h[i - 1] = a * p + b
      <4>1. j \in 0..n
        BY <3>1
      <4> HIDE DEF h
      <4> QED BY <1>5, <3>1, <4>1
    <3> HIDE DEF h
    <3>3. O!Power(base, j) = base * p /\ p \in Nat
      BY <3>1, PowerIs
    <3>4. g[j] = b * base + t[j] /\ w[i] = t[j] /\ b \in Nat /\ t[j] \in Nat
      <4>1. t[j] \in Nat
        BY <3>1, LenProperties DEF n
      <4> QED BY <1>1, <1>3, <3>1, <4>1
    <3> HIDE DEF a, b, p
    <3>5. a \in Nat
      BY <1>4 DEF a
    <3>6. (a * p + b) * base = a * (base * p) + b * base /\ a * (base * p) \in Nat /\ b * base \in Nat
      BY <1>4, <3>3, <3>4, <3>5
    <3> QED BY <3>2, <3>3, <3>4, <3>6
  <2> QED BY <2>1, <2>2
<1>7. h[0] = 0 /\ h[m + n] = f[m] * O!Power(base, n) + g[n]
  <2>1. h[0] = 0
    BY <1>1, <1>2
  <2> HIDE DEF h
  <2>2. n \in 0..n
    BY <1>1
  <2> QED BY <1>5, <2>1, <2>2
<1> HIDE DEF h
<1>8. O!NumberIn(base, w) = h[Len(w)]
  <2>1. \A i \in 1..Len(w) : h[i] = h[i - 1] * base + w[i]
    BY <1>1, <1>6
  <2>2. w \in Seq(Nat) /\ h[0] = 0
    BY <1>1, <1>7
  <2> QED BY <2>1, <2>2, NumberInIs
<1> QED BY <1>1, <1>2, <1>3, <1>7, <1>8 DEF w, m, n

\* The number of a string that is made of two.
LEMMA NumberOfTwo ==
  ASSUME NEW s \in Seq(Nat), NEW t \in Seq(Nat)
  PROVE  O!NumberOf(s \o t) = O!NumberOf(s) * O!Power(O!Octet, Len(t)) + O!NumberOf(t)
<1>1. O!Octet \in Nat
  BY OctetSizes
<1> QED BY <1>1, NumberInTwo DEF O!NumberOf

\* Zeros are the number 0.
LEMMA NumberOfZeros ==
  ASSUME NEW n \in Nat
  PROVE  O!NumberOf(O!Zeros(n)) = 0 /\ O!Zeros(n) \in Seq(Nat) /\ Len(O!Zeros(n)) = n
<1> DEFINE z == [i \in 1..n |-> 0]
           f == [i \in 0..n |-> 0]
<1>1. z \in Seq(Nat) /\ Len(z) = n /\ O!Zeros(n) = z
  BY DEF O!Zeros
<1>2. f[0] = 0 /\ f[n] = 0 /\ \A i \in 1..n : f[i] = f[i - 1] * O!Octet + z[i]
  BY OctetSizes
<1> HIDE DEF z, f
<1>3. O!NumberOf(z) = f[n]
  BY <1>1, <1>2, NumberIs
<1> QED BY <1>1, <1>2, <1>3

\* What a shift to the left by fewer bits than an octet has makes of octets; the
\* bits that go beyond the first octet are lost.
LEMMA MovedLeft ==
  ASSUME NEW s \in O!OctetStrings, NEW p \in Nat \ {0}, NEW r \in Nat \ {0}, p * r = O!Octet
  PROVE  LET w == [i \in 1..Len(s) |-> ((s[i] * p) % O!Octet) + (IF i < Len(s) THEN s[i + 1] \div r ELSE 0)]
         IN  /\ w \in O!OctetStrings /\ Len(w) = Len(s)
             /\ \E k \in Nat : O!NumberOf(s) * p = k * O!Power(O!Octet, Len(s)) + O!NumberOf(w)
<1> DEFINE n == Len(s)
           c == [i \in 0..n |-> IF i < n THEN s[i + 1] \div r ELSE 0]
           w == [i \in 1..n |-> ((s[i] * p) % O!Octet) + (IF i < n THEN s[i + 1] \div r ELSE 0)]
<1>1. s \in Seq(Nat) /\ n \in Nat /\ \A i \in 1..n : s[i] \in 0..O!Octet - 1
  BY StringsAreTexts
<1>2. O!Octet \in Nat \ {0}
  BY OctetIs
<1>3. ASSUME NEW i \in 1..n
      PROVE  /\ (s[i] * p) % O!Octet = p * (s[i] % r) /\ s[i] \div r \in 0..p - 1
             /\ s[i] % r \in 0..r - 1 /\ s[i] = r * (s[i] \div r) + (s[i] % r)
  <2>1. s[i] \in Nat /\ s[i] < p * r
    BY <1>1, <1>2
  <2> QED BY <2>1, TimesDiv
<1>4. \A i \in 0..n : c[i] \in 0..p - 1
  BY <1>1, <1>3
<1>5. \A i \in 1..n : w[i] = p * (s[i] % r) + c[i]
  <2>1. ASSUME NEW i \in 1..n PROVE w[i] = p * (s[i] % r) + c[i]
    <3>1. i \in 0..n
      BY <1>1
    <3>2. w[i] = ((s[i] * p) % O!Octet) + c[i]
      BY <3>1
    <3> QED BY <1>3, <3>2
  <2> QED BY <2>1
<1>6. \A i \in 1..n : c[i - 1] = s[i] \div r
  BY <1>1
<1>7. n = Len(w)
  BY <1>1
<1>8. w = [i \in 1..n |-> w[i]]
  OBVIOUS
<1> HIDE DEF c, w, n
<1>9. ASSUME NEW i \in 1..n PROVE w[i] \in 0..O!Octet - 1
  <2> DEFINE x == s[i] % r
  <2>1. x \in 0..r - 1 /\ c[i] \in 0..p - 1 /\ w[i] = p * x + c[i]
    BY <1>1, <1>3, <1>4, <1>5
  <2> HIDE DEF x
  <2>2. p * ((r - 1) - x) \in Nat
    <3>1. (r - 1) - x \in Nat
      BY <2>1
    <3> QED BY <3>1
  <2>3. p * ((r - 1) - x) = (p * r - p) - p * x
    BY <2>1
  <2>4. p * x \in Nat
    <3>1. x \in Nat
      BY <2>1
    <3> QED BY <3>1
  <2>5. (O!Octet - p) - p * x \in Nat
    BY <2>2, <2>3
  <2> QED BY <1>2, <2>1, <2>4, <2>5
<1>10. w \in O!OctetStrings
  <2>1. w \in [1..n -> 0..O!Octet - 1]
    BY <1>8, <1>9
  <2>2. w \in Seq(0..O!Octet - 1)
    BY <1>1, <2>1, SeqDef
  <2> QED BY <2>2 DEF O!OctetStrings
<1>11. w \in Seq(Nat)
  BY <1>10, StringsAreTexts
<1>12. PICK f \in [0..n -> Nat] : O!NumberOf(s) = f[n] /\ f[0] = 0 /\ \A i \in 1..n : f[i] = f[i - 1] * O!Octet + s[i]
  BY <1>1, NumberUp DEF n
<1>13. PICK g \in [0..n -> Nat] : O!NumberOf(w) = g[n] /\ g[0] = 0 /\ \A i \in 1..n : g[i] = g[i - 1] * O!Octet + w[i]
  <2>1. \E g \in [0..Len(w) -> Nat] : O!NumberOf(w) = g[Len(w)] /\ g[0] = 0 /\ \A i \in 1..Len(w) : g[i] = g[i - 1] * O!Octet + w[i]
    BY <1>11, NumberUp
  <2> QED BY <1>7, <2>1
<1> DEFINE k == c[0]
           D == {i \in 0..n : f[i] * p + c[i] = k * O!Power(O!Octet, i) + g[i]}
<1>14. k \in Nat
  BY <1>1, <1>4
<1>15. 0 \in D
  <2>1. O!Power(O!Octet, 0) = 1
    BY PowerIs, OctetSizes
  <2> QED BY <1>1, <1>12, <1>13, <1>14, <2>1
<1>16. ASSUME NEW i \in 1..n, i - 1 \in D PROVE i \in D
  <2> DEFINE o == O!Power(O!Octet, i - 1)
             x == f[i - 1]
             y == g[i - 1]
             h == s[i] \div r
             l == s[i] % r
  <2>1. i - 1 \in 0..n /\ i - 1 \in Nat /\ (i - 1) + 1 = i /\ i \in 0..n
    BY <1>1
  <2>2. o \in Nat /\ O!Power(O!Octet, i) = O!Octet * o
    BY <2>1, OctetIs
  <2>3. x \in Nat /\ y \in Nat /\ f[i] = x * O!Octet + s[i] /\ g[i] = y * O!Octet + w[i]
    BY <1>12, <1>13, <2>1
  <2>4. x * p + h = k * o + y
    BY <1>6, <1>16
  <2>5. h \in Nat /\ l \in Nat /\ s[i] = r * h + l /\ w[i] = p * l + c[i] /\ c[i] \in Nat
    BY <1>3, <1>4, <1>5, <2>1
  <2> HIDE DEF o, x, y, h, l, k
  <2>6. f[i] * p = (x * p) * O!Octet + (O!Octet * h + p * l)
    <3>1. (x * O!Octet + (r * h + l)) * p = (x * p) * O!Octet + ((p * r) * h + p * l)
      BY <1>2, <2>3, <2>5
    <3> QED BY <2>3, <2>5, <3>1
  <2>7. (x * p + h) * O!Octet = (x * p) * O!Octet + O!Octet * h
    <3>1. x * p \in Nat
      BY <2>3
    <3> QED BY <1>2, <2>5, <3>1
  <2>8. (k * o + y) * O!Octet = k * (O!Octet * o) + y * O!Octet
    BY <1>2, <1>14, <2>2, <2>3
  <2>9. /\ (x * p) * O!Octet \in Nat /\ O!Octet * h \in Nat /\ p * l \in Nat
        /\ k * (O!Octet * o) \in Nat /\ y * O!Octet \in Nat
    <3>1. x * p \in Nat /\ O!Octet * o \in Nat
      BY <1>2, <2>2, <2>3
    <3> QED BY <1>2, <1>14, <2>3, <2>5, <3>1
  <2> DEFINE a == (x * p) * O!Octet
             b == O!Octet * h
             d == p * l
             e == k * (O!Octet * o)
             z == y * O!Octet
  <2>10. /\ a \in Nat /\ b \in Nat /\ d \in Nat /\ e \in Nat /\ z \in Nat
         /\ f[i] * p = a + (b + d) /\ a + b = e + z /\ g[i] = z + (d + c[i])
         /\ k * O!Power(O!Octet, i) = e
    BY <2>2, <2>3, <2>4, <2>5, <2>6, <2>7, <2>8, <2>9
  <2> HIDE DEF a, b, d, e, z
  <2>11. f[i] * p + c[i] = k * O!Power(O!Octet, i) + g[i]
    <3>1. (a + (b + d)) + c[i] = e + (z + (d + c[i]))
      <4> DEFINE final == c[i]
      <4>1. a \in Nat /\ b \in Nat /\ d \in Nat /\ e \in Nat /\ z \in Nat /\ final \in Nat /\ a + b = e + z
        BY <2>5, <2>10
      <4> HIDE DEF final
      <4>2. (a + (b + d)) + final = e + (z + (d + final))
        BY <4>1
      <4> QED BY <4>2 DEF final
    <3> QED BY <2>10, <3>1
  <2> QED BY <2>1, <2>11 DEF k
<1> HIDE DEF D
<1>17. n \in D
  <2>1. \A i \in 0..n : i \in D
    BY <1>1, <1>15, <1>16, UpTo
  <2> QED BY <1>1, <2>1
<1>18. c[n] = 0
  BY <1>1 DEF c
<1>19. f[n] * p \in Nat
  BY <1>1, <1>12
<1>20. O!NumberOf(s) * p = k * O!Power(O!Octet, n) + O!NumberOf(w)
  BY <1>12, <1>13, <1>17, <1>18, <1>19 DEF D
<1> QED BY <1>7, <1>10, <1>14, <1>20 DEF w, n

\* What a shift to the right by fewer bits than an octet has makes of octets.
LEMMA MovedRight ==
  ASSUME NEW s \in O!OctetStrings, NEW p \in Nat \ {0}, NEW r \in Nat \ {0}, r * p = O!Octet
  PROVE  LET w == [i \in 1..Len(s) |-> (s[i] \div p) + (IF i > 1 THEN (s[i - 1] * r) % O!Octet ELSE 0)]
         IN  Len(w) = Len(s) /\ O!NumberOf(w) = O!NumberOf(s) \div p
<1> DEFINE n == Len(s)
           c == [i \in 0..n |-> IF i > 0 THEN s[i] % p ELSE 0]
           w == [i \in 1..n |-> (s[i] \div p) + (IF i > 1 THEN (s[i - 1] * r) % O!Octet ELSE 0)]
<1>1. s \in Seq(Nat) /\ n \in Nat /\ \A i \in 1..n : s[i] \in Nat
  BY StringsAreTexts, LenProperties
<1>2. O!Octet \in Nat \ {0}
  BY OctetIs
<1>3. ASSUME NEW i \in 1..n
      PROVE  /\ (s[i] * r) % O!Octet = r * (s[i] % p) /\ s[i] \div p \in Nat
             /\ s[i] % p \in 0..p - 1 /\ s[i] = p * (s[i] \div p) + (s[i] % p)
  <2>1. s[i] \in Nat
    BY <1>1
  <2> QED BY <2>1, TimesDiv
<1>4. \A i \in 0..n : c[i] \in 0..p - 1
  BY <1>1, <1>3
<1>5. \A i \in 1..n : w[i] = (s[i] \div p) + r * c[i - 1]
  <2>1. ASSUME NEW i \in 1..n PROVE w[i] = (s[i] \div p) + r * c[i - 1]
    <3>1. CASE i > 1
      <4>1. i - 1 \in 1..n /\ i - 1 \in 0..n /\ i - 1 > 0
        BY <1>1, <3>1
      <4>2. (s[i - 1] * r) % O!Octet = r * (s[i - 1] % p)
        BY <1>3, <4>1
      <4> QED BY <3>1, <4>1, <4>2
    <3>2. CASE ~(i > 1)
      <4>1. c[i - 1] = 0 /\ r * 0 = 0
        BY <1>1, <3>2
      <4> QED BY <3>2, <4>1
    <3> QED BY <3>1, <3>2
  <2> QED BY <2>1
<1>6. \A i \in 1..n : c[i] = s[i] % p
  BY <1>1
<1>7. n = Len(w) /\ c[0] = 0
  BY <1>1
<1>8. w = [i \in 1..n |-> w[i]]
  OBVIOUS
<1> HIDE DEF c, w, n
<1>9. ASSUME NEW i \in 1..n PROVE w[i] \in Nat
  <2>1. c[i - 1] \in Nat
    BY <1>1, <1>4
  <2>2. r * c[i - 1] \in Nat
    BY <2>1
  <2> QED BY <1>3, <1>5, <2>2
<1>10. w \in Seq(Nat)
  <2>1. w \in [1..n -> Nat]
    BY <1>8, <1>9
  <2> QED BY <1>1, <2>1, SeqDef
<1>11. PICK f \in [0..n -> Nat] : O!NumberOf(s) = f[n] /\ f[0] = 0 /\ \A i \in 1..n : f[i] = f[i - 1] * O!Octet + s[i]
  BY <1>1, NumberUp DEF n
<1>12. PICK g \in [0..n -> Nat] : O!NumberOf(w) = g[n] /\ g[0] = 0 /\ \A i \in 1..n : g[i] = g[i - 1] * O!Octet + w[i]
  <2>1. \E g \in [0..Len(w) -> Nat] : O!NumberOf(w) = g[Len(w)] /\ g[0] = 0 /\ \A i \in 1..Len(w) : g[i] = g[i - 1] * O!Octet + w[i]
    BY <1>10, NumberUp
  <2> QED BY <1>7, <2>1
<1> DEFINE D == {i \in 0..n : f[i] = p * g[i] + c[i]}
<1>13. 0 \in D
  BY <1>1, <1>7, <1>11, <1>12
<1>14. ASSUME NEW i \in 1..n, i - 1 \in D PROVE i \in D
  <2> DEFINE x == f[i - 1]
             y == g[i - 1]
             h == s[i] \div p
             l == c[i - 1]
  <2>1. i - 1 \in 0..n /\ i \in 0..n
    BY <1>1
  <2>2. x \in Nat /\ y \in Nat /\ f[i] = x * O!Octet + s[i] /\ g[i] = y * O!Octet + w[i]
    BY <1>11, <1>12, <2>1
  <2>3. x = p * y + l
    BY <1>14
  <2>4. h \in Nat /\ l \in Nat /\ c[i] \in Nat /\ s[i] = p * h + c[i] /\ w[i] = h + r * l
    BY <1>3, <1>4, <1>5, <1>6, <2>1
  <2> HIDE DEF x, y, h, l
  <2>5. (p * y + l) * O!Octet = p * (y * O!Octet) + l * O!Octet
    BY <1>2, <2>2, <2>4
  <2>6. p * (y * O!Octet + (h + r * l)) = p * (y * O!Octet) + (p * h + (r * p) * l)
    <3>1. y * O!Octet \in Nat /\ r * l \in Nat
      BY <1>2, <2>2, <2>4
    <3>2. \A e, d \in Nat : p * (e + (h + d)) = p * e + (p * h + p * d)
      BY <2>4
    <3>3. p * (r * l) = (r * p) * l
      BY <2>4
    <3> QED BY <3>1, <3>2, <3>3
  <2>7. l * O!Octet = O!Octet * l /\ l * O!Octet \in Nat /\ p * (y * O!Octet) \in Nat /\ p * h \in Nat
    <3>1. y * O!Octet \in Nat
      BY <1>2, <2>2
    <3> QED BY <1>2, <2>4, <3>1
  <2> DEFINE a == p * (y * O!Octet)
             b == p * h
             d == l * O!Octet
  <2>8. /\ a \in Nat /\ b \in Nat /\ d \in Nat /\ f[i] = (a + d) + (b + c[i]) /\ p * g[i] = a + (b + d)
    BY <2>2, <2>3, <2>4, <2>5, <2>6, <2>7
  <2> HIDE DEF a, b, d
  <2>9. f[i] = p * g[i] + c[i]
    BY <2>4, <2>8
  <2> QED BY <2>1, <2>9
<1> HIDE DEF D
<1>15. n \in D
  <2>1. \A i \in 0..n : i \in D
    BY <1>1, <1>13, <1>14, UpTo
  <2> QED BY <1>1, <2>1
<1>16. f[n] = p * g[n] + c[n] /\ c[n] \in 0..p - 1 /\ g[n] \in Nat /\ f[n] \in Nat
  BY <1>1, <1>4, <1>11, <1>12, <1>15 DEF D
<1>17. f[n] \div p = g[n]
  <2>1. g[n] \in Int /\ f[n] \in Int
    BY <1>16
  <2> QED BY <1>16, <2>1, DivUnique
<1> QED BY <1>7, <1>11, <1>12, <1>17 DEF w, n

\* A string is its first octets and the rest.
LEMMA RestIs ==
  ASSUME NEW s \in O!OctetStrings, NEW q \in 0..Len(s)
  PROVE  /\ O!SubstrFrom(s, q) \in O!OctetStrings /\ Len(O!SubstrFrom(s, q)) = Len(s) - q
         /\ SubSeq(s, 1, q) \in O!OctetStrings /\ s = SubSeq(s, 1, q) \o O!SubstrFrom(s, q)
<1> DEFINE a == SubSeq(s, 1, q)
           b == O!SubstrFrom(s, q)
<1>1. s \in Seq(Nat) /\ Len(s) \in Nat /\ (\A i \in 1..Len(s) : s[i] \in 0..O!Octet - 1) /\ q \in Nat /\ q <= Len(s)
  BY StringsAreTexts
<1>2. a \in Seq(Nat) /\ Len(a) = q /\ \A i \in 1..q : a[i] = s[i]
  <2>1. 1 \in Int /\ q \in Int /\ 1 >= 1 /\ q <= Len(s)
    BY <1>1
  <2>2. /\ a \in Seq(Nat) /\ Len(a) = IF 1 <= q THEN q - 1 + 1 ELSE 0
        /\ \A i \in 1..q - 1 + 1 : a[i] = s[1 + i - 1]
    BY <1>1, <2>1, PartIs, Zenon
  <2> HIDE DEF a
  <2> QED BY <1>1, <2>2
<1>3. b \in Seq(Nat) /\ Len(b) = Len(s) - q /\ \A i \in 1..Len(s) - q : b[i] = s[q + i]
  BY <1>1, SubstrFromIs
<1> HIDE DEF a, b
<1>4. /\ a \o b \in Seq(Nat) /\ Len(a \o b) = Len(a) + Len(b)
      /\ \A i \in 1..Len(a) : (a \o b)[i] = a[i]
      /\ \A i \in 1..Len(b) : (a \o b)[Len(a) + i] = b[i]
  BY <1>2, <1>3, TwoParts
<1>5. s = a \o b
  <2> DEFINE w == a \o b
  <2>1. Len(w) = Len(s)
    BY <1>1, <1>2, <1>3, <1>4
  <2>2. ASSUME NEW i \in 1..Len(s) PROVE s[i] = w[i]
    <3>1. CASE i <= q
      <4>1. i \in 1..q
        BY <1>1, <3>1
      <4> QED BY <1>2, <1>4, <4>1
    <3>2. CASE ~(i <= q)
      <4>1. i - q \in 1..Len(s) - q /\ q + (i - q) = i
        BY <1>1, <3>2
      <4>2. i - q \in 1..Len(b) /\ Len(a) + (i - q) = i
        BY <1>2, <1>3, <4>1
      <4>3. w[Len(a) + (i - q)] = b[i - q] /\ b[i - q] = s[q + (i - q)]
        BY <1>3, <1>4, <4>1, <4>2
      <4> HIDE DEF w
      <4> QED BY <4>1, <4>2, <4>3
    <3> QED BY <3>1, <3>2
  <2>3. w \in Seq(Nat)
    BY <1>4
  <2> HIDE DEF w
  <2>4. s = w
    BY <1>1, <2>1, <2>2, <2>3, SameString
  <2> QED BY <2>4 DEF w
<1>6. a \in O!OctetStrings
  <2>1. \A i \in 1..q : a[i] \in 0..O!Octet - 1
    BY <1>1, <1>2
  <2>2. a = [i \in 1..q |-> a[i]]
    BY <1>2, LenProperties
  <2>3. a \in [1..q -> 0..O!Octet - 1]
    BY <2>1, <2>2
  <2>4. a \in Seq(0..O!Octet - 1)
    BY <1>1, <2>3, SeqDef
  <2> QED BY <2>4 DEF O!OctetStrings
<1>7. b \in O!OctetStrings
  <2> DEFINE n == Len(s) - q
  <2>1. \A i \in 1..n : b[i] \in 0..O!Octet - 1
    <3>1. \A i \in 1..n : q + i \in 1..Len(s)
      BY <1>1
    <3> QED BY <1>1, <1>3, <3>1, Zenon
  <2>2. b = [i \in 1..n |-> b[i]]
    BY <1>3, LenProperties
  <2>3. b \in [1..n -> 0..O!Octet - 1] /\ n \in Nat
    BY <1>1, <2>1, <2>2
  <2> HIDE DEF n
  <2>4. b \in Seq(0..O!Octet - 1)
    BY <2>3, SeqDef
  <2> QED BY <2>4 DEF O!OctetStrings
<1> QED BY <1>3, <1>5, <1>6, <1>7 DEF a, b

\* Whole octets and the bits that are left.
LEMMA BitsIs ==
  ASSUME NEW n \in Nat
  PROVE  LET q == n \div OctetBits
             bits == n % OctetBits
         IN  /\ q \in Nat /\ bits \in Nat /\ OctetBits - bits \in Nat
             /\ O!Power(2, bits) \in Nat \ {0} /\ O!Power(2, OctetBits - bits) \in Nat \ {0}
             /\ O!Power(2, bits) * O!Power(2, OctetBits - bits) = O!Octet
             /\ O!Power(2, bits) * O!Power(O!Octet, q) = O!Power(2, n)
             /\ \A m \in Nat : q > m <=> n >= OctetBits * (m + 1)
<1> DEFINE q == n \div OctetBits
           bits == n % OctetBits
<1>1. OctetBits \in Nat \ {0}
  BY WidthsAssumption
<1>2. n = OctetBits * q + bits /\ bits \in 0..OctetBits - 1 /\ q \in Int /\ (n >= 0 => q \in Nat)
  <2>1. n \in Int
    OBVIOUS
  <2> QED BY <1>1, <2>1, DivIs, Zenon
<1> HIDE DEF q, bits
<1>3. q \in Nat /\ bits \in Nat /\ OctetBits - bits \in Nat /\ bits + (OctetBits - bits) = OctetBits
  BY <1>1, <1>2
<1>4. O!Power(2, bits) \in Nat \ {0} /\ O!Power(2, OctetBits - bits) \in Nat \ {0}
  BY <1>3, PowerPositive
<1>5. O!Power(2, bits) * O!Power(2, OctetBits - bits) = O!Octet
  <2>1. O!Power(2, bits + (OctetBits - bits)) = O!Power(2, bits) * O!Power(2, OctetBits - bits)
    BY <1>3, PowerAdds
  <2> QED BY <1>3, <2>1 DEF O!Octet
<1>6. O!Power(2, bits) * O!Power(O!Octet, q) = O!Power(2, n)
  <2>1. O!Power(O!Octet, q) = O!Power(2, OctetBits * q)
    <3>1. OctetBits \in Nat
      BY <1>1
    <3> QED BY <1>3, <3>1, PowerOfPower DEF O!Octet
  <2>2. OctetBits * q \in Nat /\ bits + OctetBits * q = n
    <3>1. OctetBits * q \in Nat
      BY <1>1, <1>3
    <3> QED BY <1>2, <1>3, <3>1
  <2>3. O!Power(2, bits + OctetBits * q) = O!Power(2, bits) * O!Power(2, OctetBits * q)
    BY <1>3, <2>2, PowerAdds
  <2> QED BY <2>1, <2>2, <2>3
<1>7. ASSUME NEW m \in Nat PROVE q > m <=> n >= OctetBits * (m + 1)
  <2>1. OctetBits * q \in Nat /\ OctetBits * (m + 1) \in Nat
    BY <1>1, <1>3
  <2>2. ASSUME q > m PROVE n >= OctetBits * (m + 1)
    <3>1. OctetBits * (q - (m + 1)) \in Nat
      <4>1. q - (m + 1) \in Nat
        BY <1>3, <2>2
      <4> QED BY <1>1, <4>1
    <3>2. OctetBits * (q - (m + 1)) = OctetBits * q - OctetBits * (m + 1)
      BY <1>1, <1>3
    <3> QED BY <1>2, <1>3, <2>1, <3>1, <3>2
  <2>3. ASSUME ~(q > m) PROVE ~(n >= OctetBits * (m + 1))
    <3>1. OctetBits * (m - q) \in Nat
      <4>1. m - q \in Nat
        BY <1>3, <2>3
      <4> QED BY <1>1, <4>1
    <3>2. OctetBits * (m - q) = (OctetBits * (m + 1) - OctetBits) - OctetBits * q
      BY <1>1, <1>3
    <3> QED BY <1>1, <1>2, <1>3, <2>1, <3>1, <3>2
  <2> QED BY <2>2, <2>3
<1> QED BY <1>3, <1>4, <1>5, <1>6, <1>7 DEF q, bits

\* "<<" by any number of bits.
LEMMA ShiftedLeftIs ==
  ASSUME NEW s \in O!OctetStrings, NEW n \in Nat
  PROVE  LET r == O!ShiftLeft(s, n)
         IN  /\ r = O!Throws <=> n >= OctetBits * (Len(s) + 1)
             /\ r # O!Throws => /\ "returns" \in DOMAIN r /\ Len(r.returns) = Len(s)
                              /\ O!NumberOf(r.returns) = (O!NumberOf(s) * O!Power(2, n)) % O!Power(O!Octet, Len(s))
<1> DEFINE q == n \div OctetBits
           bits == n % OctetBits
           p == O!Power(2, bits)
           h == O!Power(2, OctetBits - bits)
           rest == O!SubstrFrom(s, q)
           w == [i \in 1..Len(rest) |-> ((rest[i] * p) % O!Octet) + (IF i < Len(rest) THEN rest[i + 1] \div h ELSE 0)]
           x == w \o O!Zeros(q)
           r == O!ShiftLeft(s, n)
<1>1. /\ q \in Nat /\ p \in Nat \ {0} /\ h \in Nat \ {0} /\ p * h = O!Octet /\ p * O!Power(O!Octet, q) = O!Power(2, n)
      /\ \A m \in Nat : q > m <=> n >= OctetBits * (m + 1)
  BY BitsIs, Zenon
<1>2. s \in Seq(Nat) /\ Len(s) \in Nat
  BY StringsAreTexts
<1>3. CASE q > Len(s)
  <2>1. r = O!Throws
    BY <1>3 DEF O!ShiftLeft
  <2> HIDE DEF r
  <2> QED BY <1>1, <1>2, <1>3, <2>1 DEF r
<1>4. CASE ~(q > Len(s))
  <2>1. q \in 0..Len(s)
    BY <1>1, <1>2, <1>4
  <2>2. /\ rest \in O!OctetStrings /\ Len(rest) = Len(s) - q
        /\ SubSeq(s, 1, q) \in O!OctetStrings /\ s = SubSeq(s, 1, q) \o rest
    BY <2>1, RestIs
  <2>3. r = O!Returns(x)
    <3>1. DOMAIN rest = 1..Len(rest)
      <4>1. rest \in Seq(Nat)
        BY <2>2, StringsAreTexts
      <4> HIDE DEF rest
      <4> QED BY <4>1, LenProperties
    <3>2. O!ShiftLeft(s, n) = O!Returns([i \in DOMAIN rest |-> ((rest[i] * p) % O!Octet) + (IF i < Len(rest) THEN rest[i + 1] \div h ELSE 0)] \o O!Zeros(q))
      BY <1>4, Zenon DEF O!ShiftLeft
    <3> HIDE DEF rest
    <3> QED BY <3>1, <3>2
  <2> HIDE DEF rest, p, h, q
  <2>4. w \in O!OctetStrings /\ Len(w) = Len(rest) /\ \E k \in Nat : O!NumberOf(rest) * p = k * O!Power(O!Octet, Len(rest)) + O!NumberOf(w)
    BY <1>1, <2>2, MovedLeft, Zenon
  <2> HIDE DEF w
  <2>5. PICK k \in Nat : O!NumberOf(rest) * p = k * O!Power(O!Octet, Len(rest)) + O!NumberOf(w)
    BY <2>4
  <2>6. O!NumberOf(O!Zeros(q)) = 0 /\ O!Zeros(q) \in Seq(Nat) /\ Len(O!Zeros(q)) = q
    BY <1>1, NumberOfZeros
  <2>7. w \in Seq(Nat) /\ rest \in Seq(Nat) /\ SubSeq(s, 1, q) \in Seq(Nat)
    BY <2>2, <2>4, StringsAreTexts
  <2>8. Len(x) = Len(s)
    <3>1. Len(w \o O!Zeros(q)) = Len(w) + Len(O!Zeros(q))
      BY <2>6, <2>7, TwoParts
    <3> QED BY <1>1, <1>2, <2>2, <2>4, <2>6, <3>1
  <2> DEFINE m == Len(rest)
             om == O!Power(O!Octet, m)
             oq == O!Power(O!Octet, q)
             first == O!NumberOf(SubSeq(s, 1, q))
             a == O!NumberOf(rest)
             b == O!NumberOf(w)
  <2>9. O!NumberOf(x) = b * oq
    <3>1. O!NumberOf(w \o O!Zeros(q)) = O!NumberOf(w) * O!Power(O!Octet, Len(O!Zeros(q))) + O!NumberOf(O!Zeros(q))
      BY <2>6, <2>7, NumberOfTwo
    <3>2. b * oq \in Nat
      <4>1. b \in Nat /\ oq \in Nat
        BY <1>1, <2>4, NumberBound, OctetIs
      <4> HIDE DEF b, oq
      <4> QED BY <4>1
    <3> QED BY <2>6, <3>1, <3>2
  <2>10. O!NumberOf(s) = first * om + a
    <3>1. O!NumberOf(SubSeq(s, 1, q) \o rest) = O!NumberOf(SubSeq(s, 1, q)) * O!Power(O!Octet, Len(rest)) + O!NumberOf(rest)
      BY <2>7, NumberOfTwo
    <3> QED BY <2>2, <3>1
  <2>11. first \in Nat /\ a \in Nat /\ b \in Nat /\ b < om
    <3>1. O!NumberOf(w) < O!Power(O!Octet, Len(w)) /\ O!NumberOf(w) \in Nat
      BY <2>4, NumberBound
    <3>2. first \in Nat /\ a \in Nat
      BY <2>2, NumberBound
    <3> QED BY <2>4, <3>1, <3>2
  <2>12. m \in Nat /\ om \in Nat \ {0} /\ oq \in Nat \ {0} /\ om * oq = O!Power(O!Octet, Len(s)) /\ m + q = Len(s)
    <3>1. m \in Nat /\ m + q = Len(s)
      BY <1>1, <1>2, <2>1, <2>2
    <3>2. O!Power(O!Octet, m + q) = O!Power(O!Octet, m) * O!Power(O!Octet, q)
      BY <1>1, <3>1, PowerAdds, OctetIs
    <3> QED BY <1>1, <3>1, <3>2, OctetIs
  <2>13. a * p = k * om + b
    BY <2>5
  <2>14. p * oq = O!Power(2, n) /\ p \in Nat
    BY <1>1
  <2> DEFINE big == O!Power(O!Octet, Len(s))
             all == O!NumberOf(s) * O!Power(2, n)
             new == b * oq
             lost == first * p + k
  <2> HIDE DEF m, om, oq, first, a, b
  <2>15. all = big * lost + new
    <3>1. (first * om + a) * (p * oq) = (first * p) * (om * oq) + (a * p) * oq
      <4>1. p * oq \in Nat /\ first * om \in Nat
        BY <2>11, <2>12, <2>14
      <4>2. (first * om + a) * (p * oq) = (first * om) * (p * oq) + a * (p * oq)
        BY <2>11, <4>1
      <4>3. (first * om) * (p * oq) = (first * p) * (om * oq)
        BY <2>11, <2>12, <2>14
      <4>4. a * (p * oq) = (a * p) * oq
        BY <2>11, <2>12, <2>14
      <4> QED BY <4>2, <4>3, <4>4
    <3>2. (k * om + b) * oq = k * (om * oq) + b * oq
      BY <2>11, <2>12
    <3>3. /\ (first * p) * (om * oq) + k * (om * oq) = (om * oq) * (first * p + k)
          /\ (first * p) * (om * oq) \in Nat /\ k * (om * oq) \in Nat /\ b * oq \in Nat
      <4> DEFINE u == om * oq
                 v == first * p
      <4>1. u \in Nat /\ v \in Nat
        BY <2>11, <2>12, <2>14
      <4> HIDE DEF u, v
      <4>2. v * u + k * u = u * (v + k) /\ v * u \in Nat /\ k * u \in Nat
        BY <4>1
      <4>3. b * oq \in Nat
        BY <2>11, <2>12
      <4> QED BY <4>2, <4>3 DEF u, v
    <3>4. all = (first * p) * (om * oq) + (k * (om * oq) + b * oq)
      BY <2>10, <2>13, <2>14, <3>1, <3>2
    <3> DEFINE c == (first * p) * (om * oq)
               d == k * (om * oq)
    <3>5. c + (d + new) = (c + d) + new
      <4> HIDE DEF c, d, new
      <4>1. c \in Nat /\ d \in Nat /\ new \in Nat
        BY <3>3 DEF c, d, new
      <4> QED BY <4>1
    <3> HIDE DEF c, d
    <3>6. all = (c + d) + new
      BY <3>4, <3>5 DEF c, d
    <3>7. c + d = big * lost
      BY <2>12, <3>3 DEF c, d
    <3> QED BY <3>6, <3>7
  <2>16. new \in 0..big - 1
    <3>1. oq * ((om - 1) - b) \in Nat
      <4>1. (om - 1) - b \in Nat
        BY <2>11, <2>12
      <4> QED BY <2>12, <4>1
    <3>2. oq * ((om - 1) - b) = (om * oq - oq) - b * oq
      BY <2>11, <2>12
    <3>3. b * oq \in Nat /\ om * oq \in Nat
      BY <2>11, <2>12
    <3>4. (big - oq) - new \in Nat /\ new \in Nat /\ big \in Nat
      BY <2>12, <3>1, <3>2, <3>3
    <3> HIDE DEF new, big
    <3> QED BY <2>12, <3>4
  <2>17. big \in Nat \ {0} /\ lost \in Int /\ all \in Int
    <3>1. big \in Nat \ {0}
      BY <1>2, OctetIs
    <3>3. lost \in Nat
      <4>1. first * p \in Nat
        BY <2>11, <2>14
      <4> QED BY <4>1
    <3> HIDE DEF lost, big, new, all
    <3>4. big * lost \in Nat
      BY <3>1, <3>3
    <3> QED BY <2>15, <2>16, <3>1, <3>3, <3>4
  <2>18. all % big = new
    <3> HIDE DEF all, big, new, lost
    <3> QED BY <2>15, <2>16, <2>17, DivUnique
  <2>19. r # O!Throws /\ r.returns = x /\ "returns" \in DOMAIN r
    <3> HIDE DEF x, r
    <3>1. O!Returns(x).returns = x /\ O!Returns(x) # O!Throws /\ "returns" \in DOMAIN O!Returns(x)
      BY ReturnsIs DEF O!Returns
    <3> QED BY <2>3, <3>1
  <2>20. ~(n >= OctetBits * (Len(s) + 1))
    BY <1>1, <1>2, <1>4
  <2>21. O!NumberOf(x) = all % big
    BY <2>9, <2>18
  <2> HIDE DEF x, r, all, big
  <2> QED BY <2>8, <2>19, <2>20, <2>21 DEF r, all, big
<1> QED BY <1>3, <1>4

\* ">>" by fewer bits than an octet has.
LEMMA ShiftedRightIs ==
  ASSUME NEW s \in O!OctetStrings, NEW n \in Nat, n < OctetBits
  PROVE  LET r == O!ShiftRight(s, n)
         IN  "returns" \in DOMAIN r /\ Len(r.returns) = Len(s) /\ O!NumberOf(r.returns) = O!NumberOf(s) \div O!Power(2, n)
<1> DEFINE q == n \div OctetBits
           bits == n % OctetBits
           p == O!Power(2, bits)
           h == O!Power(2, OctetBits - bits)
           rest == O!SubstrFrom(s, q)
           w == [i \in 1..Len(s) |-> (s[i] \div p) + (IF i > 1 THEN (s[i - 1] * h) % O!Octet ELSE 0)]
           r == O!ShiftRight(s, n)
<1>1. q \in Nat /\ p \in Nat \ {0} /\ h \in Nat \ {0} /\ p * h = O!Octet
  BY BitsIs, Zenon
<1>2. s \in Seq(Nat) /\ Len(s) \in Nat /\ DOMAIN s = 1..Len(s)
  BY StringsAreTexts, LenProperties
<1>3. q = 0 /\ bits = n
  <2>1. OctetBits \in Nat \ {0} /\ 0 \in Int /\ n \in 0..OctetBits - 1 /\ n \in Int /\ n = OctetBits * 0 + n
    BY WidthsAssumption
  <2> QED BY <2>1, DivUnique
<1>4. rest = s
  <2>1. 0 \in 0..Len(s)
    BY <1>2
  <2>2. O!SubstrFrom(s, 0) = SubSeq(s, 1, Len(s))
    BY DEF O!SubstrFrom
  <2>3. SubSeq(s, 1, Len(s)) = s
    BY <1>2, SubSeqFull
  <2> QED BY <1>3, <2>2, <2>3
<1>5. h * p = O!Octet
  <2> HIDE DEF h, p
  <2> QED BY <1>1
<1>6. Len(w) = Len(s) /\ O!NumberOf(w) = O!NumberOf(s) \div p
  <2> HIDE DEF h, p
  <2> QED BY <1>1, <1>5, MovedRight, Zenon
<1>7. ~(q > Len(s))
  <2> HIDE DEF q
  <2> QED BY <1>2, <1>3
<1>8. r = O!Returns(O!Zeros(q) \o [i \in DOMAIN rest |-> (rest[i] \div p) + (IF i > 1 THEN (rest[i - 1] * h) % O!Octet ELSE 0)])
  BY <1>7, Zenon DEF O!ShiftRight
<1>9. r = O!Returns(O!Zeros(0) \o w)
  <2> HIDE DEF r, h, p, rest, q
  <2> QED BY <1>2, <1>3, <1>4, <1>8
<1>10. O!Zeros(0) \o w = w
  <2>1. O!Zeros(0) = <<>>
    BY DEF O!Zeros
  <2>2. w \in Seq(Nat)
    <3>1. \A i \in 1..Len(s) : s[i] \in Nat
      BY <1>2, LenProperties
    <3>2. \A i \in 1..Len(s) : w[i] \in Nat
      <4>1. ASSUME NEW i \in 1..Len(s) PROVE w[i] \in Nat
        <5>1. s[i] \div p \in Nat
          <6> HIDE DEF p
          <6>1. s[i] \in Int /\ s[i] >= 0
            BY <3>1
          <6> QED BY <1>1, <6>1, DivIs, Zenon
        <5>2. i > 1 => (s[i - 1] * h) % O!Octet \in Nat
          <6> HIDE DEF h
          <6>1. ASSUME i > 1 PROVE s[i - 1] * h \in Nat
            <7>1. s[i - 1] \in Nat
              BY <1>2, <3>1, <6>1
            <7> QED BY <1>1, <7>1
          <6>2. O!Octet \in Nat \ {0}
            BY OctetIs
          <6> DEFINE y == s[i - 1] * h
          <6>3. i > 1 => y \in Nat
            BY <6>1
          <6> HIDE DEF y
          <6>4. i > 1 => y % O!Octet \in Nat
            BY <6>2, <6>3
          <6> QED BY <6>4 DEF y
        <5> HIDE DEF p, h
        <5> QED BY <5>1, <5>2
      <4> QED BY <4>1
    <3>3. w = [i \in 1..Len(s) |-> w[i]]
      OBVIOUS
    <3> HIDE DEF w
    <3>4. w \in [1..Len(s) -> Nat]
      BY <3>2, <3>3
    <3> QED BY <1>2, <3>4, SeqDef
  <2> HIDE DEF w
  <2> QED BY <2>1, <2>2, ConcatEmptySeq
<1>11. O!Power(2, n) = p
  BY <1>3
<1> HIDE DEF w, r, p
<1>12. r.returns = w /\ "returns" \in DOMAIN r
  <2>1. O!Returns(w).returns = w /\ "returns" \in DOMAIN O!Returns(w)
    BY ReturnsIs DEF O!Returns
  <2> QED BY <1>9, <1>10, <2>1
<1> QED BY <1>6, <1>11, <1>12 DEF r
-----------------------------------------------------------------------------
(* Octets: trim and find.                                                  *)

\* The least and the greatest of some places.
LEMMA MinOf ==
  ASSUME NEW S \in SUBSET Nat, S # {}
  PROVE  O!Min(S) \in S /\ \A n \in S : O!Min(S) <= n
<1>1. \E m \in S : \A n \in S : m <= n
  BY Smallest
<1>2. O!Min(S) = CHOOSE x \in S : \A y \in S : x <= y
  BY DEF O!Min
<1> QED BY <1>1, <1>2, Zenon

\* The greatest of some places.
LEMMA MaxOf ==
  ASSUME NEW n \in Nat, NEW S \in SUBSET (0..n), S # {}
  PROVE  O!Max(S) \in S /\ \A m \in S : m <= O!Max(S)
<1> DEFINE U == {n - k : k \in S}
<1>1. U \in SUBSET Nat /\ U # {}
  <2>1. \A k \in S : n - k \in Nat
    <3>1. \A k \in S : k \in 0..n
      OBVIOUS
    <3> QED BY <3>1
  <2>2. \A u \in U : u \in Nat
    BY <2>1
  <2>3. \E k \in S : TRUE
    OBVIOUS
  <2>4. \E u \in U : TRUE
    BY <2>3
  <2> HIDE DEF U
  <2> QED BY <2>2, <2>4
<1>2. PICK t \in U : \A u \in U : t <= u
  <2> HIDE DEF U
  <2> QED BY <1>1, Smallest
<1>3. PICK k \in S : t = n - k
  BY <1>2
<1>4. \A m \in S : k >= m
  <2>1. ASSUME NEW m \in S PROVE k >= m
    <3>1. n - m \in U
      OBVIOUS
    <3>2. n - k <= n - m
      <4> HIDE DEF U
      <4> QED BY <1>2, <1>3, <3>1
    <3>3. k \in 0..n /\ m \in 0..n
      OBVIOUS
    <3> HIDE DEF U
    <3> QED BY <3>2, <3>3
  <2> QED BY <2>1
<1>5. O!Max(S) = CHOOSE x \in S : \A y \in S : x >= y
  BY DEF O!Max
<1>6. O!Max(S) \in S /\ \A m \in S : O!Max(S) >= m
  BY <1>4, <1>5, Zenon
<1>7. \A m \in S : m \in 0..n
  OBVIOUS
<1> QED BY <1>6, <1>7

\* What is left between the characters that are trimmed.
LEMMA TrimIs ==
  ASSUME NEW a \in Seq(Nat), NEW b \in Seq(Nat)
  PROVE  LET r == O!Trim(a, b)
         IN  /\ r = <<>> \/ {Head(r), O!Last(r)} \cap O!ToTrim(b) = {}
             /\ \E i, j \in 0..Len(a) : SubSeq(a, i + 1, j) = r /\ O!NotOf(a, b) \subseteq i + 1..j
<1> DEFINE n == Len(a)
           S == O!NotOf(a, b)
           l == O!Ltrim(a, b)
           r == O!Trim(a, b)
<1>1. n \in Nat /\ DOMAIN a = 1..n /\ \A i \in 1..n : a[i] \in Nat
  BY LenProperties
<1>2. S \in SUBSET (1..n) /\ \A i \in 1..n : i \in S <=> a[i] \notin O!ToTrim(b)
  BY <1>1 DEF O!NotOf
<1>3. CASE S = {}
  <2>1. l = <<>>
    BY <1>3 DEF O!Ltrim
  <2>2. O!NotOf(<<>>, b) = {}
    BY DEF O!NotOf
  <2>3. r = <<>>
    BY <2>1, <2>2 DEF O!Trim, O!Rtrim
  <2>4. SubSeq(a, 0 + 1, 0) = <<>>
    BY SubSeqEmpty
  <2>5. 0 \in 0..n
    BY <1>1
  <2> HIDE DEF n, S, r
  <2> QED BY <1>3, <2>3, <2>4, <2>5 DEF r, S, n
<1>4. CASE S # {}
  <2> DEFINE m == O!Min(S)
             U == O!NotOf(l, b)
             t == O!Max(U)
  <2>1. m \in S /\ \A k \in S : m <= k
    <3>1. S \in SUBSET Nat
      BY <1>1, <1>2
    <3> HIDE DEF S
    <3> QED BY <1>4, <3>1, MinOf
  <2>2. l = SubSeq(a, m, n)
    BY <1>4 DEF O!Ltrim
  <2> HIDE DEF S, l, m
  <2>3. m \in 1..n
    BY <1>2, <2>1
  <2>4. l \in Seq(Nat) /\ Len(l) = n - m + 1 /\ \A i \in 1..n - m + 1 : l[i] = a[m + i - 1]
    <3>1. m \in Int /\ n \in Int /\ m >= 1 /\ n <= Len(a) /\ m <= n
      BY <1>1, <2>3
    <3>2. /\ SubSeq(a, m, n) \in Seq(Nat) /\ Len(SubSeq(a, m, n)) = IF m <= n THEN n - m + 1 ELSE 0
          /\ \A i \in 1..n - m + 1 : SubSeq(a, m, n)[i] = a[m + i - 1]
      BY <3>1, PartIs, Zenon
    <3> HIDE DEF n
    <3> QED BY <2>2, <3>1, <3>2
  <2> HIDE DEF n
  <2>5. DOMAIN l = 1..n - m + 1 /\ n - m + 1 \in Nat
    <3>1. DOMAIN l = 1..Len(l)
      BY <2>4, LenProperties
    <3> QED BY <1>1, <2>3, <2>4, <3>1
  <2>6. U \in SUBSET (1..n - m + 1) /\ \A i \in 1..n - m + 1 : i \in U <=> m + i - 1 \in S
    <3>1. \A i \in 1..n - m + 1 : i \in U <=> l[i] \notin O!ToTrim(b)
      BY <2>5 DEF O!NotOf
    <3>2. U \in SUBSET (1..n - m + 1)
      BY <2>5 DEF O!NotOf
    <3>3. \A i \in 1..n - m + 1 : m + i - 1 \in 1..n
      BY <1>1, <2>3
    <3> HIDE DEF U
    <3> QED BY <1>2, <2>4, <3>1, <3>2, <3>3
  <2>7. 1 \in U
    <3>1. 1 \in 1..n - m + 1 /\ m + 1 - 1 = m
      BY <1>1, <2>3
    <3> HIDE DEF U
    <3> QED BY <2>1, <2>6, <3>1
  <2>8. t \in U /\ \A k \in U : k <= t
    <3>1. U \in SUBSET (0..n - m + 1) /\ U # {}
      <4> HIDE DEF U
      <4> QED BY <2>6, <2>7
    <3> HIDE DEF U
    <3> QED BY <2>5, <3>1, MaxOf
  <2>9. r = SubSeq(l, 1, t)
    <3>1. r = O!Rtrim(l, b)
      BY DEF O!Trim, l
    <3>2. O!NotOf(l, b) # {}
      BY <2>7
    <3> HIDE DEF r
    <3> QED BY <3>1, <3>2 DEF O!Rtrim
  <2> HIDE DEF U, t, r
  <2>10. t \in 1..n - m + 1
    BY <2>6, <2>8
  <2>11. r \in Seq(Nat) /\ Len(r) = t /\ \A i \in 1..t : r[i] = l[i]
    <3>1. 1 \in Int /\ t \in Int /\ 1 >= 1 /\ t <= Len(l) /\ 1 <= t /\ t - 1 + 1 = t /\ \A i \in Int : 1 + i - 1 = i
      BY <2>4, <2>10
    <3>2. /\ SubSeq(l, 1, t) \in Seq(Nat) /\ Len(SubSeq(l, 1, t)) = IF 1 <= t THEN t - 1 + 1 ELSE 0
          /\ \A i \in 1..t - 1 + 1 : SubSeq(l, 1, t)[i] = l[1 + i - 1]
      BY <2>4, <3>1, PartIs, Zenon
    <3> QED BY <2>9, <3>1, <3>2
  <2>12. {Head(r), O!Last(r)} \cap O!ToTrim(b) = {}
    <3>1. Head(r) = r[1]
      <4>1. r # <<>>
        BY <2>10, <2>11
      <4> QED BY <2>11, <4>1, HeadTailProperties
    <3>2. O!Last(r) = r[t]
      BY <2>11 DEF O!Last
    <3>3. r[1] = a[m] /\ r[t] = a[m + t - 1] /\ m + t - 1 \in S
      <4>1. 1 \in 1..t /\ t \in 1..t /\ 1 \in 1..n - m + 1 /\ m + 1 - 1 = m
        BY <1>1, <2>3, <2>10
      <4> QED BY <2>4, <2>6, <2>8, <2>10, <2>11, <4>1
    <3>4. a[m] \notin O!ToTrim(b) /\ a[m + t - 1] \notin O!ToTrim(b)
      BY <1>2, <2>1, <3>3
    <3> QED BY <3>1, <3>2, <3>3, <3>4
  <2> DEFINE i == m - 1
             j == m + t - 1
  <2>13. i \in 0..n /\ j \in 0..n /\ i + 1 = m /\ j - m + 1 = t
    BY <1>1, <2>3, <2>10
  <2>14. SubSeq(a, i + 1, j) = r
    <3> HIDE DEF i, j
    <3>1. m \in Int /\ j \in Int /\ m >= 1 /\ j <= Len(a) /\ m <= j
      BY <1>1, <2>3, <2>10, <2>13 DEF n
    <3>2. /\ SubSeq(a, m, j) \in Seq(Nat) /\ Len(SubSeq(a, m, j)) = IF m <= j THEN j - m + 1 ELSE 0
          /\ \A k \in 1..j - m + 1 : SubSeq(a, m, j)[k] = a[m + k - 1]
      BY <3>1, PartIs, Zenon
    <3> DEFINE x == SubSeq(a, m, j)
    <3>3. x \in Seq(Nat) /\ Len(x) = t /\ \A k \in 1..t : x[k] = a[m + k - 1]
      BY <2>13, <3>1, <3>2
    <3> HIDE DEF x
    <3>4. \A k \in 1..t : x[k] = r[k]
      <4>1. \A k \in 1..t : k \in 1..n - m + 1
        BY <1>1, <2>3, <2>10
      <4> QED BY <2>4, <2>11, <3>3, <4>1
    <3>5. x = r
      BY <2>11, <3>3, <3>4, SameString
    <3> QED BY <2>13, <3>5 DEF x
  <2>15. S \subseteq i + 1..j
    <3>1. ASSUME NEW k \in S PROVE k \in i + 1..j
      <4>1. k \in 1..n /\ m <= k
        BY <1>2, <2>1
      <4>2. k - m + 1 \in 1..n - m + 1 /\ m + (k - m + 1) - 1 = k
        BY <1>1, <2>3, <4>1
      <4>3. k - m + 1 \in U
        BY <2>6, <4>2
      <4>4. k - m + 1 <= t
        BY <2>8, <4>3
      <4> QED BY <2>3, <2>10, <2>13, <4>1, <4>4
    <3> QED BY <3>1
  <2> HIDE DEF i, j
  <2> QED BY <2>12, <2>13, <2>14, <2>15 DEF n, r, S
<1> QED BY <1>3, <1>4

\* A text in a text.
OccursAt(str, delimiter, i) ==
  i + Len(delimiter) <= Len(str) + 1 /\ \A k \in 1..Len(delimiter) : str[i + k - 1] = delimiter[k]

\* The rest from i on starts with d: d occurs at i.
LEMMA StartsThere ==
  ASSUME NEW s \in Seq(Nat), NEW d \in Seq(Nat), NEW i \in 1..Len(s) + 1
  PROVE  O!StartsWith(O!SubstrFrom(s, i - 1), d) <=> OccursAt(s, d, i)
<1> DEFINE t == O!SubstrFrom(s, i - 1)
           m == Len(d)
<1>1. Len(s) \in Nat /\ m \in Nat /\ i - 1 \in Nat
  BY LenProperties
<1>2. /\ t \in Seq(Nat) /\ Len(t) = IF i - 1 <= Len(s) THEN Len(s) - (i - 1) ELSE 0
      /\ \A k \in 1..Len(s) - (i - 1) : t[k] = s[(i - 1) + k]
  BY <1>1, SubstrFromIs
<1>3. Len(t) = Len(s) - (i - 1)
  <2> HIDE DEF t
  <2> QED BY <1>1, <1>2
<1> HIDE DEF t
<1>4. ASSUME Len(t) >= m PROVE O!StartsWith(t, d) <=> OccursAt(s, d, i)
  <2>1. SubSeq(d, 1, m) = d
    BY SubSeqFull
  <2>2. SubSeq(t, 1, m) = SubSeq(d, 1, m) <=> \A k \in 1..m : t[k] = d[k]
    <3>1. m \in Nat /\ m <= Len(t) /\ m <= Len(d)
      BY <1>1, <1>2, <1>4
    <3> HIDE DEF m
    <3> QED BY <1>2, <3>1, SameStart
  <2>3. \A k \in 1..m : t[k] = s[i + k - 1]
    <3>1. \A k \in 1..m : k \in 1..Len(s) - (i - 1) /\ (i - 1) + k = i + k - 1
      BY <1>1, <1>3, <1>4
    <3> QED BY <1>2, <3>1
  <2>4. i + m <= Len(s) + 1
    BY <1>1, <1>3, <1>4
  <2> QED BY <1>4, <2>1, <2>2, <2>3, <2>4 DEF O!StartsWith, OccursAt
<1>5. ASSUME ~(Len(t) >= m) PROVE O!StartsWith(t, d) <=> OccursAt(s, d, i)
  <2>1. ~(i + m <= Len(s) + 1)
    BY <1>1, <1>3, <1>5
  <2> QED BY <1>5, <2>1 DEF O!StartsWith, OccursAt
<1> QED BY <1>4, <1>5 DEF t

\* find: the first place from the given one on, npos only if there is none.
LEMMA FindIs ==
  ASSUME NEW s \in Seq(Nat), NEW d \in Seq(Nat), NEW from \in Nat, from >= 1
  PROVE  /\ O!Find(s, d, from) = 0 <=> \A i \in Nat : i >= from => ~OccursAt(s, d, i)
         /\ O!Find(s, d, from) # 0 =>
              /\ O!Find(s, d, from) \in Nat /\ O!Find(s, d, from) >= from /\ OccursAt(s, d, O!Find(s, d, from))
              /\ \A i \in Nat : i >= from /\ i < O!Find(s, d, from) => ~OccursAt(s, d, i)
<1> DEFINE places == {i \in from..Len(s) - Len(d) + 1 : O!StartsWith(O!SubstrFrom(s, i - 1), d)}
           f == O!Find(s, d, from)
<1>1. Len(s) \in Nat /\ Len(d) \in Nat
  BY LenProperties
<1>2. f = IF places = {} THEN 0 ELSE O!Min(places)
  BY DEF O!Find
<1>3. \A i \in Nat : i \in places <=> i >= from /\ OccursAt(s, d, i)
  <2>1. ASSUME NEW i \in Nat PROVE i \in places <=> i >= from /\ OccursAt(s, d, i)
    <3>1. OccursAt(s, d, i) => i <= Len(s) - Len(d) + 1
      BY <1>1 DEF OccursAt
    <3>2. CASE i >= from /\ i <= Len(s) - Len(d) + 1
      <4>1. i \in 1..Len(s) + 1
        BY <1>1, <3>2
      <4>2. O!StartsWith(O!SubstrFrom(s, i - 1), d) <=> OccursAt(s, d, i)
        BY <4>1, StartsThere
      <4>3. i \in from..Len(s) - Len(d) + 1
        BY <1>1, <3>2
      <4> QED BY <3>2, <4>2, <4>3
    <3>3. CASE ~(i >= from /\ i <= Len(s) - Len(d) + 1)
      <4>1. i \notin from..Len(s) - Len(d) + 1
        BY <1>1, <3>3
      <4> QED BY <3>1, <3>3, <4>1
    <3> QED BY <3>2, <3>3
  <2> QED BY <2>1
<1>4. places \in SUBSET Nat
  BY <1>1
<1> HIDE DEF places, f
<1>5. places # {} => O!Min(places) \in places /\ \A i \in places : O!Min(places) <= i
  BY <1>4, MinOf
<1>6. CASE places = {}
  BY <1>2, <1>3, <1>6 DEF f
<1>7. CASE places # {}
  <2>1. f \in places /\ f \in Nat /\ f >= from /\ OccursAt(s, d, f) /\ f # 0
    <3>1. f \in places /\ f \in Nat
      BY <1>2, <1>4, <1>5, <1>7
    <3> QED BY <1>3, <3>1
  <2>2. \A i \in Nat : i >= from /\ i < f => ~OccursAt(s, d, i)
    <3>1. ASSUME NEW i \in Nat, i >= from, i < f PROVE ~OccursAt(s, d, i)
      <4>1. i \notin places
        <5>1. i \in places => f <= i
          BY <1>2, <1>5, <1>7
        <5> QED BY <2>1, <3>1, <5>1
      <4> QED BY <1>3, <3>1, <4>1
    <3> QED BY <3>1
  <2> QED BY <2>1, <2>2 DEF f
<1> QED BY <1>6, <1>7
-----------------------------------------------------------------------------
(* Octets: split.                                                          *)

\* Part by part a text.
LEMMA JoinedUp ==
  ASSUME NEW parts \in Seq(Seq(Nat)), NEW d \in Seq(Nat)
  PROVE  \E up \in [0..Len(parts) -> Seq(Nat)] :
           O!Joined(parts, d) = up[Len(parts)] /\ up[0] = <<>> /\ \A i \in 1..Len(parts) : up[i] = (IF i = 1 THEN <<>> ELSE up[i - 1] \o d) \o parts[i]
<1> DEFINE n == Len(parts)
           V == Seq(Nat)
           Step(x, i) == (IF i = 1 THEN <<>> ELSE x \o d) \o parts[i]
           g == [i \in 1..n |-> [x \in V |-> Step(x, i)]]
           up == CHOOSE upTo : upTo = [i \in 0..n |-> IF i = 0 THEN <<>> ELSE (IF i = 1 THEN <<>> ELSE upTo[i - 1] \o d) \o parts[i]]
<1>1. n \in Nat /\ <<>> \in V
  BY LenProperties, EmptySeq
<1>2. \A i \in 1..n, x \in V : Step(x, i) \in V
  <2>1. ASSUME NEW i \in 1..Len(parts), NEW x \in Seq(Nat) PROVE Step(x, i) \in Seq(Nat)
    <3>1. parts[i] \in Seq(Nat)
      BY LenProperties
    <3>2. x \o d \in Seq(Nat) /\ <<>> \in Seq(Nat)
      BY ConcatProperties, EmptySeq
    <3> DEFINE y == IF i = 1 THEN <<>> ELSE x \o d
    <3>3. y \in Seq(Nat)
      BY <3>2
    <3> HIDE DEF y
    <3>4. y \o parts[i] \in Seq(Nat)
      BY <3>1, <3>3, ConcatProperties
    <3> QED BY <3>4 DEF y
  <2> QED BY <2>1
<1>3. O!Joined(parts, d) = up[Len(parts)]
  BY Zenon DEF O!Joined
<1> HIDE DEF n, V, Step
<1>4. g \in [1..n -> [V -> V]] /\ \A i \in 1..n, x \in V : g[i][x] = Step(x, i)
  BY <1>2
<1> HIDE DEF g
<1>5. PICK f : f \in Iterations(V, n, <<>>, g)
  BY <1>1, <1>4, Iterated, Zenon
<1>6. f = [i \in 0..n |-> IF i = 0 THEN <<>> ELSE Step(f[i - 1], i)]
  <2>1. f \in [0..n -> V] /\ f[0] = <<>> /\ \A i \in 1..n : f[i] = g[i][f[i - 1]]
    BY <1>5 DEF Iterations
  <2>2. \A i \in 1..n : f[i] = Step(f[i - 1], i)
    BY <1>1, <1>4, <2>1
  <2> QED BY <1>1, <2>1, <2>2
<1>7. up = [i \in 0..n |-> IF i = 0 THEN <<>> ELSE Step(up[i - 1], i)]
  BY <1>6, Zenon DEF Step
<1> HIDE DEF up
<1>8. up[0] = <<>> /\ \A i \in 1..n : up[i] = Step(up[i - 1], i)
  BY <1>1, <1>7
<1>9. \A i \in 0..n : up[i] \in V
  <2>1. up[0] \in V
    BY <1>1, <1>8
  <2>2. \A i \in 1..n : up[i - 1] \in V => up[i] \in V
    BY <1>2, <1>8
  <2> QED BY <1>1, <2>1, <2>2, Typed, Zenon
<1>10. up \in [0..n -> V]
  BY <1>7, <1>9
<1> QED BY <1>3, <1>8, <1>10, Zenon DEF n, V, Step

\* One part more.
LEMMA JoinedMore ==
  ASSUME NEW parts \in Seq(Seq(Nat)), NEW x \in Seq(Nat), NEW d \in Seq(Nat)
  PROVE  /\ O!Joined(Append(parts, x), d) = (IF parts = <<>> THEN <<>> ELSE O!Joined(parts, d) \o d) \o x
         /\ O!Joined(parts, d) \in Seq(Nat)
<1> DEFINE n == Len(parts)
           more == Append(parts, x)
<1>1. n \in Nat /\ more \in Seq(Seq(Nat)) /\ Len(more) = n + 1 /\ more[n + 1] = x
      /\ \A i \in 1..n : more[i] = parts[i]
  BY AppendProperties, LenProperties
<1>2. parts = <<>> <=> n = 0
  BY EmptySeq
<1>3. PICK up \in [0..n -> Seq(Nat)] :
        /\ O!Joined(parts, d) = up[n] /\ up[0] = <<>>
        /\ \A i \in 1..n : up[i] = (IF i = 1 THEN <<>> ELSE up[i - 1] \o d) \o parts[i]
  BY JoinedUp
<1>4. PICK on \in [0..n + 1 -> Seq(Nat)] :
        /\ O!Joined(more, d) = on[n + 1] /\ on[0] = <<>>
        /\ \A i \in 1..n + 1 : on[i] = (IF i = 1 THEN <<>> ELSE on[i - 1] \o d) \o more[i]
  <2> HIDE DEF more
  <2>1. \E on \in [0..Len(more) -> Seq(Nat)] :
          /\ O!Joined(more, d) = on[Len(more)] /\ on[0] = <<>>
          /\ \A i \in 1..Len(more) : on[i] = (IF i = 1 THEN <<>> ELSE on[i - 1] \o d) \o more[i]
    BY <1>1, JoinedUp
  <2> HIDE DEF n
  <2> QED BY <1>1, <2>1
<1> HIDE DEF n, more
<1> DEFINE D == {i \in 0..n : on[i] = up[i]}
<1>5. 0 \in D
  BY <1>1, <1>3, <1>4
<1>6. ASSUME NEW i \in 1..n, i - 1 \in D PROVE i \in D
  <2>1. i \in 1..n + 1 /\ i \in 0..n
    BY <1>1
  <2>2. on[i - 1] = up[i - 1]
    BY <1>6
  <2>3. on[i] = (IF i = 1 THEN <<>> ELSE on[i - 1] \o d) \o more[i] /\ more[i] = parts[i]
    BY <1>1, <1>4, <2>1
  <2>4. up[i] = (IF i = 1 THEN <<>> ELSE up[i - 1] \o d) \o parts[i]
    BY <1>3
  <2>5. on[i] = up[i]
    BY <2>2, <2>3, <2>4
  <2> QED BY <2>1, <2>5
<1> HIDE DEF D
<1>7. n \in D
  <2>1. \A i \in 0..n : i \in D
    BY <1>1, <1>5, <1>6, UpTo
  <2> QED BY <1>1, <2>1
<1>8. on[n] = up[n]
  BY <1>7 DEF D
<1>9. on[n + 1] = (IF n = 0 THEN <<>> ELSE on[n] \o d) \o x
  <2>1. n + 1 \in 1..n + 1 /\ (n + 1) - 1 = n /\ (n + 1 = 1 <=> n = 0)
    BY <1>1
  <2> QED BY <1>1, <1>4, <2>1
<1>10. up[n] \in Seq(Nat)
  BY <1>1, <1>3
<1> QED BY <1>2, <1>3, <1>4, <1>8, <1>9, <1>10 DEF more

\* A part of a text and what follows it.
LEMMA GlueIs ==
  ASSUME NEW s \in Seq(Nat), NEW m \in Nat, NEW n \in Nat, 1 <= m, m <= n + 1, n <= Len(s)
  PROVE  /\ SubSeq(s, 1, m - 1) \o SubSeq(s, m, n) = SubSeq(s, 1, n)
         /\ SubSeq(s, 1, m - 1) \in Seq(Nat) /\ SubSeq(s, m, n) \in Seq(Nat) /\ SubSeq(s, 1, n) \in Seq(Nat)
<1> DEFINE a == SubSeq(s, 1, m - 1)
           b == SubSeq(s, m, n)
           c == SubSeq(s, 1, n)
           w == a \o b
<1>0. Len(s) \in Nat
  BY LenProperties
<1>1. a \in Seq(Nat) /\ Len(a) = m - 1 /\ \A i \in 1..m - 1 : a[i] = s[i]
  <2>1. 1 \in Int /\ m - 1 \in Int /\ 1 >= 1 /\ m - 1 <= Len(s) /\ m - 1 - 1 + 1 = m - 1 /\ \A i \in Int : 1 + i - 1 = i
    BY <1>0
  <2>2. /\ a \in Seq(Nat) /\ Len(a) = IF 1 <= m - 1 THEN m - 1 - 1 + 1 ELSE 0
        /\ \A i \in 1..m - 1 - 1 + 1 : a[i] = s[1 + i - 1]
    BY <2>1, PartIs, Zenon
  <2> HIDE DEF a
  <2> QED BY <2>1, <2>2
<1>2. b \in Seq(Nat) /\ Len(b) = n - m + 1 /\ \A i \in 1..n - m + 1 : b[i] = s[m + i - 1]
  <2>1. m \in Int /\ n \in Int /\ m >= 1 /\ n <= Len(s)
    BY <1>0
  <2>2. /\ b \in Seq(Nat) /\ Len(b) = IF m <= n THEN n - m + 1 ELSE 0
        /\ \A i \in 1..n - m + 1 : b[i] = s[m + i - 1]
    BY <2>1, PartIs, Zenon
  <2> HIDE DEF b
  <2> QED BY <2>1, <2>2
<1>3. c \in Seq(Nat) /\ Len(c) = n /\ \A i \in 1..n : c[i] = s[i]
  <2>1. 1 \in Int /\ n \in Int /\ 1 >= 1 /\ n <= Len(s) /\ n - 1 + 1 = n /\ \A i \in Int : 1 + i - 1 = i
    BY <1>0
  <2>2. /\ c \in Seq(Nat) /\ Len(c) = IF 1 <= n THEN n - 1 + 1 ELSE 0
        /\ \A i \in 1..n - 1 + 1 : c[i] = s[1 + i - 1]
    BY <2>1, PartIs, Zenon
  <2> HIDE DEF c
  <2> QED BY <2>1, <2>2
<1> HIDE DEF a, b, c
<1>4. /\ w \in Seq(Nat) /\ Len(w) = Len(a) + Len(b)
      /\ \A i \in 1..Len(a) : w[i] = a[i]
      /\ \A i \in 1..Len(b) : w[Len(a) + i] = b[i]
  BY <1>1, <1>2, TwoParts
<1> HIDE DEF w
<1>5. Len(w) = Len(c)
  BY <1>1, <1>2, <1>3, <1>4
<1>6. ASSUME NEW i \in 1..Len(w) PROVE w[i] = c[i]
  <2>1. i \in 1..n
    BY <1>3, <1>5
  <2>2. CASE i <= m - 1
    <3>1. i \in 1..m - 1
      BY <2>1, <2>2
    <3> QED BY <1>1, <1>3, <1>4, <2>1, <3>1
  <2>3. CASE ~(i <= m - 1)
    <3> DEFINE k == i - (m - 1)
    <3>1. k \in 1..n - m + 1 /\ (m - 1) + k = i /\ m + k - 1 = i
      BY <2>1, <2>3
    <3> HIDE DEF k
    <3>2. w[(m - 1) + k] = b[k] /\ b[k] = s[m + k - 1]
      BY <1>1, <1>2, <1>4, <3>1
    <3> QED BY <1>3, <2>1, <3>1, <3>2
  <2> QED BY <2>2, <2>3
<1>7. w = c
  BY <1>3, <1>4, <1>5, <1>6, SameString
<1> QED BY <1>1, <1>2, <1>3, <1>7 DEF w, a, b, c

\* A round of split, and what it finds.
LEMMA SplitRoundIs ==
  ASSUME NEW s \in Seq(Nat), NEW d \in Seq(Nat), NEW x \in [prev_pos : Nat \ {0}, parts : Seq(Seq(Nat))]
  PROVE  LET y == O!SplitRound(x, s, d)
             pos == O!Find(s, d, x.prev_pos)
         IN  /\ y \in [prev_pos : Nat \ {0}, parts : Seq(Seq(Nat))]
             /\ pos = 0 => y = x
             /\ pos # 0 => /\ y.prev_pos = pos + Len(d) /\ y.parts = Append(x.parts, SubSeq(s, x.prev_pos, pos - 1))
                           /\ pos \in Nat \ {0} /\ pos >= x.prev_pos /\ pos + Len(d) <= Len(s) + 1
                           /\ SubSeq(s, x.prev_pos, pos - 1) \in Seq(Nat)
<1> DEFINE y == O!SplitRound(x, s, d)
           pos == O!Find(s, d, x.prev_pos)
           part == SubSeq(s, x.prev_pos, pos - 1)
<1>1. Len(s) \in Nat /\ Len(d) \in Nat /\ x.prev_pos \in Nat /\ x.prev_pos >= 1 /\ x.parts \in Seq(Seq(Nat))
  BY LenProperties
<1>2. y = IF pos = 0 THEN x ELSE [prev_pos |-> pos + Len(d), parts |-> Append(x.parts, part)]
  BY DEF O!SplitRound
<1>3. pos # 0 => pos \in Nat /\ pos >= x.prev_pos /\ OccursAt(s, d, pos)
  BY <1>1, FindIs
<1> HIDE DEF y, pos
<1>4. CASE pos = 0
  <2>1. y = x
    BY <1>2, <1>4
  <2> QED BY <1>4, <2>1 DEF y, pos
<1>5. CASE pos # 0
  <2>1. pos \in Nat \ {0} /\ pos >= x.prev_pos /\ pos + Len(d) <= Len(s) + 1
    BY <1>1, <1>3, <1>5 DEF OccursAt
  <2>2. part \in Seq(Nat)
    <3>1. x.prev_pos \in Int /\ pos - 1 \in Int /\ x.prev_pos >= 1 /\ pos - 1 <= Len(s)
      BY <1>1, <2>1
    <3> HIDE DEF part
    <3>2. SubSeq(s, x.prev_pos, pos - 1) \in Seq(Nat)
      BY <3>1, PartIs, Zenon
    <3> QED BY <3>2 DEF part
  <2> HIDE DEF part
  <2>3. Append(x.parts, part) \in Seq(Seq(Nat))
    BY <1>1, <2>2, AppendProperties
  <2>4. y = [prev_pos |-> pos + Len(d), parts |-> Append(x.parts, part)]
    BY <1>2, <1>5
  <2>5. /\ y \in [prev_pos : Nat \ {0}, parts : Seq(Seq(Nat))]
        /\ y.prev_pos = pos + Len(d) /\ y.parts = Append(x.parts, part)
    BY <1>1, <2>1, <2>3, <2>4
  <2> QED BY <1>5, <2>1, <2>2, <2>5 DEF y, pos, part
<1> QED BY <1>4, <1>5

\* Round by round the parts.
LEMMA SplitUp ==
  ASSUME NEW s \in Seq(Nat), NEW d \in Seq(Nat)
  PROVE  \E up \in [0..Len(s) -> [prev_pos : Nat \ {0}, parts : Seq(Seq(Nat))]] :
           O!Split(s, d) = (IF s = <<>> \/ d = <<>> THEN <<s>> ELSE Append(up[Len(s)].parts, SubSeq(s, up[Len(s)].prev_pos, Len(s)))) /\ up[0] = [prev_pos |-> 1, parts |-> <<>>] /\ \A i \in 1..Len(s) : up[i] = O!SplitRound(up[i - 1], s, d)
<1> DEFINE n == Len(s)
           V == [prev_pos : Nat \ {0}, parts : Seq(Seq(Nat))]
           Step(x, i) == O!SplitRound(x, s, d)
           g == [i \in 1..n |-> [x \in V |-> Step(x, i)]]
           up == CHOOSE upTo : upTo = [i \in 0..n |-> IF i = 0 THEN [prev_pos |-> 1, parts |-> <<>>] ELSE O!SplitRound(upTo[i - 1], s, d)]
<1>1. n \in Nat /\ [prev_pos |-> 1, parts |-> <<>>] \in V
  <2>1. Len(s) \in Nat
    BY LenProperties
  <2>2. <<>> \in Seq(Seq(Nat))
    BY EmptySeq
  <2> QED BY <2>1, <2>2
<1>2. \A i \in 1..n, x \in V : Step(x, i) \in V
  <2>1. ASSUME NEW i \in 1..Len(s), NEW x \in [prev_pos : Nat \ {0}, parts : Seq(Seq(Nat))]
        PROVE  O!SplitRound(x, s, d) \in [prev_pos : Nat \ {0}, parts : Seq(Seq(Nat))]
    BY SplitRoundIs
  <2> QED BY <2>1
<1>3. O!Split(s, d) = (IF s = <<>> \/ d = <<>> THEN <<s>> ELSE Append(up[Len(s)].parts, SubSeq(s, up[Len(s)].prev_pos, Len(s))))
  BY Zenon DEF O!Split
<1> HIDE DEF n, V, Step
<1>4. g \in [1..n -> [V -> V]] /\ \A i \in 1..n, x \in V : g[i][x] = Step(x, i)
  BY <1>2
<1> HIDE DEF g
<1>5. PICK f : f \in Iterations(V, n, [prev_pos |-> 1, parts |-> <<>>], g)
  BY <1>1, <1>4, Iterated, Zenon
<1>6. f = [i \in 0..n |-> IF i = 0 THEN [prev_pos |-> 1, parts |-> <<>>] ELSE Step(f[i - 1], i)]
  <2>1. f \in [0..n -> V] /\ f[0] = [prev_pos |-> 1, parts |-> <<>>] /\ \A i \in 1..n : f[i] = g[i][f[i - 1]]
    BY <1>5 DEF Iterations
  <2>2. \A i \in 1..n : f[i] = Step(f[i - 1], i)
    BY <1>1, <1>4, <2>1
  <2> QED BY <1>1, <2>1, <2>2
<1>7. up = [i \in 0..n |-> IF i = 0 THEN [prev_pos |-> 1, parts |-> <<>>] ELSE Step(up[i - 1], i)]
  BY <1>6, Zenon DEF Step
<1> HIDE DEF up
<1>8. up[0] = [prev_pos |-> 1, parts |-> <<>>] /\ \A i \in 1..n : up[i] = Step(up[i - 1], i)
  BY <1>1, <1>7
<1>9. \A i \in 0..n : up[i] \in V
  <2>1. up[0] \in V
    BY <1>1, <1>8
  <2>2. \A i \in 1..n : up[i - 1] \in V => up[i] \in V
    BY <1>2, <1>8
  <2> QED BY <1>1, <2>1, <2>2, Typed, Zenon
<1>10. up \in [0..n -> V]
  BY <1>7, <1>9
<1> QED BY <1>3, <1>8, <1>10, Zenon DEF n, V, Step

\* A part that ends in front of the next delimiter has none in it.
LEMMA PartHasNone ==
  ASSUME NEW s \in Seq(Nat), NEW d \in Seq(Nat), NEW m \in Nat, NEW n \in Nat,
         1 <= m, m <= n + 1, n <= Len(s),
         \A i \in Nat : i >= m /\ i + Len(d) <= n + 1 => ~OccursAt(s, d, i)
  PROVE  O!Find(SubSeq(s, m, n), d, 1) = 0
<1> DEFINE x == SubSeq(s, m, n)
<1>1. Len(s) \in Nat /\ Len(d) \in Nat
  BY LenProperties
<1>2. x \in Seq(Nat) /\ Len(x) = n - m + 1 /\ \A i \in 1..n - m + 1 : x[i] = s[m + i - 1]
  <2>1. m \in Int /\ n \in Int /\ m >= 1 /\ n <= Len(s)
    BY <1>1
  <2>2. /\ x \in Seq(Nat) /\ Len(x) = IF m <= n THEN n - m + 1 ELSE 0
        /\ \A i \in 1..n - m + 1 : x[i] = s[m + i - 1]
    BY <2>1, PartIs, Zenon
  <2> HIDE DEF x
  <2> QED BY <2>1, <2>2
<1> HIDE DEF x
<1>3. ASSUME NEW i \in Nat, i >= 1, OccursAt(x, d, i) PROVE FALSE
  <2> DEFINE k == m + i - 1
  <2>1. i + Len(d) <= n - m + 1 + 1
    BY <1>2, <1>3 DEF OccursAt
  <2>2. k \in Nat /\ k >= m /\ k + Len(d) <= n + 1 /\ k + Len(d) <= Len(s) + 1
    BY <1>1, <1>3, <2>1
  <2>3. ASSUME NEW j \in 1..Len(d) PROVE s[k + j - 1] = d[j]
    <3>1. x[i + j - 1] = d[j]
      BY <1>3 DEF OccursAt
    <3>2. i + j - 1 \in 1..n - m + 1 /\ m + (i + j - 1) - 1 = k + j - 1
      BY <1>1, <1>3, <2>1
    <3>3. x[i + j - 1] = s[m + (i + j - 1) - 1]
      BY <1>2, <3>2
    <3> QED BY <3>1, <3>2, <3>3
  <2> HIDE DEF k
  <2>4. OccursAt(s, d, k)
    BY <2>2, <2>3 DEF OccursAt
  <2> QED BY <2>2, <2>4
<1>4. O!Find(x, d, 1) = 0 <=> \A i \in Nat : i >= 1 => ~OccursAt(x, d, i)
  <2>1. 1 \in Nat /\ 1 >= 1
    OBVIOUS
  <2> QED BY <1>2, <2>1, FindIs, Zenon
<1>5. O!Find(x, d, 1) = 0
  BY <1>3, <1>4
<1> QED BY <1>5 DEF x

\* A delimiter that occurs is a part.
LEMMA OccursIsPart ==
  ASSUME NEW s \in Seq(Nat), NEW d \in Seq(Nat), NEW pos \in Nat \ {0}, OccursAt(s, d, pos)
  PROVE  SubSeq(s, pos, pos + Len(d) - 1) = d
<1> DEFINE n == pos + Len(d) - 1
           x == SubSeq(s, pos, n)
<1>1. Len(s) \in Nat /\ Len(d) \in Nat
  BY LenProperties
<1>2. pos \in Int /\ n \in Int /\ pos >= 1 /\ n <= Len(s) /\ n - pos + 1 = Len(d)
      /\ \A k \in 1..Len(d) : s[pos + k - 1] = d[k]
  BY <1>1 DEF OccursAt
<1> HIDE DEF n
<1>3. /\ x \in Seq(Nat) /\ Len(x) = IF pos <= n THEN n - pos + 1 ELSE 0
      /\ \A i \in 1..n - pos + 1 : x[i] = s[pos + i - 1]
  BY <1>2, PartIs, Zenon
<1> HIDE DEF x
<1>4. Len(x) = Len(d) /\ \A i \in 1..Len(x) : x[i] = d[i]
  <2>1. Len(x) = Len(d)
    BY <1>1, <1>2, <1>3
  <2> QED BY <1>2, <1>3, <2>1
<1>5. x = d
  BY <1>3, <1>4, SameString
<1> QED BY <1>5 DEF x, n

Front(parts, d) == IF parts = <<>> THEN <<>> ELSE O!Joined(parts, d) \o d

\* What split has done so far: its parts and the delimiters behind them are the
\* start of the text.
SplitRight(x, s, d) ==
  /\ x.prev_pos <= Len(s) + 1
  /\ Front(x.parts, d) = SubSeq(s, 1, x.prev_pos - 1)
  /\ \A j \in 1..Len(x.parts) : O!Find(x.parts[j], d, 1) = 0

\* A round of split keeps the invariant, and goes on if it found something.
LEMMA RoundKeeps ==
  ASSUME NEW s \in Seq(Nat), NEW d \in Seq(Nat), d # <<>>,
         NEW x \in [prev_pos : Nat \ {0}, parts : Seq(Seq(Nat))], SplitRight(x, s, d)
  PROVE  LET y == O!SplitRound(x, s, d)
         IN  SplitRight(y, s, d) /\ (O!Find(s, d, x.prev_pos) # 0 => y.prev_pos > x.prev_pos)
<1> DEFINE y == O!SplitRound(x, s, d)
           pos == O!Find(s, d, x.prev_pos)
           part == SubSeq(s, x.prev_pos, pos - 1)
           prev == x.prev_pos
           parts == x.parts
<1>1. Len(s) \in Nat /\ Len(d) \in Nat /\ Len(d) > 0 /\ prev \in Nat /\ prev >= 1 /\ parts \in Seq(Seq(Nat))
  <2>1. Len(d) # 0
    BY EmptySeq
  <2> QED BY <2>1, LenProperties
<1>2. /\ y \in [prev_pos : Nat \ {0}, parts : Seq(Seq(Nat))]
      /\ pos = 0 => y = x
      /\ pos # 0 => /\ y.prev_pos = pos + Len(d) /\ y.parts = Append(parts, part)
                    /\ pos \in Nat \ {0} /\ pos >= prev /\ pos + Len(d) <= Len(s) + 1
                    /\ part \in Seq(Nat)
  BY SplitRoundIs, Zenon
<1>3. pos # 0 => OccursAt(s, d, pos) /\ \A i \in Nat : i >= prev /\ i < pos => ~OccursAt(s, d, i)
  <2> HIDE DEF prev
  <2> QED BY <1>1, FindIs DEF prev
<1>4. Front(parts, d) = SubSeq(s, 1, prev - 1) /\ \A j \in 1..Len(parts) : O!Find(parts[j], d, 1) = 0
  BY DEF SplitRight
<1>5. CASE pos = 0
  <2> HIDE DEF y, pos
  <2> QED BY <1>2, <1>5 DEF y, pos
<1>6. CASE pos # 0
  <2> HIDE DEF y, pos, prev, parts
  <2>1. /\ y.prev_pos = pos + Len(d) /\ y.parts = Append(parts, part)
        /\ pos \in Nat \ {0} /\ pos >= prev /\ pos + Len(d) <= Len(s) + 1
        /\ part \in Seq(Nat) /\ OccursAt(s, d, pos)
        /\ \A i \in Nat : i >= prev /\ i < pos => ~OccursAt(s, d, i)
    BY <1>2, <1>3, <1>6
  <2>2. O!Find(part, d, 1) = 0
    <3>1. prev \in Nat /\ pos - 1 \in Nat /\ 1 <= prev /\ prev <= pos - 1 + 1 /\ pos - 1 <= Len(s)
      BY <1>1, <2>1
    <3>2. \A i \in Nat : i >= prev /\ i + Len(d) <= pos - 1 + 1 => ~OccursAt(s, d, i)
      BY <1>1, <2>1
    <3> DEFINE n == pos - 1
    <3>3. /\ n \in Nat /\ prev <= n + 1 /\ n <= Len(s)
          /\ \A i \in Nat : i >= prev /\ i + Len(d) <= n + 1 => ~OccursAt(s, d, i)
      BY <3>1, <3>2
    <3> HIDE DEF n
    <3>4. O!Find(SubSeq(s, prev, n), d, 1) = 0
      BY <3>1, <3>3, PartHasNone
    <3> QED BY <3>4 DEF n, prev
  <2>3. /\ SubSeq(s, 1, prev - 1) \o part = SubSeq(s, 1, pos - 1)
        /\ SubSeq(s, 1, prev - 1) \in Seq(Nat) /\ SubSeq(s, 1, pos - 1) \in Seq(Nat)
    <3> DEFINE n == pos - 1
    <3>1. prev \in Nat /\ n \in Nat /\ 1 <= prev /\ prev <= n + 1 /\ n <= Len(s)
      BY <1>1, <2>1
    <3> HIDE DEF n
    <3>2. /\ SubSeq(s, 1, prev - 1) \o SubSeq(s, prev, n) = SubSeq(s, 1, n)
          /\ SubSeq(s, 1, prev - 1) \in Seq(Nat) /\ SubSeq(s, 1, n) \in Seq(Nat)
      BY <3>1, GlueIs
    <3> QED BY <3>2 DEF n, prev
  <2> HIDE DEF part
  <2>4. O!Joined(Append(parts, part), d) = SubSeq(s, 1, pos - 1)
    <3>1. O!Joined(Append(parts, part), d) = Front(parts, d) \o part
      BY <1>1, <2>1, JoinedMore DEF Front
    <3> QED BY <1>4, <2>3, <3>1
  <2>5. SubSeq(s, 1, pos - 1) \o d = SubSeq(s, 1, y.prev_pos - 1)
    <3> DEFINE n == pos + Len(d) - 1
    <3>1. pos \in Nat /\ n \in Nat /\ 1 <= pos /\ pos <= n + 1 /\ n <= Len(s) /\ y.prev_pos - 1 = n
      BY <1>1, <2>1
    <3>2. SubSeq(s, pos, n) = d
      BY <2>1, OccursIsPart
    <3> HIDE DEF n
    <3>3. SubSeq(s, 1, pos - 1) \o SubSeq(s, pos, n) = SubSeq(s, 1, n)
      BY <3>1, GlueIs
    <3> QED BY <3>1, <3>2, <3>3
  <2>6. /\ Append(parts, part) # <<>> /\ Len(Append(parts, part)) = Len(parts) + 1
        /\ Append(parts, part)[Len(parts) + 1] = part
        /\ (\A j \in 1..Len(parts) : Append(parts, part)[j] = parts[j]) /\ Len(parts) \in Nat
    <3>1. /\ Append(parts, part) \in Seq(Seq(Nat)) /\ Len(Append(parts, part)) = Len(parts) + 1
          /\ Append(parts, part)[Len(parts) + 1] = part
          /\ (\A j \in 1..Len(parts) : Append(parts, part)[j] = parts[j])
      BY <1>1, <2>1, AppendProperties
    <3>2. Len(parts) \in Nat
      BY <1>1, LenProperties
    <3>3. Append(parts, part) # <<>>
      <4> DEFINE w == Append(parts, part)
      <4>1. w \in Seq(Seq(Nat)) /\ Len(w) # 0
        BY <3>1, <3>2
      <4> HIDE DEF w
      <4>2. w # <<>>
        BY <4>1, EmptySeq
      <4> QED BY <4>2 DEF w
    <3> QED BY <3>1, <3>2, <3>3
  <2>7. Front(y.parts, d) = SubSeq(s, 1, y.prev_pos - 1)
    BY <2>1, <2>4, <2>5, <2>6 DEF Front
  <2>8. \A j \in 1..Len(y.parts) : O!Find(y.parts[j], d, 1) = 0
    <3>1. ASSUME NEW j \in 1..Len(y.parts) PROVE O!Find(y.parts[j], d, 1) = 0
      <4>1. CASE j = Len(parts) + 1
        BY <2>1, <2>2, <2>6, <4>1
      <4>2. CASE j # Len(parts) + 1
        <5>1. j \in 1..Len(parts)
          BY <2>1, <2>6, <4>2
        <5> QED BY <1>4, <2>1, <2>6, <5>1
      <4> QED BY <4>1, <4>2
    <3> QED BY <3>1
  <2>9. y.prev_pos <= Len(s) + 1 /\ y.prev_pos > prev
    BY <1>1, <2>1
  <2>10. SplitRight(y, s, d)
    BY <2>7, <2>8, <2>9 DEF SplitRight
  <2> QED BY <2>9, <2>10 DEF y, prev
<1> QED BY <1>5, <1>6

\* The parts are the text, and no delimiter is left in them.
LEMMA SplitIs ==
  ASSUME NEW s \in Seq(Nat), NEW d \in Seq(Nat)
  PROVE  LET r == O!Split(s, d)
         IN  /\ O!Joined(r, d) = s
             /\ d # <<>> => \A i \in DOMAIN r : O!Find(r[i], d, 1) = 0
<1> DEFINE n == Len(s)
           r == O!Split(s, d)
<1>1. n \in Nat /\ Len(d) \in Nat /\ (s = <<>> <=> n = 0) /\ (d = <<>> <=> Len(d) = 0)
  BY LenProperties, EmptySeq
<1>2. PICK up \in [0..n -> [prev_pos : Nat \ {0}, parts : Seq(Seq(Nat))]] :
        /\ r = (IF s = <<>> \/ d = <<>> THEN <<s>> ELSE Append(up[n].parts, SubSeq(s, up[n].prev_pos, n)))
        /\ up[0] = [prev_pos |-> 1, parts |-> <<>>]
        /\ \A i \in 1..n : up[i] = O!SplitRound(up[i - 1], s, d)
  BY SplitUp
<1> HIDE DEF n, r
<1>3. CASE s = <<>> \/ d = <<>>
  <2>1. r = <<s>> /\ DOMAIN r = {1} /\ r[1] = s
    BY <1>2, <1>3
  <2>2. O!Joined(<<s>>, d) = s
    <3>1. <<>> \in Seq(Seq(Nat))
      BY EmptySeq
    <3>2. O!Joined(Append(<<>>, s), d) = <<>> \o s
      BY <3>1, JoinedMore
    <3>3. Append(<<>>, s) = <<s>> /\ <<>> \o s = s
      BY ConcatEmptySeq
    <3> QED BY <3>2, <3>3
  <2>3. ASSUME d # <<>> PROVE O!Find(s, d, 1) = 0
    <3>1. n = 0 /\ Len(d) > 0
      BY <1>1, <1>3, <2>3
    <3>2. 1 \in Nat /\ 1 >= 1
      OBVIOUS
    <3>3. O!Find(s, d, 1) = 0 <=> \A i \in Nat : i >= 1 => ~OccursAt(s, d, i)
      BY <3>2, FindIs, Zenon
    <3>4. \A i \in Nat : i >= 1 => ~OccursAt(s, d, i)
      BY <1>1, <3>1 DEF OccursAt, n
    <3> QED BY <3>3, <3>4
  <2> QED BY <2>1, <2>2, <2>3 DEF r
<1>4. CASE ~(s = <<>> \/ d = <<>>)
  <2>0. Len(d) > 0
    BY <1>1, <1>4
  <2> DEFINE D == {i \in 0..n : SplitRight(up[i], s, d) /\ (O!Find(s, d, up[i].prev_pos) = 0 \/ up[i].prev_pos > i)}
  <2>1. 0 \in D
    <3>1. up[0].prev_pos = 1 /\ up[0].parts = <<>> /\ Len(<<>>) = 0
      BY <1>2
    <3>2. SubSeq(s, 1, 1 - 1) = <<>>
      BY SubSeqEmpty
    <3>3. SplitRight(up[0], s, d)
      BY <1>1, <3>1, <3>2 DEF SplitRight, Front, n
    <3> QED BY <1>1, <3>1, <3>3
  <2>2. ASSUME NEW i \in 1..n, i - 1 \in D PROVE i \in D
    <3> DEFINE x == up[i - 1]
               y == up[i]
    <3>1. /\ y = O!SplitRound(x, s, d) /\ x \in [prev_pos : Nat \ {0}, parts : Seq(Seq(Nat))]
          /\ y \in [prev_pos : Nat \ {0}, parts : Seq(Seq(Nat))] /\ i \in 0..n
      <4>1. i - 1 \in 0..n /\ i \in 0..n
        BY <1>1
      <4> QED BY <1>2, <4>1
    <3>2. SplitRight(x, s, d) /\ (O!Find(s, d, x.prev_pos) = 0 \/ x.prev_pos > i - 1)
      BY <2>2
    <3> HIDE DEF x, y
    <3>3. SplitRight(y, s, d) /\ (O!Find(s, d, x.prev_pos) # 0 => y.prev_pos > x.prev_pos)
      BY <1>4, <3>1, <3>2, RoundKeeps
    <3>4. O!Find(s, d, x.prev_pos) = 0 => y = x
      BY <3>1, SplitRoundIs
    <3>5. O!Find(s, d, y.prev_pos) = 0 \/ y.prev_pos > i
      <4>1. x.prev_pos \in Nat /\ y.prev_pos \in Nat
        BY <3>1
      <4> QED BY <3>2, <3>3, <3>4, <4>1
    <3> QED BY <3>1, <3>3, <3>5 DEF y
  <2> HIDE DEF D
  <2>3. n \in D
    <3>1. \A i \in 0..n : i \in D
      BY <1>1, <2>1, <2>2, UpTo
    <3> QED BY <1>1, <3>1
  <2> DEFINE x == up[n]
             prev == x.prev_pos
             parts == x.parts
             final == SubSeq(s, prev, n)
  <2>4. x \in [prev_pos : Nat \ {0}, parts : Seq(Seq(Nat))]
    BY <1>1, <1>2
  <2>5. SplitRight(x, s, d) /\ (O!Find(s, d, prev) = 0 \/ prev > n)
    BY <2>3 DEF D
  <2>6. prev \in Nat /\ prev >= 1 /\ prev <= n + 1 /\ parts \in Seq(Seq(Nat))
        /\ Front(parts, d) = SubSeq(s, 1, prev - 1) /\ \A j \in 1..Len(parts) : O!Find(parts[j], d, 1) = 0
    BY <1>1, <2>4, <2>5 DEF SplitRight, n
  <2>7. r = Append(parts, final)
    BY <1>2, <1>4
  <2> HIDE DEF x, prev, parts
  <2>8. \A i \in Nat : i >= prev => ~OccursAt(s, d, i)
    <3>1. CASE O!Find(s, d, prev) = 0
      BY <2>6, <3>1, FindIs
    <3>2. CASE prev > n
      BY <1>1, <2>0, <2>6, <3>2 DEF OccursAt, n
    <3> QED BY <2>5, <3>1, <3>2 DEF prev
  <2>9. O!Find(final, d, 1) = 0
    <3>1. /\ 1 <= prev /\ n <= Len(s)
          /\ \A i \in Nat : i >= prev /\ i + Len(d) <= n + 1 => ~OccursAt(s, d, i)
      BY <1>1, <2>6, <2>8 DEF n
    <3> QED BY <1>1, <2>6, <3>1, PartHasNone
  <2>10. /\ SubSeq(s, 1, prev - 1) \o final = SubSeq(s, 1, n) /\ final \in Seq(Nat)
    <3>1. 1 <= prev /\ n <= Len(s)
      BY <1>1, <2>6 DEF n
    <3> QED BY <1>1, <2>6, <3>1, GlueIs
  <2>11. SubSeq(s, 1, n) = s
    BY SubSeqFull DEF n
  <2> HIDE DEF final
  <2>12. O!Joined(Append(parts, final), d) = s
    <3>1. O!Joined(Append(parts, final), d) = Front(parts, d) \o final
      BY <2>6, <2>10, JoinedMore DEF Front
    <3> QED BY <2>6, <2>10, <2>11, <3>1
  <2>13. /\ Len(Append(parts, final)) = Len(parts) + 1 /\ DOMAIN Append(parts, final) = 1..Len(parts) + 1
         /\ Append(parts, final)[Len(parts) + 1] = final
         /\ (\A j \in 1..Len(parts) : Append(parts, final)[j] = parts[j]) /\ Len(parts) \in Nat
    <3>1. Append(parts, final) \in Seq(Seq(Nat)) /\ Len(Append(parts, final)) = Len(parts) + 1
      BY <2>6, <2>10, AppendProperties
    <3> DEFINE w == Append(parts, final)
    <3>2. DOMAIN w = 1..Len(w)
      <4> HIDE DEF w
      <4> QED BY <3>1, LenProperties DEF w
    <3> QED BY <2>6, <2>10, <3>1, <3>2, AppendProperties, LenProperties
  <2>14. ASSUME NEW j \in DOMAIN r PROVE O!Find(r[j], d, 1) = 0
    <3>1. j \in 1..Len(parts) + 1
      BY <2>7, <2>13
    <3>2. CASE j = Len(parts) + 1
      BY <2>7, <2>9, <2>13, <3>2
    <3>3. CASE j # Len(parts) + 1
      <4>1. j \in 1..Len(parts)
        BY <2>13, <3>1, <3>3
      <4> QED BY <2>6, <2>7, <2>13, <4>1
    <3> QED BY <3>2, <3>3
  <2> QED BY <2>7, <2>12, <2>14 DEF r
<1> QED BY <1>3, <1>4
-----------------------------------------------------------------------------
(* Octets: digits as a number, and a number as digits.                     *)

\* One digit more.
LEMMA NumberInMore ==
  ASSUME NEW base \in Nat, NEW s \in Seq(Nat), NEW d \in Nat
  PROVE  /\ O!NumberIn(base, Append(s, d)) = O!NumberIn(base, s) * base + d
         /\ O!NumberIn(base, s) \in Nat
<1> DEFINE n == Len(s)
           w == Append(s, d)
<1>1. w \in Seq(Nat) /\ Len(w) = n + 1 /\ n \in Nat /\ w[n + 1] = d /\ \A i \in 1..n : w[i] = s[i]
  BY AppendProperties, LenProperties
<1>2. PICK f \in [0..n -> Nat] : O!NumberIn(base, s) = f[n] /\ f[0] = 0 /\ \A i \in 1..n : f[i] = f[i - 1] * base + s[i]
  BY NumberInUp
<1> HIDE DEF n, w
<1> DEFINE h == [i \in 0..n + 1 |-> IF i <= n THEN f[i] ELSE f[n] * base + d]
<1>3. h[0] = 0 /\ h[n + 1] = f[n] * base + d /\ h[n] = f[n]
  BY <1>1, <1>2
<1>4. ASSUME NEW i \in 1..n + 1 PROVE h[i] = h[i - 1] * base + w[i]
  <2>1. CASE i <= n
    <3>1. i \in 1..n /\ i - 1 \in 0..n /\ i - 1 <= n /\ i - 1 \in 0..n + 1 /\ i \in 0..n + 1
      BY <1>1, <2>1
    <3>2. h[i] = f[i] /\ h[i - 1] = f[i - 1]
      BY <2>1, <3>1
    <3> HIDE DEF h
    <3> QED BY <1>1, <1>2, <3>1, <3>2
  <2>2. CASE ~(i <= n)
    <3>1. i = n + 1 /\ (n + 1) - 1 = n
      BY <1>1, <2>2
    <3> HIDE DEF h
    <3> QED BY <1>1, <1>3, <3>1
  <2> QED BY <2>1, <2>2
<1> HIDE DEF h
<1>5. O!NumberIn(base, w) = h[Len(w)]
  <2>1. \A i \in 1..Len(w) : h[i] = h[i - 1] * base + w[i]
    BY <1>1, <1>4
  <2>2. w \in Seq(Nat) /\ h[0] = 0
    BY <1>1, <1>3
  <2> QED BY <2>1, <2>2, NumberInIs
<1>6. f[n] \in Nat
  BY <1>1, <1>2
<1> QED BY <1>1, <1>2, <1>3, <1>5, <1>6 DEF w

\* No digit is the number 0.
LEMMA NumberInNone ==
  ASSUME NEW base \in Nat
  PROVE  O!NumberIn(base, <<>>) = 0
<1>1. <<>> \in Seq(Nat) /\ Len(<<>>) = 0
  BY EmptySeq
<1>2. PICK f \in [0..Len(<<>>) -> Nat] : O!NumberIn(base, <<>>) = f[Len(<<>>)] /\ f[0] = 0
  BY <1>1, NumberInUp
<1> QED BY <1>1, <1>2

\* So many digits and their number tell which ones they are.
LEMMA NumberInTells ==
  ASSUME NEW base \in Nat \ {0}, NEW a \in Seq(0..base - 1), NEW b \in Seq(0..base - 1),
         Len(a) = Len(b), O!NumberIn(base, a) = O!NumberIn(base, b)
  PROVE  a = b
<1> DEFINE n == Len(a)
<1>1. /\ a \in Seq(Nat) /\ n \in Nat /\ \A i \in 1..n : a[i] \in 0..base - 1
      /\ b \in Seq(Nat) /\ n = Len(b) /\ \A i \in 1..n : b[i] \in 0..base - 1
  <2>1. 0..base - 1 \subseteq Nat
    OBVIOUS
  <2>2. a \in Seq(Nat) /\ b \in Seq(Nat)
    BY <2>1, SeqMonotonic
  <2> QED BY <2>2, LenProperties
<1>2. PICK f \in [0..n -> Nat] : O!NumberIn(base, a) = f[n] /\ f[0] = 0 /\ \A i \in 1..n : f[i] = f[i - 1] * base + a[i]
  BY <1>1, NumberInUp
<1>3. PICK g \in [0..n -> Nat] : O!NumberIn(base, b) = g[n] /\ g[0] = 0 /\ \A i \in 1..n : g[i] = g[i - 1] * base + b[i]
  <2>1. \E up \in [0..Len(b) -> Nat] :
          O!NumberIn(base, b) = up[Len(b)] /\ up[0] = 0 /\ \A i \in 1..Len(b) : up[i] = up[i - 1] * base + b[i]
    BY <1>1, NumberInUp
  <2>2. Len(b) = n
    BY <1>1
  <2> HIDE DEF n
  <2> QED BY <2>1, <2>2
<1> HIDE DEF n
<1>4. ASSUME NEW i \in 1..n, f[i] = g[i] PROVE a[i] = b[i] /\ f[i - 1] = g[i - 1]
  <2> DEFINE x == f[i - 1]
             y == g[i - 1]
             z == f[i]
  <2>1. x \in Nat /\ y \in Nat /\ z \in Nat
    <3>1. i - 1 \in 0..n /\ i \in 0..n
      BY <1>1
    <3> QED BY <1>2, <1>3, <3>1
  <2>2. z = x * base + a[i] /\ z = y * base + b[i] /\ a[i] \in 0..base - 1 /\ b[i] \in 0..base - 1
    BY <1>1, <1>2, <1>3, <1>4
  <2> HIDE DEF x, y, z
  <2>3. x * base = base * x /\ y * base = base * y
    BY <2>1
  <2>4. z \div base = x /\ z % base = a[i]
    <3>1. z = base * x + a[i] /\ x \in Int /\ z \in Int /\ a[i] \in 0..base - 1
      BY <2>1, <2>2, <2>3
    <3> QED BY <3>1, DivUnique
  <2>5. z \div base = y /\ z % base = b[i]
    <3>1. z = base * y + b[i] /\ y \in Int /\ z \in Int /\ b[i] \in 0..base - 1
      BY <2>1, <2>2, <2>3
    <3> QED BY <3>1, DivUnique
  <2> QED BY <2>4, <2>5 DEF x, y
<1> DEFINE D == {k \in 0..n : f[n - k] = g[n - k]}
<1>5. 0 \in D
  <2>1. f[n] = g[n]
    BY <1>2, <1>3
  <2>2. n - 0 = n /\ 0 \in 0..n
    BY <1>1
  <2> QED BY <2>1, <2>2
<1>6. ASSUME NEW k \in 1..n, k - 1 \in D PROVE k \in D
  <2>1. n - k + 1 \in 1..n /\ n - (k - 1) = n - k + 1 /\ (n - k + 1) - 1 = n - k /\ k \in 0..n
    BY <1>1
  <2>2. f[n - k + 1] = g[n - k + 1]
    BY <1>6, <2>1
  <2>3. f[(n - k + 1) - 1] = g[(n - k + 1) - 1]
    BY <1>4, <2>1, <2>2
  <2> QED BY <2>1, <2>3
<1> HIDE DEF D
<1>7. \A k \in 0..n : k \in D
  BY <1>1, <1>5, <1>6, UpTo
<1>8. ASSUME NEW i \in 1..n PROVE a[i] = b[i]
  <2>1. n - i \in 0..n /\ n - (n - i) = i
    BY <1>1
  <2>2. f[n - (n - i)] = g[n - (n - i)]
    BY <1>7, <2>1 DEF D
  <2> QED BY <1>4, <2>1, <2>2
<1> QED BY <1>1, <1>8, SameString DEF n

\* The first digits of a number are what is left when the others are divided off.
LEMMA NumberInFront ==
  ASSUME NEW base \in Nat \ {0}, NEW s \in Seq(0..base - 1), NEW k \in 0..Len(s)
  PROVE  /\ SubSeq(s, 1, k) \in Seq(0..base - 1) /\ Len(SubSeq(s, 1, k)) = k
         /\ O!NumberIn(base, SubSeq(s, 1, k)) = O!NumberIn(base, s) \div O!Power(base, Len(s) - k)
<1> DEFINE n == Len(s)
           a == SubSeq(s, 1, k)
           b == SubSeq(s, k + 1, n)
<1>1. s \in Seq(Nat) /\ n \in Nat /\ (\A i \in 1..n : s[i] \in 0..base - 1) /\ k \in Nat /\ k <= n
  <2>1. 0..base - 1 \subseteq Nat
    OBVIOUS
  <2>2. s \in Seq(Nat)
    BY <2>1, SeqMonotonic
  <2> QED BY <2>2, LenProperties
<1>2. a \in Seq(Nat) /\ Len(a) = k /\ \A i \in 1..k : a[i] = s[i]
  <2>1. 1 \in Int /\ k \in Int /\ 1 >= 1 /\ k <= Len(s) /\ k - 1 + 1 = k /\ \A i \in Int : 1 + i - 1 = i
    BY <1>1
  <2>2. /\ a \in Seq(Nat) /\ Len(a) = IF 1 <= k THEN k - 1 + 1 ELSE 0
        /\ \A i \in 1..k - 1 + 1 : a[i] = s[1 + i - 1]
    BY <1>1, <2>1, PartIs, Zenon
  <2> HIDE DEF a
  <2> QED BY <1>1, <2>1, <2>2
<1>3. b \in Seq(Nat) /\ Len(b) = n - k /\ \A i \in 1..n - k : b[i] = s[k + i]
  <2>1. k + 1 \in Int /\ n \in Int /\ k + 1 >= 1 /\ n <= Len(s) /\ n - (k + 1) + 1 = n - k /\ \A i \in Int : (k + 1) + i - 1 = k + i
    BY <1>1
  <2>2. /\ b \in Seq(Nat) /\ Len(b) = IF k + 1 <= n THEN n - (k + 1) + 1 ELSE 0
        /\ \A i \in 1..n - (k + 1) + 1 : b[i] = s[(k + 1) + i - 1]
    BY <1>1, <2>1, PartIs, Zenon
  <2> HIDE DEF b, n
  <2>3. Len(b) = n - k
    BY <1>1, <2>2
  <2>4. \A i \in 1..n - k : b[i] = s[k + i]
    <3>1. \A i \in 1..n - k : i \in Int /\ i \in 1..n - (k + 1) + 1
      BY <1>1
    <3> QED BY <2>1, <2>2, <3>1, Zenon
  <2> QED BY <2>2, <2>3, <2>4
<1>4. s = a \o b
  <2>1. k + 1 \in Nat /\ n \in Nat /\ 1 <= k + 1 /\ k + 1 <= n + 1 /\ n <= Len(s) /\ (k + 1) - 1 = k
    BY <1>1
  <2>2. SubSeq(s, 1, (k + 1) - 1) \o SubSeq(s, k + 1, n) = SubSeq(s, 1, n)
    BY <1>1, <2>1, GlueIs
  <2>3. SubSeq(s, 1, n) = s
    BY <1>1, SubSeqFull
  <2> QED BY <2>1, <2>2, <2>3
<1> HIDE DEF a, b
<1>5. a \in Seq(0..base - 1) /\ b \in Seq(0..base - 1)
  <2>1. \A i \in 1..k : a[i] \in 0..base - 1
    BY <1>1, <1>2
  <2>2. \A i \in 1..n - k : b[i] \in 0..base - 1
    <3>1. \A i \in 1..n - k : k + i \in 1..n
      BY <1>1
    <3> QED BY <1>1, <1>3, <3>1, Zenon
  <2>3. a = [i \in 1..k |-> a[i]]
    BY <1>2, LenProperties
  <2>4. b = [i \in 1..n - k |-> b[i]]
    BY <1>3, LenProperties
  <2>5. a \in [1..k -> 0..base - 1] /\ k \in Nat
    BY <1>1, <2>1, <2>3
  <2>6. a \in Seq(0..base - 1)
    BY <2>5, SeqDef
  <2> DEFINE m == n - k
  <2>7. m \in Nat
    BY <1>1
  <2>8. b \in [1..m -> 0..base - 1]
    BY <2>2, <2>4
  <2> HIDE DEF m
  <2>9. b \in Seq(0..base - 1)
    BY <2>7, <2>8, SeqDef
  <2> QED BY <2>6, <2>9
<1> DEFINE p == O!Power(base, n - k)
           x == O!NumberIn(base, a)
           y == O!NumberIn(base, b)
           z == O!NumberIn(base, s)
<1>6. y \in Nat /\ y < p /\ x \in Nat /\ z \in Nat
  <2>1. O!NumberIn(base, b) \in Nat /\ O!NumberIn(base, b) < O!Power(base, Len(b))
    BY <1>5, NumberInBound
  <2>2. x \in Nat /\ z \in Nat
    BY <1>5, NumberInBound
  <2> QED BY <1>3, <2>1, <2>2
<1>7. z = x * p + y
  <2>1. O!NumberIn(base, a \o b) = O!NumberIn(base, a) * O!Power(base, Len(b)) + O!NumberIn(base, b)
    BY <1>2, <1>3, NumberInTwo
  <2> QED BY <1>3, <1>4, <2>1
<1>8. p \in Nat \ {0}
  <2>1. n - k \in Nat
    BY <1>1
  <2> QED BY <2>1, PowerPositive
<1> HIDE DEF p, x, y, z
<1>9. z \div p = x
  <2>1. z = p * x + y /\ x \in Int /\ z \in Int /\ y \in 0..p - 1
    BY <1>6, <1>7, <1>8
  <2> QED BY <1>8, <2>1, DivUnique
<1> QED BY <1>2, <1>5, <1>9 DEF p, x, z, a, n

\* What a multiple leaves of a rest.
LEMMA RestOfRest ==
  ASSUME NEW x \in Nat, NEW m \in Nat \ {0}, NEW r \in Nat \ {0}
  PROVE  (x % (m * r)) % m = x % m
<1> DEFINE u == m * r
           q == x \div u
           y == x % u
           c == y \div m
           d == y % m
<1>1. u \in Nat \ {0} /\ x \in Int
  OBVIOUS
<1>2. x = u * q + y /\ y \in 0..u - 1 /\ q \in Int
  <2> HIDE DEF u
  <2> QED BY <1>1, DivIs, Zenon
<1> HIDE DEF q, y
<1>3. y = m * c + d /\ d \in 0..m - 1 /\ c \in Int
  <2>1. y \in Int
    BY <1>1, <1>2
  <2> QED BY <2>1, DivIs, Zenon
<1> HIDE DEF c, d
<1>4. x = m * (r * q + c) + d /\ r * q + c \in Int
  <2>1. (m * r) * q = m * (r * q) /\ r * q \in Int
    BY <1>2
  <2>2. m * (r * q + c) = m * (r * q) + m * c
    BY <1>3, <2>1
  <2>3. m * c \in Int /\ m * (r * q) \in Int
    BY <1>3, <2>1
  <2> QED BY <1>2, <1>3, <2>1, <2>2, <2>3
<1>5. x % m = d
  <2> DEFINE e == r * q + c
  <2>1. x = m * e + d /\ e \in Int
    BY <1>4
  <2> HIDE DEF e
  <2> QED BY <1>1, <1>3, <2>1, DivUnique
<1> QED BY <1>5 DEF d, y, u

\* Bits that come in behind those that wait.
LEMMA BitsIn ==
  ASSUME NEW v \in 0..O!UInt - 1, NEW a \in Nat, NEW w \in Nat, w + a <= WordBits, NEW b \in 0..O!Power(2, a) - 1
  PROVE  LET new == (v * O!Power(2, a) + b) % O!UInt
         IN  /\ new \in 0..O!UInt - 1
             /\ new % O!Power(2, w + a) = (v % O!Power(2, w)) * O!Power(2, a) + b
<1> DEFINE ap == O!Power(2, a)
           wp == O!Power(2, w)
           m == O!Power(2, w + a)
           rest == O!Power(2, WordBits - (w + a))
           x == v * ap + b
           q == v \div wp
           r == v % wp
<1>1. /\ ap \in Nat \ {0} /\ wp \in Nat \ {0} /\ m = wp * ap /\ rest \in Nat \ {0} /\ O!UInt = m * rest
      /\ m \in Nat \ {0} /\ O!UInt \in Nat \ {0}
  <2>1. WordBits - (w + a) \in Nat /\ (w + a) + (WordBits - (w + a)) = WordBits /\ w + a \in Nat
    BY WidthsAssumption
  <2>2. O!Power(2, (w + a) + (WordBits - (w + a))) = m * rest /\ m = wp * ap
    BY <2>1, PowerAdds
  <2> QED BY <2>1, <2>2, PowerPositive, OctetSizes DEF O!UInt
<1> HIDE DEF ap, wp, m, rest
<1>2. v \in Nat /\ b \in Nat /\ b < ap
  BY <1>1 DEF ap
<1>3. x \in Nat
  <2>1. v * ap \in Nat
    BY <1>1, <1>2
  <2> QED BY <1>2, <2>1
<1>4. v = wp * q + r /\ r \in 0..wp - 1 /\ q \in Int
  <2>1. v \in Int
    BY <1>2
  <2> QED BY <1>1, <2>1, DivIs, Zenon
<1> HIDE DEF q, r
<1> DEFINE low == r * ap + b
<1>5. low \in 0..m - 1
  <2>1. ap * ((wp - 1) - r) \in Nat
    <3>1. (wp - 1) - r \in Nat
      BY <1>1, <1>4
    <3> QED BY <1>1, <3>1
  <2>2. ap * ((wp - 1) - r) = (wp * ap - ap) - r * ap
    BY <1>1, <1>4
  <2>3. r * ap \in Nat
    <3>1. r \in Nat
      BY <1>1, <1>4
    <3> QED BY <1>1, <3>1
  <2> DEFINE c == r * ap
  <2>4. c \in Nat /\ (m - ap) - c \in Nat /\ low = c + b
    BY <1>1, <2>1, <2>2, <2>3
  <2> HIDE DEF c, low
  <2> QED BY <1>1, <1>2, <2>4
<1>6. x = m * q + low
  <2>1. (wp * q + r) * ap = (wp * ap) * q + r * ap
    BY <1>1, <1>4
  <2>2. (wp * ap) * q \in Int /\ r * ap \in Int
    BY <1>1, <1>4
  <2> QED BY <1>1, <1>2, <1>4, <2>1, <2>2
<1> HIDE DEF x, low
<1>7. x % m = low
  <2>1. x \in Int
    BY <1>3
  <2> QED BY <1>1, <1>4, <1>5, <1>6, <2>1, DivUnique
<1>8. (x % O!UInt) % m = x % m
  BY <1>1, <1>3, RestOfRest
<1>9. x % O!UInt \in 0..O!UInt - 1
  <2>1. x \in Int
    BY <1>3
  <2> QED BY <1>1, <2>1, DivIs, Zenon
<1> QED BY <1>7, <1>8, <1>9 DEF x, low, r, ap, wp, m

\* Bits that go out in front of those that wait.
LEMMA BitsOut ==
  ASSUME NEW x \in Nat, NEW a \in Nat, NEW w \in Nat
  PROVE  LET d == (x \div O!Power(2, w)) % O!Power(2, a)
         IN  /\ x % O!Power(2, a + w) = d * O!Power(2, w) + (x % O!Power(2, w))
             /\ d \in 0..O!Power(2, a) - 1 /\ x % O!Power(2, w) \in 0..O!Power(2, w) - 1
<1> DEFINE ap == O!Power(2, a)
           wp == O!Power(2, w)
           m == O!Power(2, a + w)
           q == x \div wp
           r == x % wp
           c == q \div ap
           d == q % ap
<1>1. ap \in Nat \ {0} /\ wp \in Nat \ {0} /\ m = ap * wp /\ m \in Nat \ {0}
  <2>1. a + w \in Nat
    OBVIOUS
  <2> QED BY <2>1, PowerAdds, PowerPositive
<1> HIDE DEF ap, wp, m
<1>2. x = wp * q + r /\ r \in 0..wp - 1 /\ q \in Int
  <2>1. x \in Int
    OBVIOUS
  <2> QED BY <1>1, <2>1, DivIs, Zenon
<1> HIDE DEF q, r
<1>3. q = ap * c + d /\ d \in 0..ap - 1 /\ c \in Int
  BY <1>1, <1>2, DivIs, Zenon
<1> HIDE DEF c, d
<1> DEFINE low == d * wp + r
<1>4. low \in 0..m - 1
  <2>1. wp * ((ap - 1) - d) \in Nat
    <3>1. (ap - 1) - d \in Nat
      BY <1>1, <1>3
    <3> QED BY <1>1, <3>1
  <2>2. wp * ((ap - 1) - d) = (ap * wp - wp) - d * wp
    BY <1>1, <1>3
  <2>3. d * wp \in Nat
    <3>1. d \in Nat
      BY <1>1, <1>3
    <3> QED BY <1>1, <3>1
  <2> DEFINE e == d * wp
  <2>4. e \in Nat /\ (m - wp) - e \in Nat /\ low = e + r
    BY <1>1, <2>1, <2>2, <2>3
  <2> HIDE DEF e, low
  <2> QED BY <1>1, <1>2, <2>4
<1>5. x = m * c + low
  <2>1. wp * (ap * c + d) = (ap * wp) * c + d * wp
    BY <1>1, <1>3
  <2>2. (ap * wp) * c \in Int /\ d * wp \in Int
    BY <1>1, <1>3
  <2> QED BY <1>1, <1>2, <1>3, <2>1, <2>2
<1> HIDE DEF low
<1>6. x % m = low
  <2>1. x \in Int
    OBVIOUS
  <2> QED BY <1>1, <1>3, <1>4, <1>5, <2>1, DivUnique
<1> QED BY <1>2, <1>3, <1>6 DEF low, r, d, q, ap, wp, m
-----------------------------------------------------------------------------
(* Octets: hexadecimal.                                                    *)

\* One character behind the others.
LEMMA OneMore ==
  ASSUME NEW s \in Seq(Nat), NEW c \in Nat
  PROVE  /\ Append(s, c) \in Seq(Nat) /\ Append(s, c) = s \o <<c>> /\ <<c>> \in Seq(Nat)
         /\ Len(Append(s, c)) = Len(s) + 1 /\ Len(s) \in Nat
         /\ Append(s, c)[Len(s) + 1] = c /\ \A i \in 1..Len(s) : Append(s, c)[i] = s[i]
<1>1. /\ Append(s, c) \in Seq(Nat) /\ Len(Append(s, c)) = Len(s) + 1 /\ Len(s) \in Nat
      /\ Append(s, c)[Len(s) + 1] = c /\ \A i \in 1..Len(s) : Append(s, c)[i] = s[i]
  BY AppendProperties, LenProperties
<1>2. Append(s, c) = s \o <<c>> /\ <<c>> \in Seq(Nat)
  BY AppendIsConcat
<1> QED BY <1>1, <1>2

\* The start of a text, character by character.
LEMMA StartOf ==
  ASSUME NEW s \in Seq(Nat)
  PROVE  /\ SubSeq(s, 1, 0) = <<>> /\ SubSeq(s, 1, Len(s)) = s
         /\ \A i \in 1..Len(s) : Append(SubSeq(s, 1, i - 1), s[i]) = SubSeq(s, 1, i)
<1>1. SubSeq(s, 1, 0) = <<>>
  BY SubSeqEmpty
<1>2. SubSeq(s, 1, Len(s)) = s
  BY SubSeqFull
<1>3. ASSUME NEW i \in 1..Len(s) PROVE Append(SubSeq(s, 1, i - 1), s[i]) = SubSeq(s, 1, i)
  <2>1. Len(s) \in Nat /\ s[i] \in Nat /\ 1 \in 1..Len(s) /\ i \in 1..Len(s)
    BY LenProperties
  <2>2. SubSeq(s, 1, i) = SubSeq(s, 1, i - 1) \o <<s[i]>>
    BY <2>1, SubSeqRecursiveSecond
  <2>3. SubSeq(s, 1, i - 1) \in Seq(Nat)
    <3>1. 1 \in Int /\ i - 1 \in Int /\ i - 1 <= Len(s) /\ 1 >= 1
      BY <2>1
    <3> QED BY <3>1, PartIs
  <2> QED BY <2>1, <2>2, <2>3, OneMore
<1> QED BY <1>1, <1>2, <1>3

\* What stands in front of an end is a start.
LEMMA FrontIs ==
  ASSUME NEW s \in Seq(Nat), NEW t \in Seq(Nat)
  PROVE  SubSeq(s \o t, 1, Len(s)) = s
<1> DEFINE w == s \o t
           a == SubSeq(w, 1, Len(s))
<1>1. w \in Seq(Nat) /\ Len(w) = Len(s) + Len(t) /\ Len(s) \in Nat /\ Len(t) \in Nat /\ \A i \in 1..Len(s) : w[i] = s[i]
  BY TwoParts
<1> HIDE DEF w
<1>2. Len(s) <= Len(w)
  BY <1>1
<1>3. SubSeq(w, 1, Len(s)) = SubSeq(s, 1, Len(s)) <=> \A j \in 1..Len(s) : w[j] = s[j]
  BY <1>1, <1>2, SameStart
<1> QED BY <1>1, <1>3, SubSeqFull DEF w

\* An octet more is two digits more.
LEMMA HexlifyMore ==
  ASSUME NEW s \in O!OctetStrings, NEW v \in 0..O!Octet - 1
  PROVE  /\ Append(s, v) \in O!OctetStrings
         /\ O!Hexlify(Append(s, v)) = O!Hexlify(s) \o <<v \div O!HexBase, v % O!HexBase>>
<1> DEFINE n == Len(s)
           w == Append(s, v)
           q == v \div O!HexBase
           r == v % O!HexBase
           t == <<q, r>>
           a == O!Hexlify(w)
           b == O!Hexlify(s) \o t
<1>1. w \in O!OctetStrings /\ Len(w) = n + 1 /\ n \in Nat /\ w[n + 1] = v /\ \A i \in 1..n : w[i] = s[i]
  BY AppendProperties, LenProperties DEF O!OctetStrings
<1>2. q \in Nat /\ r \in Nat
  <2>1. v \in Nat
    BY OctetSizes
  <2> QED BY <2>1, HexDigits
<1> HIDE DEF q, r
<1>3. t \in Seq(Nat) /\ Len(t) = 2 /\ t[1] = q /\ t[2] = r
  BY <1>2
<1>4. /\ O!Hexlify(s) \in Seq(Nat) /\ Len(O!Hexlify(s)) = 2 * n
      /\ \A i \in 1..n : O!Hexlify(s)[2 * i - 1] = s[i] \div O!HexBase /\ O!Hexlify(s)[2 * i] = s[i] % O!HexBase
  BY HexlifyIs
<1>5. /\ a \in Seq(Nat) /\ Len(a) = 2 * (n + 1)
      /\ \A i \in 1..n + 1 : a[2 * i - 1] = w[i] \div O!HexBase /\ a[2 * i] = w[i] % O!HexBase
  <2> HIDE DEF w, n
  <2>1. /\ a \in Seq(Nat) /\ Len(a) = 2 * Len(w)
        /\ \A i \in 1..Len(w) : a[2 * i - 1] = w[i] \div O!HexBase /\ a[2 * i] = w[i] % O!HexBase
    BY <1>1, HexlifyIs
  <2> HIDE DEF a
  <2> QED BY <1>1, <2>1
<1> HIDE DEF n, w, t, a
<1>6. /\ b \in Seq(Nat) /\ Len(b) = 2 * n + 2
      /\ \A i \in 1..2 * n : b[i] = O!Hexlify(s)[i]
      /\ b[2 * n + 1] = q /\ b[2 * n + 2] = r
  <2>1. /\ b \in Seq(Nat) /\ Len(b) = Len(O!Hexlify(s)) + Len(t)
        /\ \A i \in 1..Len(O!Hexlify(s)) : b[i] = O!Hexlify(s)[i]
        /\ \A i \in 1..Len(t) : b[Len(O!Hexlify(s)) + i] = t[i]
    BY <1>3, <1>4, TwoParts
  <2> DEFINE x == O!Hexlify(s)
  <2> HIDE DEF b, x
  <2>2. Len(x) = 2 * n /\ Len(b) = Len(x) + Len(t) /\ \A i \in 1..Len(t) : b[Len(x) + i] = t[i]
    BY <1>4, <2>1 DEF x
  <2>3. b[Len(x) + 1] = t[1] /\ b[Len(x) + 2] = t[2]
    BY <1>3, <2>2
  <2> QED BY <1>3, <1>4, <2>1, <2>2, <2>3 DEF x
<1> HIDE DEF b
<1>7. ASSUME NEW i \in 1..n + 1 PROVE a[2 * i - 1] = b[2 * i - 1] /\ a[2 * i] = b[2 * i]
  <2>1. CASE i <= n
    <3>1. i \in 1..n /\ 2 * i - 1 \in 1..2 * n /\ 2 * i \in 1..2 * n
      BY <1>1, <2>1
    <3> QED BY <1>1, <1>4, <1>5, <1>6, <3>1
  <2>2. CASE ~(i <= n)
    <3>1. i = n + 1 /\ 2 * i - 1 = 2 * n + 1 /\ 2 * i = 2 * n + 2
      BY <1>1, <2>2
    <3>2. a[2 * i - 1] = w[i] \div O!HexBase /\ a[2 * i] = w[i] % O!HexBase /\ w[i] = v
      BY <1>1, <1>5, <3>1
    <3> QED BY <1>6, <3>1, <3>2 DEF q, r
  <2> QED BY <2>1, <2>2
<1>8. a = b
  <2>1. ASSUME NEW j \in 1..Len(a) PROVE a[j] = b[j]
    <3>1. CASE j % 2 = 1
      <4> DEFINE i == (j \div 2) + 1
      <4>1. i \in 1..n + 1 /\ j = 2 * i - 1
        <5>1. j \in 1..2 * (n + 1)
          BY <1>5
        <5>2. j = 2 * (j \div 2) + 1 /\ j \div 2 \in Int
          BY <1>1, <3>1, <5>1
        <5> QED BY <1>1, <5>1, <5>2
      <4> HIDE DEF i
      <4> QED BY <1>7, <4>1
    <3>2. CASE j % 2 # 1
      <4> DEFINE i == j \div 2
      <4>1. i \in 1..n + 1 /\ j = 2 * i
        BY <1>1, <1>5, <3>2
      <4> HIDE DEF i
      <4> QED BY <1>7, <4>1
    <3> QED BY <3>1, <3>2
  <2>2. Len(a) = Len(b)
    BY <1>1, <1>5, <1>6
  <2> QED BY <1>5, <1>6, <2>1, <2>2, SameString
<1> QED BY <1>1, <1>8 DEF a, b, w, t, q, r

\* What is printed tells which octets they are.
LEMMA HexlifyTells ==
  ASSUME NEW s \in O!OctetStrings, NEW u \in O!OctetStrings, O!Hexlify(s) = O!Hexlify(u)
  PROVE  s = u
<1> DEFINE a == O!Hexlify(s)
<1>1. /\ Len(a) = 2 * Len(s) /\ Len(s) \in Nat
      /\ \A i \in 1..Len(s) : a[2 * i - 1] = s[i] \div O!HexBase /\ a[2 * i] = s[i] % O!HexBase
  BY HexlifyIs
<1>2. /\ Len(a) = 2 * Len(u) /\ Len(u) \in Nat
      /\ \A i \in 1..Len(u) : a[2 * i - 1] = u[i] \div O!HexBase /\ a[2 * i] = u[i] % O!HexBase
  BY HexlifyIs
<1> HIDE DEF a
<1>3. Len(s) = Len(u)
  BY <1>1, <1>2
<1>4. ASSUME NEW i \in 1..Len(s) PROVE s[i] = u[i]
  <2>1. s[i] \in Nat /\ u[i] \in Nat
    BY <1>3, StringsAreTexts, LenProperties
  <2>2. s[i] = O!HexBase * (s[i] \div O!HexBase) + (s[i] % O!HexBase)
    BY <2>1, HexDigits
  <2>3. u[i] = O!HexBase * (u[i] \div O!HexBase) + (u[i] % O!HexBase)
    BY <2>1, HexDigits
  <2>4. s[i] \div O!HexBase = u[i] \div O!HexBase /\ s[i] % O!HexBase = u[i] % O!HexBase
    BY <1>1, <1>2, <1>3
  <2> QED BY <2>2, <2>3, <2>4
<1> QED BY <1>3, <1>4, SameString, StringsAreTexts

\* A character is no digit, or its value is that of its capital.
LEMMA TmapIs ==
  ASSUME NEW c \in Nat
  PROVE  /\ O!ToUpper(c) \in Nat
         /\ O!Tmap(c) = -1 \/ (O!Tmap(c) = O!ToUpper(c) /\ O!Tmap(c) \in 0..O!HexBase - 1)
         /\ c < O!HexBase => O!ToUpper(c) = c /\ O!Tmap(c) # -1
<1>1. O!HexBase \in Nat \ {0}
  BY OctetSizes
<1>2. CASE c < O!HexBase
  <2>1. c = O!HexBase * 0 + c /\ c \in 0..O!HexBase - 1 /\ c \in Int /\ 0 \in Int
    BY <1>1, <1>2
  <2>2. c % O!HexBase = c
    BY <1>1, <2>1, DivUnique
  <2> QED BY <1>1, <1>2, <2>2 DEF O!Tmap, O!ToUpper
<1>3. CASE c >= O!HexBase /\ c < 2 * O!HexBase
  <2> DEFINE d == c - O!HexBase
  <2>1. c = O!HexBase * 1 + d /\ d \in 0..O!HexBase - 1 /\ c \in Int /\ 1 \in Int
    BY <1>1, <1>3
  <2> HIDE DEF d
  <2>2. c % O!HexBase = d
    BY <1>1, <2>1, DivUnique
  <2> QED BY <1>1, <1>3, <2>1, <2>2 DEF O!Tmap, O!ToUpper, d
<1>4. CASE c >= 2 * O!HexBase
  BY <1>1, <1>4 DEF O!Tmap, O!ToUpper
<1> QED BY <1>1, <1>2, <1>3, <1>4

\* Character by character.
LEMMA CapitalsUp ==
  ASSUME NEW s \in Seq(Nat)
  PROVE  \E up \in [0..Len(s) -> Seq(Nat)] :
           O!CapitalsOf(s) = up[Len(s)] /\ up[0] = <<>> /\ \A i \in 1..Len(s) : up[i] = IF O!Tmap(s[i]) = -1 THEN up[i - 1] ELSE Append(up[i - 1], O!ToUpper(s[i]))
<1> DEFINE n == Len(s)
           V == Seq(Nat)
           Step(x, i) == IF O!Tmap(s[i]) = -1 THEN x ELSE Append(x, O!ToUpper(s[i]))
           g == [i \in 1..n |-> [x \in V |-> Step(x, i)]]
           up == CHOOSE upTo : upTo = [i \in 0..n |-> IF i = 0 THEN <<>> ELSE IF O!Tmap(s[i]) = -1 THEN upTo[i - 1] ELSE Append(upTo[i - 1], O!ToUpper(s[i]))]
<1>1. n \in Nat /\ <<>> \in V
  BY LenProperties, EmptySeq
<1>2. \A i \in 1..n, x \in V : Step(x, i) \in V
  <2>1. ASSUME NEW i \in 1..Len(s), NEW x \in Seq(Nat) PROVE Step(x, i) \in Seq(Nat)
    <3>1. s[i] \in Nat
      BY LenProperties
    <3>2. O!ToUpper(s[i]) \in Nat
      BY <3>1, TmapIs
    <3> QED BY <3>2, OneMore
  <2> QED BY <2>1
<1>3. O!CapitalsOf(s) = up[Len(s)]
  BY Zenon DEF O!CapitalsOf
<1> HIDE DEF n, V, Step
<1>4. g \in [1..n -> [V -> V]] /\ \A i \in 1..n, x \in V : g[i][x] = Step(x, i)
  BY <1>2
<1> HIDE DEF g
<1>5. PICK f : f \in Iterations(V, n, <<>>, g)
  BY <1>1, <1>4, Iterated, Zenon
<1>6. f = [i \in 0..n |-> IF i = 0 THEN <<>> ELSE Step(f[i - 1], i)]
  <2>1. f \in [0..n -> V] /\ f[0] = <<>> /\ \A i \in 1..n : f[i] = g[i][f[i - 1]]
    BY <1>5 DEF Iterations
  <2>2. \A i \in 1..n : f[i] = Step(f[i - 1], i)
    BY <1>1, <1>4, <2>1
  <2> QED BY <1>1, <2>1, <2>2
<1>7. up = [i \in 0..n |-> IF i = 0 THEN <<>> ELSE Step(up[i - 1], i)]
  BY <1>6, Zenon DEF Step
<1> HIDE DEF up
<1>8. up[0] = <<>> /\ \A i \in 1..n : up[i] = Step(up[i - 1], i)
  BY <1>1, <1>7
<1>9. \A i \in 0..n : up[i] \in V
  <2>1. up[0] \in V
    BY <1>1, <1>8
  <2>2. \A i \in 1..n : up[i - 1] \in V => up[i] \in V
    BY <1>2, <1>8
  <2> QED BY <1>1, <2>1, <2>2, Typed, Zenon
<1>10. up \in [0..n -> V]
  BY <1>7, <1>9
<1> QED BY <1>3, <1>8, <1>10, Zenon DEF n, V, Step

Unhexing == [value : 0..O!Octet - 1, even : BOOLEAN, bin : O!OctetStrings]
NothingRead == [value |-> 0, even |-> TRUE, bin |-> <<>>]

\* unhexlify before its loop.
LEMMA NothingReadIs ==
  /\ NothingRead \in Unhexing
  /\ NothingRead.even = TRUE /\ NothingRead.bin = <<>>
BY EmptySeq, OctetSizes DEF Unhexing, O!OctetStrings, NothingRead

\* The digits that were read: those of whole octets, and one that waits.
DigitsRead(x) == O!Hexlify(x.bin) \o (IF x.even THEN <<>> ELSE <<x.value % O!HexBase>>)

\* A round of unhexlify: a digit more, or as many as before.
LEMMA UnhexRound ==
  ASSUME NEW x \in Unhexing, NEW c \in Nat
  PROVE  /\ O!UnhexDigit(x, c) \in Unhexing /\ DigitsRead(x) \in Seq(Nat)
         /\ DigitsRead(O!UnhexDigit(x, c)) = IF O!Tmap(c) = -1 THEN DigitsRead(x) ELSE Append(DigitsRead(x), O!ToUpper(c))
<1> DEFINE v == x.value
           bin == x.bin
           h == O!Hexlify(bin)
           q == v \div O!HexBase
           r == v % O!HexBase
<1>1. v \in 0..O!Octet - 1 /\ v \in Nat /\ x.even \in BOOLEAN /\ bin \in O!OctetStrings
  BY OctetSizes DEF Unhexing
<1>2. O!HexBase \in Nat \ {0} /\ O!Octet = O!HexBase * O!HexBase /\ O!Octet \in Nat \ {0}
  BY OctetSizes, Widths
<1>3. h \in Seq(Nat)
  BY <1>1, HexlifyIs
<1>4. v = O!HexBase * q + r /\ q \in Nat /\ r \in 0..O!HexBase - 1 /\ r \in Nat
  BY <1>1, HexDigits
<1>5. DigitsRead(x) = (IF x.even THEN h ELSE Append(h, r)) /\ DigitsRead(x) \in Seq(Nat)
  <2>1. h \o <<>> = h
    BY <1>3, ConcatEmptySeq
  <2>2. Append(h, r) = h \o <<r>> /\ Append(h, r) \in Seq(Nat)
    BY <1>3, <1>4, OneMore
  <2>3. DigitsRead(x) = h \o (IF x.even THEN <<>> ELSE <<r>>)
    BY DEF DigitsRead
  <2> HIDE DEF h, r
  <2> QED BY <1>1, <1>3, <2>1, <2>2, <2>3
<1>6. CASE O!Tmap(c) = -1
  <2>1. O!UnhexDigit(x, c) = x
    BY <1>6 DEF O!UnhexDigit
  <2> QED BY <1>5, <1>6, <2>1
<1>7. CASE O!Tmap(c) # -1
  <2> DEFINE d == O!Tmap(c)
             m == v * O!HexBase + d
             value == m % O!Octet
             y == [value |-> value, even |-> ~x.even, bin |-> IF x.even THEN bin ELSE Append(bin, value)]
  <2>1. d = O!ToUpper(c) /\ d \in 0..O!HexBase - 1 /\ d \in Nat
    BY <1>2, <1>7, TmapIs
  <2>2. O!UnhexDigit(x, c) = y
    BY <1>7 DEF O!UnhexDigit
  <2> DEFINE low == O!HexBase * r + d
  <2>3. low \in 0..O!Octet - 1
    <3>1. O!HexBase * ((O!HexBase - 1) - r) \in Nat
      <4>1. (O!HexBase - 1) - r \in Nat
        BY <1>2, <1>4
      <4> QED BY <1>2, <4>1
    <3>2. O!HexBase * ((O!HexBase - 1) - r) = (O!HexBase * O!HexBase - O!HexBase) - O!HexBase * r
      BY <1>2, <1>4
    <3>3. O!HexBase * r \in Nat
      BY <1>2, <1>4
    <3> DEFINE e == O!HexBase * r
    <3>4. e \in Nat /\ (O!Octet - O!HexBase) - e \in Nat /\ low = e + d
      BY <1>2, <3>1, <3>2, <3>3
    <3> HIDE DEF e, low, d
    <3> QED BY <1>2, <2>1, <3>4
  <2>4. m = O!Octet * q + low
    <3>1. (O!HexBase * q + r) * O!HexBase = (O!HexBase * O!HexBase) * q + O!HexBase * r
      BY <1>2, <1>4
    <3>2. (O!HexBase * O!HexBase) * q \in Nat /\ O!HexBase * r \in Nat
      BY <1>2, <1>4
    <3> HIDE DEF d, q, r
    <3> QED BY <1>2, <1>4, <2>1, <3>1, <3>2
  <2> HIDE DEF d, m, q, r
  <2>5. value = low
    <3>1. m \in Int /\ q \in Int
      <4>1. v * O!HexBase \in Nat
        BY <1>1, <1>2
      <4> QED BY <1>4, <2>1, <4>1 DEF m
    <3> HIDE DEF low
    <3> QED BY <1>2, <2>3, <2>4, <3>1, DivUnique
  <2>6. value \div O!HexBase = r /\ value % O!HexBase = d
    <3>1. value = O!HexBase * r + d /\ value \in Int /\ r \in Int
      BY <1>4, <2>1, <2>3, <2>5, OctetSizes
    <3> HIDE DEF value
    <3> QED BY <1>2, <2>1, <3>1, DivUnique
  <2>7. value \in 0..O!Octet - 1
    BY <2>3, <2>5
  <2> HIDE DEF value, low
  <2>8. CASE x.even
    <3>1. y = [value |-> value, even |-> FALSE, bin |-> bin]
      BY <2>8
    <3>2. y \in Unhexing
      BY <1>1, <2>7, <3>1 DEF Unhexing
    <3>3. DigitsRead(y) = h \o <<value % O!HexBase>>
      BY <3>1 DEF DigitsRead
    <3>4. Append(h, d) = h \o <<d>>
      BY <1>3, <2>1, OneMore
    <3> QED BY <1>5, <1>7, <2>1, <2>2, <2>6, <2>8, <3>2, <3>3, <3>4
  <2>9. CASE ~x.even
    <3>1. y = [value |-> value, even |-> TRUE, bin |-> Append(bin, value)]
      BY <2>9
    <3>2. /\ Append(bin, value) \in O!OctetStrings
          /\ O!Hexlify(Append(bin, value)) = h \o <<value \div O!HexBase, value % O!HexBase>>
      BY <1>1, <2>7, HexlifyMore
    <3>3. y \in Unhexing
      BY <2>7, <3>1, <3>2 DEF Unhexing
    <3>4. DigitsRead(y) = (h \o <<r, d>>) \o <<>>
      BY <2>6, <3>1, <3>2 DEF DigitsRead
    <3>5. (h \o <<r, d>>) \o <<>> = h \o <<r, d>>
      <4>1. <<r, d>> \in Seq(Nat)
        BY <1>4, <2>1
      <4>2. h \o <<r, d>> \in Seq(Nat)
        BY <1>3, <4>1, ConcatProperties
      <4> QED BY <4>2, ConcatEmptySeq
    <3>6. Append(Append(h, r), d) = h \o <<r, d>>
      <4>1. <<r>> \in Seq(Nat) /\ <<d>> \in Seq(Nat) /\ <<r>> \o <<d>> = <<r, d>>
        <5>1. <<r>> \in Seq(Nat) /\ <<d>> \in Seq(Nat) /\ <<r, d>> = Append(<<r>>, d)
          BY <1>4, <2>1
        <5>2. Append(<<r>>, d) = <<r>> \o <<d>>
          BY <2>1, <5>1, AppendIsConcat
        <5> QED BY <5>1, <5>2
      <4>2. Append(h, r) = h \o <<r>> /\ Append(h, r) \in Seq(Nat)
        BY <1>3, <1>4, OneMore
      <4>3. Append(Append(h, r), d) = Append(h, r) \o <<d>>
        BY <2>1, <4>2, OneMore
      <4>4. (h \o <<r>>) \o <<d>> = h \o (<<r>> \o <<d>>)
        BY <1>3, <4>1, ConcatAssociative
      <4> QED BY <4>1, <4>2, <4>3, <4>4
    <3> QED BY <1>5, <1>7, <2>1, <2>2, <2>9, <3>3, <3>4, <3>5, <3>6
  <2> QED BY <1>1, <2>8, <2>9
<1> QED BY <1>6, <1>7

\* Character by character.
LEMMA UnhexUp ==
  ASSUME NEW s \in Seq(Nat)
  PROVE  \E up \in [0..Len(s) -> Unhexing] :
           O!Unhexlify(s) = up[Len(s)].bin /\ up[0] = NothingRead /\ \A i \in 1..Len(s) : up[i] = O!UnhexDigit(up[i - 1], s[i])
<1> DEFINE n == Len(s)
           V == Unhexing
           Step(x, i) == O!UnhexDigit(x, s[i])
           g == [i \in 1..n |-> [x \in V |-> Step(x, i)]]
           up == CHOOSE upTo : upTo = [i \in 0..n |-> IF i = 0 THEN NothingRead ELSE O!UnhexDigit(upTo[i - 1], s[i])]
<1>1. n \in Nat /\ NothingRead \in V
  BY LenProperties, NothingReadIs
<1>2. \A i \in 1..n, x \in V : Step(x, i) \in V
  <2>1. ASSUME NEW i \in 1..Len(s), NEW x \in Unhexing PROVE Step(x, i) \in Unhexing
    <3>1. s[i] \in Nat
      BY LenProperties
    <3> QED BY <3>1, UnhexRound
  <2> QED BY <2>1
<1>3. O!Unhexlify(s) = up[Len(s)].bin
  BY Zenon DEF O!Unhexlify, NothingRead
<1> HIDE DEF n, V, Step
<1>4. g \in [1..n -> [V -> V]] /\ \A i \in 1..n, x \in V : g[i][x] = Step(x, i)
  BY <1>2
<1> HIDE DEF g
<1>5. PICK f : f \in Iterations(V, n, NothingRead, g)
  BY <1>1, <1>4, Iterated, Zenon
<1>6. f = [i \in 0..n |-> IF i = 0 THEN NothingRead ELSE Step(f[i - 1], i)]
  <2>1. f \in [0..n -> V] /\ f[0] = NothingRead /\ \A i \in 1..n : f[i] = g[i][f[i - 1]]
    BY <1>5 DEF Iterations
  <2>2. \A i \in 1..n : f[i] = Step(f[i - 1], i)
    BY <1>1, <1>4, <2>1
  <2> QED BY <1>1, <2>1, <2>2
<1>7. up = [i \in 0..n |-> IF i = 0 THEN NothingRead ELSE Step(up[i - 1], i)]
  BY <1>6, Zenon DEF Step
<1> HIDE DEF up
<1>8. up[0] = NothingRead /\ \A i \in 1..n : up[i] = Step(up[i - 1], i)
  BY <1>1, <1>7
<1>9. \A i \in 0..n : up[i] \in V
  <2>1. up[0] \in V
    BY <1>1, <1>8
  <2>2. \A i \in 1..n : up[i - 1] \in V => up[i] \in V
    BY <1>2, <1>8
  <2> QED BY <1>1, <2>1, <2>2, Typed, Zenon
<1>10. up \in [0..n -> V]
  BY <1>7, <1>9
<1> QED BY <1>3, <1>8, <1>10, Zenon DEF n, V, Step

\* What is read prints again as its digits, of which an odd one is left out.
LEMMA UnhexlifyIs ==
  ASSUME NEW s \in Seq(Nat)
  PROVE  LET digits == O!CapitalsOf(s)
         IN  /\ O!Unhexlify(s) \in O!OctetStrings /\ digits \in Seq(Nat)
             /\ O!Hexlify(O!Unhexlify(s)) = SubSeq(digits, 1, Len(digits) - (Len(digits) % 2))
<1> DEFINE n == Len(s)
           digits == O!CapitalsOf(s)
<1>1. n \in Nat /\ \A i \in 1..n : s[i] \in Nat
  BY LenProperties
<1>2. PICK up \in [0..n -> Seq(Nat)] :
        /\ digits = up[n] /\ up[0] = <<>>
        /\ \A i \in 1..n : up[i] = IF O!Tmap(s[i]) = -1 THEN up[i - 1] ELSE Append(up[i - 1], O!ToUpper(s[i]))
  BY CapitalsUp
<1>3. PICK f \in [0..n -> Unhexing] :
        /\ O!Unhexlify(s) = f[n].bin /\ f[0] = NothingRead
        /\ \A i \in 1..n : f[i] = O!UnhexDigit(f[i - 1], s[i])
  BY UnhexUp
<1> HIDE DEF n, digits
<1> DEFINE D == {i \in 0..n : DigitsRead(f[i]) = up[i]}
<1>4. 0 \in D
  <2>1. DigitsRead(f[0]) = O!Hexlify(<<>>) \o <<>>
    BY <1>3, NothingReadIs DEF DigitsRead
  <2>2. <<>> \in O!OctetStrings /\ <<>> \in Seq(Nat) /\ Len(<<>>) = 0
    BY EmptySeq DEF O!OctetStrings
  <2>3. O!Hexlify(<<>>) \in Seq(Nat) /\ Len(O!Hexlify(<<>>)) = 0
    <3>1. O!Hexlify(<<>>) \in Seq(Nat) /\ Len(O!Hexlify(<<>>)) = 2 * Len(<<>>)
      BY <2>2, HexlifyIs
    <3> QED BY <2>2, <3>1
  <2>4. O!Hexlify(<<>>) = <<>>
    BY <2>3, EmptySeq
  <2>5. <<>> \o <<>> = <<>>
    BY <2>2, ConcatEmptySeq
  <2> QED BY <1>1, <1>2, <2>1, <2>4, <2>5
<1>5. ASSUME NEW i \in 1..n, i - 1 \in D PROVE i \in D
  <2>1. i - 1 \in 0..n /\ i \in 0..n /\ DigitsRead(f[i - 1]) = up[i - 1]
    BY <1>1, <1>5
  <2>2. f[i - 1] \in Unhexing /\ s[i] \in Nat
    BY <1>1, <1>3, <2>1
  <2>3. DigitsRead(O!UnhexDigit(f[i - 1], s[i])) =
          IF O!Tmap(s[i]) = -1 THEN DigitsRead(f[i - 1]) ELSE Append(DigitsRead(f[i - 1]), O!ToUpper(s[i]))
    BY <2>2, UnhexRound
  <2>4. DigitsRead(f[i]) = up[i]
    BY <1>2, <1>3, <2>1, <2>3
  <2> QED BY <2>1, <2>4
<1> HIDE DEF D
<1>6. n \in D
  <2>1. \A i \in 0..n : i \in D
    BY <1>1, <1>4, <1>5, UpTo
  <2> QED BY <1>1, <2>1
<1> DEFINE x == f[n]
           h == O!Hexlify(x.bin)
           odd == IF x.even THEN <<>> ELSE <<x.value % O!HexBase>>
<1>7. x \in Unhexing /\ DigitsRead(x) = digits /\ digits \in Seq(Nat)
  BY <1>1, <1>2, <1>3, <1>6 DEF D
<1> HIDE DEF x
<1>8. digits = h \o odd
  BY <1>7 DEF DigitsRead
<1>9. x.bin \in O!OctetStrings /\ x.value \in Nat /\ x.even \in BOOLEAN
  BY <1>7, OctetSizes DEF Unhexing
<1>10. h \in Seq(Nat) /\ Len(h) = 2 * Len(x.bin) /\ Len(x.bin) \in Nat
  BY <1>9, HexlifyIs
<1>11. odd \in Seq(Nat) /\ Len(odd) \in {0, 1}
  <2>1. x.value % O!HexBase \in Nat
    BY <1>9, HexDigits
  <2> DEFINE r == x.value % O!HexBase
  <2> HIDE DEF r
  <2>2. r \in Nat
    BY <2>1 DEF r
  <2>3. <<r>> \in Seq(Nat) /\ Len(<<r>>) = 1 /\ <<>> \in Seq(Nat) /\ Len(<<>>) = 0
    BY <2>2, EmptySeq
  <2> QED BY <1>9, <2>3 DEF r
<1> HIDE DEF h, odd
<1>12. SubSeq(digits, 1, Len(h)) = h
  BY <1>8, <1>10, <1>11, FrontIs
<1>13. Len(digits) - (Len(digits) % 2) = Len(h)
  <2>1. Len(digits) = Len(h) + Len(odd)
    BY <1>8, <1>10, <1>11, TwoParts
  <2> DEFINE k == Len(x.bin)
             z == Len(odd)
             y == Len(digits)
  <2>2. y = 2 * k + z /\ k \in Int /\ z \in 0..2 - 1 /\ y \in Int
    BY <1>10, <1>11, <2>1
  <2>3. 2 \in Nat \ {0}
    OBVIOUS
  <2>4. Len(h) = 2 * k
    BY <1>10
  <2> HIDE DEF k, z, y
  <2>5. y % 2 = z
    BY <2>2, <2>3, DivUnique
  <2>6. y - (y % 2) = Len(h)
    BY <2>2, <2>4, <2>5
  <2> QED BY <2>6 DEF y
<1> QED BY <1>3, <1>7, <1>9, <1>12, <1>13 DEF x, h, digits

\* What is printed are capitals.
LEMMA CapitalsAre ==
  ASSUME NEW s \in Seq(Nat), \A i \in 1..Len(s) : s[i] < O!HexBase
  PROVE  O!CapitalsOf(s) = s
<1> DEFINE n == Len(s)
<1>1. n \in Nat /\ \A i \in 1..n : s[i] \in Nat
  BY LenProperties
<1>2. PICK up \in [0..n -> Seq(Nat)] :
        /\ O!CapitalsOf(s) = up[n] /\ up[0] = <<>>
        /\ \A i \in 1..n : up[i] = IF O!Tmap(s[i]) = -1 THEN up[i - 1] ELSE Append(up[i - 1], O!ToUpper(s[i]))
  BY CapitalsUp
<1>3. /\ SubSeq(s, 1, 0) = <<>> /\ SubSeq(s, 1, n) = s
      /\ \A i \in 1..n : Append(SubSeq(s, 1, i - 1), s[i]) = SubSeq(s, 1, i)
  BY StartOf
<1>4. \A i \in 1..n : s[i] < O!HexBase
  OBVIOUS
<1> HIDE DEF n
<1> DEFINE D == {i \in 0..n : up[i] = SubSeq(s, 1, i)}
<1>5. 0 \in D
  BY <1>1, <1>2, <1>3
<1>6. ASSUME NEW i \in 1..n, i - 1 \in D PROVE i \in D
  <2>1. i - 1 \in 0..n /\ i \in 0..n /\ up[i - 1] = SubSeq(s, 1, i - 1)
    BY <1>1, <1>6
  <2>2. O!ToUpper(s[i]) = s[i] /\ O!Tmap(s[i]) # -1
    BY <1>1, <1>4, TmapIs
  <2>3. up[i] = Append(up[i - 1], s[i])
    BY <1>2, <2>2
  <2>4. up[i] = SubSeq(s, 1, i)
    BY <1>3, <2>1, <2>3
  <2> QED BY <2>1, <2>4
<1> HIDE DEF D
<1>7. n \in D
  <2>1. \A i \in 0..n : i \in D
    BY <1>1, <1>5, <1>6, UpTo
  <2> QED BY <1>1, <2>1
<1> QED BY <1>2, <1>3, <1>7 DEF D

\* What hexlify wrote unhexlify reads.
LEMMA HexlifiedReadsBack ==
  ASSUME NEW s \in O!OctetStrings
  PROVE  O!Unhexlify(O!Hexlify(s)) = s
<1> DEFINE h == O!Hexlify(s)
<1>1. /\ h \in Seq(Nat) /\ Len(h) = 2 * Len(s) /\ Len(s) \in Nat
      /\ \A i \in 1..Len(s) : h[2 * i - 1] = s[i] \div O!HexBase /\ h[2 * i] = s[i] % O!HexBase
  BY HexlifyIs
<1> HIDE DEF h
<1>2. ASSUME NEW i \in 1..Len(s) PROVE h[2 * i - 1] < O!HexBase /\ h[2 * i] < O!HexBase
  <2> DEFINE v == s[i]
             q == v \div O!HexBase
             r == v % O!HexBase
  <2>1. v \in 0..O!Octet - 1 /\ v \in Nat
    BY StringsAreTexts, LenProperties
  <2>2. v = O!HexBase * q + r /\ q \in Nat /\ r \in 0..O!HexBase - 1
    BY <2>1, HexDigits
  <2>3. h[2 * i - 1] = q /\ h[2 * i] = r
    BY <1>1
  <2>4. O!Octet = O!HexBase * O!HexBase /\ O!HexBase \in Nat \ {0}
    BY Widths, OctetSizes
  <2> HIDE DEF q, r, v
  <2>5. q < O!HexBase
    <3>1. SUFFICES ASSUME ~(q < O!HexBase) PROVE FALSE
      OBVIOUS
    <3>2. q - O!HexBase \in Nat
      BY <2>2, <2>4, <3>1
    <3>3. O!HexBase * (q - O!HexBase) \in Nat
      BY <2>4, <3>2
    <3>4. O!HexBase * (q - O!HexBase) = O!HexBase * q - O!HexBase * O!HexBase
      BY <2>2, <2>4
    <3>5. O!HexBase * q \in Nat /\ O!HexBase * O!HexBase \in Nat
      BY <2>2, <2>4
    <3> QED BY <2>1, <2>2, <2>4, <3>3, <3>4, <3>5
  <2> QED BY <2>2, <2>3, <2>4, <2>5
<1>3. ASSUME NEW j \in 1..Len(h) PROVE h[j] < O!HexBase
  <2>1. CASE j % 2 = 1
    <3> DEFINE i == (j \div 2) + 1
    <3>1. i \in 1..Len(s) /\ j = 2 * i - 1
      <4>1. j \in 1..2 * Len(s)
        BY <1>1
      <4>2. j = 2 * (j \div 2) + 1 /\ j \div 2 \in Int
        BY <1>1, <2>1, <4>1
      <4> QED BY <1>1, <4>1, <4>2
    <3> HIDE DEF i
    <3> QED BY <1>2, <3>1
  <2>2. CASE j % 2 # 1
    <3> DEFINE i == j \div 2
    <3>1. i \in 1..Len(s) /\ j = 2 * i
      BY <1>1, <2>2
    <3> HIDE DEF i
    <3> QED BY <1>2, <3>1
  <2> QED BY <2>1, <2>2
<1>4. O!CapitalsOf(h) = h
  BY <1>1, <1>3, CapitalsAre
<1>5. O!Unhexlify(h) \in O!OctetStrings /\ O!Hexlify(O!Unhexlify(h)) = SubSeq(h, 1, Len(h) - (Len(h) % 2))
  BY <1>1, <1>4, UnhexlifyIs
<1>6. Len(h) - (Len(h) % 2) = Len(h)
  <2> DEFINE k == Len(s)
             y == Len(h)
  <2>1. y = 2 * k + 0 /\ k \in Int /\ 0 \in 0..2 - 1 /\ y \in Int /\ 2 \in Nat \ {0}
    BY <1>1
  <2> HIDE DEF k, y
  <2>2. y % 2 = 0
    BY <2>1, DivUnique
  <2>3. y - (y % 2) = y
    BY <2>1, <2>2
  <2> QED BY <2>3 DEF y
<1>7. SubSeq(h, 1, Len(h)) = h
  BY <1>1, SubSeqFull
<1>8. O!Hexlify(O!Unhexlify(h)) = O!Hexlify(s)
  BY <1>5, <1>6, <1>7 DEF h
<1> QED BY <1>5, <1>8, HexlifyTells DEF h
-----------------------------------------------------------------------------
(* Octets: base 64.                                                        *)

\* A digit of base 64 has three quarters of an octet's bits.
LEMMA Sextets ==
  /\ QuarterBits \in Nat \ {0} /\ OctetBits = 4 * QuarterBits /\ O!DigitBits = 3 * QuarterBits
  /\ WordBits \in Nat /\ WordBits >= 8 * QuarterBits /\ O!UInt \in Nat \ {0} /\ O!UInt > 8 * QuarterBits
  /\ O!Pad = O!Power(2, 3 * QuarterBits) /\ O!Octet = O!Power(2, 4 * QuarterBits)
  /\ O!Pad \in Nat \ {0} /\ O!Octet \in Nat \ {0}
<1>1. /\ QuarterBits \in Nat \ {0} /\ OctetBits = 4 * QuarterBits /\ O!DigitBits = 3 * QuarterBits
      /\ WordBits \in Nat /\ WordBits >= 8 * QuarterBits
  BY Widths
<1>2. O!UInt > WordBits /\ O!UInt \in Nat \ {0}
  BY <1>1, PowerGrows, OctetSizes DEF O!UInt
<1>3. O!Pad = O!Power(2, 3 * QuarterBits) /\ O!Octet = O!Power(2, 4 * QuarterBits)
  BY <1>1 DEF O!Pad, O!Octet
<1> QED BY <1>1, <1>2, <1>3, OctetSizes

\* Bits that come in behind a number of which some bits wait.
LEMMA MoreIn ==
  ASSUME NEW N \in Nat, NEW X \in Nat, NEW v \in 0..O!UInt - 1, NEW w \in Nat, NEW a \in Nat, w + a <= WordBits,
         NEW b \in 0..O!Power(2, a) - 1, N = X * O!Power(2, w) + (v % O!Power(2, w))
  PROVE  LET new == (v * O!Power(2, a) + b) % O!UInt
         IN  /\ new \in 0..O!UInt - 1 /\ N * O!Power(2, a) + b \in Nat
             /\ N * O!Power(2, a) + b = X * O!Power(2, w + a) + (new % O!Power(2, w + a))
<1> DEFINE ap == O!Power(2, a)
           wp == O!Power(2, w)
           new == (v * ap + b) % O!UInt
           r == v % wp
<1>1. new \in 0..O!UInt - 1 /\ new % O!Power(2, w + a) = r * ap + b
  BY BitsIn
<1>2. O!Power(2, w + a) = wp * ap /\ wp \in Nat \ {0} /\ ap \in Nat \ {0}
  BY PowerAdds, PowerPositive
<1>3. r \in Nat /\ N = X * wp + r /\ b \in Nat
  <2>1. v \in Int
    BY OctetSizes
  <2> HIDE DEF wp, ap
  <2>2. r \in 0..wp - 1
    BY <1>2, <2>1, DivIs, Zenon
  <2>3. b \in Nat
    BY <1>2 DEF ap
  <2> HIDE DEF r
  <2>4. r \in Nat
    BY <1>2, <2>2
  <2> QED BY <2>3, <2>4 DEF r, wp
<1> HIDE DEF ap, wp, new, r
<1>4. (X * wp + r) * ap = X * (wp * ap) + r * ap
  BY <1>2, <1>3
<1>5. X * (wp * ap) \in Nat /\ r * ap \in Nat
  <2>1. wp * ap \in Nat
    BY <1>2
  <2> QED BY <1>2, <1>3, <2>1
<1>6. N * ap + b \in Nat /\ N * ap + b = X * (wp * ap) + (r * ap + b)
  BY <1>3, <1>4, <1>5
<1> QED BY <1>1, <1>2, <1>6 DEF ap, new

\* A digit that goes out in front of the bits that wait.
LEMMA OneOut ==
  ASSUME NEW a \in Nat, NEW w \in Nat, NEW s \in Seq(0..O!Power(2, a) - 1), NEW v \in Nat, NEW N \in Nat,
         N = O!NumberIn(O!Power(2, a), s) * O!Power(2, a + w) + (v % O!Power(2, a + w))
  PROVE  LET d == (v \div O!Power(2, w)) % O!Power(2, a)
         IN  /\ d \in 0..O!Power(2, a) - 1 /\ Append(s, d) \in Seq(0..O!Power(2, a) - 1)
             /\ Len(Append(s, d)) = Len(s) + 1 /\ Len(s) \in Nat
             /\ N = O!NumberIn(O!Power(2, a), Append(s, d)) * O!Power(2, w) + (v % O!Power(2, w))
<1> DEFINE ap == O!Power(2, a)
           wp == O!Power(2, w)
           d == (v \div wp) % ap
           X == O!NumberIn(ap, s)
           r == v % wp
<1>1. ap \in Nat \ {0} /\ wp \in Nat \ {0} /\ O!Power(2, a + w) = ap * wp
  <2>1. O!Power(2, a + w) = O!Power(2, a) * O!Power(2, w)
    BY PowerAdds
  <2>2. O!Power(2, a) \in Nat \ {0} /\ O!Power(2, w) \in Nat \ {0}
    <3>1. 2 \in Nat \ {0} /\ a \in Nat /\ w \in Nat
      OBVIOUS
    <3>2. \A k \in Nat : O!Power(2, k) \in Nat \ {0}
      BY <3>1, PowerPositive
    <3> QED BY <3>1, <3>2
  <2> QED BY <2>1, <2>2
<1>2. v % O!Power(2, a + w) = d * wp + r /\ d \in 0..ap - 1 /\ r \in 0..wp - 1
  BY BitsOut
<1>3. N = X * O!Power(2, a + w) + (v % O!Power(2, a + w))
  OBVIOUS
<1>4. s \in Seq(0..ap - 1)
  OBVIOUS
<1> HIDE DEF ap, wp, d, r
<1>5. s \in Seq(Nat) /\ d \in Nat /\ r \in Nat
  <2>1. 0..ap - 1 \subseteq Nat
    BY <1>1
  <2>2. s \in Seq(Nat)
    BY <1>4, <2>1, SeqMonotonic
  <2>3. d \in Nat /\ r \in Nat
    BY <1>1, <1>2
  <2> QED BY <2>2, <2>3
<1>6. O!NumberIn(ap, Append(s, d)) = X * ap + d /\ X \in Nat
  <2>1. ap \in Nat
    BY <1>1
  <2> QED BY <1>5, <2>1, NumberInMore
<1>7. Append(s, d) \in Seq(0..ap - 1) /\ Len(Append(s, d)) = Len(s) + 1 /\ Len(s) \in Nat
  BY <1>2, <1>4, AppendProperties, LenProperties
<1> HIDE DEF X
<1>8. (X * ap + d) * wp = X * (ap * wp) + d * wp
  BY <1>1, <1>5, <1>6
<1>9. N = (X * ap + d) * wp + r
  <2>1. X * (ap * wp) \in Nat /\ d * wp \in Nat
    <3>1. ap * wp \in Nat
      BY <1>1
    <3> QED BY <1>1, <1>5, <1>6, <3>1
  <2> QED BY <1>1, <1>2, <1>3, <1>5, <1>8, <2>1
<1> QED BY <1>2, <1>6, <1>7, <1>9 DEF ap, wp, d, r
-----------------------------------------------------------------------------
(* Octets: base64EncStr.                                                   *)

\* What was read by the encoder is what it wrote, and the bits that wait.
Encoding(x, t, N, i) ==
  /\ x.val \in 0..O!UInt - 1 /\ t \in 0..2 /\ x.valb = (O!UInt - 3 * QuarterBits) + QuarterBits * t
  /\ x.out \in Seq(0..O!Pad - 1) /\ N \in Nat
  /\ N = O!NumberIn(O!Pad, x.out) * O!Power(2, QuarterBits * t) + (x.val % O!Power(2, QuarterBits * t))
  /\ 3 * Len(x.out) + t = 4 * i

\* A round of base64EncStr keeps the invariant.
LEMMA EncodeRound ==
  ASSUME NEW x, NEW t, NEW N, NEW i \in Nat, Encoding(x, t, N, i), NEW octet \in 0..O!Octet - 1
  PROVE  \E u \in 0..2 : Encoding(O!EncodeOctet(x, octet), u, N * O!Octet + octet, i + 1)
<1> DEFINE h == QuarterBits
           w == h * t
           X == O!NumberIn(O!Pad, x.out)
           val == (x.val * O!Octet + octet) % O!UInt
           valb == (x.valb + OctetBits) % O!UInt
           m == IF valb < O!UInt - O!DigitBits THEN valb \div O!DigitBits + 1 ELSE 0
           left == (valb - m * O!DigitBits) % O!UInt
           digits == O!DigitsOf(val, valb, m)
           y == [val |-> val, valb |-> left, out |-> x.out \o digits]
           K == N * O!Octet + octet
<1>1. /\ h \in Nat \ {0} /\ OctetBits = 4 * h /\ O!DigitBits = 3 * h
      /\ WordBits \in Nat /\ WordBits >= 8 * h /\ O!UInt \in Nat \ {0} /\ O!UInt > 8 * h
      /\ O!Pad = O!Power(2, 3 * h) /\ O!Octet = O!Power(2, 4 * h)
      /\ O!Pad \in Nat \ {0} /\ O!Octet \in Nat \ {0}
  BY Sextets
<1>2. /\ x.val \in 0..O!UInt - 1 /\ t \in 0..2 /\ x.valb = (O!UInt - 3 * h) + w
      /\ x.out \in Seq(0..O!Pad - 1) /\ N \in Nat
      /\ N = X * O!Power(2, w) + (x.val % O!Power(2, w))
      /\ 3 * Len(x.out) + t = 4 * i
  BY DEF Encoding
<1>3. y = O!EncodeOctet(x, octet)
  BY Zenon DEF O!EncodeOctet
<1> HIDE DEF h
<1>4. (t = 0 => w = 0) /\ (t = 1 => w = h) /\ (t = 2 => w = 2 * h) /\ w \in Nat /\ w <= 2 * h
  BY <1>1, <1>2
<1> HIDE DEF w
<1>a. x.val \in 0..O!UInt - 1 /\ t \in 0..2 /\ x.valb = (O!UInt - 3 * h) + w /\ 3 * Len(x.out) + t = 4 * i
  BY <1>2
<1>5. /\ val \in 0..O!UInt - 1 /\ K \in Nat
      /\ K = X * O!Power(2, w + 4 * h) + (val % O!Power(2, w + 4 * h))
  <2>1. X \in Nat
    BY <1>1, <1>2, NumberInBound
  <2>2. 4 * h \in Nat /\ w + 4 * h <= WordBits /\ octet \in 0..O!Power(2, 4 * h) - 1
    BY <1>1, <1>4
  <2> HIDE DEF X
  <2>3. LET new == (x.val * O!Power(2, 4 * h) + octet) % O!UInt
        IN  /\ new \in 0..O!UInt - 1 /\ N * O!Power(2, 4 * h) + octet \in Nat
            /\ N * O!Power(2, 4 * h) + octet = X * O!Power(2, w + 4 * h) + (new % O!Power(2, w + 4 * h))
    <3> DEFINE v == x.val
    <3>1. /\ N \in Nat /\ X \in Nat /\ v \in 0..O!UInt - 1 /\ w \in Nat /\ 4 * h \in Nat /\ w + 4 * h <= WordBits
          /\ octet \in 0..O!Power(2, 4 * h) - 1 /\ N = X * O!Power(2, w) + (v % O!Power(2, w))
      BY <1>2, <1>4, <2>1, <2>2
    <3> HIDE DEF v
    <3>2. LET new == (v * O!Power(2, 4 * h) + octet) % O!UInt
          IN  /\ new \in 0..O!UInt - 1 /\ N * O!Power(2, 4 * h) + octet \in Nat
              /\ N * O!Power(2, 4 * h) + octet = X * O!Power(2, w + 4 * h) + (new % O!Power(2, w + 4 * h))
      BY <3>1, MoreIn
    <3> QED BY <3>2 DEF v
  <2> QED BY <1>1, <2>3
<1>6. valb = w + h
  <2> DEFINE z == x.valb + OctetBits
             q == w + h
  <2>1. z = O!UInt * 1 + q /\ q \in 0..O!UInt - 1 /\ z \in Int /\ 1 \in Int
    BY <1>1, <1>2, <1>4
  <2> HIDE DEF z, q
  <2>2. z % O!UInt = q
    BY <1>1, <2>1, DivUnique
  <2> QED BY <2>2 DEF z, q
<1> HIDE DEF val, valb, K
<1>7. val \in Nat
  BY <1>1, <1>5
<1>8. CASE t # 2
  <2> DEFINE d == (val \div O!Power(2, w + h)) % O!Power(2, 3 * h)
  <2>1. m = 1
    <3>1. valb = (3 * h) * 0 + valb /\ valb \in 0..3 * h - 1 /\ valb \in Int /\ 0 \in Int /\ 3 * h \in Nat \ {0}
      BY <1>1, <1>2, <1>4, <1>6, <1>8
    <3>2. valb \div (3 * h) = 0
      BY <3>1, DivUnique
    <3> QED BY <1>1, <1>4, <1>6, <3>2
  <2>2. digits = <<d>>
    <3>1. digits = [j \in 1..1 |-> (val \div O!Power(2, valb - O!DigitBits * (j - 1))) % O!Pad]
      BY <2>1 DEF O!DigitsOf
    <3>2. valb - O!DigitBits * (1 - 1) = w + h
      BY <1>1, <1>4, <1>6
    <3> QED BY <1>1, <3>1, <3>2
  <2>3. left = (O!UInt - 3 * h) + h * (t + 1) /\ h * (t + 1) = w + h
    <3>1. h * (t + 1) = w + h
      BY <1>1, <1>2, <1>4, <1>8
    <3> DEFINE z == valb - m * O!DigitBits
               q == (O!UInt - 3 * h) + (w + h)
    <3>2. z = O!UInt * (-1) + q /\ q \in 0..O!UInt - 1 /\ z \in Int /\ -1 \in Int
      <4>1. w + h <= 3 * h - 1 /\ w + h \in Nat /\ z = (w + h) - 3 * h
        <5>1. w <= h
          BY <1>1, <1>a, <1>4, <1>8
        <5>2. w + h <= 3 * h - 1 /\ w + h \in Nat
          BY <1>1, <1>4, <5>1
        <5>3. z = (w + h) - 3 * h
          BY <1>1, <1>6, <2>1
        <5> QED BY <5>2, <5>3
      <4> HIDE DEF z
      <4> QED BY <1>1, <4>1
    <3> HIDE DEF z, q, m
    <3>3. z % O!UInt = q
      BY <1>1, <3>2, DivUnique
    <3> QED BY <3>1, <3>3 DEF z, q
  <2> HIDE DEF digits, left, m, d
  <2>4. /\ d \in 0..O!Pad - 1 /\ Append(x.out, d) \in Seq(0..O!Pad - 1)
        /\ Len(Append(x.out, d)) = Len(x.out) + 1 /\ Len(x.out) \in Nat
        /\ K = O!NumberIn(O!Pad, Append(x.out, d)) * O!Power(2, w + h) + (val % O!Power(2, w + h))
    <3>1. 3 * h \in Nat /\ w + h \in Nat /\ 3 * h + (w + h) = w + 4 * h
      BY <1>1, <1>4
    <3>2. x.out \in Seq(0..O!Power(2, 3 * h) - 1)
      BY <1>1, <1>2
    <3>3. K = O!NumberIn(O!Power(2, 3 * h), x.out) * O!Power(2, 3 * h + (w + h)) + (val % O!Power(2, 3 * h + (w + h)))
      BY <1>1, <1>5, <3>1
    <3>4. K \in Nat
      BY <1>5
    <3> QED BY <1>1, <1>7, <3>1, <3>2, <3>3, <3>4, OneOut DEF d
  <2>5. x.out \o digits = Append(x.out, d)
    BY <1>2, <2>2, <2>4, AppendIsConcat
  <2>6. t + 1 \in 0..2 /\ 3 * (Len(x.out) + 1) + (t + 1) = 4 * (i + 1)
    <3> DEFINE k == Len(x.out)
    <3>1. k \in Nat /\ 3 * k + t = 4 * i /\ t \in 0..2
      BY <1>a, <2>4
    <3> HIDE DEF k
    <3>2. t + 1 \in 0..2
      BY <1>8, <3>1
    <3>3. 3 * (k + 1) + (t + 1) = 4 * (i + 1)
      BY <3>1
    <3> QED BY <3>2, <3>3 DEF k
  <2>7. y.val = val /\ y.valb = left /\ y.out = Append(x.out, d)
    BY <2>5
  <2> HIDE DEF y
  <2>8. Encoding(y, t + 1, K, i + 1)
    BY <1>5, <2>3, <2>4, <2>6, <2>7 DEF Encoding, h
  <2> QED BY <1>3, <2>6, <2>8 DEF K
<1>9. CASE t = 2
  <2> DEFINE d == (val \div O!Power(2, 3 * h)) % O!Power(2, 3 * h)
             e == (val \div O!Power(2, 0)) % O!Power(2, 3 * h)
             s == Append(x.out, d)
  <2>1. m = 2
    <3>1. valb = (3 * h) * 1 + 0 /\ 0 \in 0..3 * h - 1 /\ valb \in Int /\ 1 \in Int /\ 3 * h \in Nat \ {0}
      BY <1>1, <1>4, <1>6, <1>9
    <3>2. valb \div (3 * h) = 1
      BY <3>1, DivUnique
    <3> QED BY <1>1, <1>4, <1>6, <3>2
  <2>2. digits = <<d, e>>
    <3>1. digits = [j \in 1..2 |-> (val \div O!Power(2, valb - O!DigitBits * (j - 1))) % O!Pad]
      BY <2>1 DEF O!DigitsOf
    <3>2. valb - O!DigitBits * (1 - 1) = 3 * h /\ valb - O!DigitBits * (2 - 1) = 0
      BY <1>1, <1>4, <1>6, <1>9
    <3> QED BY <1>1, <3>1, <3>2
  <2>3. left = (O!UInt - 3 * h) + h * 0 /\ h * 0 = 0
    <3>1. h * 0 = 0
      BY <1>1
    <3> DEFINE z == valb - m * O!DigitBits
               q == (O!UInt - 3 * h) + 0
    <3>2. z = O!UInt * (-1) + q /\ q \in 0..O!UInt - 1 /\ z \in Int /\ -1 \in Int
      BY <1>1, <1>4, <1>6, <1>9, <2>1
    <3> HIDE DEF z, q, m
    <3>3. z % O!UInt = q
      BY <1>1, <3>2, DivUnique
    <3> QED BY <3>1, <3>3 DEF z, q
  <2> HIDE DEF digits, left, m, d, e
  <2>4. /\ d \in 0..O!Pad - 1 /\ s \in Seq(0..O!Pad - 1) /\ Len(s) = Len(x.out) + 1 /\ Len(x.out) \in Nat
        /\ K = O!NumberIn(O!Pad, s) * O!Power(2, 3 * h) + (val % O!Power(2, 3 * h))
    <3>1. 3 * h \in Nat /\ 3 * h + 3 * h = w + 4 * h
      BY <1>1, <1>4, <1>9
    <3>2. x.out \in Seq(0..O!Power(2, 3 * h) - 1)
      BY <1>1, <1>2
    <3>3. K = O!NumberIn(O!Power(2, 3 * h), x.out) * O!Power(2, 3 * h + 3 * h) + (val % O!Power(2, 3 * h + 3 * h))
      BY <1>1, <1>5, <3>1
    <3>4. K \in Nat
      BY <1>5
    <3> QED BY <1>1, <1>7, <3>1, <3>2, <3>3, <3>4, OneOut DEF d
  <2> HIDE DEF s
  <2>5. /\ e \in 0..O!Pad - 1 /\ Append(s, e) \in Seq(0..O!Pad - 1) /\ Len(Append(s, e)) = Len(s) + 1
        /\ K = O!NumberIn(O!Pad, Append(s, e)) * O!Power(2, 0) + (val % O!Power(2, 0))
    <3>1. 3 * h \in Nat /\ 0 \in Nat /\ 3 * h + 0 = 3 * h
      BY <1>1
    <3>2. s \in Seq(0..O!Power(2, 3 * h) - 1)
      BY <1>1, <2>4
    <3>3. K = O!NumberIn(O!Power(2, 3 * h), s) * O!Power(2, 3 * h + 0) + (val % O!Power(2, 3 * h + 0))
      BY <1>1, <2>4, <3>1
    <3>4. K \in Nat
      BY <1>5
    <3> QED BY <1>1, <1>7, <3>1, <3>2, <3>3, <3>4, OneOut DEF e
  <2>6. x.out \o digits = Append(s, e)
    <3>1. <<d>> \in Seq(0..O!Pad - 1) /\ <<e>> \in Seq(0..O!Pad - 1) /\ <<d, e>> = Append(<<d>>, e)
      BY <2>4, <2>5
    <3>2. Append(<<d>>, e) = <<d>> \o <<e>>
      BY <2>5, <3>1, AppendIsConcat
    <3>3. s = x.out \o <<d>> /\ Append(s, e) = s \o <<e>>
      BY <1>2, <2>4, <2>5, AppendIsConcat DEF s
    <3>4. (x.out \o <<d>>) \o <<e>> = x.out \o (<<d>> \o <<e>>)
      BY <1>2, <3>1, ConcatAssociative
    <3> QED BY <2>2, <3>1, <3>2, <3>3, <3>4
  <2>7. 3 * (Len(x.out) + 2) + 0 = 4 * (i + 1)
    <3>1. Len(x.out) \in Nat
      BY <2>4
    <3> QED BY <1>a, <1>9, <3>1
  <2>8. Len(Append(s, e)) = Len(x.out) + 2
    BY <2>4, <2>5
  <2>9. y.val = val /\ y.valb = left /\ y.out = Append(s, e)
    BY <2>6
  <2> HIDE DEF y
  <2>10. Encoding(y, 0, K, i + 1)
    <3>1. y.val \in 0..O!UInt - 1 /\ 0 \in 0..2 /\ y.valb = (O!UInt - 3 * h) + h * 0 /\ K \in Nat
      BY <1>5, <2>3, <2>9
    <3>2. y.out \in Seq(0..O!Pad - 1)
      BY <2>5, <2>9
    <3>3. K = O!NumberIn(O!Pad, y.out) * O!Power(2, h * 0) + (y.val % O!Power(2, h * 0))
      BY <2>3, <2>5, <2>9
    <3>4. 3 * Len(y.out) + 0 = 4 * (i + 1)
      BY <2>7, <2>8, <2>9
    <3> QED BY <3>1, <3>2, <3>3, <3>4 DEF Encoding, h
  <2> QED BY <1>3, <2>10 DEF K
<1> QED BY <1>8, <1>9

NothingEncoded == [val |-> 0, valb |-> O!UInt - O!DigitBits, out |-> <<>>]
EncoderStates ==
  {x \in [val : 0..O!UInt - 1, valb : 0..O!UInt - 1, out : Seq(0..O!Pad - 1)] :
     \E t \in 0..2, N \in Nat, i \in Nat : Encoding(x, t, N, i)}

\* base64EncStr before its loop.
LEMMA NothingEncodedIs == Encoding(NothingEncoded, 0, 0, 0) /\ NothingEncoded \in EncoderStates
<1> DEFINE h == QuarterBits
           x == NothingEncoded
<1>1. /\ h \in Nat \ {0} /\ O!DigitBits = 3 * h /\ O!UInt \in Nat \ {0} /\ O!UInt > 8 * h /\ O!Pad \in Nat \ {0}
  BY Sextets
<1>2. x.val = 0 /\ x.valb = O!UInt - O!DigitBits /\ x.out = <<>>
  BY DEF NothingEncoded
<1>3. <<>> \in Seq(0..O!Pad - 1) /\ Len(<<>>) = 0
  BY EmptySeq
<1>4. x \in [val : 0..O!UInt - 1, valb : 0..O!UInt - 1, out : Seq(0..O!Pad - 1)]
  <2>1. 0 \in 0..O!UInt - 1 /\ O!UInt - O!DigitBits \in 0..O!UInt - 1
    BY <1>1
  <2> QED BY <1>3, <2>1 DEF NothingEncoded
<1>5. O!NumberIn(O!Pad, <<>>) = 0
  BY <1>1, NumberInNone
<1>6. h * 0 = 0 /\ 0 % 1 = 0 /\ O!Power(2, 0) = 1
  <2>1. O!Power(2, 0) = 1
    BY PowerIs
  <2> QED BY <1>1, <2>1
<1>7. (O!UInt - 3 * h) + 0 = O!UInt - O!DigitBits
  BY <1>1
<1>8. 0 = O!NumberIn(O!Pad, x.out) * O!Power(2, h * 0) + (x.val % O!Power(2, h * 0))
  BY <1>2, <1>5, <1>6
<1>9. x.val \in 0..O!UInt - 1 /\ x.valb = (O!UInt - 3 * h) + h * 0 /\ x.out \in Seq(0..O!Pad - 1) /\ 3 * Len(x.out) + 0 = 4 * 0
  BY <1>1, <1>2, <1>3, <1>6, <1>7
<1>10. Encoding(x, 0, 0, 0)
  <2>1. 0 \in 0..2 /\ 0 \in Nat
    OBVIOUS
  <2> HIDE DEF x
  <2> QED BY <1>8, <1>9, <2>1 DEF Encoding, h
<1>11. x \in EncoderStates
  <2> HIDE DEF x
  <2>1. 0 \in 0..2 /\ 0 \in Nat
    OBVIOUS
  <2> QED BY <1>4, <1>10, <2>1 DEF EncoderStates
<1> QED BY <1>10, <1>11

\* A round stays in the states that the loop has.
LEMMA EncoderStays ==
  ASSUME NEW x \in EncoderStates, NEW octet \in 0..O!Octet - 1
  PROVE  O!EncodeOctet(x, octet) \in EncoderStates
<1> DEFINE h == QuarterBits
           y == O!EncodeOctet(x, octet)
<1>1. PICK t \in 0..2, N \in Nat, i \in Nat : Encoding(x, t, N, i)
  BY DEF EncoderStates
<1>2. PICK u \in 0..2 : Encoding(y, u, N * O!Octet + octet, i + 1)
  BY <1>1, EncodeRound
<1>3. /\ h \in Nat \ {0} /\ O!UInt \in Nat \ {0} /\ O!UInt > 8 * h /\ O!Octet \in Nat \ {0}
  BY Sextets
<1>4. y.val \in 0..O!UInt - 1 /\ y.valb = (O!UInt - 3 * h) + h * u /\ y.out \in Seq(0..O!Pad - 1) /\ N * O!Octet + octet \in Nat
  BY <1>2 DEF Encoding
<1>5. y = [val |-> y.val, valb |-> y.valb, out |-> y.out]
  BY DEF O!EncodeOctet
<1> HIDE DEF h, y
<1>6. y.valb \in 0..O!UInt - 1
  <2>1. h * u = 0 \/ h * u = h \/ h * u = 2 * h
    BY <1>3
  <2> QED BY <1>3, <1>4, <2>1
<1>7. y \in [val : 0..O!UInt - 1, valb : 0..O!UInt - 1, out : Seq(0..O!Pad - 1)]
  BY <1>4, <1>5, <1>6
<1>8. i + 1 \in Nat
  OBVIOUS
<1> DEFINE K == N * O!Octet + octet
<1> HIDE DEF K
<1>9. Encoding(y, u, K, i + 1) /\ K \in Nat
  BY <1>2, <1>4 DEF K
<1> QED BY <1>7, <1>8, <1>9 DEF EncoderStates, y

\* Octet by octet, and at last the digit that is filled up.
LEMMA EncodeUp ==
  ASSUME NEW in \in O!OctetStrings
  PROVE  \E up \in [0..Len(in) -> EncoderStates] :
           (LET s == up[Len(in)]
            waits == s.valb > O!UInt - O!DigitBits \/ s.valb <= O!DigitBits
            digit == (((s.val * O!Octet) % O!UInt) \div O!Power(2, (s.valb + OctetBits) % O!UInt)) % O!Pad
            out == IF waits THEN Append(s.out, digit) ELSE s.out
        IN  O!Base64EncStr(in) = out \o [i \in 1..(-Len(out) % 4) |-> O!Pad]) /\ up[0] = NothingEncoded /\ \A i \in 1..Len(in) : up[i] = O!EncodeOctet(up[i - 1], in[i])
<1> DEFINE n == Len(in)
           V == EncoderStates
           Step(x, i) == O!EncodeOctet(x, in[i])
           g == [i \in 1..n |-> [x \in V |-> Step(x, i)]]
           up == CHOOSE upTo : upTo = [i \in 0..n |-> IF i = 0 THEN NothingEncoded ELSE O!EncodeOctet(upTo[i - 1], in[i])]
<1>1. n \in Nat /\ NothingEncoded \in V
  BY StringsAreTexts, LenProperties, NothingEncodedIs
<1>2. \A i \in 1..n, x \in V : Step(x, i) \in V
  <2>1. ASSUME NEW i \in 1..Len(in), NEW x \in EncoderStates PROVE Step(x, i) \in EncoderStates
    <3>1. in[i] \in 0..O!Octet - 1
      BY StringsAreTexts, LenProperties
    <3> QED BY <3>1, EncoderStays
  <2> QED BY <2>1
<1>3. (LET s == up[Len(in)]
            waits == s.valb > O!UInt - O!DigitBits \/ s.valb <= O!DigitBits
            digit == (((s.val * O!Octet) % O!UInt) \div O!Power(2, (s.valb + OctetBits) % O!UInt)) % O!Pad
            out == IF waits THEN Append(s.out, digit) ELSE s.out
        IN  O!Base64EncStr(in) = out \o [i \in 1..(-Len(out) % 4) |-> O!Pad])
  BY Zenon DEF O!Base64EncStr, NothingEncoded
<1> HIDE DEF n, V, Step
<1>4. g \in [1..n -> [V -> V]] /\ \A i \in 1..n, x \in V : g[i][x] = Step(x, i)
  BY <1>2
<1> HIDE DEF g
<1>5. PICK f : f \in Iterations(V, n, NothingEncoded, g)
  BY <1>1, <1>4, Iterated, Zenon
<1>6. f = [i \in 0..n |-> IF i = 0 THEN NothingEncoded ELSE Step(f[i - 1], i)]
  <2>1. f \in [0..n -> V] /\ f[0] = NothingEncoded /\ \A i \in 1..n : f[i] = g[i][f[i - 1]]
    BY <1>5 DEF Iterations
  <2>2. \A i \in 1..n : f[i] = Step(f[i - 1], i)
    BY <1>1, <1>4, <2>1
  <2> QED BY <1>1, <2>1, <2>2
<1>7. up = [i \in 0..n |-> IF i = 0 THEN NothingEncoded ELSE Step(up[i - 1], i)]
  BY <1>6, Zenon DEF Step
<1> HIDE DEF up
<1>8. up[0] = NothingEncoded /\ \A i \in 1..n : up[i] = Step(up[i - 1], i)
  BY <1>1, <1>7
<1>9. \A i \in 0..n : up[i] \in V
  <2>1. up[0] \in V
    BY <1>1, <1>8
  <2>2. \A i \in 1..n : up[i - 1] \in V => up[i] \in V
    BY <1>2, <1>8
  <2> QED BY <1>1, <2>1, <2>2, Typed, Zenon
<1>10. up \in [0..n -> V]
  BY <1>7, <1>9
<1> QED BY <1>3, <1>8, <1>10, Zenon DEF n, V, Step

\* What is written are the digits of the number of the octets, filled up.
LEMMA EncodedIs ==
  ASSUME NEW in \in O!OctetStrings
  PROVE  \E digits \in Seq(0..O!Pad - 1), z \in 0..2 :
           /\ O!Base64EncStr(in) = digits \o [i \in 1..(-Len(digits) % 4) |-> O!Pad]
           /\ O!NumberIn(O!Pad, digits) = O!NumberOf(in) * O!Power(2, QuarterBits * z)
           /\ 3 * Len(digits) = 4 * Len(in) + z
<1> DEFINE h == QuarterBits
           n == Len(in)
<1>1. /\ h \in Nat \ {0} /\ OctetBits = 4 * h /\ O!DigitBits = 3 * h
      /\ WordBits \in Nat /\ WordBits >= 8 * h /\ O!UInt \in Nat \ {0} /\ O!UInt > 8 * h
      /\ O!Pad = O!Power(2, 3 * h) /\ O!Octet = O!Power(2, 4 * h)
      /\ O!Pad \in Nat \ {0} /\ O!Octet \in Nat \ {0}
  BY Sextets
<1>2. n \in Nat /\ in \in Seq(Nat) /\ \A i \in 1..n : in[i] \in 0..O!Octet - 1
  BY StringsAreTexts
<1>3. PICK up \in [0..n -> EncoderStates] :
        /\ LET s == up[n]
               waits == s.valb > O!UInt - O!DigitBits \/ s.valb <= O!DigitBits
               digit == (((s.val * O!Octet) % O!UInt) \div O!Power(2, (s.valb + OctetBits) % O!UInt)) % O!Pad
               out == IF waits THEN Append(s.out, digit) ELSE s.out
           IN  O!Base64EncStr(in) = out \o [i \in 1..(-Len(out) % 4) |-> O!Pad]
        /\ up[0] = NothingEncoded
        /\ \A i \in 1..n : up[i] = O!EncodeOctet(up[i - 1], in[i])
  BY EncodeUp
<1>4. PICK g \in [0..n -> Nat] :
        O!NumberOf(in) = g[n] /\ g[0] = 0 /\ \A i \in 1..n : g[i] = g[i - 1] * O!Octet + in[i]
  BY <1>2, NumberUp
<1> HIDE DEF n, h
<1> DEFINE D == {i \in 0..n : \E t \in 0..2 : Encoding(up[i], t, g[i], i)}
<1>5. 0 \in D
  <2>1. 0 \in 0..2 /\ 0 \in 0..n
    BY <1>2
  <2>2. Encoding(up[0], 0, g[0], 0)
    BY <1>3, <1>4, NothingEncodedIs
  <2> QED BY <2>1, <2>2
<1>6. ASSUME NEW i \in 1..n, i - 1 \in D PROVE i \in D
  <2>1. PICK t \in 0..2 : Encoding(up[i - 1], t, g[i - 1], i - 1)
    BY <1>6
  <2>2. i - 1 \in Nat /\ in[i] \in 0..O!Octet - 1 /\ (i - 1) + 1 = i /\ i \in 0..n
    BY <1>2
  <2>3. PICK u \in 0..2 : Encoding(O!EncodeOctet(up[i - 1], in[i]), u, g[i - 1] * O!Octet + in[i], (i - 1) + 1)
    BY <2>1, <2>2, EncodeRound
  <2>4. Encoding(up[i], u, g[i], i)
    BY <1>3, <1>4, <2>2, <2>3
  <2> QED BY <2>2, <2>4
<1>7. PICK t \in 0..2 : Encoding(up[n], t, g[n], n)
  <2> HIDE DEF D
  <2>1. \A i \in 0..n : i \in D
    BY <1>2, <1>5, <1>6, UpTo
  <2>2. n \in D
    BY <1>2, <2>1
  <2> QED BY <2>2 DEF D
<1> DEFINE s == up[n]
           w == h * t
           N == g[n]
           v == s.val
           X == O!NumberIn(O!Pad, s.out)
           waits == s.valb > O!UInt - O!DigitBits \/ s.valb <= O!DigitBits
           new == (v * O!Octet) % O!UInt
           place == (s.valb + OctetBits) % O!UInt
           digit == (new \div O!Power(2, place)) % O!Pad
           out == IF waits THEN Append(s.out, digit) ELSE s.out
<1>8. O!Base64EncStr(in) = out \o [i \in 1..(-Len(out) % 4) |-> O!Pad]
  BY <1>3
<1> HIDE DEF s, N
<1>9. /\ v \in 0..O!UInt - 1 /\ s.valb = (O!UInt - 3 * h) + w
      /\ s.out \in Seq(0..O!Pad - 1) /\ N \in Nat
      /\ N = X * O!Power(2, w) + (v % O!Power(2, w))
      /\ 3 * Len(s.out) + t = 4 * n
  BY <1>7 DEF Encoding, s, N, h
<1>10. N = O!NumberOf(in)
  BY <1>4 DEF N
<1>11. (t = 0 => w = 0) /\ (t = 1 => w = h) /\ (t = 2 => w = 2 * h) /\ w \in Nat /\ w <= 2 * h
  BY <1>1, <1>7
<1>12. s.valb = (O!UInt - 3 * h) + w /\ Len(s.out) \in Nat /\ X \in Nat
  BY <1>1, <1>9, LenProperties, NumberInBound
<1> HIDE DEF w, v, X
<1>13. CASE t = 0
  <2>1. ~waits
    BY <1>1, <1>11, <1>12, <1>13
  <2>2. out = s.out
    BY <2>1
  <2>3. X = N * O!Power(2, h * 0)
    <3>1. O!Power(2, 0) = 1 /\ h * 0 = 0
      BY <1>1, PowerIs
    <3>2. v % 1 = 0
      <4>1. v \in Nat
        BY <1>1, <1>9
      <4> QED BY <4>1
    <3> QED BY <1>9, <1>11, <1>12, <1>13, <3>1, <3>2
  <2>4. 3 * Len(out) = 4 * n + 0
    <3> DEFINE j == Len(s.out)
    <3>1. j \in Nat /\ 3 * j + t = 4 * n
      BY <1>9, <1>12
    <3>2. Len(out) = j
      BY <2>2
    <3> HIDE DEF j, out
    <3> QED BY <1>2, <1>13, <3>1, <3>2
  <2>5. out \in Seq(0..O!Pad - 1)
    BY <1>9, <2>2
  <2>6. O!NumberIn(O!Pad, out) = O!NumberOf(in) * O!Power(2, QuarterBits * 0)
    BY <1>10, <2>2, <2>3 DEF h, X
  <2>7. 0 \in 0..2
    OBVIOUS
  <2> HIDE DEF out
  <2> QED BY <1>8, <2>4, <2>5, <2>6, <2>7 DEF n
<1>14. CASE t # 0
  <2> DEFINE z == 3 - t
             k == w + h
             c == h * z
  <2>1. waits /\ place = k
    <3>1. waits
      BY <1>1, <1>7, <1>11, <1>12, <1>14
    <3> DEFINE q == s.valb + OctetBits
    <3>2. q = O!UInt * 1 + k /\ k \in 0..O!UInt - 1 /\ q \in Int /\ 1 \in Int
      BY <1>1, <1>11, <1>12
    <3> HIDE DEF q, k
    <3>3. q % O!UInt = k
      BY <1>1, <3>2, DivUnique
    <3> QED BY <3>1, <3>3 DEF q
  <2>2. out = Append(s.out, digit)
    BY <2>1
  <2>3. z \in 0..2 /\ c = 4 * h - k /\ c \in Nat /\ k \in Nat /\ k + c = 4 * h
    <3>1. z = 1 \/ z = 2
      BY <1>7, <1>14
    <3> QED BY <1>1, <1>7, <1>11, <1>14, <3>1
  <2> HIDE DEF waits, out, k, c
  <2>a. O!Octet = O!Power(2, k) * O!Power(2, c) /\ O!Power(2, k) \in Nat \ {0} /\ O!Power(2, c) \in Nat \ {0}
    <3>1. O!Power(2, k + c) = O!Power(2, k) * O!Power(2, c)
      BY <2>3, PowerAdds
    <3>2. \A j \in Nat : O!Power(2, j) \in Nat \ {0}
      BY PowerPositive
    <3> QED BY <1>1, <2>3, <3>1, <3>2
  <2>4. /\ new \in 0..O!UInt - 1 /\ N * O!Octet \in Nat
        /\ N * O!Octet = X * O!Power(2, w + 4 * h) + (new % O!Power(2, w + 4 * h))
    <3>1. /\ N \in Nat /\ X \in Nat /\ v \in 0..O!UInt - 1 /\ w \in Nat /\ 4 * h \in Nat /\ w + 4 * h <= WordBits
          /\ 0 \in 0..O!Power(2, 4 * h) - 1 /\ N = X * O!Power(2, w) + (v % O!Power(2, w))
      BY <1>1, <1>9, <1>11, <1>12
    <3>2. LET more == (v * O!Power(2, 4 * h) + 0) % O!UInt
          IN  /\ more \in 0..O!UInt - 1 /\ N * O!Power(2, 4 * h) + 0 \in Nat
              /\ N * O!Power(2, 4 * h) + 0 = X * O!Power(2, w + 4 * h) + (more % O!Power(2, w + 4 * h))
      BY <3>1, MoreIn
    <3>3. v * O!Octet + 0 = v * O!Octet /\ N * O!Octet + 0 = N * O!Octet
      <4>1. v * O!Octet \in Nat /\ N * O!Octet \in Nat
        <5>1. v \in Nat
          BY <1>1, <1>9
        <5> QED BY <1>1, <1>9, <5>1
      <4> QED BY <4>1
    <3> QED BY <1>1, <3>2, <3>3
  <2>5. new % O!Power(2, k) = 0
    <3>1. new % O!Octet = 0
      <4>1. /\ v \in 0..O!UInt - 1 /\ 4 * h \in Nat /\ 0 \in Nat /\ 0 + 4 * h <= WordBits /\ 0 \in 0..O!Power(2, 4 * h) - 1
        BY <1>1, <1>9
      <4>2. LET more == (v * O!Power(2, 4 * h) + 0) % O!UInt
            IN  /\ more \in 0..O!UInt - 1
                /\ more % O!Power(2, 0 + 4 * h) = (v % O!Power(2, 0)) * O!Power(2, 4 * h) + 0
        BY <4>1, BitsIn
      <4>3. v % O!Power(2, 0) = 0
        <5>1. O!Power(2, 0) = 1 /\ v \in Nat
          BY <1>1, <1>9, PowerIs
        <5>2. v % 1 = 0
          BY <5>1
        <5> QED BY <5>1, <5>2
      <4>4. v * O!Octet + 0 = v * O!Octet /\ 0 + 4 * h = 4 * h /\ 0 * O!Octet + 0 = 0
        <5>1. v * O!Octet \in Nat
          <6>1. v \in Nat
            BY <1>1, <1>9
          <6> QED BY <1>1, <6>1
        <5> QED BY <1>1, <5>1
      <4> QED BY <1>1, <4>2, <4>3, <4>4
    <3> DEFINE kp == O!Power(2, k)
               cp == O!Power(2, c)
    <3>2. O!Octet = kp * cp /\ kp \in Nat \ {0} /\ cp \in Nat \ {0}
      BY <2>a
    <3>3. new \in Nat
      BY <1>1, <2>4
    <3> HIDE DEF kp, cp, new
    <3>4. (new % (kp * cp)) % kp = new % kp
      BY <3>2, <3>3, RestOfRest
    <3>5. 0 % kp = 0
      BY <3>2
    <3> QED BY <3>1, <3>2, <3>4, <3>5 DEF kp
  <2>6. /\ out \in Seq(0..O!Pad - 1) /\ Len(out) = Len(s.out) + 1
        /\ N * O!Octet = O!NumberIn(O!Pad, out) * O!Power(2, k) + (new % O!Power(2, k))
    <3> DEFINE NO == N * O!Octet
    <3>1. 3 * h \in Nat /\ k \in Nat /\ 3 * h + k = w + 4 * h
      BY <1>1, <1>11 DEF k
    <3>2. s.out \in Seq(0..O!Power(2, 3 * h) - 1) /\ new \in Nat /\ NO \in Nat
      BY <1>1, <1>9, <2>4
    <3>3. NO = O!NumberIn(O!Power(2, 3 * h), s.out) * O!Power(2, 3 * h + k) + (new % O!Power(2, 3 * h + k))
      BY <1>1, <2>4, <3>1 DEF X
    <3> HIDE DEF NO, new
    <3>4. LET d == (new \div O!Power(2, k)) % O!Power(2, 3 * h)
          IN  /\ d \in 0..O!Power(2, 3 * h) - 1 /\ Append(s.out, d) \in Seq(0..O!Power(2, 3 * h) - 1)
              /\ Len(Append(s.out, d)) = Len(s.out) + 1 /\ Len(s.out) \in Nat
              /\ NO = O!NumberIn(O!Power(2, 3 * h), Append(s.out, d)) * O!Power(2, k) + (new % O!Power(2, k))
      BY <3>1, <3>2, <3>3, OneOut
    <3>5. digit = (new \div O!Power(2, k)) % O!Power(2, 3 * h)
      BY <1>1, <2>1
    <3> HIDE DEF digit
    <3> QED BY <1>1, <2>2, <3>4, <3>5 DEF NO
  <2>7. O!NumberIn(O!Pad, out) = N * O!Power(2, c)
    <3> DEFINE kp == O!Power(2, k)
               cp == O!Power(2, c)
               Y == O!NumberIn(O!Pad, out)
    <3>1. O!Octet = kp * cp /\ kp \in Nat \ {0} /\ cp \in Nat \ {0}
      BY <2>a
    <3>2. Y \in Nat
      BY <1>1, <2>6, NumberInBound
    <3>3. N * O!Octet = Y * kp
      <4>1. Y * kp \in Nat
        BY <3>1, <3>2
      <4> HIDE DEF kp, Y
      <4> QED BY <2>5, <2>6, <4>1 DEF kp, Y
    <3> HIDE DEF kp, cp, Y
    <3>4. N * (kp * cp) = kp * (N * cp) /\ Y * kp = kp * Y /\ N * cp \in Nat
      BY <1>9, <3>1, <3>2
    <3> DEFINE e == N * cp
               b == kp * Y
    <3>5. b = kp * e + 0 /\ b = kp * Y + 0 /\ e \in Int /\ Y \in Int /\ 0 \in 0..kp - 1 /\ b \in Int
      <4>1. kp * Y \in Nat /\ kp * Y = kp * e
        BY <3>1, <3>2, <3>3, <3>4
      <4> HIDE DEF e
      <4>2. e \in Nat
        BY <3>4 DEF e
      <4> QED BY <3>1, <3>2, <4>1, <4>2
    <3> HIDE DEF e, b
    <3>6. b \div kp = e
      BY <3>1, <3>5, DivUnique
    <3>7. b \div kp = Y
      BY <3>1, <3>5, DivUnique
    <3> QED BY <3>6, <3>7 DEF e, Y, cp
  <2>8. 3 * Len(out) = 4 * n + z
    <3> DEFINE j == Len(s.out)
    <3>1. j \in Nat /\ 3 * j + t = 4 * n
      BY <1>9, <1>12
    <3>2. Len(out) = j + 1
      BY <2>6
    <3> HIDE DEF j, out
    <3> QED BY <1>2, <1>7, <3>1, <3>2
  <2>9. O!NumberIn(O!Pad, out) = O!NumberOf(in) * O!Power(2, QuarterBits * z)
    BY <1>10, <2>7 DEF h, c
  <2>10. O!Base64EncStr(in) = out \o [i \in 1..(-Len(out) % 4) |-> O!Pad]
    BY <1>8 DEF out, waits
  <2> HIDE DEF z
  <2> QED BY <2>3, <2>6, <2>8, <2>9, <2>10 DEF n
<1> QED BY <1>13, <1>14
-----------------------------------------------------------------------------
(* Octets: base64DecStr.                                                   *)

\* What the decoder read is what it wrote, and the bits that wait.
DecoderRecords == [val : 0..O!UInt - 1, valb : Int, ended : BOOLEAN, out : O!OctetStrings]
Decoding(x, t, N, i) ==
  /\ x \in DecoderRecords /\ x.ended = FALSE
  /\ t \in 0..3 /\ x.valb = QuarterBits * t - 4 * QuarterBits /\ N \in Nat
  /\ N = O!NumberIn(O!Octet, x.out) * O!Power(2, QuarterBits * t) + (x.val % O!Power(2, QuarterBits * t))
  /\ 4 * Len(x.out) + t = 3 * i

\* A round of base64DecStr keeps the invariant.
LEMMA DecodeRound ==
  ASSUME NEW x, NEW t, NEW N, NEW i \in Nat, Decoding(x, t, N, i), NEW c \in 0..O!Pad - 1
  PROVE  \E u \in 0..3 : Decoding(O!DecodeDigit(x, c), u, N * O!Pad + c, i + 1)
<1> DEFINE h == QuarterBits
           w == h * t
           X == O!NumberIn(O!Octet, x.out)
           val == (x.val * O!Pad + c) % O!UInt
           valb == x.valb + O!DigitBits
           more == (val \div O!Power(2, valb)) % O!Octet
           K == N * O!Pad + c
           k == Len(x.out)
<1>1. /\ h \in Nat \ {0} /\ OctetBits = 4 * h /\ O!DigitBits = 3 * h
      /\ WordBits \in Nat /\ WordBits >= 8 * h /\ O!UInt \in Nat \ {0} /\ O!UInt > 8 * h
      /\ O!Pad = O!Power(2, 3 * h) /\ O!Octet = O!Power(2, 4 * h)
      /\ O!Pad \in Nat \ {0} /\ O!Octet \in Nat \ {0}
  BY Sextets
<1>2. /\ x.val \in 0..O!UInt - 1 /\ x.out \in O!OctetStrings /\ x.valb \in Int
  BY DEF Decoding, DecoderRecords
<1>3. /\ x \in DecoderRecords /\ x.ended = FALSE /\ t \in 0..3 /\ x.valb = w - 4 * h /\ N \in Nat
      /\ N = X * O!Power(2, w) + (x.val % O!Power(2, w))
      /\ 4 * k + t = 3 * i
  BY DEF Decoding
<1>4. O!DecodeDigit(x, c) =
        IF valb >= 0 THEN [val |-> val, valb |-> valb - OctetBits, ended |-> FALSE, out |-> Append(x.out, more)]
        ELSE [x EXCEPT !.val = val, !.valb = valb]
  <2>1. ~x.ended /\ ~(c >= O!Pad)
    BY <1>1, <1>3
  <2> QED BY <2>1, Zenon DEF O!DecodeDigit
<1>5. k \in Nat /\ x.out \in Seq(0..O!Octet - 1)
  BY <1>2, LenProperties DEF O!OctetStrings
<1> HIDE DEF h
<1>6. (t = 0 => w = 0) /\ (t = 1 => w = h) /\ (t = 2 => w = 2 * h) /\ (t = 3 => w = 3 * h) /\ w \in Nat /\ w <= 3 * h
  BY <1>1, <1>3
<1> HIDE DEF w, k
<1>7. /\ val \in 0..O!UInt - 1 /\ K \in Nat
      /\ K = X * O!Power(2, w + 3 * h) + (val % O!Power(2, w + 3 * h))
  <2>1. X \in Nat
    BY <1>1, <1>5, NumberInBound
  <2> HIDE DEF X
  <2> DEFINE v == x.val
  <2>2. /\ N \in Nat /\ X \in Nat /\ v \in 0..O!UInt - 1 /\ w \in Nat /\ 3 * h \in Nat /\ w + 3 * h <= WordBits
        /\ c \in 0..O!Power(2, 3 * h) - 1 /\ N = X * O!Power(2, w) + (v % O!Power(2, w))
    BY <1>1, <1>2, <1>3, <1>6, <2>1
  <2> HIDE DEF v
  <2>3. LET new == (v * O!Power(2, 3 * h) + c) % O!UInt
        IN  /\ new \in 0..O!UInt - 1 /\ N * O!Power(2, 3 * h) + c \in Nat
            /\ N * O!Power(2, 3 * h) + c = X * O!Power(2, w + 3 * h) + (new % O!Power(2, w + 3 * h))
    BY <2>2, MoreIn
  <2> QED BY <1>1, <2>3 DEF v
<1>8. valb = w - h /\ valb \in Int
  BY <1>1, <1>2, <1>3, <1>6
<1> DEFINE y == O!DecodeDigit(x, c)
<1> HIDE DEF val, valb, K
<1>9. val \in Nat
  BY <1>1, <1>7
<1>10. CASE t = 0
  <2>1. ~(valb >= 0)
    BY <1>1, <1>6, <1>8, <1>10
  <2>2. y = [x EXCEPT !.val = val, !.valb = valb]
    BY <1>4, <2>1
  <2>3. y \in DecoderRecords /\ y.ended = FALSE /\ y.val = val /\ y.valb = valb /\ y.out = x.out
    BY <1>3, <1>7, <1>8, <2>2 DEF DecoderRecords
  <2> HIDE DEF y
  <2>4. valb = h * 3 - 4 * h /\ h * 3 = w + 3 * h
    BY <1>1, <1>6, <1>8, <1>10
  <2>5. K = O!NumberIn(O!Octet, y.out) * O!Power(2, h * 3) + (y.val % O!Power(2, h * 3))
    BY <1>7, <2>3, <2>4
  <2>6. 4 * Len(y.out) + 3 = 3 * (i + 1)
    <3>1. Len(y.out) = k
      BY <2>3 DEF k
    <3> QED BY <1>3, <1>5, <1>10, <3>1
  <2>7. 3 \in 0..3 /\ y.valb = h * 3 - 4 * h
    BY <2>3, <2>4
  <2>8. Decoding(y, 3, K, i + 1)
    BY <1>7, <2>3, <2>5, <2>6, <2>7 DEF Decoding, h
  <2> QED BY <2>7, <2>8 DEF K, y
<1>11. CASE t # 0
  <2> DEFINE u == t - 1
             a == Append(x.out, more)
  <2>1. valb >= 0 /\ u \in 0..2 /\ u \in 0..3 /\ valb \in Nat /\ h * u = valb /\ 4 * h + valb = w + 3 * h
    <3>1. t = 1 \/ t = 2 \/ t = 3
      BY <1>3, <1>11
    <3> QED BY <1>1, <1>6, <1>8, <3>1
  <2>2. y = [val |-> val, valb |-> valb - OctetBits, ended |-> FALSE, out |-> a]
    BY <1>4, <2>1
  <2>3. /\ more \in 0..O!Octet - 1 /\ a \in Seq(0..O!Octet - 1) /\ Len(a) = Len(x.out) + 1
        /\ K = O!NumberIn(O!Octet, a) * O!Power(2, valb) + (val % O!Power(2, valb))
    <3>1. 4 * h \in Nat /\ valb \in Nat
      BY <1>1, <2>1
    <3>2. x.out \in Seq(0..O!Power(2, 4 * h) - 1)
      BY <1>1, <1>5
    <3>3. K = O!NumberIn(O!Power(2, 4 * h), x.out) * O!Power(2, 4 * h + valb) + (val % O!Power(2, 4 * h + valb))
      BY <1>1, <1>7, <2>1
    <3>4. K \in Nat
      BY <1>7
    <3>5. LET d == (val \div O!Power(2, valb)) % O!Power(2, 4 * h)
          IN  /\ d \in 0..O!Power(2, 4 * h) - 1 /\ Append(x.out, d) \in Seq(0..O!Power(2, 4 * h) - 1)
              /\ Len(Append(x.out, d)) = Len(x.out) + 1 /\ Len(x.out) \in Nat
              /\ K = O!NumberIn(O!Power(2, 4 * h), Append(x.out, d)) * O!Power(2, valb) + (val % O!Power(2, valb))
      BY <1>9, <3>1, <3>2, <3>3, <3>4, OneOut
    <3> QED BY <1>1, <3>5
  <2> HIDE DEF a, more
  <2>4. valb - OctetBits \in Int /\ valb - OctetBits = h * u - 4 * h
    BY <1>1, <2>1
  <2>5. y \in DecoderRecords /\ y.ended = FALSE /\ y.val = val /\ y.valb = valb - OctetBits /\ y.out = a
    BY <1>7, <2>2, <2>3, <2>4 DEF DecoderRecords, O!OctetStrings
  <2> HIDE DEF y
  <2>6. K = O!NumberIn(O!Octet, y.out) * O!Power(2, h * u) + (y.val % O!Power(2, h * u))
    BY <2>1, <2>3, <2>5
  <2>7. 4 * Len(y.out) + u = 3 * (i + 1)
    <3>1. Len(y.out) = k + 1
      BY <2>3, <2>5 DEF k
    <3> QED BY <1>3, <1>5, <3>1
  <2>8. y.valb = h * u - 4 * h
    BY <2>4, <2>5
  <2> HIDE DEF u
  <2>9. Decoding(y, u, K, i + 1)
    BY <1>7, <2>1, <2>5, <2>6, <2>7, <2>8 DEF Decoding, h
  <2> QED BY <2>1, <2>9 DEF K, y
<1> QED BY <1>10, <1>11

\* A character that is no digit ends it, and nothing is written any more.
LEMMA DecodeEnds ==
  ASSUME NEW x \in DecoderRecords, NEW c, x.ended = TRUE \/ c >= O!Pad
  PROVE  LET y == O!DecodeDigit(x, c) IN y \in DecoderRecords /\ y.ended = TRUE /\ y.out = x.out
<1>1. O!DecodeDigit(x, c) = [x EXCEPT !.ended = TRUE]
  BY Zenon DEF O!DecodeDigit
<1> QED BY <1>1 DEF DecoderRecords

NothingDecoded == [val |-> 0, valb |-> -OctetBits, ended |-> FALSE, out |-> <<>>]
DecoderStates ==
  {x \in DecoderRecords : x.ended = TRUE \/ \E t \in 0..3, N \in Nat, i \in Nat : Decoding(x, t, N, i)}

\* base64DecStr before its loop.
LEMMA NothingDecodedIs == Decoding(NothingDecoded, 0, 0, 0) /\ NothingDecoded \in DecoderStates
<1> DEFINE h == QuarterBits
           x == NothingDecoded
<1>1. /\ h \in Nat \ {0} /\ OctetBits = 4 * h /\ O!UInt \in Nat \ {0} /\ O!Octet \in Nat \ {0}
  BY Sextets
<1>2. x.val = 0 /\ x.valb = -OctetBits /\ x.out = <<>> /\ x.ended = FALSE
  BY DEF NothingDecoded
<1>3. <<>> \in Seq(0..O!Octet - 1) /\ Len(<<>>) = 0
  BY EmptySeq
<1>4. x \in DecoderRecords
  <2>1. 0 \in 0..O!UInt - 1 /\ -OctetBits \in Int
    BY <1>1
  <2> QED BY <1>3, <2>1 DEF NothingDecoded, DecoderRecords, O!OctetStrings
<1>5. O!NumberIn(O!Octet, <<>>) = 0
  BY <1>1, NumberInNone
<1>6. h * 0 = 0 /\ 0 % 1 = 0 /\ O!Power(2, 0) = 1
  <2>1. O!Power(2, 0) = 1
    BY PowerIs
  <2> QED BY <1>1, <2>1
<1>7. x.valb = h * 0 - 4 * h
  BY <1>1, <1>2
<1>8. 0 = O!NumberIn(O!Octet, x.out) * O!Power(2, h * 0) + (x.val % O!Power(2, h * 0))
  BY <1>2, <1>5, <1>6
<1>9. 4 * Len(x.out) + 0 = 3 * 0
  BY <1>2, <1>3
<1>10. 0 \in 0..3 /\ 0 \in Nat
  OBVIOUS
<1> HIDE DEF x
<1>11. Decoding(x, 0, 0, 0)
  BY <1>2, <1>4, <1>7, <1>8, <1>9, <1>10 DEF Decoding, h
<1>12. x \in DecoderStates
  BY <1>4, <1>10, <1>11 DEF DecoderStates
<1> QED BY <1>11, <1>12 DEF x

\* A round stays in the states that the loop has.
LEMMA DecoderStays ==
  ASSUME NEW x \in DecoderStates, NEW c \in Nat
  PROVE  O!DecodeDigit(x, c) \in DecoderStates
<1>1. x \in DecoderRecords
  BY DEF DecoderStates
<1>2. CASE x.ended = TRUE \/ c >= O!Pad
  <2>1. O!DecodeDigit(x, c) \in DecoderRecords /\ O!DecodeDigit(x, c).ended = TRUE
    BY <1>1, <1>2, DecodeEnds
  <2> QED BY <2>1 DEF DecoderStates
<1>3. CASE ~(x.ended = TRUE \/ c >= O!Pad)
  <2>1. PICK t \in 0..3, N \in Nat, i \in Nat : Decoding(x, t, N, i)
    BY <1>3 DEF DecoderStates
  <2>2. c \in 0..O!Pad - 1 /\ O!Pad \in Nat
    BY <1>3, OctetSizes
  <2>3. PICK u \in 0..3 : Decoding(O!DecodeDigit(x, c), u, N * O!Pad + c, i + 1)
    BY <2>1, <2>2, DecodeRound
  <2> DEFINE y == O!DecodeDigit(x, c)
             K == N * O!Pad + c
             j == i + 1
  <2>4. K \in Nat /\ y \in DecoderRecords
    BY <2>3 DEF Decoding
  <2>5. j \in Nat
    OBVIOUS
  <2> HIDE DEF K, j, y
  <2>6. Decoding(y, u, K, j)
    BY <2>3 DEF K, j, y
  <2> QED BY <2>4, <2>5, <2>6 DEF DecoderStates, y
<1> QED BY <1>2, <1>3

\* Character by character.
LEMMA DecodeUp ==
  ASSUME NEW in \in Seq(Nat)
  PROVE  \E up \in [0..Len(in) -> DecoderStates] :
           O!Base64DecStr(in) = up[Len(in)].out /\ up[0] = NothingDecoded /\ \A i \in 1..Len(in) : up[i] = O!DecodeDigit(up[i - 1], in[i])
<1> DEFINE n == Len(in)
           V == DecoderStates
           Step(x, i) == O!DecodeDigit(x, in[i])
           g == [i \in 1..n |-> [x \in V |-> Step(x, i)]]
           up == CHOOSE upTo : upTo = [i \in 0..n |-> IF i = 0 THEN NothingDecoded ELSE O!DecodeDigit(upTo[i - 1], in[i])]
<1>1. n \in Nat /\ NothingDecoded \in V
  BY LenProperties, NothingDecodedIs
<1>2. \A i \in 1..n, x \in V : Step(x, i) \in V
  <2>1. ASSUME NEW i \in 1..Len(in), NEW x \in DecoderStates PROVE Step(x, i) \in DecoderStates
    <3>1. in[i] \in Nat
      BY LenProperties
    <3> QED BY <3>1, DecoderStays
  <2> QED BY <2>1
<1>3. O!Base64DecStr(in) = up[Len(in)].out
  BY Zenon DEF O!Base64DecStr, NothingDecoded
<1> HIDE DEF n, V, Step
<1>4. g \in [1..n -> [V -> V]] /\ \A i \in 1..n, x \in V : g[i][x] = Step(x, i)
  BY <1>2
<1> HIDE DEF g
<1>5. PICK f : f \in Iterations(V, n, NothingDecoded, g)
  BY <1>1, <1>4, Iterated, Zenon
<1>6. f = [i \in 0..n |-> IF i = 0 THEN NothingDecoded ELSE Step(f[i - 1], i)]
  <2>1. f \in [0..n -> V] /\ f[0] = NothingDecoded /\ \A i \in 1..n : f[i] = g[i][f[i - 1]]
    BY <1>5 DEF Iterations
  <2>2. \A i \in 1..n : f[i] = Step(f[i - 1], i)
    BY <1>1, <1>4, <2>1
  <2> QED BY <1>1, <2>1, <2>2
<1>7. up = [i \in 0..n |-> IF i = 0 THEN NothingDecoded ELSE Step(up[i - 1], i)]
  BY <1>6, Zenon DEF Step
<1> HIDE DEF up
<1>8. up[0] = NothingDecoded /\ \A i \in 1..n : up[i] = Step(up[i - 1], i)
  BY <1>1, <1>7
<1>9. \A i \in 0..n : up[i] \in V
  <2>1. up[0] \in V
    BY <1>1, <1>8
  <2>2. \A i \in 1..n : up[i - 1] \in V => up[i] \in V
    BY <1>2, <1>8
  <2> QED BY <1>1, <2>1, <2>2, Typed, Zenon
<1>10. up \in [0..n -> V]
  BY <1>7, <1>9
<1> QED BY <1>3, <1>8, <1>10, Zenon DEF n, V, Step

\* As many of the first characters are digits as the others say.
LEMMA DigitsAre ==
  ASSUME NEW in \in Seq(Nat), NEW m \in 0..Len(in), \A j \in 1..m : in[j] < O!Pad, m < Len(in) => ~(in[m + 1] < O!Pad)
  PROVE  O!Digits(in) = SubSeq(in, 1, m)
<1> DEFINE S == {i \in DOMAIN in : \A j \in 1..i : in[j] < O!Pad}
<1>1. Len(in) \in Nat /\ DOMAIN in = 1..Len(in)
  BY LenProperties
<1>2. S = 1..m
  <2>1. ASSUME NEW i \in S PROVE i \in 1..m
    <3>1. i \in 1..Len(in) /\ \A j \in 1..i : in[j] < O!Pad
      BY <1>1
    <3>2. SUFFICES ASSUME ~(i <= m) PROVE FALSE
      BY <1>1, <3>1
    <3>3. m + 1 \in 1..i /\ m < Len(in)
      BY <1>1, <3>1, <3>2
    <3> QED BY <3>1, <3>3
  <2>2. ASSUME NEW i \in 1..m PROVE i \in S
    <3>1. i \in DOMAIN in
      BY <1>1
    <3>2. \A j \in 1..i : j \in 1..m
      BY <1>1
    <3> QED BY <3>1, <3>2
  <2> QED BY <2>1, <2>2
<1> HIDE DEF S
<1>3. Cardinality(1..m) = m
  <2>1. 1 \in Int /\ m \in Int /\ m \in Nat
    BY <1>1
  <2>2. Cardinality(1..m) = IF 1 > m THEN 0 ELSE m - 1 + 1
    BY <2>1, FS_Interval
  <2> QED BY <2>1, <2>2
<1>4. O!Digits(in) = SubSeq(in, 1, Cardinality(S))
  <2>1. O!Digits(in) = SubSeq(in, 1, O!Cardinality(S))
    BY Zenon DEF O!Digits, S
  <2>2. O!Cardinality(S) = Cardinality(S)
    BY DEF O!Cardinality, Cardinality
  <2> QED BY <2>1, <2>2
<1> QED BY <1>2, <1>3, <1>4

\* Some of the first characters are digits, and the next one is none.
LEMMA DigitsExist ==
  ASSUME NEW in \in Seq(Nat)
  PROVE  \E m \in 0..Len(in) : (\A j \in 1..m : in[j] < O!Pad) /\ (m < Len(in) => ~(in[m + 1] < O!Pad))
<1> DEFINE n == Len(in)
           S == {i \in 0..n : i = n \/ ~(in[i + 1] < O!Pad)}
<1>1. n \in Nat
  BY LenProperties
<1> HIDE DEF n
<1>2. S \in SUBSET Nat /\ S # {}
  <2>1. n \in S
    BY <1>1
  <2> QED BY <2>1
<1>3. PICK m \in S : \A i \in S : m <= i
  <2> HIDE DEF S
  <2> QED BY <1>2, Smallest
<1>4. m \in 0..n /\ (m < n => ~(in[m + 1] < O!Pad))
  BY <1>1, <1>3
<1>5. ASSUME NEW j \in 1..m PROVE in[j] < O!Pad
  <2>1. j - 1 \in 0..n /\ j - 1 # n /\ ~(m <= j - 1) /\ (j - 1) + 1 = j
    BY <1>1, <1>4
  <2>2. j - 1 \notin S
    BY <1>3, <2>1
  <2> QED BY <2>1, <2>2
<1> QED BY <1>4, <1>5 DEF n

\* What is read are the octets of the number of the digits, without the last bits.
LEMMA DecodedIs ==
  ASSUME NEW in \in Seq(Nat)
  PROVE  \E m \in 0..Len(in), t \in 0..3, r \in Nat :
           /\ O!Digits(in) = SubSeq(in, 1, m) /\ O!Digits(in) \in Seq(0..O!Pad - 1) /\ Len(O!Digits(in)) = m
           /\ \A j \in 1..m : in[j] < O!Pad
           /\ m < Len(in) => ~(in[m + 1] < O!Pad)
           /\ O!Base64DecStr(in) \in O!OctetStrings
           /\ O!NumberIn(O!Pad, O!Digits(in)) = O!NumberOf(O!Base64DecStr(in)) * O!Power(2, QuarterBits * t) + r
           /\ r < O!Power(2, QuarterBits * t)
           /\ 4 * Len(O!Base64DecStr(in)) + t = 3 * m
<1> DEFINE n == Len(in)
           h == QuarterBits
           d == O!Digits(in)
           decoded == O!Base64DecStr(in)
<1>1. n \in Nat /\ (\A i \in 1..n : in[i] \in Nat) /\ O!Pad \in Nat \ {0} /\ O!Octet \in Nat \ {0} /\ h \in Nat \ {0}
  BY LenProperties, Sextets
<1>2. PICK m \in 0..n : (\A j \in 1..m : in[j] < O!Pad) /\ (m < n => ~(in[m + 1] < O!Pad))
  BY DigitsExist
<1>3. d = SubSeq(in, 1, m)
  BY <1>2, DigitsAre
<1>4. PICK up \in [0..n -> DecoderStates] :
        /\ decoded = up[n].out /\ up[0] = NothingDecoded
        /\ \A i \in 1..n : up[i] = O!DecodeDigit(up[i - 1], in[i])
  BY DecodeUp
<1>5. /\ d \in Seq(Nat) /\ Len(d) = m /\ m \in Nat /\ m <= n
      /\ \A i \in 1..m : d[i] = in[i] /\ in[i] \in 0..O!Pad - 1
  <2>1. m \in Nat /\ m <= n /\ 1 \in Int /\ m \in Int /\ 1 >= 1 /\ m <= Len(in) /\ m - 1 + 1 = m /\ \A i \in Int : 1 + i - 1 = i
    BY <1>1
  <2> DEFINE a == SubSeq(in, 1, m)
  <2>2. /\ a \in Seq(Nat) /\ Len(a) = IF 1 <= m THEN m - 1 + 1 ELSE 0
        /\ \A i \in 1..m - 1 + 1 : a[i] = in[1 + i - 1]
    BY <2>1, PartIs, Zenon
  <2> HIDE DEF a, d, n
  <2>3. Len(a) = m /\ \A i \in 1..m : a[i] = in[i]
    BY <2>1, <2>2
  <2>4. \A i \in 1..m : in[i] \in 0..O!Pad - 1
    BY <1>1, <1>2, <2>1
  <2> QED BY <1>3, <2>1, <2>2, <2>3, <2>4 DEF a
<1> HIDE DEF d, n, decoded
<1>6. PICK g \in [0..m -> Nat] :
        O!NumberIn(O!Pad, d) = g[m] /\ g[0] = 0 /\ \A i \in 1..m : g[i] = g[i - 1] * O!Pad + d[i]
  <2>1. \E g \in [0..Len(d) -> Nat] :
          O!NumberIn(O!Pad, d) = g[Len(d)] /\ g[0] = 0 /\ \A i \in 1..Len(d) : g[i] = g[i - 1] * O!Pad + d[i]
    BY <1>1, <1>5, NumberInUp
  <2>2. Len(d) = m
    BY <1>5
  <2> QED BY <2>1, <2>2
<1> DEFINE D == {i \in 0..m : \E t \in 0..3 : Decoding(up[i], t, g[i], i)}
<1>7. 0 \in D
  <2>1. 0 \in 0..3 /\ 0 \in 0..m
    BY <1>5
  <2>2. Decoding(up[0], 0, g[0], 0)
    BY <1>4, <1>6, NothingDecodedIs
  <2> QED BY <2>1, <2>2
<1>8. ASSUME NEW i \in 1..m, i - 1 \in D PROVE i \in D
  <2>1. PICK t \in 0..3 : Decoding(up[i - 1], t, g[i - 1], i - 1)
    BY <1>8
  <2>2. i - 1 \in Nat /\ in[i] \in 0..O!Pad - 1 /\ (i - 1) + 1 = i /\ i \in 0..m /\ i \in 1..n
    BY <1>1, <1>5
  <2>3. PICK u \in 0..3 : Decoding(O!DecodeDigit(up[i - 1], in[i]), u, g[i - 1] * O!Pad + in[i], (i - 1) + 1)
    BY <2>1, <2>2, DecodeRound
  <2>4. up[i] = O!DecodeDigit(up[i - 1], in[i]) /\ g[i] = g[i - 1] * O!Pad + in[i]
    BY <1>4, <1>5, <1>6, <2>2
  <2>5. Decoding(up[i], u, g[i], i)
    BY <2>2, <2>3, <2>4
  <2> QED BY <2>2, <2>5
<1>9. PICK t \in 0..3 : Decoding(up[m], t, g[m], m)
  <2> HIDE DEF D
  <2>1. \A i \in 0..m : i \in D
    BY <1>5, <1>7, <1>8, UpTo
  <2>2. m \in D
    BY <1>5, <2>1
  <2> QED BY <2>2 DEF D
<1> HIDE DEF D
<1> DEFINE E == {i \in 0..n : i >= m => up[i].out = up[m].out /\ (i > m => up[i].ended = TRUE)}
<1>10. 0 \in E
  <2>1. 0 \in 0..n /\ (0 >= m => 0 = m)
    BY <1>1, <1>5
  <2> QED BY <1>5, <2>1
<1>11. ASSUME NEW i \in 1..n, i - 1 \in E PROVE i \in E
  <2>1. i \in 0..n /\ i - 1 \in 0..n
    BY <1>1
  <2>2. CASE ~(i > m)
    <3>1. i >= m => i = m
      BY <1>5, <2>1, <2>2
    <3> QED BY <2>1, <2>2, <3>1
  <2>3. CASE i > m
    <3>1. i - 1 >= m /\ i >= m /\ (i - 1 > m \/ i = m + 1) /\ m < n
      BY <1>1, <1>5, <2>1, <2>3
    <3>2. up[i - 1].out = up[m].out /\ (i - 1 > m => up[i - 1].ended = TRUE)
      BY <1>11, <3>1
    <3>3. up[i - 1].ended = TRUE \/ in[i] >= O!Pad
      <4>1. i = m + 1 => in[i] >= O!Pad
        BY <1>1, <1>2, <3>1
      <4> QED BY <3>1, <3>2, <4>1
    <3>4. up[i - 1] \in DecoderRecords
      BY <1>4, <2>1 DEF DecoderStates
    <3>5. up[i].ended = TRUE /\ up[i].out = up[i - 1].out
      <4>1. O!DecodeDigit(up[i - 1], in[i]).ended = TRUE /\ O!DecodeDigit(up[i - 1], in[i]).out = up[i - 1].out
        BY <3>3, <3>4, DecodeEnds
      <4> QED BY <1>4, <4>1
    <3> QED BY <2>1, <3>2, <3>5
  <2> QED BY <2>2, <2>3
<1> HIDE DEF E
<1>12. decoded = up[m].out
  <2>1. \A i \in 0..n : i \in E
    BY <1>1, <1>10, <1>11, UpTo
  <2>2. n \in E /\ n >= m
    BY <1>1, <1>5, <2>1
  <2> QED BY <1>4, <2>2 DEF E
<1> DEFINE s == up[m]
           p == O!Power(2, h * t)
           r == s.val % p
<1> HIDE DEF s
<1>13. /\ s \in DecoderRecords /\ g[m] = O!NumberIn(O!Octet, s.out) * p + r /\ 4 * Len(s.out) + t = 3 * m
  BY <1>9 DEF Decoding, s, h
<1>14. s.val \in 0..O!UInt - 1 /\ s.out \in O!OctetStrings
  BY <1>13 DEF DecoderRecords
<1>15. p \in Nat \ {0}
  <2>1. h * t \in Nat
    BY <1>1
  <2>2. 2 \in Nat \ {0}
    OBVIOUS
  <2>3. O!Power(2, h * t) \in Nat \ {0}
    BY <2>1, <2>2, PowerPositive
  <2> QED BY <2>3
<1> HIDE DEF p
<1>16. r \in Nat /\ r < p
  <2>1. s.val \in Int
    BY <1>14, OctetSizes
  <2>2. r \in 0..p - 1
    BY <1>15, <2>1, DivIs, Zenon
  <2> HIDE DEF r
  <2> QED BY <1>15, <2>2
<1> HIDE DEF r
<1>17. decoded = s.out /\ O!NumberOf(decoded) = O!NumberIn(O!Octet, s.out)
  BY <1>12 DEF s, O!NumberOf
<1>18. d \in Seq(0..O!Pad - 1)
  <2> DEFINE S == 0..O!Pad - 1
  <2>1. d \in [1..m -> S]
    <3>1. d \in [1..Len(d) -> Nat]
      BY <1>5, LenProperties
    <3>2. d = [i \in 1..m |-> d[i]]
      BY <1>5, <3>1
    <3>3. \A i \in 1..m : d[i] \in S
      BY <1>5
    <3> HIDE DEF S
    <3> QED BY <3>2, <3>3
  <2>2. m \in Nat
    BY <1>5
  <2> HIDE DEF S
  <2>3. d \in Seq(S)
    BY <2>1, <2>2, SeqDef
  <2> QED BY <2>3 DEF S
<1>19. O!NumberIn(O!Pad, d) = O!NumberOf(decoded) * p + r /\ r < p /\ r \in Nat /\ 4 * Len(decoded) + t = 3 * m /\ decoded \in O!OctetStrings
  BY <1>6, <1>13, <1>14, <1>16, <1>17
<1>20. m \in 0..Len(in) /\ (m < Len(in) => ~(in[m + 1] < O!Pad))
  BY <1>2 DEF n
<1> QED BY <1>2, <1>3, <1>5, <1>18, <1>19, <1>20 DEF d, decoded, p, h

\* What is written is as long as its padding makes it.
LEMMA EncodedLength ==
  ASSUME NEW m \in Nat, NEW n \in Nat, NEW z \in 0..2, 3 * m = 4 * n + z
  PROVE  -m % 4 \in 0..3 /\ 3 * (m + (-m % 4)) = 4 * (n + (-n % 3))
<1> DEFINE c == -m
           e == -n
<1>1. c = 4 * (c \div 4) + (c % 4) /\ c % 4 \in 0..4 - 1 /\ c \div 4 \in Int
  <2>1. c \in Int /\ 4 \in Nat \ {0}
    OBVIOUS
  <2> HIDE DEF c
  <2> QED BY <2>1, DivIs
<1>2. e = 3 * (e \div 3) + (e % 3) /\ e % 3 \in 0..3 - 1 /\ e \div 3 \in Int
  <2>1. e \in Int /\ 3 \in Nat \ {0}
    OBVIOUS
  <2> HIDE DEF e
  <2> QED BY <2>1, DivIs
<1> DEFINE cq == c \div 4
           cr == c % 4
           eq == e \div 3
           er == e % 3
<1>3. /\ 0 - m = 4 * cq + cr /\ cr \in 0..3 /\ cq \in Int
      /\ 0 - n = 3 * eq + er /\ er \in 0..2 /\ eq \in Int
  <2>1. c = 0 - m /\ e = 0 - n
    OBVIOUS
  <2> HIDE DEF c, e
  <2> QED BY <1>1, <1>2, <2>1
<1> HIDE DEF cq, cr, eq, er
<1>4. 3 * (m + cr) = 4 * (n + er)
  BY <1>3
<1> QED BY <1>3, <1>4 DEF cr, er

\* Where digits end that paddings follow.
LEMMA EncodedDigits ==
  ASSUME NEW s \in Seq(0..O!Pad - 1), NEW k \in Nat
  PROVE  LET w == s \o [i \in 1..k |-> O!Pad]
         IN  /\ w \in Seq(Nat) /\ Len(w) = Len(s) + k /\ Len(s) \in Nat /\ s \in Seq(Nat)
             /\ O!Digits(w) = s /\ SubSeq(w, 1, Len(s)) = s
<1> DEFINE t == [i \in 1..k |-> O!Pad]
           w == s \o t
           m == Len(s)
<1>1. O!Pad \in Nat
  BY OctetSizes
<1>2. s \in Seq(Nat) /\ m \in Nat /\ \A i \in 1..m : s[i] \in 0..O!Pad - 1
  <2>1. 0..O!Pad - 1 \subseteq Nat
    BY <1>1
  <2>2. s \in Seq(Nat)
    BY <2>1, SeqMonotonic
  <2> QED BY <2>2, LenProperties
<1>3. t \in Seq(Nat) /\ Len(t) = k /\ \A i \in 1..k : t[i] = O!Pad
  <2>1. t \in [1..k -> Nat]
    BY <1>1
  <2>2. t \in Seq(Nat)
    BY <2>1, SeqDef
  <2> QED BY <1>1, <2>1, <2>2, LenProperties
<1> HIDE DEF t
<1>4. /\ w \in Seq(Nat) /\ Len(w) = m + k
      /\ \A i \in 1..m : w[i] = s[i]
      /\ \A i \in 1..k : w[m + i] = O!Pad
  <2>1. /\ w \in Seq(Nat) /\ Len(w) = Len(s) + Len(t)
        /\ \A i \in 1..Len(s) : w[i] = s[i]
        /\ \A i \in 1..Len(t) : w[Len(s) + i] = t[i]
    BY <1>2, <1>3, TwoParts
  <2> QED BY <1>3, <2>1
<1>5. SubSeq(w, 1, m) = s
  BY <1>2, <1>3, FrontIs
<1> HIDE DEF w, m
<1>6. m \in 0..Len(w) /\ (\A j \in 1..m : w[j] < O!Pad) /\ (m < Len(w) => ~(w[m + 1] < O!Pad))
  <2>1. \A j \in 1..m : w[j] < O!Pad
    BY <1>1, <1>2, <1>4
  <2>2. m < Len(w) => 1 \in 1..k
    BY <1>2, <1>4
  <2> QED BY <1>1, <1>2, <1>4, <2>1, <2>2
<1>7. O!Digits(w) = SubSeq(w, 1, m)
  BY <1>4, <1>6, DigitsAre
<1> QED BY <1>2, <1>4, <1>5, <1>7 DEF w, m, t

\* What base64EncStr wrote base64DecStr reads, and it is filled up to fours.
LEMMA EncodedReadsBack ==
  ASSUME NEW in \in O!OctetStrings
  PROVE  LET w == O!Base64EncStr(in)
         IN  /\ O!Base64DecStr(w) = in /\ w \in Seq(Nat)
             /\ 3 * Len(w) = 4 * (Len(in) + (-Len(in) % 3))
<1> DEFINE h == QuarterBits
           w == O!Base64EncStr(in)
           n == Len(in)
<1>1. PICK digits \in Seq(0..O!Pad - 1), z \in 0..2 :
        /\ w = digits \o [i \in 1..(-Len(digits) % 4) |-> O!Pad]
        /\ O!NumberIn(O!Pad, digits) = O!NumberOf(in) * O!Power(2, h * z)
        /\ 3 * Len(digits) = 4 * n + z
  BY EncodedIs
<1> DEFINE m == Len(digits)
           k == -m % 4
<1>2. n \in Nat /\ m \in Nat
  BY StringsAreTexts, LenProperties
<1>3. k \in 0..3 /\ 3 * (m + k) = 4 * (n + (-n % 3))
  <2>1. 3 * m = 4 * n + z
    BY <1>1
  <2> HIDE DEF m, n
  <2> QED BY <1>2, <2>1, EncodedLength
<1>4. w \in Seq(Nat) /\ Len(w) = m + k /\ O!Digits(w) = digits
  <2>1. k \in Nat
    BY <1>3
  <2> DEFINE x == digits \o [i \in 1..k |-> O!Pad]
  <2>2. x \in Seq(Nat) /\ Len(x) = Len(digits) + k /\ O!Digits(x) = digits
    <3> HIDE DEF k
    <3> QED BY <2>1, EncodedDigits
  <2>3. w = x
    BY <1>1
  <2> HIDE DEF w, x, k
  <2> QED BY <2>2, <2>3
<1> HIDE DEF w
<1> DEFINE decoded == O!Base64DecStr(w)
<1>5. PICK j \in 0..Len(w), t \in 0..3, r \in Nat :
        /\ Len(O!Digits(w)) = j /\ decoded \in O!OctetStrings
        /\ O!NumberIn(O!Pad, O!Digits(w)) = O!NumberOf(decoded) * O!Power(2, h * t) + r
        /\ r < O!Power(2, h * t)
        /\ 4 * Len(decoded) + t = 3 * j
  BY <1>4, DecodedIs, Zenon
<1> HIDE DEF decoded, k
<1>6. Len(decoded) = n /\ t = z
  <2> DEFINE l == Len(decoded)
  <2>1. l \in Nat
    BY <1>5, StringsAreTexts
  <2>2. 3 * m = 4 * n + z /\ 4 * l + t = 3 * m
    BY <1>1, <1>4, <1>5
  <2> HIDE DEF l, m, n
  <2>3. l = n /\ t = z
    BY <1>2, <2>1, <2>2
  <2> QED BY <2>3 DEF l
<1> DEFINE p == O!Power(2, h * z)
           N == O!NumberOf(in)
           K == O!NumberOf(decoded)
<1>7. N \in Nat /\ K \in Nat
  BY <1>5, NumberBound
<1>8. p \in Nat \ {0}
  <2>1. h * z \in Nat
    BY Sextets
  <2>2. \A b \in Nat : O!Power(2, b) \in Nat \ {0}
    BY PowerPositive
  <2> QED BY <2>1, <2>2
<1>9. N * p = K * p + r /\ r < p
  BY <1>1, <1>4, <1>5, <1>6
<1> HIDE DEF p, N, K
<1>10. N = K
  <2> DEFINE a == N * p
  <2>1. a = p * N + 0 /\ 0 \in 0..p - 1 /\ a \in Int /\ N \in Int
    <3>1. N * p = p * N /\ p * N \in Nat
      BY <1>7, <1>8
    <3> QED BY <1>7, <1>8, <3>1
  <2>2. a = p * K + r /\ r \in 0..p - 1 /\ K \in Int
    <3>1. K * p = p * K
      BY <1>7, <1>8
    <3> QED BY <1>7, <1>8, <1>9, <3>1
  <2> HIDE DEF a
  <2>3. a \div p = N
    BY <1>8, <2>1, DivUnique
  <2>4. a \div p = K
    BY <1>8, <2>1, <2>2, DivUnique
  <2> QED BY <2>3, <2>4
<1>11. decoded = in
  <2>1. O!Octet \in Nat \ {0} /\ decoded \in Seq(0..O!Octet - 1) /\ in \in Seq(0..O!Octet - 1) /\ Len(decoded) = Len(in)
    BY <1>5, <1>6, Sextets DEF O!OctetStrings, n
  <2>2. O!NumberIn(O!Octet, decoded) = O!NumberIn(O!Octet, in)
    BY <1>10 DEF N, K, O!NumberOf
  <2> QED BY <2>1, <2>2, NumberInTells
<1> QED BY <1>3, <1>4, <1>11 DEF decoded, w, n

\* The start of a start.
LEMMA StartOfStart ==
  ASSUME NEW s \in Seq(Nat), NEW m \in 0..Len(s), NEW k \in 0..m
  PROVE  SubSeq(SubSeq(s, 1, m), 1, k) = SubSeq(s, 1, k)
<1> DEFINE a == SubSeq(s, 1, m)
<1>1. m \in Nat /\ m <= Len(s) /\ 1 \in Int /\ m \in Int /\ 1 >= 1 /\ m - 1 + 1 = m
      /\ (\A i \in Int : 1 + i - 1 = i) /\ Len(s) \in Nat /\ k \in Nat /\ k <= m
  BY LenProperties
<1>2. /\ a \in Seq(Nat) /\ Len(a) = IF 1 <= m THEN m - 1 + 1 ELSE 0
      /\ \A i \in 1..m - 1 + 1 : a[i] = s[1 + i - 1]
  BY <1>1, PartIs, Zenon
<1> HIDE DEF a
<1>3. Len(a) = m /\ \A i \in 1..m : a[i] = s[i]
  <2>1. Len(a) = m
    BY <1>1, <1>2
  <2>2. ASSUME NEW i \in 1..m PROVE a[i] = s[i]
    <3>1. i \in 1..m - 1 + 1 /\ 1 + i - 1 = i
      BY <1>1
    <3>2. a[i] = s[1 + i - 1]
      BY <1>2, <3>1
    <3> QED BY <3>1, <3>2
  <2> QED BY <2>1, <2>2
<1>4. k <= Len(a) /\ k <= Len(s) /\ \A j \in 1..k : a[j] = s[j]
  BY <1>1, <1>3
<1>5. SubSeq(a, 1, k) = SubSeq(s, 1, k) <=> \A j \in 1..k : a[j] = s[j]
  BY <1>1, <1>2, <1>4, SameStart
<1> QED BY <1>4, <1>5 DEF a

\* Digits of a number with the t bits behind it, which may be any.
InFront(s, N, t) ==
  \E r \in Nat : r < O!Power(2, QuarterBits * t) /\ O!NumberIn(O!Pad, s) = N * O!Power(2, QuarterBits * t) + r

\* The digits of k whole octets, of a string that has some bits more.
LEMMA FrontOfDigits ==
  ASSUME NEW s \in Seq(0..O!Pad - 1), NEW N \in Nat, NEW t \in 0..3, NEW k \in Nat,
         InFront(s, N, t), 3 * Len(s) = 4 * k + t
  PROVE  LET whole == (k * 4) \div 3
             front == SubSeq(s, 1, whole)
         IN  /\ whole \in 0..Len(s) /\ front \in Seq(0..O!Pad - 1) /\ Len(front) = whole
             /\ O!NumberIn(O!Pad, front) = N \div O!Power(2, QuarterBits * ((k * 4) % 3))
<1> DEFINE h == QuarterBits
           m == Len(s)
           whole == (k * 4) \div 3
           y == (k * 4) % 3
           front == SubSeq(s, 1, whole)
           p == O!Power(2, h * t)
           q == O!Power(2, h * y)
           j == m - whole
<1>1. /\ h \in Nat \ {0} /\ O!Pad = O!Power(2, 3 * h) /\ O!Pad \in Nat \ {0}
  BY Sextets
<1>2. m \in Nat /\ 3 * m = 4 * k + t
  BY LenProperties
<1>3. k * 4 = 3 * whole + y /\ y \in 0..3 - 1 /\ whole \in Nat
  <2> DEFINE c == k * 4
  <2>1. c \in Int /\ 3 \in Nat \ {0} /\ c >= 0
    OBVIOUS
  <2> HIDE DEF c
  <2>2. c = 3 * (c \div 3) + (c % 3) /\ c % 3 \in 0..3 - 1 /\ c \div 3 \in Nat
    BY <2>1, DivIs
  <2> QED BY <2>2 DEF c
<1> HIDE DEF h, m, whole, y
<1>4. whole \in 0..m /\ j \in Nat /\ 3 * j = t + y
  BY <1>2, <1>3
<1>5. /\ front \in Seq(0..O!Pad - 1) /\ Len(front) = whole
      /\ O!NumberIn(O!Pad, front) = O!NumberIn(O!Pad, s) \div O!Power(O!Pad, j)
  <2>1. whole \in 0..Len(s)
    BY <1>4 DEF m
  <2>2. O!Pad \in Nat \ {0}
    BY <1>1
  <2> QED BY <2>1, <2>2, NumberInFront DEF m
<1> HIDE DEF j, front
<1>6. O!Power(O!Pad, j) = p * q
  <2>1. O!Power(O!Power(2, 3 * h), j) = O!Power(2, (3 * h) * j)
    <3>1. 2 \in Nat /\ 3 * h \in Nat /\ j \in Nat
      BY <1>1, <1>4
    <3> DEFINE b == 3 * h
    <3> HIDE DEF b
    <3>2. O!Power(O!Power(2, b), j) = O!Power(2, b * j)
      BY <3>1, PowerOfPower DEF b
    <3> QED BY <3>2 DEF b
  <2>2. (3 * h) * j = h * t + h * y
    <3>1. (3 * h) * j = h * (3 * j)
      BY <1>1, <1>4
    <3>2. h * (t + y) = h * t + h * y
      BY <1>1, <1>3
    <3> QED BY <1>4, <3>1, <3>2
  <2> DEFINE b == h * t
             c == h * y
  <2>3. b \in Nat /\ c \in Nat
    BY <1>1, <1>3
  <2>4. O!Power(2, b + c) = O!Power(2, b) * O!Power(2, c)
    <3> HIDE DEF b, c
    <3> QED BY <2>3, PowerAdds
  <2> QED BY <1>1, <2>1, <2>2, <2>4
<1>7. p \in Nat \ {0} /\ q \in Nat \ {0}
  <2> DEFINE b == h * t
             c == h * y
  <2>1. b \in Nat /\ c \in Nat /\ 2 \in Nat \ {0}
    BY <1>1, <1>3
  <2> HIDE DEF b, c
  <2>2. O!Power(2, b) \in Nat \ {0}
    BY <2>1, PowerPositive
  <2>3. O!Power(2, c) \in Nat \ {0}
    BY <2>1, PowerPositive
  <2> QED BY <2>2, <2>3 DEF b, c
<1> DEFINE X == O!NumberIn(O!Pad, s)
<1>8. PICK r \in Nat : X = N * p + r /\ r < p
  BY DEF h, InFront
<1> HIDE DEF X, p, q
<1>9. X = p * N + r /\ r \in 0..p - 1 /\ X \in Nat
  <2>1. N * p = p * N /\ p * N \in Nat
    BY <1>7
  <2> QED BY <1>7, <1>8, <2>1
<1>11. X \div (p * q) = N \div q
  <2>1. X \div p = N
    <3>1. X \in Int /\ N \in Int /\ X = p * N + r
      BY <1>9
    <3> QED BY <1>7, <1>9, <3>1, DivUnique
  <2>2. X \in Nat /\ p \in Nat \ {0} /\ q \in Nat \ {0}
    BY <1>7, <1>9
  <2>3. (X \div p) \div q = X \div (p * q) /\ p * q \in Nat \ {0}
    BY <2>2, DivDiv
  <2> QED BY <2>1, <2>3
<1>12. O!NumberIn(O!Pad, front) = N \div q
  BY <1>5, <1>6, <1>11 DEF X
<1> QED BY <1>4, <1>5, <1>12 DEF whole, m, front, q, h, y

\* What base64DecStr read is written again as far as it was whole octets.
LEMMA DecodedWritesBack ==
  ASSUME NEW in \in Seq(Nat)
  PROVE  LET decoded == O!Base64DecStr(in)
             whole == (Len(decoded) * 4) \div 3
         IN  /\ Len(decoded) = (Len(O!Digits(in)) * 3) \div 4
             /\ SubSeq(O!Base64EncStr(decoded), 1, whole) = SubSeq(in, 1, whole)
<1> DEFINE h == QuarterBits
           decoded == O!Base64DecStr(in)
           whole == (Len(decoded) * 4) \div 3
           d == O!Digits(in)
           N == O!NumberOf(decoded)
           k == Len(decoded)
           w == O!Base64EncStr(decoded)
<1>1. PICK m \in 0..Len(in), t \in 0..3, r \in Nat :
        /\ d = SubSeq(in, 1, m) /\ d \in Seq(0..O!Pad - 1) /\ Len(d) = m
        /\ decoded \in O!OctetStrings
        /\ O!NumberIn(O!Pad, d) = N * O!Power(2, h * t) + r
        /\ r < O!Power(2, h * t)
        /\ 4 * k + t = 3 * m
  BY DecodedIs, Zenon
<1> HIDE DEF d, decoded, N
<1>2. PICK digits \in Seq(0..O!Pad - 1), z \in 0..2 :
        /\ w = digits \o [i \in 1..(-Len(digits) % 4) |-> O!Pad]
        /\ O!NumberIn(O!Pad, digits) = N * O!Power(2, h * z)
        /\ 3 * Len(digits) = 4 * k + z
  BY <1>1, EncodedIs DEF N
<1> DEFINE l == Len(digits)
           c == -l % 4
<1>3. k \in Nat /\ N \in Nat /\ l \in Nat /\ m \in Nat
  BY <1>1, StringsAreTexts, LenProperties, NumberBound DEF N
<1>4. c \in Nat
  <2>1. 3 * l = 4 * k + z
    BY <1>2
  <2> HIDE DEF l, k
  <2>2. c \in 0..3
    BY <1>3, <2>1, EncodedLength
  <2> QED BY <2>2
<1>5. w \in Seq(Nat) /\ Len(w) = l + c /\ SubSeq(w, 1, l) = digits
  <2> HIDE DEF c
  <2> DEFINE x == digits \o [i \in 1..c |-> O!Pad]
  <2>1. x \in Seq(Nat) /\ Len(x) = Len(digits) + c /\ SubSeq(x, 1, Len(digits)) = digits
    BY <1>4, EncodedDigits
  <2>2. w = x
    BY <1>2 DEF c
  <2> HIDE DEF w, x
  <2> QED BY <2>1, <2>2
<1> HIDE DEF w, c
<1>6. k = (m * 3) \div 4
  <2> DEFINE b == m * 3
  <2>1. b = 4 * k + t /\ t \in 0..4 - 1 /\ b \in Int /\ k \in Int /\ 4 \in Nat \ {0}
    BY <1>1, <1>3
  <2> HIDE DEF b, k
  <2>2. b \div 4 = k
    BY <2>1, DivUnique
  <2> QED BY <2>2 DEF b
<1> DEFINE y == (k * 4) % 3
<1>7. /\ whole \in 0..m /\ SubSeq(d, 1, whole) \in Seq(0..O!Pad - 1) /\ Len(SubSeq(d, 1, whole)) = whole
      /\ O!NumberIn(O!Pad, SubSeq(d, 1, whole)) = N \div O!Power(2, h * y)
  <2>1. d \in Seq(0..O!Pad - 1) /\ r < O!Power(2, h * t) /\ O!NumberIn(O!Pad, d) = N * O!Power(2, h * t) + r /\ 3 * Len(d) = 4 * k + t
    BY <1>1
  <2>2. InFront(d, N, t)
    BY <2>1, Zenon DEF InFront
  <2> HIDE DEF k
  <2>3. LET all == (k * 4) \div 3
            front == SubSeq(d, 1, all)
        IN  /\ all \in 0..Len(d) /\ front \in Seq(0..O!Pad - 1) /\ Len(front) = all
            /\ O!NumberIn(O!Pad, front) = N \div O!Power(2, QuarterBits * ((k * 4) % 3))
    BY <1>3, <2>1, <2>2, FrontOfDigits, Zenon
  <2> QED BY <1>1, <2>3 DEF k
<1>8. /\ whole \in 0..l /\ SubSeq(digits, 1, whole) \in Seq(0..O!Pad - 1) /\ Len(SubSeq(digits, 1, whole)) = whole
      /\ O!NumberIn(O!Pad, SubSeq(digits, 1, whole)) = N \div O!Power(2, h * y)
  <2> DEFINE p == O!Power(2, h * z)
  <2>1. p \in Nat \ {0}
    <3>1. h * z \in Nat /\ 2 \in Nat \ {0}
      BY Sextets
    <3> QED BY <3>1, PowerPositive
  <2>2. 0 < p /\ O!NumberIn(O!Pad, digits) = N * p + 0
    <3>1. O!NumberIn(O!Pad, digits) = N * p
      BY <1>2
    <3> HIDE DEF p
    <3>2. N * p \in Nat
      BY <1>3, <2>1
    <3> QED BY <2>1, <3>1, <3>2
  <2>3. z \in 0..3 /\ 3 * Len(digits) = 4 * k + z
    BY <1>2
  <2>4. InFront(digits, N, z)
    <3> HIDE DEF p
    <3>1. 0 \in Nat
      OBVIOUS
    <3>2. \E rest \in Nat : rest < p /\ O!NumberIn(O!Pad, digits) = N * p + rest
      BY <2>2, <3>1, Zenon
    <3> QED BY <3>2, Zenon DEF InFront, p, h
  <2> HIDE DEF k
  <2>5. LET all == (k * 4) \div 3
            front == SubSeq(digits, 1, all)
        IN  /\ all \in 0..Len(digits) /\ front \in Seq(0..O!Pad - 1) /\ Len(front) = all
            /\ O!NumberIn(O!Pad, front) = N \div O!Power(2, QuarterBits * ((k * 4) % 3))
    BY <1>3, <2>3, <2>4, FrontOfDigits, Zenon
  <2> QED BY <2>5 DEF k
<1> HIDE DEF whole
<1>9. SubSeq(d, 1, whole) = SubSeq(digits, 1, whole)
  <2> DEFINE a == SubSeq(d, 1, whole)
             b == SubSeq(digits, 1, whole)
  <2>1. /\ O!Pad \in Nat \ {0} /\ a \in Seq(0..O!Pad - 1) /\ b \in Seq(0..O!Pad - 1) /\ Len(a) = Len(b)
        /\ O!NumberIn(O!Pad, a) = O!NumberIn(O!Pad, b)
    BY <1>7, <1>8, Sextets
  <2> HIDE DEF a, b
  <2>2. a = b
    BY <2>1, NumberInTells
  <2> QED BY <2>2 DEF a, b
<1>10. SubSeq(in, 1, whole) = SubSeq(d, 1, whole)
  <2>1. SubSeq(SubSeq(in, 1, m), 1, whole) = SubSeq(in, 1, whole)
    BY <1>7, StartOfStart
  <2> QED BY <1>1, <2>1
<1>11. SubSeq(w, 1, whole) = SubSeq(digits, 1, whole)
  <2>1. l \in 0..Len(w)
    BY <1>3, <1>4, <1>5
  <2> HIDE DEF l
  <2>2. SubSeq(SubSeq(w, 1, l), 1, whole) = SubSeq(w, 1, whole)
    BY <1>5, <1>8, <2>1, StartOfStart
  <2> QED BY <1>5, <2>2
<1>12. Len(decoded) = (Len(d) * 3) \div 4 /\ SubSeq(w, 1, whole) = SubSeq(in, 1, whole)
  BY <1>1, <1>6, <1>9, <1>10, <1>11
<1> QED BY <1>12 DEF w, whole, d, decoded
-----------------------------------------------------------------------------
(* Octets: what each call answers.                                         *)

\* What the call c returns is r.
Answers(c, r) ==
  /\ c.op = "base64EncStr" => r = O!Returns(O!Base64EncStr(c.in))
  /\ c.op = "base64DecStr" => r = O!Returns(O!Base64DecStr(c.in))
  /\ c.op = "hexlify" => r = O!Returns(O!Hexlify(c.in))
  /\ c.op = "unhexlify" => r = O!Returns(O!Unhexlify(c.in))
  /\ c.op = "uint" => r = O!Returns(O!FromUint(c.n, c.size))
  /\ c.op = "insert" => r = O!InsertPart(c.in, c.pos, c.str, c.from, c.count)
  /\ c.op = "append" => r = O!InsertPart(c.in, Len(c.in), c.str, c.from, c.count)
  /\ c.op = "copy" => r = O!Copy(c.str, c.in, c.count, c.from)
  /\ c.op = "erase" => r = O!Erase(c.in, c.pos, c.count)
  /\ c.op = "erase range" => r = O!EraseRange(c.in, c.pos, c.last)
  /\ c.op = "resize" => r = O!Returns(O!Resize(c.in, c.n, c.octet))
  /\ c.op = "hash" => r = O!Returns(O!Hash(c.in))
  /\ c.op = "<<" => r = O!ShiftLeft(c.in, c.n)
  /\ c.op = ">>" => r = O!ShiftRight(c.in, c.n)
  /\ c.op = "compare" => r = O!Returns(O!Compare(c.a, c.b))
  /\ c.op = "stricmp" => r = O!Returns(O!Stricmp(c.a, c.b))
  /\ c.op = "trim" => r = O!Returns(O!Trim(c.a, c.b))
  /\ c.op = "split" => r = O!Returns(O!Split(c.a, c.b))

\* A step makes one call, and the call answers.
LEMMA StepsAnswer ==
  ASSUME O!Next
  PROVE  call' \in Calls /\ Answers(call', result')
<1>1. PICK c \in Calls : call' = c /\ Answers(c, result')
  BY DEF O!Next, O!Called, Answers, O!AppendPart
<1> QED
  BY <1>1

\* hexlify, unhexlify, base64EncStr and base64DecStr.
LEMMA StepsInvert ==
  ASSUME O!Next
  PROVE  O!CodecsInvert'
<1>1. call' \in Calls /\ Answers(call', result')
  BY StepsAnswer
<1>2. ASSUME call'.op = "base64EncStr"
      PROVE  /\ O!Base64DecStr(result'.returns) = call'.in
             /\ 3 * Len(result'.returns) = 4 * (Len(call'.in) + (-Len(call'.in) % 3))
  <2>1. result' = O!Returns(O!Base64EncStr(call'.in)) /\ call'.in \in O!OctetStrings
    BY <1>1, <1>2, CallsAssumption DEF Answers
  <2>2. result'.returns = O!Base64EncStr(call'.in)
    BY <2>1, ReturnsIs
  <2> QED
    BY <2>1, <2>2, EncodedReadsBack
<1>3. ASSUME call'.op = "base64DecStr"
      PROVE  LET whole == (Len(result'.returns) * 4) \div 3
             IN  /\ Len(result'.returns) = (Len(O!Digits(call'.in)) * 3) \div 4
                 /\ SubSeq(O!Base64EncStr(result'.returns), 1, whole) = SubSeq(call'.in, 1, whole)
  <2>1. result' = O!Returns(O!Base64DecStr(call'.in)) /\ call'.in \in Seq(Nat)
    BY <1>1, <1>3, CallsAssumption DEF Answers, O!Texts
  <2>2. result'.returns = O!Base64DecStr(call'.in)
    BY <2>1, ReturnsIs
  <2> QED
    BY <2>1, <2>2, DecodedWritesBack
<1>4. ASSUME call'.op = "hexlify"
      PROVE  O!Unhexlify(result'.returns) = call'.in
  <2>1. result' = O!Returns(O!Hexlify(call'.in)) /\ call'.in \in O!OctetStrings
    BY <1>1, <1>4, CallsAssumption DEF Answers
  <2>2. result'.returns = O!Hexlify(call'.in)
    BY <2>1, ReturnsIs
  <2> QED
    BY <2>1, <2>2, HexlifiedReadsBack
<1>5. ASSUME call'.op = "unhexlify"
      PROVE  LET digits == O!CapitalsOf(call'.in)
             IN  O!Hexlify(result'.returns) = SubSeq(digits, 1, Len(digits) - (Len(digits) % 2))
  <2>1. result' = O!Returns(O!Unhexlify(call'.in)) /\ call'.in \in Seq(Nat)
    BY <1>1, <1>5, CallsAssumption DEF Answers, O!Texts
  <2>2. result'.returns = O!Unhexlify(call'.in)
    BY <2>1, ReturnsIs
  <2> QED
    BY <2>1, <2>2, UnhexlifyIs
<1> QED
  BY <1>2, <1>3, <1>4, <1>5 DEF O!CodecsInvert

\* InsertedIs of five values at once.
IsInserted(s, pos, t, from, count) ==
  LET r == O!InsertPart(s, pos, t, from, count)
      moved == O!Min({count, Len(t) - from})
  IN  /\ r = O!Throws <=> from > Len(t) \/ pos > Len(s)
      /\ r # O!Throws => /\ O!Erase(r.returns, pos, moved) = O!Returns(s)
                       /\ \A i \in 1..moved : r.returns[pos + i] = t[from + i]

\* InsertedIs, cited by this name where a call is a record of them.
LEMMA InsertedPartIs ==
  ASSUME NEW s \in Seq(Nat), NEW t \in Seq(Nat), NEW pos \in Nat, NEW from \in Nat, NEW count \in Nat
  PROVE  IsInserted(s, pos, t, from, count)
BY InsertedIs DEF IsInserted

\* insert, append, copy, erase and resize.
LEMMA StepsUndo ==
  ASSUME O!Next
  PROVE  O!EditsAreUndone'
<1>0. PICK c, r : c = call' /\ r = result'
  OBVIOUS
<1> DEFINE moved == O!Min({c.count, Len(c.str) - c.from})
<1>1. c \in Calls /\ Answers(c, r)
  BY <1>0, StepsAnswer
<1>2. ASSUME c.op \in {"insert", "append", "copy"}
      PROVE  /\ c.in \in Seq(Nat) /\ c.str \in Seq(Nat) /\ c.from \in Nat /\ c.count \in Nat
             /\ Len(c.in) \in Nat
  <2>1. c.in \in O!OctetStrings /\ c.str \in O!OctetStrings /\ c.from \in Nat /\ c.count \in Nat
    BY <1>1, <1>2, CallsAssumption
  <2> QED
    BY <2>1, StringsAreTexts
<1>3. ASSUME c.op = "insert"
      PROVE  /\ r = O!Throws <=> c.from > Len(c.str) \/ c.pos > Len(c.in)
             /\ r # O!Throws => /\ O!Erase(r.returns, c.pos, moved) = O!Returns(c.in)
                              /\ \A i \in 1..moved : r.returns[c.pos + i] = c.str[c.from + i]
  <2>1. r = O!InsertPart(c.in, c.pos, c.str, c.from, c.count) /\ c.pos \in Nat
    BY <1>1, <1>3, CallsAssumption DEF Answers
  <2>2. /\ c.in \in Seq(Nat) /\ c.str \in Seq(Nat)
        /\ c.pos \in Nat /\ c.from \in Nat /\ c.count \in Nat
    BY <2>1, <1>2, <1>3
  <2>3. IsInserted(c.in, c.pos, c.str, c.from, c.count)
    BY <2>2, InsertedPartIs
  <2> QED
    BY <2>1, <2>3 DEF IsInserted
<1>4. ASSUME c.op = "append"
      PROVE  /\ r = O!Throws <=> c.from > Len(c.str)
             /\ r # O!Throws => /\ O!Erase(r.returns, Len(c.in), moved) = O!Returns(c.in)
                              /\ \A i \in 1..moved : r.returns[Len(c.in) + i] = c.str[c.from + i]
  <2>1. r = O!InsertPart(c.in, Len(c.in), c.str, c.from, c.count)
    BY <1>1, <1>4 DEF Answers
  <2>2. /\ c.in \in Seq(Nat) /\ c.str \in Seq(Nat)
        /\ Len(c.in) \in Nat /\ c.from \in Nat /\ c.count \in Nat
    BY <1>2, <1>4
  <2>3. ~(Len(c.in) > Len(c.in))
    BY <2>2
  <2>4. IsInserted(c.in, Len(c.in), c.str, c.from, c.count)
    BY <2>2, InsertedPartIs
  <2> QED
    BY <2>1, <2>3, <2>4 DEF IsInserted
<1>5. ASSUME c.op = "copy"
      PROVE  /\ r = O!Throws <=> c.from > Len(c.str)
             /\ r # O!Throws => \A i \in DOMAIN c.in :
                                r.returns[i] = IF i <= moved THEN c.str[c.from + i] ELSE c.in[i]
  <2>1. r = O!Copy(c.str, c.in, c.count, c.from)
    BY <1>1, <1>5 DEF Answers
  <2>2. c.in \in Seq(Nat) /\ c.str \in Seq(Nat) /\ c.from \in Nat /\ c.count \in Nat
    BY <1>2, <1>5
  <2>3. LET q == O!Copy(c.str, c.in, c.count, c.from)
        IN  /\ q = O!Throws <=> c.from > Len(c.str)
            /\ q # O!Throws => \A i \in DOMAIN c.in :
                               q.returns[i] = IF i <= moved THEN c.str[c.from + i] ELSE c.in[i]
    BY <2>2, CopiedIs
  <2> QED
    BY <2>1, <2>3
<1>6. ASSUME c.op = "erase"
      PROVE  IF c.pos > Len(c.in) THEN r = O!Throws
             ELSE O!Insert(r.returns, c.pos, O!Substr(c.in, c.pos, c.count).returns) = O!Returns(c.in)
  <2>1. /\ r = O!Erase(c.in, c.pos, c.count)
        /\ c.in \in O!OctetStrings /\ c.pos \in Nat /\ c.count \in Nat
    BY <1>1, <1>6, CallsAssumption DEF Answers
  <2> QED
    BY <2>1, StringsAreTexts, ErasedIs
<1>7. ASSUME c.op = "erase range"
      PROVE  O!InsertPart(r.returns, c.pos, c.in, c.pos, c.last - c.pos - 1) = O!Returns(c.in)
  <2>1. /\ r = O!EraseRange(c.in, c.pos, c.last)
        /\ c.in \in O!OctetStrings /\ c.pos \in Nat /\ c.last \in c.pos + 1..Len(c.in)
    BY <1>1, <1>7, CallsAssumption DEF Answers
  <2> QED
    BY <2>1, StringsAreTexts, ErasedRangeIs
<1>8. ASSUME c.op = "resize"
      PROVE  O!Resize(r.returns, Len(c.in), c.octet) =
               [i \in DOMAIN c.in |-> IF i <= c.n THEN c.in[i] ELSE c.octet]
  <2>1. /\ r = O!Returns(O!Resize(c.in, c.n, c.octet))
        /\ c.in \in O!OctetStrings /\ c.n \in Nat /\ c.octet \in 0..O!Octet - 1
    BY <1>1, <1>8, CallsAssumption DEF Answers
  <2>2. c.octet \in Nat
    BY <2>1
  <2>3. c.in \in Seq(Nat)
    BY <2>1, StringsAreTexts
  <2>4. r.returns = O!Resize(c.in, c.n, c.octet)
    BY <2>1, ReturnsIs
  <2>5. O!Resize(O!Resize(c.in, c.n, c.octet), Len(c.in), c.octet) =
          [i \in DOMAIN c.in |-> IF i <= c.n THEN c.in[i] ELSE c.octet]
    BY <2>1, <2>2, <2>3, ResizedIs
  <2> QED
    BY <2>4, <2>5
<1>9. /\ c.op \in {"insert", "append", "copy"} =>
           r = O!Throws <=> c.from > Len(c.str) \/ (c.op = "insert" /\ c.pos > Len(c.in))
      /\ c.op \in {"insert", "append"} /\ r # O!Throws =>
           LET pos == IF c.op = "insert" THEN c.pos ELSE Len(c.in)
           IN  /\ O!Erase(r.returns, pos, moved) = O!Returns(c.in)
               /\ \A i \in 1..moved : r.returns[pos + i] = c.str[c.from + i]
  <2> HIDE DEF moved
  <2> QED
    BY <1>3, <1>4, <1>5, Zenon
<1> QED
  BY <1>0, <1>5, <1>6, <1>7, <1>8, <1>9 DEF O!EditsAreUndone

\* "<<" and ">>".
LEMMA StepsShift ==
  ASSUME O!Next
  PROVE  O!ShiftsMoveTheNumber'
<1> DEFINE c == call'
           r == result'
<1>1. c \in Calls /\ Answers(c, r)
  BY StepsAnswer
<1>2. ASSUME c.op = "<<"
      PROVE  /\ r = O!Throws <=> c.n >= OctetBits * (Len(c.in) + 1)
             /\ r # O!Throws => /\ "returns" \in DOMAIN r /\ Len(r.returns) = Len(c.in)
                              /\ O!NumberOf(r.returns) = (O!NumberOf(c.in) * O!Power(2, c.n)) % O!Power(O!Octet, Len(c.in))
  <2>1. r = O!ShiftLeft(c.in, c.n) /\ c.in \in O!OctetStrings /\ c.n \in Nat
    BY <1>1, <1>2, CallsAssumption DEF Answers
  <2> QED
    BY <2>1, ShiftedLeftIs
<1>3. ASSUME c.op = ">>", c.n < OctetBits
      PROVE  "returns" \in DOMAIN r /\ Len(r.returns) = Len(c.in) /\ O!NumberOf(r.returns) = O!NumberOf(c.in) \div O!Power(2, c.n)
  <2>1. r = O!ShiftRight(c.in, c.n) /\ c.in \in O!OctetStrings /\ c.n \in Nat
    BY <1>1, <1>3, CallsAssumption DEF Answers
  <2> QED
    BY <2>1, <1>3, ShiftedRightIs
<1> QED
  BY <1>2, <1>3 DEF O!ShiftsMoveTheNumber, O!LengthKept

\* compare, "^" and stricmp.
LEMMA StepsOrder ==
  ASSUME O!Next
  PROVE  O!OrdersAreTotal'
<1> DEFINE c == call'
           r == result'
<1>1. c \in Calls /\ Answers(c, r)
  BY StepsAnswer
<1>2. ASSUME c.op = "compare"
      PROVE  /\ r.returns < 0 <=> O!Before(O!Hexlify(c.a), O!Hexlify(c.b))
             /\ r.returns > 0 <=> O!Before(O!Hexlify(c.b), O!Hexlify(c.a))
             /\ r.returns = 0 <=> O!Xor(c.a, c.b) = O!Returns(O!Zeros(Len(c.b)))
  <2>1. r = O!Returns(O!Compare(c.a, c.b)) /\ c.a \in O!OctetStrings /\ c.b \in O!OctetStrings
    BY <1>1, <1>2, CallsAssumption DEF Answers
  <2>2. r.returns = O!Compare(c.a, c.b)
    BY <2>1, ReturnsIs
  <2>3. /\ O!Compare(c.a, c.b) < 0 <=> O!Before(O!Hexlify(c.a), O!Hexlify(c.b))
        /\ O!Compare(c.a, c.b) > 0 <=> O!Before(O!Hexlify(c.b), O!Hexlify(c.a))
    BY <2>1, HexlifyOrders
  <2>4. c.a = c.b <=> O!Xor(c.a, c.b) = O!Returns(O!Zeros(Len(c.b)))
    BY <2>1, XorIsZeros
  <2>5. c.a \in Seq(Nat) /\ c.b \in Seq(Nat)
    BY <2>1, StringsAreTexts
  <2>6. O!Compare(c.a, c.b) = 0 <=> c.a = c.b
    BY <2>5, CompareIs
  <2> QED
    BY <2>2, <2>3, <2>4, <2>6
<1>3. ASSUME c.op = "stricmp"
      PROVE  /\ r.returns < 0 <=> O!Before(O!Upper(c.a), O!Upper(c.b))
             /\ r.returns > 0 <=> O!Before(O!Upper(c.b), O!Upper(c.a))
             /\ r.returns = 0 <=> O!CiEquals(c.a, c.b)
  <2>1. r = O!Returns(O!Stricmp(c.a, c.b)) /\ c.a \in Seq(Nat) /\ c.b \in Seq(Nat)
    BY <1>1, <1>3, CallsAssumption DEF Answers, O!Texts
  <2>2. r.returns = O!Stricmp(c.a, c.b)
    BY <2>1, ReturnsIs
  <2> QED
    BY <2>1, <2>2, StricmpIs
<1> QED
  BY <1>2, <1>3 DEF O!OrdersAreTotal

\* Octet strings of numbers, compare as numbers, and the hash.
LEMMA StepsTell ==
  ASSUME O!Next
  PROVE  O!NumbersAndHashesTellApart'
<1> DEFINE c == call'
           r == result'
<1>1. c \in Calls /\ Answers(c, r)
  BY StepsAnswer
<1>2. ASSUME c.op = "uint"
      PROVE  Len(r.returns) = c.size /\ O!NumberOf(r.returns) = c.n
  <2>1. r = O!Returns(O!FromUint(c.n, c.size)) /\ c.n \in Nat /\ c.size \in Nat /\ c.n < O!Power(O!Octet, c.size)
    BY <1>1, <1>2, CallsAssumption DEF Answers
  <2>2. r.returns = O!FromUint(c.n, c.size)
    BY <2>1, ReturnsIs
  <2> QED
    BY <2>1, <2>2, UintIs
<1>3. ASSUME c.op = "compare", Len(c.a) = Len(c.b)
      PROVE  r.returns < 0 <=> O!NumberOf(c.a) < O!NumberOf(c.b)
  <2>1. r = O!Returns(O!Compare(c.a, c.b)) /\ c.a \in O!OctetStrings /\ c.b \in O!OctetStrings
    BY <1>1, <1>3, CallsAssumption DEF Answers
  <2>2. r.returns = O!Compare(c.a, c.b)
    BY <2>1, ReturnsIs
  <2> QED
    BY <2>1, <2>2, <1>3, NumbersCompare
<1>4. ASSUME c.op = "hash"
      PROVE  \A i \in DOMAIN c.in : \A octet \in (0..O!Octet - 1) \ {c.in[i]} :
               O!Hash([c.in EXCEPT ![i] = octet]) # r.returns
  <2>1. r = O!Returns(O!Hash(c.in)) /\ c.in \in O!OctetStrings
    BY <1>1, <1>4, CallsAssumption DEF Answers
  <2>2. r.returns = O!Hash(c.in)
    BY <2>1, ReturnsIs
  <2> QED
    BY <2>1, <2>2, HashTells
<1> QED
  BY <1>2, <1>3, <1>4 DEF O!NumbersAndHashesTellApart

\* split and trim.
LEMMA StepsPart ==
  ASSUME O!Next
  PROVE  O!PartsMakeTheText'
<1> DEFINE c == call'
           r == result'
<1>1. c \in Calls /\ Answers(c, r)
  BY StepsAnswer
<1>2. ASSUME c.op = "split"
      PROVE  /\ O!Joined(r.returns, c.b) = c.a
             /\ c.b # <<>> => \A i \in DOMAIN r.returns : O!Find(r.returns[i], c.b, 1) = 0
  <2>1. r = O!Returns(O!Split(c.a, c.b)) /\ c.a \in Seq(Nat) /\ c.b \in Seq(Nat)
    BY <1>1, <1>2, CallsAssumption DEF Answers, O!Texts
  <2>2. r.returns = O!Split(c.a, c.b)
    BY <2>1, ReturnsIs
  <2> QED
    BY <2>1, <2>2, SplitIs
<1>3. ASSUME c.op = "trim"
      PROVE  /\ r.returns = <<>> \/ {Head(r.returns), O!Last(r.returns)} \cap O!ToTrim(c.b) = {}
             /\ \E i, j \in 0..Len(c.a) : /\ SubSeq(c.a, i + 1, j) = r.returns
                                          /\ O!NotOf(c.a, c.b) \subseteq i + 1..j
  <2>1. r = O!Returns(O!Trim(c.a, c.b)) /\ c.a \in Seq(Nat) /\ c.b \in Seq(Nat)
    BY <1>1, <1>3, CallsAssumption DEF Answers, O!Texts
  <2>2. r.returns = O!Trim(c.a, c.b)
    BY <2>1, ReturnsIs
  <2> QED
    BY <2>1, <2>2, TrimIs
<1> QED
  BY <1>2, <1>3 DEF O!PartsMakeTheText

\* Before the first call there is nothing to hold; a step makes one call; and what
\* the call answers is what the lemmas say of it.
THEOREM StringsComeOutRight == O!Spec => []StringsAreRight
<1>1. O!Init => StringsAreRight
  <2> SUFFICES ASSUME O!Init
               PROVE  StringsAreRight
    OBVIOUS
  <2>1. call.op = "none"
    BY DEF O!Init, O!NoCall
  <2>2. O!CodecsInvert /\ O!EditsAreUndone
    BY <2>1 DEF O!CodecsInvert, O!EditsAreUndone
  <2>3. O!ShiftsMoveTheNumber /\ O!OrdersAreTotal
    BY <2>1 DEF O!ShiftsMoveTheNumber, O!OrdersAreTotal
  <2>4. O!NumbersAndHashesTellApart /\ O!PartsMakeTheText
    BY <2>1 DEF O!NumbersAndHashesTellApart, O!PartsMakeTheText
  <2> QED
    BY <2>2, <2>3, <2>4 DEF StringsAreRight
<1>2. StringsAreRight /\ [O!Next]_(O!vars) => StringsAreRight'
  <2> SUFFICES ASSUME StringsAreRight, [O!Next]_(O!vars)
               PROVE  StringsAreRight'
    OBVIOUS
  <2>1. CASE O!Next
    BY <2>1, StepsInvert, StepsUndo, StepsShift, StepsOrder, StepsTell, StepsPart DEF StringsAreRight
  <2>2. CASE UNCHANGED O!vars
    <3>1. call' = call /\ result' = result
      BY <2>2 DEF O!vars
    <3>2. O!CodecsInvert' /\ O!EditsAreUndone'
      BY <3>1 DEF StringsAreRight, O!CodecsInvert, O!EditsAreUndone
    <3>3. O!ShiftsMoveTheNumber' /\ O!OrdersAreTotal'
      BY <3>1 DEF StringsAreRight, O!ShiftsMoveTheNumber, O!OrdersAreTotal, O!LengthKept
    <3>4. O!NumbersAndHashesTellApart' /\ O!PartsMakeTheText'
      BY <3>1 DEF StringsAreRight, O!NumbersAndHashesTellApart, O!PartsMakeTheText
    <3> QED
      BY <3>2, <3>3, <3>4 DEF StringsAreRight
  <2> QED
    BY <2>1, <2>2
<1> QED
  BY <1>1, <1>2, PTL DEF O!Spec
=============================================================================
