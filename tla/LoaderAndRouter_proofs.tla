----------------------- MODULE LoaderAndRouter_proofs -----------------------
(***************************************************************************)
(* The loader and the router, for every size of their queues, any number   *)
(* of frames and events, every size of frame set and any environment.      *)
(* The invariants are stated and proved for each of the two by itself, so  *)
(* that VisionPipeline_proofs can use them where one queue joins the two.  *)
(***************************************************************************)
EXTENDS LoaderAndRouter, CommonLemmas

\* push in the loader and in the router is that of the queue.
LEMMA SamePush ==
  /\ \A q, e, m : L!PushTo(q, e, m) = PushTo(q, e, m) /\ R!PushTo(q, e, m) = PushTo(q, e, m)
  /\ \A n, k : L!NewestOf(n, k) = NewestOf(n, k)
BY DEF L!PushTo, R!PushTo, PushTo, L!NewestOf, NewestOf
-----------------------------------------------------------------------------
\* The loader's queue ends with the frame numbered last.
LoaderQueue ==
  /\ IsNewest(lQueue, frame_id_)
  /\ Len(lQueue) <= QueueSize
  /\ frame_id_ <= MaxFrames

\* Only a frame set has frames to count, and its worker captures only when one
\* is left: the count never passes 0.
FramesLeft ==
  /\ sourceType # "FRAME_SET" => remaining = 0
  /\ lWorker = "capture" /\ sourceType = "FRAME_SET" => remaining > 0

LoaderInv ==
  /\ L!TypeOK
  /\ LoaderQueue
  /\ FramesLeft
  /\ L!QuietAfterStop
  /\ L!WorkerEndsOnlyWhenDone

\* The steps of the loader, as the proofs below split them.
LEMMA LoaderActions ==
  ASSUME [L!Next]_(L!vars)
  PROVE  \/ L!Start \/ L!StartAgain \/ L!Stop \/ L!StopReturns
         \/ L!BeginStream \/ L!BeginFrameSet \/ L!Loop \/ L!Capture \/ L!ReadFails
         \/ L!Take \/ UNCHANGED L!vars
BY DEF L!Next, L!Owner, L!Worker, L!Terminated

LEMMA LoaderInit == L!Init => LoaderInv
<1>1. SUFFICES ASSUME L!Init PROVE LoaderInv
  OBVIOUS
<1>2. lQueue = <<>> /\ frame_id_ = 0 /\ remaining = 0
  BY <1>1 DEF L!Init
<1>3. IsNewest(lQueue, frame_id_) /\ Len(lQueue) = 0
  BY <1>2, EmptySeq DEF IsNewest
<1>4. L!TypeOK
  BY <1>1, EmptySeq DEF L!Init, L!TypeOK
<1>5. LoaderQueue
  BY <1>2, <1>3, QueueSizeAssumption, BoundsAssumption DEF LoaderQueue
<1>6. FramesLeft /\ L!QuietAfterStop /\ L!WorkerEndsOnlyWhenDone
  BY <1>1 DEF L!Init, FramesLeft, L!QuietAfterStop, L!WorkerEndsOnlyWhenDone
<1>7. QED
  BY <1>4, <1>5, <1>6 DEF LoaderInv

\* Only Capture and the reader touch the queue, and only Capture numbers frames.
LEMMA LoaderQueueStep ==
  ASSUME L!TypeOK, LoaderQueue, [L!Next]_(L!vars)
  PROVE  LoaderQueue' /\ lQueue' \in Seq(Nat) /\ frame_id_' \in Nat
<1>1. /\ IsNewest(lQueue, frame_id_) /\ Len(lQueue) <= QueueSize /\ frame_id_ <= MaxFrames
      /\ frame_id_ \in Nat /\ lQueue \in Seq(Nat) /\ Len(lQueue) \in Nat
  BY LenProperties DEF LoaderQueue, L!TypeOK
<1>2. CASE UNCHANGED <<lQueue, frame_id_>>
  BY <1>1, <1>2 DEF LoaderQueue
<1>3. CASE L!Capture
  <2>1. /\ frame_id_' = frame_id_ + 1 /\ frame_id_ < MaxFrames
        /\ lQueue' = PushTo(lQueue, frame_id_ + 1, QueueSize)
    BY <1>3, SamePush DEF L!Capture
  <2>2. /\ IsNewest(lQueue', frame_id_')
        /\ Len(lQueue') = IF Len(lQueue) >= QueueSize THEN Len(lQueue) ELSE Len(lQueue) + 1
    BY <1>1, <2>1, QueueSizeAssumption, PushKeepsNewest
  <2>3. Len(lQueue') <= QueueSize /\ frame_id_' <= MaxFrames /\ frame_id_' \in Nat
    BY <1>1, <2>1, <2>2, QueueSizeAssumption, BoundsAssumption
  <2>4. QED
    BY <2>2, <2>3 DEF LoaderQueue, IsNewest
<1>4. CASE L!Take
  <2>1. lQueue # <<>> /\ lQueue' = Tail(lQueue) /\ frame_id_' = frame_id_
    BY <1>4 DEF L!Take
  <2>2. IsNewest(lQueue', frame_id_') /\ Len(lQueue') = Len(lQueue) - 1
    BY <1>1, <2>1, TailKeepsNewest
  <2>3. Len(lQueue') <= QueueSize
    BY <1>1, <2>2, QueueSizeAssumption
  <2>4. QED
    BY <1>1, <2>1, <2>2, <2>3 DEF LoaderQueue, IsNewest
<1>5. L!Capture \/ L!Take \/ UNCHANGED <<lQueue, frame_id_>>
  BY LoaderActions DEF L!Start, L!StartWorker, L!StartAgain, L!Stop, L!ClearFlag, L!StopReturns,
     L!BeginStream, L!BeginFrameSet, L!Loop, L!ReadFails, L!WorkerGoes, L!KeepFrames, L!vars
<1>6. QED
  BY <1>2, <1>3, <1>4, <1>5

\* The rest of the loader's state: where owner and worker are and what is left.
LEMMA LoaderThreadsStep ==
  ASSUME LoaderInv, [L!Next]_(L!vars)
  PROVE  /\ FramesLeft' /\ L!QuietAfterStop' /\ L!WorkerEndsOnlyWhenDone'
         /\ sourceType' \in L!SourceTypes /\ lRunning' \in BOOLEAN
         /\ lWorker' \in {"none", "begin", "loop", "capture", "returned"}
         /\ remaining' \in Nat
         /\ lCaller' \in {"idle", "joining"} /\ alive' \in BOOLEAN
<1> USE DEF LoaderInv, L!TypeOK, FramesLeft, L!QuietAfterStop, L!WorkerEndsOnlyWhenDone
<1>1. CASE L!Start
  BY <1>1 DEF L!Start, L!StartWorker
<1>2. CASE L!StartAgain
  BY <1>2 DEF L!StartAgain
<1>3. CASE L!Stop
  BY <1>3 DEF L!Stop, L!ClearFlag
<1>4. CASE L!StopReturns
  BY <1>4 DEF L!StopReturns
<1>5. CASE L!BeginStream
  BY <1>5 DEF L!BeginStream, L!WorkerGoes, L!KeepFrames, L!SourceTypes, L!Streams
<1>6. CASE L!BeginFrameSet
  BY <1>6, FrameSetSizesAssumption DEF L!BeginFrameSet, L!WorkerGoes
<1>7. CASE L!Loop
  BY <1>7 DEF L!Loop, L!WorkerGoes, L!KeepFrames, L!MoreToRead, L!Streams
<1>8. CASE L!Capture
  BY <1>8 DEF L!Capture, L!WorkerGoes
<1>9. CASE L!ReadFails
  BY <1>9 DEF L!ReadFails, L!WorkerGoes, L!KeepFrames
<1>10. CASE L!Take
  BY <1>10 DEF L!Take
<1>11. CASE UNCHANGED L!vars
  BY <1>11 DEF L!vars
<1>12. QED
  BY <1>1, <1>2, <1>3, <1>4, <1>5, <1>6, <1>7, <1>8, <1>9, <1>10, <1>11, LoaderActions

LEMMA LoaderStep == LoaderInv /\ [L!Next]_(L!vars) => LoaderInv'
<1>1. SUFFICES ASSUME LoaderInv, [L!Next]_(L!vars) PROVE LoaderInv'
  OBVIOUS
<1>2. LoaderQueue' /\ lQueue' \in Seq(Nat) /\ frame_id_' \in Nat
  BY <1>1, LoaderQueueStep DEF LoaderInv
<1>3. L!TypeOK'
  BY <1>1, <1>2, LoaderThreadsStep DEF L!TypeOK
<1>4. QED
  BY <1>1, <1>2, <1>3, LoaderThreadsStep DEF LoaderInv

\* The invariant by index is the one of the run.
LEMMA LoaderInvOffersAll == LoaderInv => LoaderOffersAll
<1>1. SUFFICES ASSUME LoaderInv PROVE LoaderOffersAll
  OBVIOUS
<1>2. lQueue \in Seq(Nat) /\ frame_id_ \in Nat /\ IsNewest(lQueue, frame_id_)
  BY <1>1 DEF LoaderInv, L!TypeOK, LoaderQueue
<1>3. Len(lQueue) <= frame_id_ /\ Len(lQueue) <= QueueSize
  BY <1>1 DEF LoaderInv, LoaderQueue, IsNewest
<1>4. lQueue = L!NewestOf(frame_id_, Len(lQueue))
  BY <1>2, <1>3, NewestForm, SamePush
<1>5. QED
  BY <1>1, <1>3, <1>4 DEF LoaderInv, LoaderOffersAll, L!QueueIsNewestSuffix
-----------------------------------------------------------------------------
\* The router's queue ends with the event pushed last, and the event the router
\* has in hand is older than all of it.
RouterQueue ==
  /\ IsNewest(rQueue, Len(type))
  /\ Len(rQueue) <= QueueSize
  /\ Len(type) <= MaxEvents
  /\ evt + Len(rQueue) <= Len(type)

RouterInv ==
  /\ R!TypeOK
  /\ RouterQueue
  /\ R!QuietAfterStop
  /\ R!PopNeverBlocks

\* The steps of the router and of its producer, as the proofs below split them.
LEMMA RouterActions ==
  ASSUME [R!Next]_(R!vars)
  PROVE  \/ R!Start \/ R!Stop \/ R!StopReturns
         \/ R!Loop \/ R!Poll \/ R!Pop \/ R!DispatchImage \/ R!DispatchOther
         \/ R!HandlerReturns \/ R!HandlerThrows
         \/ (\E t \in EventTypes : R!Arrive(t)) \/ UNCHANGED R!vars
BY DEF R!Next, R!Owner, R!Worker

LEMMA RouterInit == R!Init => RouterInv
<1>1. SUFFICES ASSUME R!Init PROVE RouterInv
  OBVIOUS
<1>2. rQueue = <<>> /\ type = <<>> /\ evt = 0 /\ Len(type) = 0
  BY <1>1, EmptySeq DEF R!Init
<1>3. IsNewest(rQueue, Len(type)) /\ Len(rQueue) = 0
  BY <1>2, EmptySeq DEF IsNewest
<1>4. R!TypeOK
  <2>1. rQueue \in Seq(1..Len(type)) /\ type \in Seq(EventTypes) /\ evt \in 0..Len(type)
    BY <1>2, EmptySeq
  <2>2. QED
    BY <1>1, <2>1 DEF R!Init, R!TypeOK
<1>5. RouterQueue
  BY <1>2, <1>3, QueueSizeAssumption, BoundsAssumption DEF RouterQueue
<1>6. R!QuietAfterStop /\ R!PopNeverBlocks
  BY <1>1 DEF R!Init, R!QuietAfterStop, R!PopNeverBlocks
<1>7. QED
  BY <1>4, <1>5, <1>6 DEF RouterInv

\* A push, and a pop of what poll has seen: with no other reader the queue does
\* not become empty in between, for a push leaves at least the event it brings.
LEMMA ArriveStep ==
  ASSUME RouterInv, NEW t \in EventTypes, R!Arrive(t)
  PROVE  RouterQueue' /\ rQueue' # <<>> /\ type' \in Seq(EventTypes) /\ evt' \in 0..Len(type')
<1> DEFINE n == Len(type)
<1>1. /\ IsNewest(rQueue, n) /\ Len(rQueue) <= QueueSize /\ n <= MaxEvents
      /\ evt + Len(rQueue) <= n /\ evt \in 0..n
      /\ n \in Nat /\ Len(rQueue) \in Nat /\ type \in Seq(EventTypes)
  BY LenProperties DEF RouterInv, RouterQueue, R!TypeOK
<1>2. /\ n < MaxEvents /\ type' = Append(type, t) /\ evt' = evt
      /\ rQueue' = PushTo(rQueue, n + 1, QueueSize)
  BY SamePush DEF R!Arrive
<1>3. type' \in Seq(EventTypes) /\ Len(type') = n + 1
  BY <1>1, <1>2, AppendProperties
<1> HIDE DEF n
<1>4. /\ IsNewest(rQueue', n + 1)
      /\ Len(rQueue') = IF Len(rQueue) >= QueueSize THEN Len(rQueue) ELSE Len(rQueue) + 1
  BY <1>1, <1>2, QueueSizeAssumption, PushKeepsNewest
<1>5. /\ Len(rQueue') <= QueueSize /\ n + 1 <= MaxEvents
      /\ evt + Len(rQueue') <= n + 1 /\ Len(rQueue') # 0 /\ evt \in 0..(n + 1)
  BY <1>1, <1>2, <1>4, QueueSizeAssumption, BoundsAssumption
<1>6. QED
  BY <1>2, <1>3, <1>4, <1>5, EmptySeq DEF RouterQueue

LEMMA PopStep ==
  ASSUME RouterInv, R!Pop
  PROVE  RouterQueue' /\ evt < evt' /\ evt' \in 0..Len(type')
<1> DEFINE n == Len(type)
<1>1. /\ IsNewest(rQueue, n) /\ Len(rQueue) <= QueueSize /\ n <= MaxEvents
      /\ evt + Len(rQueue) <= n /\ evt \in 0..n /\ n \in Nat
  BY LenProperties DEF RouterInv, RouterQueue, R!TypeOK
<1>2. rQueue # <<>> /\ rQueue' = Tail(rQueue) /\ evt' = Head(rQueue) /\ type' = type
  BY DEF R!Pop, R!CopyFront, R!WorkerGoes
<1> HIDE DEF n
<1>3. /\ IsNewest(rQueue', n) /\ Len(rQueue') = Len(rQueue) - 1
      /\ evt' = n - Len(rQueue) + 1 /\ Len(rQueue) \in Nat \ {0}
  BY <1>1, <1>2, TailKeepsNewest
<1>4. /\ Len(rQueue') <= QueueSize /\ evt' + Len(rQueue') <= n
      /\ evt < evt' /\ evt' \in 0..n
  BY <1>1, <1>3, QueueSizeAssumption
<1>5. QED
  BY <1>1, <1>2, <1>3, <1>4 DEF RouterQueue, n

\* A step that leaves the events alone.
LEMMA RouterQueueKept ==
  ASSUME RouterInv, UNCHANGED <<rQueue, type, evt>>
  PROVE  RouterQueue' /\ type' \in Seq(EventTypes) /\ evt' \in 0..Len(type')
BY DEF RouterInv, RouterQueue, R!TypeOK

LEMMA RouterThreadsStep ==
  ASSUME RouterInv, [R!Next]_(R!vars)
  PROVE  /\ RouterQueue' /\ type' \in Seq(EventTypes) /\ evt' \in 0..Len(type')
         /\ R!QuietAfterStop' /\ R!PopNeverBlocks'
         /\ rRunning' \in BOOLEAN /\ rCaller' \in {"idle", "joining"}
         /\ rWorker' \in {"none", "loop", "poll", "pop", "dispatch", "handling", "returned"}
<1> USE DEF R!QuietAfterStop, R!PopNeverBlocks
<1>1. /\ rRunning \in BOOLEAN /\ rCaller \in {"idle", "joining"}
      /\ rWorker \in {"none", "loop", "poll", "pop", "dispatch", "handling", "returned"}
      /\ R!QuietAfterStop /\ R!PopNeverBlocks
  BY DEF RouterInv, R!TypeOK
<1>2. CASE R!Start \/ R!Stop \/ R!StopReturns
  BY <1>1, <1>2, RouterQueueKept DEF R!Start, R!Stop, R!ClearFlag, R!StopReturns
<1>3. CASE R!Loop \/ R!Poll
  BY <1>1, <1>3, RouterQueueKept DEF R!Loop, R!Poll, R!WorkerGoes, R!KeepEvents
<1>4. CASE R!Pop
  <2>1. type' \in Seq(EventTypes)
    BY <1>4 DEF R!Pop, R!CopyFront, R!WorkerGoes, RouterInv, R!TypeOK
  <2>2. QED
    BY <1>1, <1>4, <2>1, PopStep DEF R!Pop, R!CopyFront, R!WorkerGoes
<1>5. CASE R!DispatchImage \/ R!DispatchOther \/ R!HandlerReturns \/ R!HandlerThrows
  BY <1>1, <1>5, RouterQueueKept DEF R!DispatchImage, R!DispatchOther, R!HandlerReturns,
     R!HandlerThrows, R!WorkerGoes, R!KeepEvents
<1>6. CASE \E t \in EventTypes : R!Arrive(t)
  <2>1. PICK t \in EventTypes : R!Arrive(t)
    BY <1>6
  <2>2. QED
    BY <1>1, <2>1, ArriveStep DEF R!Arrive
<1>7. CASE UNCHANGED R!vars
  BY <1>1, <1>7, RouterQueueKept DEF R!vars
<1>8. QED
  BY <1>2, <1>3, <1>4, <1>5, <1>6, <1>7, RouterActions

LEMMA RouterStep == RouterInv /\ [R!Next]_(R!vars) => RouterInv'
<1>1. SUFFICES ASSUME RouterInv, [R!Next]_(R!vars) PROVE RouterInv'
  OBVIOUS
<1>2. PICK n : n = Len(type')
  OBVIOUS
<1>3. n \in Nat /\ IsNewest(rQueue', n)
  BY <1>1, <1>2, RouterThreadsStep, LenProperties DEF RouterQueue
<1>4. rQueue' \in Seq(1..Len(type'))
  BY <1>2, <1>3, NewestInRange
<1>5. R!TypeOK'
  BY <1>1, <1>4, RouterThreadsStep DEF R!TypeOK
<1>6. QED
  BY <1>1, <1>5, RouterThreadsStep DEF RouterInv
-----------------------------------------------------------------------------
THEOREM LoaderInvariance == L!Spec => []LoaderInv
BY LoaderInit, LoaderStep, PTL DEF L!Spec

THEOREM RouterInvariance == R!Spec => []RouterInv
BY RouterInit, RouterStep, PTL DEF R!Spec

\* When stop() has returned no worker of the loader or of the router is left, and
\* the router never sleeps inside pop() (video_loader_impl.cpp, event_router.cpp).
THEOREM StopsSafely == L!Spec /\ R!Spec => []StopIsSafe
<1>1. LoaderInv /\ RouterInv => StopIsSafe
  BY DEF LoaderInv, RouterInv, StopIsSafe
<1>2. QED
  BY <1>1, LoaderInvariance, RouterInvariance, PTL

\* Across restarts and failing reads the loader's queue holds its newest frames,
\* and its worker ends only when it was stopped or has nothing left.
THEOREM OffersAll == L!Spec => []LoaderOffersAll
BY LoaderInvOffersAll, LoaderInvariance, PTL
=============================================================================
