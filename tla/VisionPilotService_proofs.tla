---------------------- MODULE VisionPilotService_proofs ----------------------
(***************************************************************************)
(* For any number of frames and either order of destruction: the service's *)
(* invariants, the order of what it renders, and that the latest_frame_    *)
(* slot implements LossyChannel.                                           *)
(***************************************************************************)
EXTENDS VisionPilotService, FiniteSetTheorems, TLAPS

\* The detector holds data_mutex_ exactly inside its critical section, and the
\* running flag is the owner's first step of the destructor.
Locking ==
  /\ data_mutex_ = "detector" <=> detector \in {"test", "block"}
  /\ is_running_ <=> owner = "serving"

\* A frame number travels from the caller's argument through the slot, the
\* detector and the stored detections to the screen, and only grows.
Numbers ==
  /\ rendered.detections <= current_detections
  /\ current_detections <= latest_results_
  /\ latest_results_ <= frame_to_process
  /\ frame_to_process <= latest_frame_
  /\ latest_frame_ <= frame
  /\ rendered.frame <= frame
  /\ caller # "idle" => rendered.frame < frame
  /\ caller \in {"update", "publish"} => latest_frame_ < frame

\* The adapters outlive the service, and the service its thread and its calls.
Lifetimes ==
  /\ owner # "serving" => caller = "idle"
  /\ owner = "gone" => detector = "returned"
  /\ ~AdaptersFirst /\ ~adaptersAlive => owner = "gone"

IInv ==
  /\ TypeOK /\ Locking /\ NoMissedWakeup
  /\ Numbers /\ FlagMeansUntakenFrame /\ Lifetimes

USE DEF shared, callerData, callerVars, detectorVars, ownerVars, others, data,
        CallerGoes, DetectorGoes, MutexFree, Releases

\* The steps of the service, as the proofs below split them.
LEMMA Actions ==
  ASSUME [Next]_vars
  PROVE  \/ ClientCalls \/ Update \/ CallThrows \/ Publish \/ NotifyOne
         \/ CopyResults \/ Render
         \/ TestRunning \/ Acquire \/ PredicateFails \/ Block \/ SpuriousWakeup
         \/ SeeStop \/ TakeFrame \/ Detect \/ DetectThrows \/ StoreResults
         \/ ClientDestroys \/ DestroyNotifies \/ DestroyJoins \/ DestroyAdapters
         \/ UNCHANGED vars
BY DEF Next, Caller, Detector

LEMMA InitIInv == Init => IInv
<1>1. SUFFICES ASSUME Init PROVE IInv
  OBVIOUS
<1> USE <1>1 DEF Init
<1>2. TypeOK
  BY DEF TypeOK
<1>3. Locking /\ NoMissedWakeup
  BY DEF Locking, NoMissedWakeup
<1>4. Numbers /\ FlagMeansUntakenFrame
  BY DEF Numbers, FlagMeansUntakenFrame
<1>5. Lifetimes
  BY DEF Lifetimes
<1>6. QED
  BY <1>2, <1>3, <1>4, <1>5 DEF IInv

LEMMA StepType == TypeOK /\ [Next]_vars => TypeOK'
<1>1. SUFFICES ASSUME TypeOK, [Next]_vars PROVE TypeOK'
  OBVIOUS
<1> USE <1>1 DEF TypeOK
<1>2. CASE ClientCalls
  BY <1>2, MaxFramesAssumption DEF ClientCalls, Call
<1>3. CASE Update \/ CallThrows \/ Publish \/ NotifyOne
  BY <1>3 DEF Update, CallThrows, Publish, PublishFrame, NotifyOne, Notified
<1>4. CASE CopyResults \/ Render
  BY <1>4 DEF CopyResults, Render
<1>5. CASE TestRunning \/ Acquire \/ PredicateFails \/ Block \/ SpuriousWakeup
  BY <1>5 DEF TestRunning, Acquire, PredicateFails, Block, SpuriousWakeup
<1>6. CASE SeeStop \/ TakeFrame \/ Detect \/ DetectThrows \/ StoreResults
  BY <1>6 DEF SeeStop, TakeFrame, TakeLatest, Detect, DetectThrows, StoreResults, StoreDetections
<1>7. CASE ClientDestroys \/ DestroyNotifies \/ DestroyJoins \/ DestroyAdapters
  BY <1>7 DEF ClientDestroys, DestroySetsFlags, SetStopFlags, DestroyNotifies, Notified,
              DestroyJoins, DestructorEnds, DestroyAdapters
<1>8. CASE UNCHANGED vars
  BY <1>8 DEF vars
<1>9. QED
  BY <1>1, <1>2, <1>3, <1>4, <1>5, <1>6, <1>7, <1>8, Actions

\* Only the caller's publish and the destructor raise what the detector waits
\* for; both need the mutex, which the detector holds from its test to its sleep.
LEMMA StepSync == TypeOK /\ Locking /\ NoMissedWakeup /\ [Next]_vars
                    => Locking' /\ NoMissedWakeup'
<1>1. SUFFICES ASSUME TypeOK, Locking, NoMissedWakeup, [Next]_vars
               PROVE  Locking' /\ NoMissedWakeup'
  OBVIOUS
<1> USE <1>1 DEF TypeOK, Locking, NoMissedWakeup
<1>2. CASE ClientCalls
  BY <1>2 DEF ClientCalls, Call
<1>3. CASE Update \/ CallThrows \/ CopyResults \/ Render
  BY <1>3 DEF Update, CallThrows, CopyResults, Render
<1>4. CASE Publish
  BY <1>4 DEF Publish, PublishFrame
<1>5. CASE NotifyOne \/ DestroyNotifies
  BY <1>5 DEF NotifyOne, DestroyNotifies, Notified
<1>6. CASE TestRunning \/ Acquire \/ PredicateFails \/ Block \/ SpuriousWakeup
  BY <1>6 DEF TestRunning, Acquire, PredicateFails, Block, SpuriousWakeup
<1>7. CASE SeeStop \/ TakeFrame \/ Detect \/ DetectThrows \/ StoreResults
  BY <1>7 DEF SeeStop, TakeFrame, TakeLatest, Detect, DetectThrows, StoreResults, StoreDetections
<1>8. CASE ClientDestroys
  BY <1>8 DEF ClientDestroys, DestroySetsFlags, SetStopFlags
<1>9. CASE DestroyJoins \/ DestroyAdapters
  BY <1>9 DEF DestroyJoins, DestructorEnds, DestroyAdapters
<1>10. CASE UNCHANGED vars
  BY <1>10 DEF vars
<1>11. QED
  BY <1>1, <1>2, <1>3, <1>4, <1>5, <1>6, <1>7, <1>8, <1>9, <1>10, Actions

\* Each hand-over copies the number held by the stage before.
LEMMA StepNumbers ==
  TypeOK /\ Locking /\ Numbers /\ FlagMeansUntakenFrame /\ [Next]_vars
    => Numbers' /\ FlagMeansUntakenFrame'
<1>1. SUFFICES ASSUME TypeOK, Locking, Numbers, FlagMeansUntakenFrame, [Next]_vars
               PROVE  Numbers' /\ FlagMeansUntakenFrame'
  OBVIOUS
<1> USE <1>1 DEF TypeOK, Locking, Numbers, FlagMeansUntakenFrame
<1>2. CASE ClientCalls
  BY <1>2, MaxFramesAssumption DEF ClientCalls, Call
<1>3. CASE Update \/ CallThrows \/ NotifyOne \/ DestroyNotifies
  BY <1>3 DEF Update, CallThrows, NotifyOne, DestroyNotifies, Notified
<1>4. CASE Publish
  BY <1>4 DEF Publish, PublishFrame
<1>5. CASE CopyResults
  BY <1>5 DEF CopyResults
<1>6. CASE Render
  BY <1>6 DEF Render
<1>7. CASE TestRunning \/ Acquire \/ PredicateFails \/ Block \/ SpuriousWakeup
  BY <1>7 DEF TestRunning, Acquire, PredicateFails, Block, SpuriousWakeup
<1>8. CASE SeeStop \/ Detect \/ DetectThrows
  BY <1>8 DEF SeeStop, Detect, DetectThrows
<1>9. CASE TakeFrame
  BY <1>9 DEF TakeFrame, TakeLatest
<1>10. CASE StoreResults
  BY <1>10 DEF StoreResults, StoreDetections
<1>11. CASE ClientDestroys \/ DestroyJoins \/ DestroyAdapters
  BY <1>11 DEF ClientDestroys, DestroySetsFlags, SetStopFlags, DestroyJoins, DestructorEnds,
               DestroyAdapters
<1>12. CASE UNCHANGED vars
  BY <1>12 DEF vars
<1>13. QED
  BY <1>1, <1>2, <1>3, <1>4, <1>5, <1>6, <1>7, <1>8, <1>9, <1>10, <1>11, <1>12, Actions

\* The join is what keeps the thread inside the lifetime of the adapters.
LEMMA StepLifetimes == TypeOK /\ Lifetimes /\ [Next]_vars => Lifetimes'
<1>1. SUFFICES ASSUME TypeOK, Lifetimes, [Next]_vars PROVE Lifetimes'
  OBVIOUS
<1> USE <1>1, AdaptersFirstAssumption DEF TypeOK, Lifetimes
<1>2. CASE ClientCalls \/ Update \/ CallThrows \/ Publish \/ CopyResults \/ Render
  BY <1>2 DEF ClientCalls, Call, Update, CallThrows, Publish, PublishFrame, CopyResults, Render
<1>3. CASE NotifyOne \/ DestroyNotifies
  BY <1>3 DEF NotifyOne, DestroyNotifies, Notified
<1>4. CASE TestRunning \/ Acquire \/ PredicateFails \/ Block \/ SpuriousWakeup
  BY <1>4 DEF TestRunning, Acquire, PredicateFails, Block, SpuriousWakeup
<1>5. CASE SeeStop \/ TakeFrame \/ Detect \/ DetectThrows \/ StoreResults
  BY <1>5 DEF SeeStop, TakeFrame, TakeLatest, Detect, DetectThrows, StoreResults, StoreDetections
<1>6. CASE ClientDestroys \/ DestroyJoins \/ DestroyAdapters
  BY <1>6 DEF ClientDestroys, DestroySetsFlags, SetStopFlags, DestroyJoins, DestructorEnds,
              DestroyAdapters
<1>7. CASE UNCHANGED vars
  BY <1>7 DEF vars
<1>8. QED
  BY <1>1, <1>2, <1>3, <1>4, <1>5, <1>6, <1>7, Actions

LEMMA StepIInv == IInv /\ [Next]_vars => IInv'
BY StepType, StepSync, StepNumbers, StepLifetimes DEF IInv
-----------------------------------------------------------------------------
THEOREM Invariance == Spec => []IInv
BY InitIInv, StepIInv, PTL DEF Spec

\* TypeOK of the whole service.
THEOREM TypeCorrect == Spec => []TypeOK
<1>1. IInv => TypeOK
  BY DEF IInv
<1>2. QED
  BY <1>1, Invariance, PTL

\* The detector never sleeps through a frame or through the destructor
\* (vision_pilot_service_impl.cpp:25-30, 42-47, 65-68).
THEOREM WakesForWork == Spec => []NoMissedWakeup
<1>1. IInv => NoMissedWakeup
  BY DEF IInv
<1>2. QED
  BY <1>1, Invariance, PTL

\* new_frame_available_ tells exactly whether the latest frame is untaken.
THEOREM FlagIsExact == Spec => []FlagMeansUntakenFrame
<1>1. IInv => FlagMeansUntakenFrame
  BY DEF IInv
<1>2. QED
  BY <1>1, Invariance, PTL

\* An owner that destroys the service first never has the thread call into a
\* destroyed detector.
THEOREM ServiceFirstIsSafe ==
  ASSUME ~AdaptersFirst
  PROVE  Spec => []NoCallIntoDestroyedAdapter
<1>1. IInv => NoCallIntoDestroyedAdapter
  BY DEF IInv, TypeOK, Lifetimes, NoCallIntoDestroyedAdapter
<1>2. QED
  BY <1>1, Invariance, PTL

\* A render changes what is drawn, and the numbers only grow on their way to it.
LEMMA StepRenders ==
  ASSUME IInv, [Next]_vars, rendered' # rendered
  PROVE  /\ rendered.frame < rendered'.frame
         /\ rendered.detections <= rendered'.detections
         /\ rendered'.detections <= rendered'.frame
<1>1. Render
  BY Actions DEF ClientCalls, Call, Update, CallThrows, Publish, PublishFrame,
     NotifyOne, CopyResults, TestRunning, Acquire, PredicateFails, Block,
     SpuriousWakeup, SeeStop, TakeFrame, TakeLatest, Detect, DetectThrows,
     StoreResults, StoreDetections, ClientDestroys, DestroySetsFlags, SetStopFlags,
     DestroyNotifies, DestroyJoins, DestructorEnds, DestroyAdapters, vars
<1>2. TypeOK /\ Numbers
  BY DEF IInv
<1>3. QED
  BY <1>1, <1>2 DEF Render, TypeOK, Numbers

\* What is drawn only moves forward and never mixes a picture with detections
\* of a newer frame.
THEOREM RendersForward == Spec => RenderOrder
<1>1. IInv /\ [Next]_vars =>
        [rendered' # rendered =>
           /\ rendered.frame < rendered'.frame
           /\ rendered.detections <= rendered'.detections
           /\ rendered'.detections <= rendered'.frame]_vars
  BY StepRenders
<1>2. QED
  BY <1>1, Invariance, PTL DEF Spec, RenderOrder
-----------------------------------------------------------------------------
\* The channel counts with the same Cardinality.
LEMMA SameCardinality == \A S : Slot!Cardinality(S) = Cardinality(S)
BY DEF Slot!Cardinality, Cardinality

\* What the slot of a running service holds: the latest frame or nothing.
Pending == IF is_running_ /\ new_frame_available_ THEN {latest_frame_} ELSE {}

\* A published frame takes the place of an untaken one.
LEMMA PublishSends ==
  ASSUME IInv, Publish
  PROVE  Slot!Send
<1>1. TypeOK /\ Numbers /\ Locking /\ Lifetimes
  BY DEF IInv
<1>2. /\ is_running_ /\ is_running_' = is_running_
      /\ new_frame_available_' /\ latest_frame_' = frame
      /\ latest_frame_ < frame /\ frame \in Nat /\ frame_to_process' = frame_to_process
  BY <1>1 DEF Publish, PublishFrame, TypeOK, Numbers, Locking, Lifetimes
<1>3. Pending' = (Pending \ Pending) \cup {latest_frame_'}
  BY <1>2 DEF Pending
<1>4. Pending # {} => Slot!Cardinality(Pending \ Pending) + 1 = 1
  <2>1. Pending \ Pending = {} /\ Cardinality({}) = 0
    BY FS_EmptySet
  <2>2. QED
    BY <2>1, SameCardinality
<1>5. \E lost \in SUBSET Pending :
         /\ \A i \in lost, j \in Pending \ lost : i < j
         /\ lost # {} => Slot!Cardinality(Pending \ lost) + 1 = 1
         /\ Pending' = (Pending \ lost) \cup {latest_frame_'}
  <2>1. WITNESS Pending \in SUBSET Pending
  <2>2. QED
    BY <1>3, <1>4
<1>6. QED
  BY <1>2, <1>5 DEF Slot!Send, Pending

LEMMA TakeDelivers ==
  ASSUME IInv, TakeFrame
  PROVE  Slot!Deliver
BY DEF IInv, TypeOK, TakeFrame, TakeLatest, Slot!Deliver

LEMMA DestroyCloses ==
  ASSUME IInv, ClientDestroys
  PROVE  Slot!Close
BY DEF IInv, TypeOK, Locking, ClientDestroys, DestroySetsFlags, SetStopFlags, Slot!Close

LEMMA StepSlot == IInv /\ [Next]_vars => [Slot!Next]_(Slot!vars)
<1>1. SUFFICES ASSUME IInv, [Next]_vars
               PROVE  Slot!Send \/ Slot!Deliver \/ Slot!Close \/ UNCHANGED Slot!vars
  BY DEF Slot!Next
<1>2. CASE Publish
  BY <1>1, <1>2, PublishSends
<1>3. CASE TakeFrame
  BY <1>1, <1>3, TakeDelivers
<1>4. CASE ClientDestroys
  BY <1>1, <1>4, DestroyCloses
<1>5. CASE UNCHANGED <<is_running_, new_frame_available_, latest_frame_, frame_to_process>>
  BY <1>5 DEF Slot!vars
<1>6. \/ Publish \/ TakeFrame \/ ClientDestroys
      \/ UNCHANGED <<is_running_, new_frame_available_, latest_frame_, frame_to_process>>
  BY <1>1, Actions DEF ClientCalls, Call, Update, CallThrows, NotifyOne, Notified,
     CopyResults, Render, TestRunning, Acquire, PredicateFails, Block, SpuriousWakeup,
     SeeStop, Detect, DetectThrows, StoreResults, StoreDetections, DestroyNotifies,
     DestroyJoins, DestructorEnds, DestroyAdapters, vars
<1>7. QED
  BY <1>2, <1>3, <1>4, <1>5, <1>6

\* The latest_frame_ slot implements the channel of capacity 1: the detector gets
\* the newest frame, in order, each at most once, and the destructor closes it.
THEOREM Implements == Spec => ImplementsLossyChannel
<1>1. Init => Slot!Init
  BY DEF Init, Slot!Init
<1>2. QED
  BY <1>1, StepSlot, Invariance, PTL DEF Spec, ImplementsLossyChannel, Slot!Spec
=============================================================================
