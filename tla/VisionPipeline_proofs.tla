----------------------- MODULE VisionPipeline_proofs -----------------------
(***************************************************************************)
(* The frame path for every size of the queue, every number of frames and  *)
(* every kind of source.  The proof is by components: each step of the     *)
(* path is a step of the loader, of the router and of the service as their *)
(* own modules allow it (or leaves them alone), so that what is proved of  *)
(* each by itself holds here; what remains to be found is the invariant of *)
(* the calls that go from one to the other.                                *)
(***************************************************************************)
EXTENDS VisionPipeline, CommonLemmas

\* The components' proofs, about the variables they have here.
W == INSTANCE LoaderAndRouter_proofs
       WITH lQueue <- queue_, rQueue <- queue_,
            type <- [n \in 1..frame_id_ |-> "IMAGE"],
            EventTypes <- {"IMAGE"}, MaxEvents <- MaxFrames
SP == INSTANCE VisionPilotService_proofs
        WITH AdaptersFirst <- FALSE, caller <- sCaller, owner <- sOwner

\* What these two modules assume of their constants.
LEMMA InstancesApply ==
  /\ QueueSize \in Nat \ {0}
  /\ MaxFrames \in Nat
  /\ FrameSetSizes \subseteq Nat
  /\ FALSE \in BOOLEAN
BY QueueSizeAssumption, MaxFramesAssumption, FrameSetSizesAssumption

\* The owner knows what runs: it starts the loader only when that has no worker,
\* and destroys the service only after it has stopped the router.
OwnerKnows ==
  /\ alive
  /\ lRunning => loaderOn
  /\ rRunning => routerOn
  /\ sOwner # "serving" => ~routerOn /\ rCaller = "idle"

\* The service is inside onFrameReceived exactly while the router's thread is in
\* the handler, and the frame it has is the event the router took last.
OneCall ==
  /\ rWorker = "handling" <=> sCaller # "idle"
  /\ frame <= evt
  /\ rWorker = "dispatch" => frame < evt

IInv ==
  /\ W!LoaderInv /\ W!RouterInv /\ SP!IInv
  /\ OwnerKnows /\ OneCall
-----------------------------------------------------------------------------
\* The components' modules are the same in both instances.
LEMMA SameLoader == (W!L!Init <=> L!Init) /\ ([W!L!Next]_(W!L!vars) <=> [L!Next]_(L!vars))
BY DEF L!Init, W!L!Init, L!SourceTypes, W!L!SourceTypes, L!Start, W!L!Start,
       L!StartWorker, W!L!StartWorker, L!StartAgain, W!L!StartAgain, L!Stop, W!L!Stop,
       L!ClearFlag, W!L!ClearFlag, L!StopReturns, W!L!StopReturns, L!BeginStream,
       W!L!BeginStream, L!BeginFrameSet, W!L!BeginFrameSet, L!Loop, W!L!Loop,
       L!Capture, W!L!Capture, L!ReadFails, W!L!ReadFails, L!Take, W!L!Take,
       L!WorkerGoes, W!L!WorkerGoes, L!KeepFrames, W!L!KeepFrames, L!MoreToRead,
       W!L!MoreToRead, L!Streams, W!L!Streams, L!PushTo, W!L!PushTo, L!Owner,
       W!L!Owner, L!Worker, W!L!Worker, L!Terminated, W!L!Terminated, L!Next,
       W!L!Next, L!vars, W!L!vars

LEMMA SameRouter == (W!R!Init <=> R!Init) /\ ([W!R!Next]_(W!R!vars) <=> [R!Next]_(R!vars))
BY DEF R!Init, W!R!Init, R!Start, W!R!Start, R!Stop, W!R!Stop, R!ClearFlag,
       W!R!ClearFlag, R!StopReturns, W!R!StopReturns, R!Loop, W!R!Loop, R!Poll,
       W!R!Poll, R!CopyFront, W!R!CopyFront, R!Pop, W!R!Pop, R!DispatchImage,
       W!R!DispatchImage, R!DispatchOther, W!R!DispatchOther, R!HandlerReturns,
       W!R!HandlerReturns, R!HandlerThrows, W!R!HandlerThrows, R!Arrive, W!R!Arrive,
       R!WorkerGoes, W!R!WorkerGoes, R!KeepEvents, W!R!KeepEvents, R!PushTo,
       W!R!PushTo, R!Owner, W!R!Owner, R!Worker, W!R!Worker, R!Next, W!R!Next, R!vars,
       W!R!vars

LEMMA SameService == (SP!Init <=> S!Init) /\ ([SP!Next]_(SP!vars) <=> [S!Next]_(S!vars))
BY DEF S!Init, SP!Init, S!shared, SP!shared, S!callerData, SP!callerData,
       S!callerVars, SP!callerVars, S!detectorVars, SP!detectorVars, S!ownerVars,
       SP!ownerVars, S!others, SP!others, S!data, SP!data, S!CallerGoes,
       SP!CallerGoes, S!DetectorGoes, SP!DetectorGoes, S!MutexFree, SP!MutexFree,
       S!Releases, SP!Releases, S!Call, SP!Call, S!Update, SP!Update, S!CallThrows,
       SP!CallThrows, S!PublishFrame, SP!PublishFrame, S!Publish, SP!Publish,
       S!Notified, SP!Notified, S!NotifyOne, SP!NotifyOne, S!CopyResults,
       SP!CopyResults, S!Render, SP!Render, S!Caller, SP!Caller, S!TestRunning,
       SP!TestRunning, S!Acquire, SP!Acquire, S!PredicateFails, SP!PredicateFails,
       S!Block, SP!Block, S!SpuriousWakeup, SP!SpuriousWakeup, S!SeeStop, SP!SeeStop,
       S!TakeLatest, SP!TakeLatest, S!TakeFrame, SP!TakeFrame, S!Detect, SP!Detect,
       S!DetectThrows, SP!DetectThrows, S!StoreDetections, SP!StoreDetections,
       S!StoreResults, SP!StoreResults, S!Detector, SP!Detector, S!SetStopFlags,
       SP!SetStopFlags, S!DestroySetsFlags, SP!DestroySetsFlags, S!DestroyNotifies,
       SP!DestroyNotifies, S!DestructorEnds, SP!DestructorEnds, S!DestroyJoins,
       SP!DestroyJoins, S!DestroyAdapters, SP!DestroyAdapters, S!Alive, SP!Alive,
       S!Finished, SP!Finished, S!ClientCalls, SP!ClientCalls, S!ClientDestroys,
       SP!ClientDestroys, S!Next, SP!Next, S!vars, SP!vars
-----------------------------------------------------------------------------
\* The steps of the path, as the proofs below split them.
LEMMA Actions ==
  ASSUME [Next]_vars
  PROVE  \/ /\ alive /\ S!Alive
            /\ \/ LoaderWorks \/ RouterPolls \/ RouterCallsService \/ ServiceHandlesFrame
               \/ ServiceReturns \/ DetectorWorks \/ SpuriousWakeup
               \/ StartLoader \/ StopLoader \/ StartRouter \/ StopRouter \/ StopReturns
               \/ DestroyService \/ DestructorRuns
         \/ UNCHANGED vars
BY DEF Next, Alive, Terminated

\* Every step is one of the loader's or of its reader's, the router's pop.
LEMMA LoaderSteps == [Next]_vars => [L!Next]_(L!vars)
<1>1. SUFFICES ASSUME [Next]_vars PROVE L!Next \/ UNCHANGED L!vars
  OBVIOUS
<1>2. CASE alive /\ LoaderWorks
  BY <1>2 DEF LoaderWorks, L!Next
<1>3. CASE alive /\ RouterPolls
  <2>1. CASE R!Pop
    BY <1>3, <2>1 DEF RouterPolls, loaderVars, R!Pop, R!CopyFront, L!Take, L!Next
  <2>2. CASE R!Loop \/ R!Poll
    BY <1>3, <2>2 DEF RouterPolls, loaderVars, R!Loop, R!Poll, R!KeepEvents, L!vars
  <2>3. QED
    BY <1>3, <2>1, <2>2 DEF RouterPolls
<1>4. CASE RouterCallsService \/ ServiceHandlesFrame \/ ServiceReturns \/ DetectorWorks \/ SpuriousWakeup
  BY <1>4 DEF RouterCallsService, ServiceHandlesFrame, ServiceReturns, DetectorWorks,
     SpuriousWakeup, R!DispatchImage, R!HandlerReturns, R!HandlerThrows, R!KeepEvents,
     loaderVars, L!vars
<1>5. CASE alive /\ (StartLoader \/ StopLoader)
  BY <1>5 DEF StartLoader, StopLoader, L!Owner, L!Next
<1>6. CASE StartRouter \/ StopRouter
  BY <1>6 DEF StartRouter, StopRouter, R!Start, R!Stop, R!ClearFlag, loaderVars, L!vars
<1>7. CASE alive /\ StopReturns
  BY <1>7 DEF StopReturns, R!StopReturns, loaderVars, L!Owner, L!Next, L!vars
<1>8. CASE DestroyService \/ DestructorRuns \/ UNCHANGED vars
  BY <1>8 DEF DestroyService, DestructorRuns, vars, loaderVars, L!vars
<1>9. QED
  BY <1>1, <1>2, <1>3, <1>4, <1>5, <1>6, <1>7, <1>8, Actions

\* One event type: the events pushed are the frames captured.
LEMMA Images ==
  ASSUME NEW n \in Nat
  PROVE  /\ Len([i \in 1..n |-> "IMAGE"]) = n
         /\ [i \in 1..(n + 1) |-> "IMAGE"] = Append([i \in 1..n |-> "IMAGE"], "IMAGE")
OBVIOUS

\* Every step is one of the router's or of its producer's, the loader's push.
LEMMA RouterSteps == frame_id_ \in Nat /\ [Next]_vars => [R!Next]_(R!vars)
<1>1. SUFFICES ASSUME frame_id_ \in Nat, [Next]_vars PROVE R!Next \/ UNCHANGED R!vars
  OBVIOUS
<1>2. CASE LoaderWorks
  <2>1. CASE L!Capture
    <3>1. /\ frame_id_ < MaxFrames /\ frame_id_' = frame_id_ + 1
          /\ queue_' = R!PushTo(queue_, frame_id_ + 1, QueueSize)
      BY <2>1 DEF L!Capture, L!PushTo, R!PushTo
    <3>2. R!Arrive("IMAGE")
      BY <1>1, <1>2, <3>1, Images DEF LoaderWorks, routerVars, R!Arrive
    <3>3. QED
      BY <3>2 DEF R!Next
  <2>2. CASE L!BeginStream \/ L!BeginFrameSet \/ L!Loop \/ L!ReadFails
    BY <1>2, <2>2 DEF LoaderWorks, L!BeginStream, L!BeginFrameSet, L!Loop, L!ReadFails,
       L!KeepFrames, routerVars, R!vars
  <2>3. QED
    BY <1>2, <2>1, <2>2 DEF LoaderWorks, L!Worker
<1>3. CASE RouterPolls \/ RouterCallsService
  BY <1>3 DEF RouterPolls, RouterCallsService, R!Worker, R!Next
<1>4. CASE ServiceReturns
  BY <1>4 DEF ServiceReturns, R!Worker, R!Next
<1>5. CASE ServiceHandlesFrame \/ DetectorWorks \/ SpuriousWakeup
  BY <1>5 DEF ServiceHandlesFrame, DetectorWorks, SpuriousWakeup, routerVars, loaderVars, R!vars
<1>6. CASE StartLoader \/ StopLoader
  BY <1>6 DEF StartLoader, StopLoader, L!Start, L!StartWorker, L!StartAgain, L!Stop, L!ClearFlag,
     routerVars, R!vars
<1>7. CASE StartRouter \/ StopRouter
  BY <1>7 DEF StartRouter, StopRouter, R!Owner, R!Next
<1>8. CASE StopReturns
  BY <1>8 DEF StopReturns, L!StopReturns, routerVars, R!Owner, R!Next, R!vars
<1>9. CASE DestroyService \/ DestructorRuns \/ UNCHANGED vars
  BY <1>9 DEF DestroyService, DestructorRuns, vars, routerVars, loaderVars, R!vars
<1>10. QED
  BY <1>1, <1>2, <1>3, <1>4, <1>5, <1>6, <1>7, <1>8, <1>9, Actions

\* What the components' invariants say here, in the terms used below.
LEMMA Facts ==
  ASSUME IInv
  PROVE  /\ frame_id_ \in Nat /\ frame_id_ <= MaxFrames /\ evt \in Nat /\ frame \in Nat
         /\ IsNewest(queue_, frame_id_) /\ Len(queue_) <= QueueSize /\ evt <= frame_id_
         /\ lCaller = "idle" /\ ~lRunning => lWorker = "none"
         /\ rCaller = "idle" /\ ~rRunning => rWorker = "none"
         /\ sOwner = "serving" => adaptersAlive
         /\ frame_to_process \in Nat /\ latest_frame_ \in Nat
         /\ frame_to_process <= latest_frame_ /\ latest_frame_ <= frame
         /\ adaptersAlive \in BOOLEAN
<1>1. /\ W!LoaderInv /\ W!RouterInv /\ SP!IInv /\ alive
  BY DEF IInv, OwnerKnows
<1>2. frame_id_ \in Nat /\ queue_ \in Seq(Nat)
  BY <1>1 DEF W!LoaderInv, W!L!TypeOK
<1>3. Len([n \in 1..frame_id_ |-> "IMAGE"]) = frame_id_
  BY <1>2, Images
<1>4. frame_id_ <= MaxFrames /\ IsNewest(queue_, frame_id_) /\ Len(queue_) <= QueueSize
  BY <1>1 DEF W!LoaderInv, W!LoaderQueue, W!IsNewest, IsNewest
<1>5. evt \in Nat /\ evt <= frame_id_
  BY <1>1, <1>2, <1>3 DEF W!RouterInv, W!R!TypeOK
<1>6. /\ lCaller = "idle" /\ ~lRunning => lWorker = "none"
      /\ rCaller = "idle" /\ ~rRunning => rWorker = "none"
  BY <1>1 DEF W!LoaderInv, W!L!QuietAfterStop, W!RouterInv, W!R!QuietAfterStop
<1>7. /\ frame \in Nat /\ frame_to_process \in Nat /\ latest_frame_ \in Nat
      /\ adaptersAlive \in BOOLEAN
      /\ frame_to_process <= latest_frame_ /\ latest_frame_ <= frame
      /\ sOwner = "serving" => adaptersAlive
  BY <1>1 DEF SP!IInv, SP!TypeOK, SP!Numbers, SP!Lifetimes
<1>8. QED
  BY <1>2, <1>4, <1>5, <1>6, <1>7

\* stop() of the router has joined the thread that calls the service.
LEMMA StoppedMeansNoCall ==
  ASSUME IInv, ~routerOn, rCaller = "idle"
  PROVE  sCaller = "idle" /\ rWorker = "none"
<1>1. rWorker = "none"
  BY Facts DEF IInv, OwnerKnows
<1>2. QED
  BY <1>1 DEF IInv, OneCall

\* Every step is one the service allows: it is called with frames in order and
\* only while it exists, and destroyed only when no call is in progress.
LEMMA ServiceSteps == IInv /\ [Next]_vars => [S!Next]_(S!vars)
<1>1. SUFFICES ASSUME IInv, [Next]_vars PROVE S!Next \/ UNCHANGED S!vars
  OBVIOUS
<1>2. CASE RouterCallsService /\ S!Alive
  <2>1. rWorker = "dispatch" /\ S!Call(evt)
    BY <1>2 DEF RouterCallsService, R!DispatchImage, R!WorkerGoes
  <2>2. evt \in frame + 1..MaxFrames
    BY <1>1, <2>1, Facts, MaxFramesAssumption DEF IInv, OneCall
  <2>3. sOwner = "serving"
    BY <1>1, <2>1, Facts DEF IInv, OwnerKnows
  <2>4. S!ClientCalls
    BY <1>1, <2>1, <2>2, <2>3, Facts DEF S!ClientCalls
  <2>5. QED
    BY <1>2, <2>4 DEF S!Next
<1>3. CASE (ServiceHandlesFrame \/ ServiceReturns \/ DetectorWorks \/ SpuriousWakeup) /\ S!Alive
  BY <1>3 DEF ServiceHandlesFrame, ServiceReturns, DetectorWorks, SpuriousWakeup, S!Caller, S!Next
<1>4. CASE DestroyService /\ S!Alive
  <2>1. sCaller = "idle"
    BY <1>1, <1>4, StoppedMeansNoCall DEF DestroyService, OwnerFree
  <2>2. S!ClientDestroys \/ S!DestroyAdapters
    BY <1>4, <2>1 DEF DestroyService, S!ClientDestroys
  <2>3. QED
    BY <1>4, <2>2 DEF S!Next
<1>5. CASE DestructorRuns /\ S!Alive
  BY <1>5 DEF DestructorRuns, S!Next
<1>6. CASE LoaderWorks \/ RouterPolls \/ StartLoader \/ StopLoader \/ StartRouter \/ StopRouter
             \/ StopReturns \/ UNCHANGED vars
  BY <1>6 DEF LoaderWorks, RouterPolls, StartLoader, StopLoader, StartRouter, StopRouter,
     StopReturns, vars, serviceVars, S!vars, S!shared, S!callerVars, S!callerData,
     S!detectorVars, S!ownerVars
<1>7. QED
  BY <1>1, <1>2, <1>3, <1>4, <1>5, <1>6, Actions
-----------------------------------------------------------------------------
LEMMA InitIInv == Init => IInv
<1>1. SUFFICES ASSUME Init PROVE IInv
  OBVIOUS
<1>2. /\ L!Init /\ R!Init /\ S!Init
      /\ loaderOn = FALSE /\ routerOn = FALSE
  BY <1>1 DEF Init
<1>3. W!LoaderInv /\ W!RouterInv /\ SP!IInv
  BY <1>2, SameLoader, SameRouter, SameService, InstancesApply,
     W!LoaderInit, W!RouterInit, SP!InitIInv
<1>4. OwnerKnows /\ OneCall
  BY <1>2 DEF L!Init, R!Init, S!Init, OwnerKnows, OneCall
<1>5. QED
  BY <1>3, <1>4 DEF IInv

\* A start finds no worker: the loader was not started since its last stop, and
\* that stop has joined the worker.
LEMMA StepOwner == IInv /\ [Next]_vars => OwnerKnows'
<1>1. SUFFICES ASSUME IInv, [Next]_vars PROVE OwnerKnows'
  OBVIOUS
<1> USE DEF OwnerKnows
<1>2. OwnerKnows
  BY <1>1 DEF IInv
<1>3. CASE StartLoader
  <2>1. lWorker = "none"
    BY <1>1, <1>2, <1>3, Facts DEF StartLoader, OwnerFree
  <2>2. L!Start
    BY <1>3, <2>1 DEF StartLoader, L!StartAgain
  <2>3. QED
    BY <1>2, <1>3, <2>2 DEF StartLoader, L!Start, L!StartWorker, routerVars, serviceVars
<1>4. CASE StopLoader
  BY <1>2, <1>4 DEF StopLoader, L!Stop, L!ClearFlag, routerVars, serviceVars
<1>5. CASE StartRouter
  BY <1>2, <1>5 DEF StartRouter, R!Start, loaderVars, serviceVars
<1>6. CASE StopRouter
  <2>1. rRunning' = FALSE /\ routerOn' = FALSE /\ rCaller = "idle"
    BY <1>6 DEF StopRouter, R!Stop, R!ClearFlag
  <2>2. sOwner # "serving" => rCaller' = "idle"
    <3>1. sOwner # "serving" => rWorker = "none"
      BY <1>1, <1>2, StoppedMeansNoCall
    <3>2. QED
      BY <1>6, <3>1 DEF StopRouter, R!Stop
  <2>3. QED
    BY <1>2, <1>6, <2>1, <2>2 DEF StopRouter, loaderVars, serviceVars
<1>7. CASE StopReturns
  <2>1. UNCHANGED <<alive, lRunning, rRunning, loaderOn, routerOn, sOwner>>
    BY <1>7 DEF StopReturns, L!StopReturns, R!StopReturns, loaderVars, routerVars,
       serviceVars, ownerVars
  <2>2. rCaller' = rCaller \/ rCaller' = "idle"
    BY <1>7 DEF StopReturns, R!StopReturns, routerVars
  <2>3. QED
    BY <1>2, <2>1, <2>2
<1>8. ASSUME UNCHANGED <<alive, lRunning, rRunning, rCaller, sOwner, loaderOn, routerOn>>
      PROVE  OwnerKnows'
  BY <1>2, <1>8
<1>9. CASE LoaderWorks
  <2>1. UNCHANGED <<alive, lRunning>>
    BY <1>9 DEF LoaderWorks, L!Worker, L!BeginStream, L!BeginFrameSet, L!Loop, L!Capture,
       L!ReadFails, L!WorkerGoes
  <2>2. UNCHANGED <<rRunning, rCaller, sOwner, loaderOn, routerOn>>
    BY <1>9 DEF LoaderWorks, routerVars, serviceVars, ownerVars
  <2>3. QED
    BY <1>8, <2>1, <2>2
<1>10. CASE RouterPolls
  <2>1. UNCHANGED <<rRunning, rCaller>>
    BY <1>10 DEF RouterPolls, R!Loop, R!Poll, R!Pop, R!CopyFront, R!WorkerGoes
  <2>2. UNCHANGED <<alive, lRunning, sOwner, loaderOn, routerOn>>
    BY <1>10 DEF RouterPolls, loaderVars, serviceVars, ownerVars
  <2>3. QED
    BY <1>8, <2>1, <2>2
<1>11. CASE RouterCallsService \/ ServiceReturns
  <2>1. UNCHANGED <<rRunning, rCaller>>
    BY <1>11 DEF RouterCallsService, ServiceReturns, R!DispatchImage, R!HandlerReturns,
       R!HandlerThrows, R!WorkerGoes
  <2>2. UNCHANGED <<alive, lRunning, loaderOn, routerOn>>
    BY <1>11 DEF RouterCallsService, ServiceReturns, loaderVars, ownerVars
  <2>3. UNCHANGED sOwner
    BY <1>11 DEF RouterCallsService, ServiceReturns, S!Call, S!Render, S!CallThrows, S!ownerVars
  <2>4. QED
    BY <1>8, <2>1, <2>2, <2>3
<1>12. CASE ServiceHandlesFrame \/ DetectorWorks \/ SpuriousWakeup
  <2>1. UNCHANGED <<alive, lRunning, rRunning, rCaller, loaderOn, routerOn>>
    BY <1>12 DEF ServiceHandlesFrame, DetectorWorks, SpuriousWakeup, loaderVars, routerVars,
       ownerVars
  <2>2. UNCHANGED sOwner
    BY <1>12 DEF ServiceHandlesFrame, DetectorWorks, SpuriousWakeup, S!Update, S!Publish,
       S!PublishFrame, S!NotifyOne, S!CopyResults, S!Detector, S!TestRunning, S!Acquire,
       S!PredicateFails, S!Block, S!SeeStop, S!TakeFrame, S!TakeLatest, S!Detect,
       S!DetectThrows, S!StoreResults, S!StoreDetections, S!SpuriousWakeup, S!ownerVars, S!others
  <2>3. QED
    BY <1>8, <2>1, <2>2
<1>13. CASE DestroyService \/ DestructorRuns
  <2>1. UNCHANGED <<alive, lRunning, rRunning, rCaller, loaderOn, routerOn>>
    BY <1>13 DEF DestroyService, DestructorRuns, loaderVars, routerVars, ownerVars
  <2>2. ~routerOn /\ rCaller = "idle"
    BY <1>2, <1>13 DEF DestroyService, DestructorRuns, OwnerFree, S!DestroyNotifies,
       S!DestroyJoins, S!DestructorEnds
  <2>3. QED
    BY <1>2, <2>1, <2>2
<1>14. CASE UNCHANGED vars
  BY <1>8, <1>14 DEF vars, loaderVars, routerVars, serviceVars, ownerVars
<1>15. QED
  BY <1>1, <1>3, <1>4, <1>5, <1>6, <1>7, <1>9, <1>10, <1>11, <1>12, <1>13, <1>14, Actions

\* Only the router's thread calls the service, and a call ends where it returns
\* to that thread.
LEMMA StepCall == IInv /\ [Next]_vars => OneCall'
<1>1. SUFFICES ASSUME IInv, [Next]_vars PROVE OneCall'
  OBVIOUS
<1> USE DEF OneCall
<1>2. OneCall /\ frame \in Nat /\ evt \in Nat
  BY <1>1, Facts DEF IInv
<1>3. CASE RouterPolls
  <2>1. CASE R!Pop
    <3>1. evt < evt' /\ evt' \in Nat
      <4>1. W!RouterInv /\ frame_id_ \in Nat /\ queue_ # <<>> /\ evt' = Head(queue_)
        BY <1>1, <2>1, Facts DEF IInv, R!Pop, R!CopyFront
      <4>2. evt + Len(queue_) <= frame_id_ /\ IsNewest(queue_, frame_id_)
        BY <1>1, <4>1, Facts, Images DEF W!RouterInv, W!RouterQueue
      <4>3. Head(queue_) = frame_id_ - Len(queue_) + 1 /\ Len(queue_) \in Nat
        BY <4>1, <4>2, TailKeepsNewest
      <4>4. QED
        BY <1>2, <4>1, <4>2, <4>3
    <3>2. QED
      BY <1>2, <1>3, <2>1, <3>1 DEF RouterPolls, R!Pop, R!CopyFront, R!WorkerGoes, serviceVars
  <2>2. CASE R!Loop \/ R!Poll
    BY <1>2, <1>3, <2>2 DEF RouterPolls, R!Loop, R!Poll, R!WorkerGoes, R!KeepEvents, serviceVars
  <2>3. QED
    BY <1>3, <2>1, <2>2 DEF RouterPolls
<1>4. CASE RouterCallsService
  BY <1>2, <1>4 DEF RouterCallsService, R!DispatchImage, R!WorkerGoes, R!KeepEvents, S!Call,
     S!CallerGoes
<1>5. CASE ServiceReturns
  BY <1>2, <1>5 DEF ServiceReturns, S!Render, S!CallThrows, S!CallerGoes, S!callerData,
     R!HandlerReturns, R!HandlerThrows, R!WorkerGoes, R!KeepEvents
<1>6. CASE ServiceHandlesFrame
  BY <1>2, <1>6 DEF ServiceHandlesFrame, S!Update, S!Publish, S!PublishFrame, S!NotifyOne,
     S!CopyResults, S!CallerGoes, S!callerData, routerVars
<1>7. CASE DetectorWorks \/ SpuriousWakeup
  BY <1>2, <1>7 DEF DetectorWorks, SpuriousWakeup, S!Detector, S!TestRunning, S!Acquire,
     S!PredicateFails, S!Block, S!SeeStop, S!TakeFrame, S!TakeLatest, S!Detect,
     S!DetectThrows, S!StoreResults, S!StoreDetections, S!SpuriousWakeup, S!callerVars,
     S!callerData, S!others, routerVars
<1>8. CASE LoaderWorks \/ StartLoader \/ StopLoader
  BY <1>2, <1>8 DEF LoaderWorks, StartLoader, StopLoader, routerVars, serviceVars
<1>9. CASE StartRouter \/ StopRouter
  <2>1. StartRouter => rWorker = "none"
    BY <1>1, Facts DEF StartRouter, R!Start
  <2>2. QED
    BY <1>2, <1>9, <2>1 DEF StartRouter, StopRouter, R!Start, R!Stop, R!ClearFlag, serviceVars
<1>10. CASE StopReturns
  BY <1>2, <1>10 DEF StopReturns, R!StopReturns, routerVars, serviceVars
<1>11. CASE DestroyService \/ DestructorRuns
  BY <1>2, <1>11 DEF DestroyService, DestructorRuns, S!DestroySetsFlags, S!SetStopFlags,
     S!DestroyAdapters, S!DestroyNotifies, S!DestroyJoins, S!DestructorEnds, S!callerVars,
     S!callerData, routerVars
<1>12. CASE UNCHANGED vars
  BY <1>2, <1>12 DEF vars, routerVars, serviceVars
<1>13. QED
  BY <1>1, <1>3, <1>4, <1>5, <1>6, <1>7, <1>8, <1>9, <1>10, <1>11, <1>12, Actions

LEMMA StepIInv == IInv /\ [Next]_vars => IInv'
<1>1. SUFFICES ASSUME IInv, [Next]_vars PROVE IInv'
  OBVIOUS
<1>2. [L!Next]_(L!vars) /\ [R!Next]_(R!vars) /\ [S!Next]_(S!vars)
  BY <1>1, LoaderSteps, RouterSteps, ServiceSteps, Facts
<1>3. [W!L!Next]_(W!L!vars) /\ [W!R!Next]_(W!R!vars) /\ [SP!Next]_(SP!vars)
  BY <1>2, SameLoader, SameRouter, SameService
<1>4. W!LoaderInv' /\ W!RouterInv' /\ SP!IInv'
  BY <1>1, <1>3, InstancesApply, W!LoaderStep, W!RouterStep, SP!StepIInv DEF IInv
<1>5. QED
  BY <1>1, <1>4, StepOwner, StepCall DEF IInv
-----------------------------------------------------------------------------
\* For every size of the queue and every kind of source, the calls between the
\* threads are as IInv says.
THEOREM Invariance == Spec => []IInv
BY InitIInv, StepIInv, PTL DEF Spec

\* The assembly uses each component as the component's own module says it is
\* used: what is proved there of the loader, of the router and of the service
\* alone holds of them here.
THEOREM UsesComponentsAsSpecified ==
  Spec => /\ L!Init /\ [][L!Next]_(L!vars)
          /\ R!Init /\ [][R!Next]_(R!vars)
          /\ S!Init /\ [][S!Next]_(S!vars)
<1>1. Init => L!Init /\ R!Init /\ S!Init
  BY DEF Init
<1>2. IInv /\ [Next]_vars => [L!Next]_(L!vars) /\ [R!Next]_(R!vars) /\ [S!Next]_(S!vars)
  BY LoaderSteps, RouterSteps, ServiceSteps, Facts
<1>3. QED
  BY <1>1, <1>2, Invariance, PTL DEF Spec

\* When the owner is free and has stopped the router, no call to the service is
\* in progress and none can begin: it may be destroyed.
THEOREM DestructionIsSafe == Spec => []NoCallIntoDestroyedService
<1>1. IInv => NoCallIntoDestroyedService
  BY StoppedMeansNoCall DEF NoCallIntoDestroyedService, OwnerFree
<1>2. QED
  BY <1>1, Invariance, PTL

\* An owner that stops what it started never assigns to a joinable thread.
THEOREM PairedStartsNeverTerminate == Spec => []PairedStartsAreSafe
<1>1. IInv => PairedStartsAreSafe
  BY DEF IInv, OwnerKnows, PairedStartsAreSafe
<1>2. QED
  BY <1>1, Invariance, PTL

\* The detector takes captured frames in capture order, over all restarts.
THEOREM DetectsInOrder == Spec => DetectsForward
<1>1. ASSUME IInv, [Next]_vars, frame_to_process' # frame_to_process
      PROVE  /\ frame_to_process < frame_to_process'
             /\ frame_to_process' <= evt /\ evt <= frame_id_
  <2>1. S!Next
    BY <1>1, ServiceSteps DEF S!vars, S!detectorVars
  <2>2. S!TakeFrame
    BY <1>1, <2>1 DEF S!Next, S!Caller, S!Detector, S!ClientCalls, S!ClientDestroys,
       S!Call, S!Update, S!CallThrows, S!Publish, S!PublishFrame, S!NotifyOne,
       S!CopyResults, S!Render, S!TestRunning, S!Acquire, S!PredicateFails, S!Block,
       S!SpuriousWakeup, S!SeeStop, S!Detect, S!DetectThrows, S!StoreResults,
       S!StoreDetections, S!DestroySetsFlags, S!SetStopFlags, S!DestroyNotifies,
       S!DestroyJoins, S!DestructorEnds, S!DestroyAdapters, S!vars, S!data,
       S!detectorVars
  <2>3. frame_to_process' = latest_frame_
    BY <2>2 DEF S!TakeFrame, S!TakeLatest
  <2>4. frame <= evt
    BY <1>1 DEF IInv, OneCall
  <2>5. QED
    BY <1>1, <2>3, <2>4, Facts
<1>2. IInv /\ [Next]_vars =>
        [frame_to_process' # frame_to_process =>
           frame_to_process < frame_to_process' /\ frame_to_process' <= evt /\ evt <= frame_id_]_vars
  BY <1>1
<1>3. QED
  BY <1>2, Invariance, PTL DEF Spec, DetectsForward

\* In the assembly too: every stop of the loader and of the router leaves no
\* worker behind, the loader offers all there is, the detector sleeps through no
\* frame, and the flag of the slot is exact.
THEOREM ComponentsStaySafe ==
  Spec => [](W!StopIsSafe /\ W!LoaderOffersAll /\ S!NoMissedWakeup /\ S!FlagMeansUntakenFrame)
<1>1. IInv => W!StopIsSafe
  BY DEF IInv, W!LoaderInv, W!RouterInv, W!StopIsSafe
<1>2. IInv => W!LoaderOffersAll
  BY InstancesApply, W!LoaderInvOffersAll DEF IInv
<1>3. IInv => S!NoMissedWakeup /\ S!FlagMeansUntakenFrame
  BY DEF IInv, SP!IInv, SP!NoMissedWakeup, SP!FlagMeansUntakenFrame, S!NoMissedWakeup,
     S!FlagMeansUntakenFrame
<1>4. QED
  BY <1>1, <1>2, <1>3, Invariance, PTL

\* In the assembly too what is drawn only moves forward, and the slot between the
\* service and its detector is the lossy channel of capacity 1: with Implements
\* below, the two channels a frame passes on its way to the detector.
THEOREM ServiceKeepsItsWord == Spec => S!RenderOrder /\ S!ImplementsLossyChannel
<1>1. IInv /\ [Next]_vars => SP!IInv /\ [SP!Next]_(SP!vars)
  BY ServiceSteps, SameService DEF IInv
<1>2. IInv /\ [Next]_vars =>
        [rendered' # rendered =>
           /\ rendered.frame < rendered'.frame
           /\ rendered.detections <= rendered'.detections
           /\ rendered'.detections <= rendered'.frame]_(S!vars)
  BY <1>1, InstancesApply, SP!StepRenders
<1>3. Init => S!Slot!Init
  BY DEF Init, S!Init, S!Slot!Init
<1>4. IInv /\ [Next]_vars => [SP!Slot!Next]_(SP!Slot!vars)
  BY <1>1, InstancesApply, SP!StepSlot
<1>5. [SP!Slot!Next]_(SP!Slot!vars) => [S!Slot!Next]_(S!Slot!vars)
  BY DEF SP!Slot!Next, S!Slot!Next, SP!Slot!vars, S!Slot!vars, SP!Slot!Send, S!Slot!Send,
     SP!Slot!Deliver, S!Slot!Deliver, SP!Slot!Close, S!Slot!Close,
     SP!Slot!Cardinality, S!Slot!Cardinality
<1>6. QED
  BY <1>2, <1>3, <1>4, <1>5, Invariance, PTL DEF Spec, S!RenderOrder, S!ImplementsLossyChannel,
     S!Slot!Spec
-----------------------------------------------------------------------------
\* The channel from capture to the service counts with the same Cardinality.
LEMMA SameCardinality == \A s : CaptureToHandler!Cardinality(s) = Cardinality(s)
BY DEF CaptureToHandler!Cardinality, Cardinality

\* Capture implements Send: it loses nothing, or the front of a full queue.
LEMMA CaptureSends ==
  ASSUME IInv, LoaderWorks, L!Capture
  PROVE  CaptureToHandler!Send
<1>1. /\ frame_id_' = frame_id_ + 1
      /\ queue_' = PushTo(queue_, frame_id_ + 1, QueueSize)
      /\ UNCHANGED evt
  BY DEF LoaderWorks, L!Capture, L!PushTo, PushTo, routerVars
<1>2. frame_id_ \in Nat /\ IsNewest(queue_, frame_id_) /\ Len(queue_) <= QueueSize
  BY Facts
<1>3. \E lost \in SUBSET Items(queue_) :
         /\ \A i \in lost, j \in Items(queue_) \ lost : i < j
         /\ lost # {} => Cardinality(Items(queue_) \ lost) + 1 = QueueSize
         /\ Items(queue_') = (Items(queue_) \ lost) \cup {frame_id_ + 1}
  BY <1>1, <1>2, QueueSizeAssumption, PushLosesOldest
<1>4. frame_id_' \in Nat /\ frame_id_ < frame_id_'
  BY <1>1, <1>2
<1>5. QED
  BY <1>1, <1>3, <1>4, SameCardinality DEF CaptureToHandler!Send, Items

\* The router's pop implements Deliver.
LEMMA PopDelivers ==
  ASSUME IInv, RouterPolls, R!Pop
  PROVE  CaptureToHandler!Deliver
<1>1. /\ frame_id_' = frame_id_ /\ evt' = Head(queue_)
      /\ queue_ # <<>> /\ queue_' = Tail(queue_)
  BY DEF RouterPolls, R!Pop, R!CopyFront, loaderVars
<1>2. frame_id_ \in Nat /\ IsNewest(queue_, frame_id_)
  BY Facts
<1>3. /\ evt' \in Items(queue_) /\ (\A i \in Items(queue_) : evt' <= i)
      /\ Items(queue_') = Items(queue_) \ {evt'}
  BY <1>1, <1>2, TailTakesOldest
<1>4. QED
  BY <1>1, <1>3 DEF CaptureToHandler!Deliver, Items

\* Nothing else on the path touches the queue, the numbering or the event.
LEMMA OthersKeepChannel ==
  ASSUME [Next]_vars
  PROVE  \/ LoaderWorks /\ L!Capture
         \/ RouterPolls /\ R!Pop
         \/ UNCHANGED <<queue_, frame_id_, evt>>
<1>1. CASE LoaderWorks
  BY <1>1 DEF LoaderWorks, L!Worker, L!BeginStream, L!BeginFrameSet, L!Loop, L!ReadFails,
     L!KeepFrames, routerVars
<1>2. CASE RouterPolls
  BY <1>2 DEF RouterPolls, R!Loop, R!Poll, R!KeepEvents, loaderVars
<1>3. CASE RouterCallsService \/ ServiceReturns
  BY <1>3 DEF RouterCallsService, ServiceReturns, R!DispatchImage, R!HandlerReturns,
     R!HandlerThrows, R!KeepEvents, loaderVars
<1>4. CASE ServiceHandlesFrame \/ DetectorWorks \/ SpuriousWakeup
  BY <1>4 DEF ServiceHandlesFrame, DetectorWorks, SpuriousWakeup, loaderVars, routerVars
<1>5. CASE StartLoader \/ StopLoader
  BY <1>5 DEF StartLoader, StopLoader, L!Start, L!StartWorker, L!StartAgain, L!Stop,
     L!ClearFlag, routerVars
<1>6. CASE StartRouter \/ StopRouter
  BY <1>6 DEF StartRouter, StopRouter, R!Start, R!Stop, R!ClearFlag, loaderVars
<1>7. CASE StopReturns
  BY <1>7 DEF StopReturns, L!StopReturns, R!StopReturns, loaderVars, routerVars
<1>8. CASE DestroyService \/ DestructorRuns \/ UNCHANGED vars
  BY <1>8 DEF DestroyService, DestructorRuns, vars, loaderVars, routerVars
<1>9. QED
  BY <1>1, <1>2, <1>3, <1>4, <1>5, <1>6, <1>7, <1>8, Actions

\* From capture to the service the path implements the lossy channel of the
\* queue's size, whatever is started, stopped and destroyed meanwhile.
THEOREM Implements == Spec => ImplementsLossyChannel
<1>1. Init => CaptureToHandler!Init
  BY EmptySeq DEF Init, L!Init, R!Init, CaptureToHandler!Init
<1>2. IInv /\ [Next]_vars => [CaptureToHandler!Next]_(CaptureToHandler!vars)
  <2>1. SUFFICES ASSUME IInv, [Next]_vars
                 PROVE  CaptureToHandler!Next \/ UNCHANGED CaptureToHandler!vars
    OBVIOUS
  <2>2. CASE UNCHANGED <<queue_, frame_id_, evt>>
    BY <2>2 DEF CaptureToHandler!vars
  <2>3. QED
    BY <2>1, <2>2, OthersKeepChannel, CaptureSends, PopDelivers DEF CaptureToHandler!Next
<1>3. QED
  BY <1>1, <1>2, Invariance, PTL DEF Spec, ImplementsLossyChannel, CaptureToHandler!Spec
=============================================================================
