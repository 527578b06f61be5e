------------------------- MODULE VisionPilotService -------------------------
(***************************************************************************)
(* VisionPilotServiceImpl (application/service): the caller's thread runs  *)
(* onFrameReceived (localise, publish the frame, copy the latest           *)
(* detections, render) while detection_thread_ runs detectionLoop.  They   *)
(* share latest_frame_, latest_results_ and new_frame_available_ under     *)
(* data_mutex_, and the loop sleeps on detection_cv_.  A critical section  *)
(* that neither waits nor calls out is one step that needs the mutex free; *)
(* the section around the wait is split, so data_mutex_ has a holder.      *)
(* A frame is its frame_id, a set of detections the frame it comes from.   *)
(***************************************************************************)
EXTENDS Naturals

CONSTANTS MaxFrames,       \* bound on the frame ids of a behaviour
          AdaptersFirst    \* the owner destroys the out adapters before the service

ASSUME MaxFramesAssumption == MaxFrames \in Nat
ASSUME AdaptersFirstAssumption == AdaptersFirst \in BOOLEAN

VARIABLES is_running_,
          data_mutex_,           \* "free", or held by "detector"
          latest_frame_,         \* 0: no value
          new_frame_available_,
          latest_results_,       \* the frame the stored detections come from
          caller,                \* where onFrameReceived is; "idle" between calls
          frame,                 \* its argument, 0 before the first call
          current_detections,    \* its local copy
          detector,              \* where detectionLoop is
          frame_to_process,      \* the last frame the loop took, 0: none yet
          owner,                 \* "serving", then where the destructor is, "gone"
          adaptersAlive,         \* the object behind object_detection_port_ exists
          rendered               \* history: the arguments of the last render

shared == <<is_running_, data_mutex_, latest_frame_, new_frame_available_, latest_results_>>
callerData == <<frame, current_detections, rendered>>
callerVars == <<caller, callerData>>
detectorVars == <<detector, frame_to_process>>
ownerVars == <<owner, adaptersAlive>>
vars == <<shared, callerVars, detectorVars, ownerVars>>

\* The constructor: the running flag is set and the detection thread started.
Init ==
  /\ is_running_ = TRUE
  /\ data_mutex_ = "free"
  /\ latest_frame_ = 0
  /\ new_frame_available_ = FALSE
  /\ latest_results_ = 0
  /\ caller = "idle" /\ frame = 0 /\ current_detections = 0
  /\ detector = "loop" /\ frame_to_process = 0
  /\ owner = "serving" /\ adaptersAlive = TRUE
  /\ rendered = [frame |-> 0, detections |-> 0]

CallerGoes(from, to) == caller = from /\ caller' = to
DetectorGoes(from, to) == detector = from /\ detector' = to
MutexFree == data_mutex_ = "free" /\ UNCHANGED data_mutex_
Releases == data_mutex_' = "free"
-----------------------------------------------------------------------------
\* onFrameReceived(f).
Call(f) ==
  /\ CallerGoes("idle", "update")
  /\ frame' = f
  /\ UNCHANGED <<shared, current_detections, rendered, detectorVars, ownerVars>>

\* localization_port_.update returns a pose ...
Update ==
  /\ CallerGoes("update", "publish")
  /\ UNCHANGED <<shared, callerData, detectorVars, ownerVars>>

\* ... or it, or render, throws: the call ends where it is.
CallThrows ==
  /\ CallerGoes("update", "idle") \/ CallerGoes("render", "idle")
  /\ UNCHANGED <<shared, callerData, detectorVars, ownerVars>>

\* latest_frame_ = frame; new_frame_available_ = true.
PublishFrame ==
  /\ CallerGoes("publish", "notify")
  /\ latest_frame_' = frame
  /\ new_frame_available_' = TRUE
  /\ UNCHANGED <<is_running_, callerData, detectorVars, ownerVars>>

\* Mutants of Publish: without the mutex; the stored detections are dropped.
PublishUnlocked == PublishFrame /\ UNCHANGED <<data_mutex_, latest_results_>>
PublishClearsResults == PublishFrame /\ MutexFree /\ latest_results_' = 0

\* The frame overwrites the previous one, taken or not.
Publish == PublishFrame /\ MutexFree /\ UNCHANGED latest_results_

\* A notification releases the detector only if it is inside the wait.
Notified == detector' = IF detector = "waiting" THEN "woken" ELSE detector

\* Mutant of NotifyOne: the notification is forgotten.
NotifyForgotten ==
  /\ CallerGoes("notify", "copy")
  /\ UNCHANGED <<shared, callerData, detectorVars, ownerVars>>

NotifyOne ==
  /\ CallerGoes("notify", "copy")
  /\ Notified
  /\ UNCHANGED <<shared, callerData, frame_to_process, ownerVars>>

CopyResults ==
  /\ CallerGoes("copy", "render")
  /\ MutexFree
  /\ current_detections' = latest_results_
  /\ UNCHANGED <<is_running_, latest_frame_, new_frame_available_, latest_results_,
                 frame, rendered, detectorVars, ownerVars>>

Render ==
  /\ CallerGoes("render", "idle")
  /\ rendered' = [frame |-> frame, detections |-> current_detections]
  /\ UNCHANGED <<shared, frame, current_detections, detectorVars, ownerVars>>

Caller == Update \/ CallThrows \/ Publish \/ NotifyOne \/ CopyResults \/ Render
-----------------------------------------------------------------------------
\* Steps of the detection thread leave these alone, and most of them
\* the data as well.
others == <<is_running_, latest_frame_, callerVars, ownerVars>>
data == <<new_frame_available_, latest_results_, frame_to_process>>

\* while (is_running_), read without the mutex.
TestRunning ==
  /\ DetectorGoes("loop", IF is_running_ THEN "lock" ELSE "returned")
  /\ UNCHANGED <<others, data, data_mutex_>>

\* The mutex is taken, for the first time or to come out of the wait.
Acquire ==
  /\ DetectorGoes("lock", "test") \/ DetectorGoes("woken", "test")
  /\ data_mutex_ = "free" /\ data_mutex_' = "detector"
  /\ UNCHANGED <<others, data>>

\* The wait's predicate is false ...
PredicateFails ==
  /\ DetectorGoes("test", "block")
  /\ is_running_ /\ ~new_frame_available_
  /\ UNCHANGED <<others, data, data_mutex_>>

\* Mutant of Block: the thread sleeps with the mutex.
BlockKeepsMutex == DetectorGoes("block", "waiting") /\ UNCHANGED <<others, data, data_mutex_>>

\* ... and the thread releases the mutex and falls asleep in one step.
Block == DetectorGoes("block", "waiting") /\ Releases /\ UNCHANGED <<others, data>>

SpuriousWakeup ==
  /\ DetectorGoes("waiting", "woken")
  /\ UNCHANGED <<others, data, data_mutex_>>

\* The predicate holds because the service is being destroyed: leave the loop.
SeeStop ==
  /\ DetectorGoes("test", "returned")
  /\ ~is_running_
  /\ Releases
  /\ UNCHANGED <<others, data>>

\* The predicate holds because of a frame.  The value is there: only publishing
\* raises the flag of a running service.
TakeLatest ==
  /\ DetectorGoes("test", "detect")
  /\ is_running_ /\ new_frame_available_ /\ latest_frame_ # 0
  /\ frame_to_process' = latest_frame_
  /\ Releases
  /\ UNCHANGED <<others, latest_results_>>

\* Mutant of TakeFrame: the flag is not lowered.
TakeFrameKeepsFlag == TakeLatest /\ UNCHANGED new_frame_available_

\* The frame is copied and the flag lowered.
TakeFrame == TakeLatest /\ new_frame_available_' = FALSE

\* detectObject, outside the mutex, returns the detections of the frame ...
Detect == DetectorGoes("detect", "store") /\ UNCHANGED <<others, data, data_mutex_>>

\* ... or throws in a thread that catches nothing: std::terminate.
DetectThrows ==
  /\ DetectorGoes("detect", "terminated")
  /\ UNCHANGED <<others, data, data_mutex_>>

StoreDetections ==
  /\ DetectorGoes("store", "loop")
  /\ MutexFree
  /\ latest_results_' = frame_to_process
  /\ UNCHANGED <<others, frame_to_process>>

\* Mutant of StoreResults: the flag is lowered when the frame has been processed.
StoreLowersFlag == StoreDetections /\ new_frame_available_' = FALSE

StoreResults == StoreDetections /\ UNCHANGED new_frame_available_

Detector == TestRunning \/ Acquire \/ PredicateFails \/ Block
              \/ SeeStop \/ TakeFrame \/ Detect \/ DetectThrows \/ StoreResults
-----------------------------------------------------------------------------
SetStopFlags ==
  /\ owner = "serving" /\ owner' = "notify"
  /\ is_running_' = FALSE
  /\ new_frame_available_' = TRUE
  /\ UNCHANGED <<latest_frame_, latest_results_, callerVars, detectorVars, adaptersAlive>>

\* Mutant of DestroySetsFlags: no lock around the flags.
DestroyUnlocked == SetStopFlags /\ UNCHANGED data_mutex_

\* ~VisionPilotServiceImpl: the flags ...
DestroySetsFlags == SetStopFlags /\ MutexFree

\* ... then notify_all ...
DestroyNotifies ==
  /\ owner = "notify" /\ owner' = "join"
  /\ Notified
  /\ UNCHANGED <<shared, callerVars, frame_to_process, adaptersAlive>>

DestructorEnds ==
  /\ owner = "join" /\ owner' = "gone"
  /\ UNCHANGED <<shared, callerVars, detectorVars, adaptersAlive>>

\* Mutant of DestroyJoins: the thread is not joined.
DestroyDetaches == DestructorEnds

\* ... and the join of the detection thread.
DestroyJoins == DestructorEnds /\ detector = "returned"

\* The owner destroys the adapters the service refers to.
DestroyAdapters ==
  /\ adaptersAlive /\ adaptersAlive' = FALSE
  /\ IF AdaptersFirst THEN owner = "serving" /\ caller = "idle" ELSE owner = "gone"
  /\ UNCHANGED <<shared, callerVars, detectorVars, owner>>

\* The process is gone after std::terminate, the service after its destructor.
Alive == detector # "terminated"
Finished == ~Alive \/ (owner = "gone" /\ ~adaptersAlive)

\* The client: frames come in capture order, some of them missing, and the
\* service is destroyed when no call is in progress.
ClientCalls == \E f \in frame + 1..MaxFrames : owner = "serving" /\ adaptersAlive /\ Call(f)
ClientDestroys == caller = "idle" /\ (AdaptersFirst => ~adaptersAlive) /\ DestroySetsFlags

Next ==
  \/ /\ Alive
     /\ \/ ClientCalls \/ Caller
        \/ Detector \/ SpuriousWakeup
        \/ ClientDestroys \/ DestroyNotifies \/ DestroyJoins \/ DestroyAdapters
  \/ Finished /\ UNCHANGED vars

\* The threads are scheduled, the ports return or throw, and a caller that keeps
\* finding data_mutex_ free gets it.  No fairness on calls, on the decision to
\* destroy, or on spurious wakeups.
Fairness ==
  /\ WF_vars(Alive /\ Caller) /\ SF_vars(Alive /\ (Publish \/ CopyResults))
  /\ WF_vars(Alive /\ Detector)
  /\ WF_vars(Alive /\ (DestroyNotifies \/ DestroyJoins))

Spec == Init /\ [][Next]_vars /\ Fairness
-----------------------------------------------------------------------------
\* Type invariant of the service's state.
TypeOK ==
  /\ is_running_ \in BOOLEAN
  /\ data_mutex_ \in {"free", "detector"}
  /\ latest_frame_ \in Nat
  /\ new_frame_available_ \in BOOLEAN
  /\ latest_results_ \in Nat
  /\ caller \in {"idle", "update", "publish", "notify", "copy", "render"}
  /\ frame \in Nat
  /\ current_detections \in Nat
  /\ detector \in {"loop", "lock", "test", "block", "waiting", "woken", "detect",
                   "store", "returned", "terminated"}
  /\ frame_to_process \in Nat
  /\ owner \in {"serving", "notify", "join", "gone"}
  /\ adaptersAlive \in BOOLEAN
  /\ rendered \in [frame : Nat, detections : Nat]

\* The detector never sleeps on work: if it is inside the wait (or has decided
\* to enter it) while a frame or the end of the service awaits it, a
\* notification is still to come.  It rests on both writers changing the flags
\* under data_mutex_ and notifying afterwards.
NoMissedWakeup ==
  /\ detector = "waiting" /\ (new_frame_available_ \/ ~is_running_)
        => caller = "notify" \/ owner = "notify"
  /\ detector = "block" => ~new_frame_available_ /\ is_running_

\* The flag of a running service is raised exactly while the latest frame has
\* not been taken: no frame is detected twice, none is forgotten, and a raised
\* flag always has a frame behind it (so line 83 is never reached).
FlagMeansUntakenFrame ==
  is_running_ => (new_frame_available_ <=> frame_to_process < latest_frame_)

\* What is drawn moves forward only: every rendered frame is newer than the one
\* before, its detections are never older than those already shown, and never
\* of a frame that is newer than the picture they are drawn on.
RenderOrder ==
  [][rendered' # rendered =>
       /\ rendered.frame < rendered'.frame
       /\ rendered.detections <= rendered'.detections
       /\ rendered'.detections <= rendered'.frame]_vars

\* A published frame is detected, or a newer one is, as long as the service is
\* neither destroyed nor killed by a detector that throws.
EveryFrameDetected ==
  \A f \in 1..MaxFrames :
     (latest_frame_ = f) ~> (f <= frame_to_process \/ ~is_running_ \/ ~Alive)

\* A call always ends: the caller is never starved of data_mutex_.
CallReturns == caller = "update" ~> (caller = "idle" \/ ~Alive)

\* The destructor returns: its join waits for a thread that will wake and leave.
DestructorReturns == owner = "notify" ~> (owner = "gone" \/ ~Alive)

\* The detection thread calls the detector only while that object exists.
NoCallIntoDestroyedAdapter == detector = "detect" => adaptersAlive

\* The latest_frame_ slot implements the channel of capacity 1 from the caller
\* to the detector; destroying the service closes it.
Slot == INSTANCE LossyChannel
          WITH Capacity <- 1, sent <- latest_frame_, got <- frame_to_process,
               pending <- IF is_running_ /\ new_frame_available_ THEN {latest_frame_} ELSE {},
               open <- is_running_
ImplementsLossyChannel == Slot!Spec
=============================================================================
