--------------------------- MODULE VisionPipeline ---------------------------
(***************************************************************************)
(* The frame path put together as the tests under adapter/in/frame_loader  *)
(* and application/service do: a VideoLoader pushes into the EventQueue,   *)
(* an EventRouter pops from it and calls VisionPilotService on its own     *)
(* thread, the service hands the frame to its detection thread.  One owner *)
(* thread starts and stops the loader and the router, in any order and     *)
(* again, and destroys the service once it has stopped the router.  (The   *)
(* assembly that should do this in the program is still a stub.)           *)
(***************************************************************************)
EXTENDS Naturals, Sequences

CONSTANTS QueueSize, MaxFrames, FrameSetSizes, Sources

\* As EventQueue, LoaderAndRouter and VisionPilotService assume.
ASSUME QueueSizeAssumption == QueueSize \in Nat \ {0}
ASSUME MaxFramesAssumption == MaxFrames \in Nat
ASSUME FrameSetSizesAssumption == FrameSetSizes \subseteq Nat

VARIABLES queue_,                                             \* EventQueue
          sourceType, lRunning, lWorker, remaining, frame_id_, lCaller, alive,
          rRunning, rWorker, evt, rCaller,
          is_running_, data_mutex_, latest_frame_, new_frame_available_,
          latest_results_, sCaller, frame, current_detections, detector,
          frame_to_process, sOwner, adaptersAlive, rendered,
          loaderOn, routerOn                                  \* what the owner has started

loaderVars == <<sourceType, lRunning, lWorker, remaining, frame_id_, lCaller, alive>>
routerVars == <<rRunning, rWorker, evt, rCaller>>
serviceVars == <<is_running_, data_mutex_, latest_frame_, new_frame_available_,
                 latest_results_, sCaller, frame, current_detections, detector,
                 frame_to_process, sOwner, adaptersAlive, rendered>>
ownerVars == <<loaderOn, routerOn>>
vars == <<queue_, loaderVars, routerVars, serviceVars, ownerVars>>

L == INSTANCE VideoLoader WITH running_ <- lRunning, worker <- lWorker, caller <- lCaller
R == INSTANCE EventRouter
       WITH EventTypes <- {"IMAGE"}, MaxEvents <- MaxFrames, running_ <- rRunning,
            worker <- rWorker, caller <- rCaller,
            type <- [n \in 1..frame_id_ |-> "IMAGE"]
S == INSTANCE VisionPilotService
       WITH AdaptersFirst <- FALSE, caller <- sCaller, owner <- sOwner

Init ==
  /\ L!Init /\ R!Init /\ S!Init
  /\ sourceType \in Sources
  /\ loaderOn = FALSE /\ routerOn = FALSE
-----------------------------------------------------------------------------
LoaderWorks ==
  /\ UNCHANGED <<routerVars, serviceVars, ownerVars>>
  /\ L!Worker

RouterPolls ==
  /\ UNCHANGED <<loaderVars, serviceVars, ownerVars>>
  /\ R!Loop \/ R!Poll \/ R!Pop

\* image_port_.onFrameReceived(**packet): the router's thread enters the service ...
RouterCallsService ==
  /\ UNCHANGED <<loaderVars, ownerVars>>
  /\ R!DispatchImage
  /\ S!Call(evt)

\* ... runs onFrameReceived ...
ServiceHandlesFrame ==
  /\ UNCHANGED <<queue_, loaderVars, routerVars, ownerVars>>
  /\ S!Update \/ S!Publish \/ S!NotifyOne \/ S!CopyResults

\* ... and comes back, with an exception if a port threw one.
ServiceReturns ==
  /\ UNCHANGED <<loaderVars, ownerVars>>
  /\ \/ S!Render /\ R!HandlerReturns
     \/ S!CallThrows /\ R!HandlerThrows

DetectorWorks ==
  /\ UNCHANGED <<queue_, loaderVars, routerVars, ownerVars>>
  /\ S!Detector

SpuriousWakeup ==
  /\ UNCHANGED <<queue_, loaderVars, routerVars, ownerVars>>
  /\ S!SpuriousWakeup
-----------------------------------------------------------------------------
\* The owner is a single thread: no call while another one has not returned.
OwnerFree == lCaller = "idle" /\ rCaller = "idle" /\ sOwner \in {"serving", "gone"}

\* It starts the loader only when it has not started it since its last stop.
StartLoader ==
  /\ OwnerFree /\ ~loaderOn
  /\ loaderOn' = TRUE
  /\ UNCHANGED <<routerVars, serviceVars, routerOn>>
  /\ L!Start \/ L!StartAgain

StopLoader ==
  /\ OwnerFree
  /\ loaderOn' = FALSE
  /\ UNCHANGED <<routerVars, serviceVars, routerOn>>
  /\ L!Stop

StartRouter ==
  /\ OwnerFree /\ sOwner = "serving"
  /\ routerOn' = TRUE
  /\ UNCHANGED <<loaderVars, serviceVars, loaderOn>>
  /\ R!Start

StopRouter ==
  /\ OwnerFree
  /\ routerOn' = FALSE
  /\ UNCHANGED <<loaderVars, serviceVars, loaderOn>>
  /\ R!Stop

StopReturns ==
  \/ L!StopReturns /\ UNCHANGED <<routerVars, serviceVars, ownerVars>>
  \/ UNCHANGED <<loaderVars, serviceVars, ownerVars>> /\ R!StopReturns

DestroyService ==
  /\ OwnerFree /\ ~routerOn
  /\ UNCHANGED <<queue_, loaderVars, routerVars, ownerVars>>
  /\ S!DestroySetsFlags \/ S!DestroyAdapters

DestructorRuns ==
  /\ UNCHANGED <<queue_, loaderVars, routerVars, ownerVars>>
  /\ S!DestroyNotifies \/ S!DestroyJoins

Alive == alive /\ S!Alive

Terminated == ~Alive /\ UNCHANGED vars

Next ==
  \/ /\ Alive
     /\ \/ LoaderWorks \/ RouterPolls \/ RouterCallsService \/ ServiceHandlesFrame
        \/ ServiceReturns \/ DetectorWorks \/ SpuriousWakeup
        \/ StartLoader \/ StopLoader \/ StartRouter \/ StopRouter \/ StopReturns
        \/ DestroyService \/ DestructorRuns
  \/ Terminated

\* Every thread is scheduled, every port call ends, and a thread that asks for
\* data_mutex_ again and again finds it free gets it; the owner need not call.
RouterThread == RouterPolls \/ RouterCallsService \/ ServiceHandlesFrame \/ ServiceReturns
Fairness ==
  /\ WF_vars(Alive /\ LoaderWorks)
  /\ WF_vars(Alive /\ RouterThread)
  /\ SF_vars(Alive /\ ServiceHandlesFrame)
  /\ WF_vars(Alive /\ DetectorWorks)
  /\ WF_vars(Alive /\ (StopReturns \/ DestructorRuns))

Spec == Init /\ [][Next]_vars /\ Fairness
-----------------------------------------------------------------------------
\* When the owner is free to destroy the service, no call to it is in progress
\* and none can begin: stop() of the router has joined the thread that calls.
NoCallIntoDestroyedService ==
  OwnerFree /\ ~routerOn => sCaller = "idle" /\ rWorker = "none"

\* An owner that pairs every start of the loader with a stop never meets the
\* joinable worker_thread_ that would terminate the process.
PairedStartsAreSafe == alive

\* From capture to the service the path is the lossy channel of the queue's
\* size, through restarts of the loader and of the router.
CaptureToHandler ==
  INSTANCE LossyChannel
    WITH Capacity <- QueueSize, sent <- frame_id_, got <- evt, open <- TRUE,
         pending <- {queue_[i] : i \in 1..Len(queue_)}
ImplementsLossyChannel == CaptureToHandler!Spec

\* The detector works on captured frames in capture order, skipping some and
\* never going back, whichever thread is restarted.
DetectsForward ==
  [][frame_to_process' # frame_to_process =>
       frame_to_process < frame_to_process' /\ frame_to_process' <= evt /\ evt <= frame_id_]_vars

\* Every captured frame is handled or overtaken while the router runs.
EveryFrameHandled ==
  \A n \in 1..MaxFrames : (frame_id_ >= n) ~> (evt >= n \/ ~rRunning \/ ~Alive)

\* No call of the owner hangs: not the stop of a loader whose source is dry, not
\* the stop of a router inside the service, not the destructor of the service.
OwnerCallsReturn == ~OwnerFree ~> (OwnerFree \/ ~Alive)
=============================================================================
