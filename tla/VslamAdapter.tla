---------------------------- MODULE VslamAdapter ----------------------------
(***************************************************************************)
(* MonoVSlamAdapterImpl and StereoVSlamAdapterImpl (adapter/out/           *)
(* vslam_adapter): the life cycle of the SLAM systems that one adapter     *)
(* creates, starts, feeds and shuts down.  One client calls, as in the     *)
(* test fixtures; a system's loop bundle adjustment runs beside it.  The   *)
(* two classes differ in stop().                                           *)
(***************************************************************************)
EXTENDS Naturals, Sequences

CONSTANT MaxSystems   \* bound on the systems created in a behaviour

VARIABLES kind,            \* "mono" or "stereo"
          slam_is_initialized_,   \* is_initialized_ of the class
          systems,         \* every system created: "created", "running" or "down"
          slam_system_,    \* the one the adapter holds, 0 for nullptr
          loopBA,          \* its loop bundle adjustment is running
          client           \* "outside", "updating" (in the waiting loop), "destroyed"

slamVars == <<kind, slam_is_initialized_, systems, slam_system_, loopBA, client>>

SlamInit ==
  /\ kind \in {"mono", "stereo"}
  /\ slam_is_initialized_ = FALSE
  /\ systems = <<>> /\ slam_system_ = 0
  /\ loopBA = FALSE
  /\ client = "outside"

\* initialize() up to the system's creation; the one held before is let go.
Create(status) ==
  /\ client = "outside" /\ ~slam_is_initialized_
  /\ Len(systems) < MaxSystems
  /\ systems' = Append(systems, status)
  /\ slam_system_' = Len(systems) + 1
  /\ loopBA' = FALSE
  /\ UNCHANGED <<kind, client>>

InitializeSystem == Create("running") /\ slam_is_initialized_' = TRUE

\* Mutant of StartupThrows: the flag is set before startup().
FlagBeforeStartup == Create("created") /\ slam_is_initialized_' = TRUE

\* startup() throws: initialize returns false and the new system stays.  (When
\* the configuration or the creation throws, nothing changes.)
StartupThrows == Create("created") /\ UNCHANGED slam_is_initialized_

\* update() of an initialized adapter: it waits while bundle adjustment runs.
\* (Otherwise it returns an empty pose and changes nothing.)
Update ==
  /\ client = "outside" /\ slam_is_initialized_ /\ slam_system_ # 0
  /\ client' = "updating"
  /\ UNCHANGED <<kind, slam_is_initialized_, systems, slam_system_, loopBA>>

\* The picture is fed, or found to be of the wrong format; a loop that the
\* picture closes starts a bundle adjustment.
UpdateReturns ==
  /\ client = "updating" /\ ~loopBA
  /\ client' = "outside"
  /\ loopBA' \in BOOLEAN
  /\ UNCHANGED <<kind, slam_is_initialized_, systems, slam_system_>>

LoopBAEnds ==
  /\ loopBA /\ loopBA' = FALSE
  /\ UNCHANGED <<kind, slam_is_initialized_, systems, slam_system_, client>>

\* shutdown() of the system held, if any.
Shutdown ==
  /\ systems' = [i \in 1..Len(systems) |-> IF i = slam_system_ THEN "down" ELSE systems[i]]
  /\ loopBA' = FALSE

Leave == client = "outside" /\ slam_is_initialized_ /\ UNCHANGED <<kind, slam_system_, client>>

\* Mutant of StopMono: stop() as the stereo adapter has it.
StopForgetsShutdown ==
  kind = "mono" /\ Leave /\ slam_is_initialized_' = FALSE /\ UNCHANGED <<systems, loopBA>>

\* stop() of the mono adapter shuts the system down ...
StopMono == kind = "mono" /\ Leave /\ Shutdown /\ slam_is_initialized_' = FALSE

\* ... that of the stereo adapter only clears the flag.
StopStereo ==
  kind = "stereo" /\ Leave /\ slam_is_initialized_' = FALSE /\ UNCHANGED <<systems, loopBA>>

\* The destructor shuts down what is held, whatever stop() has done.
Destroy ==
  /\ client = "outside" /\ client' = "destroyed"
  /\ Shutdown
  /\ UNCHANGED <<kind, slam_is_initialized_, slam_system_>>

SlamNext ==
  \/ InitializeSystem \/ StartupThrows \/ StopMono \/ StopStereo \/ Destroy
  \/ Update \/ UpdateReturns \/ LoopBAEnds
  \/ client = "destroyed" /\ UNCHANGED slamVars

SlamSpec == SlamInit /\ [][SlamNext]_slamVars
-----------------------------------------------------------------------------
Statuses == {"created", "running", "down"}

\* Type invariant.
SlamTypeOK ==
  /\ kind \in {"mono", "stereo"}
  /\ slam_is_initialized_ \in BOOLEAN
  /\ systems \in Seq(Statuses)
  /\ slam_system_ \in 0..Len(systems)
  /\ loopBA \in BOOLEAN
  /\ client \in {"outside", "updating", "destroyed"}

Running(i) == i # 0 /\ systems[i] = "running"

\* Whatever startup() did and however often the client stops and initializes
\* again, a picture is fed only to a system that runs: the flag that update()
\* tests is never ahead of the system it guards.
FedSystemRuns ==
  (slam_is_initialized_ /\ client # "destroyed") \/ client = "updating" => Running(slam_system_)

\* A running system is never let go without shutdown(): its threads would be
\* left behind.  Of the stereo adapter this holds as long as nobody initializes
\* it again after stop().
NoRunningSystemLost ==
  kind = "mono" =>
    \A i \in 1..Len(systems) : Running(i) => i = slam_system_ /\ client # "destroyed"
=============================================================================
