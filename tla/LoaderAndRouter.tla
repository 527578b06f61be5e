-------------------------- MODULE LoaderAndRouter --------------------------
(***************************************************************************)
(* The two worker threads around the event queue, each with a queue of its *)
(* own and any environment: a loader whose queue some reader takes from,   *)
(* and a router whose queue some producer pushes into.                     *)
(***************************************************************************)
EXTENDS Naturals, Sequences

CONSTANTS QueueSize,                  \* max_size_ of either queue
          MaxFrames, FrameSetSizes,   \* VideoLoader
          EventTypes, MaxEvents       \* EventRouter

\* A queue of size 0 would be popped while it is empty (event_queue.hpp:20-22);
\* the others bound what TLC looks at.
ASSUME QueueSizeAssumption == QueueSize \in Nat \ {0}
ASSUME BoundsAssumption == MaxFrames \in Nat /\ MaxEvents \in Nat
ASSUME FrameSetSizesAssumption == FrameSetSizes \subseteq Nat

VARIABLES sourceType, lRunning, lWorker, remaining, frame_id_, lQueue, lCaller, alive,
          rRunning, rWorker, evt, rQueue, type, rCaller

L == INSTANCE VideoLoader
       WITH running_ <- lRunning, worker <- lWorker, queue_ <- lQueue, caller <- lCaller
R == INSTANCE EventRouter
       WITH running_ <- rRunning, worker <- rWorker, queue_ <- rQueue, caller <- rCaller
-----------------------------------------------------------------------------
\* stop() of the loader and of the router: when it has returned no worker is left
\* that could use the queue, and it need not wait for one asleep in pop().
StopIsSafe == L!QuietAfterStop /\ R!QuietAfterStop /\ R!PopNeverBlocks

\* What the loader offers: across restarts and failing reads the newest frames, in
\* order and numbered once, until it is stopped or has nothing left.
LoaderOffersAll == L!QueueIsNewestSuffix /\ L!WorkerEndsOnlyWhenDone
=============================================================================
