----------------------------- MODULE VideoLoader -----------------------------
(***************************************************************************)
(* VideoLoaderImpl (adapter/in/frame_loader): an owner thread calls start  *)
(* and stop, a worker thread captures frames and pushes one event per      *)
(* frame into the shared EventQueue.  frame_id_ is written by the worker   *)
(* only, and one event is pushed per increment, so the number of an event  *)
(* in the queue is its frame_id.  VIDEO_FILE, CAMERA_DEVICE and            *)
(* RTSP_STREAM run the same loop up to the pause between two reads.        *)
(***************************************************************************)
EXTENDS BoundedFifo

CONSTANTS QueueSize,     \* max_size_ of the event queue
          MaxFrames,     \* bound on the frames captured in a behaviour
          FrameSetSizes  \* the numbers of readable png files of a FRAME_SET

Streams == {"VIDEO_FILE", "CAMERA_DEVICE", "RTSP_STREAM"}
SourceTypes == Streams \cup {"FRAME_SET", "UNKNOWN"}

VARIABLES sourceType,  \* config_.sourceType
          running_,
          worker,      \* worker_thread_: "none" = not joinable, else where it is
          remaining,   \* FRAME_SET: images of buffer_frames still to be pushed
          frame_id_,
          queue_,      \* event_queue_, as the frame ids it holds
          caller,      \* the owner: "idle", or "joining" inside stop
          alive        \* FALSE after std::terminate or undefined behaviour

vars == <<sourceType, running_, worker, remaining, frame_id_, queue_, caller, alive>>

Init ==
  /\ sourceType \in SourceTypes
  /\ running_ = FALSE
  /\ worker = "none"
  /\ remaining = 0
  /\ frame_id_ = 0
  /\ queue_ = <<>>
  /\ caller = "idle"
  /\ alive = TRUE

\* The thread part of start().
StartWorker ==
  /\ caller = "idle" /\ worker = "none"
  /\ running_' = TRUE
  /\ worker' = "begin"
  /\ UNCHANGED <<sourceType, remaining, queue_, caller, alive>>

\* Mutant of Start: frame ids start again at 1.
StartRenumbers == StartWorker /\ frame_id_' = 0

\* start() with no joinable worker: the new VideoCapture opens and a worker is
\* created.  When it does not open, start returns false and changes nothing.
Start == StartWorker /\ UNCHANGED frame_id_

\* start() while worker_thread_ is joinable: assigning to a joinable std::thread
\* calls std::terminate, and replacing video_capture_ under a worker that reads
\* it is a data race.  (A failed open beside a worker that does not use the
\* capture any more changes nothing.)
StartAgain ==
  /\ caller = "idle" /\ worker # "none"
  /\ alive' = FALSE
  /\ UNCHANGED <<sourceType, running_, worker, remaining, frame_id_, queue_, caller>>

ClearFlag ==
  /\ caller = "idle"
  /\ running_' = FALSE
  /\ UNCHANGED <<sourceType, worker, remaining, frame_id_, queue_, alive>>

\* Mutant of Stop: return without joining the worker.
StopWithoutJoin == ClearFlag /\ UNCHANGED caller

\* stop(), or the destructor: the flag is cleared, then the worker is joined.
Stop == ClearFlag /\ caller' = IF worker = "none" THEN "idle" ELSE "joining"

StopReturns ==
  /\ caller = "joining" /\ caller' = "idle"
  /\ worker = "returned" /\ worker' = "none"
  /\ UNCHANGED <<sourceType, running_, remaining, frame_id_, queue_, alive>>

WorkerGoes(from, to) ==
  worker = from /\ worker' = to /\ UNCHANGED <<sourceType, running_, caller, alive>>
KeepFrames == UNCHANGED <<remaining, frame_id_, queue_>>

\* loadFrames dispatches on the source type: a stream has no frames to count,
\* an unknown type returns at once ...
BeginStream ==
  /\ WorkerGoes("begin", IF sourceType \in Streams THEN "loop" ELSE "returned")
  /\ sourceType # "FRAME_SET"
  /\ KeepFrames

\* ... and a FRAME_SET is read into memory first; an unreadable directory gives
\* no frames.  (The set fits in MaxFrames.)
BeginFrameSet ==
  /\ WorkerGoes("begin", "loop")
  /\ sourceType = "FRAME_SET"
  /\ remaining' \in {n \in FrameSetSizes : frame_id_ + n <= MaxFrames}
  /\ UNCHANGED <<frame_id_, queue_>>

MoreToRead == sourceType = "FRAME_SET" => remaining > 0

\* Mutant of Loop: running_ is not looked at.
LoopIgnoresFlag == WorkerGoes("loop", IF MoreToRead THEN "capture" ELSE "returned") /\ KeepFrames

\* The head of the loop: a stream tests running_, a frame set tests for a next
\* image and then running_.
Loop ==
  /\ WorkerGoes("loop", IF running_ /\ MoreToRead THEN "capture" ELSE "returned")
  /\ KeepFrames

\* A frame is available (read() succeeded, or the next image of the set): it is
\* numbered and its event pushed, whatever running_ has become meanwhile.
Capture ==
  /\ WorkerGoes("capture", "loop")
  /\ frame_id_ < MaxFrames
  /\ frame_id_' = frame_id_ + 1
  /\ queue_' = PushTo(queue_, frame_id_ + 1, QueueSize)
  /\ remaining' = IF sourceType = "FRAME_SET" THEN remaining - 1 ELSE remaining

\* read() on a stream gives no frame (end of file, lost camera): try again.
ReadFails == WorkerGoes("capture", "loop") /\ sourceType \in Streams /\ KeepFrames

Worker == BeginStream \/ BeginFrameSet \/ Loop \/ Capture \/ ReadFails
Owner == Start \/ StartAgain \/ Stop \/ StopReturns

\* The reader of the queue (EventRouter in the program).
Take ==
  /\ queue_ # <<>>
  /\ queue_' = Tail(queue_)
  /\ UNCHANGED <<sourceType, running_, worker, remaining, frame_id_, caller, alive>>

Terminated == ~alive /\ UNCHANGED vars

Next == (alive /\ (Owner \/ Worker \/ Take)) \/ Terminated

\* The threads that the operating system must schedule; the owner need not call.
Fairness == WF_vars(alive /\ Worker) /\ WF_vars(alive /\ StopReturns)

Spec == Init /\ [][Next]_vars /\ Fairness
-----------------------------------------------------------------------------
\* Type invariant of the loader's state.
TypeOK ==
  /\ sourceType \in SourceTypes
  /\ running_ \in BOOLEAN
  /\ worker \in {"none", "begin", "loop", "capture", "returned"}
  /\ remaining \in Nat
  /\ frame_id_ \in Nat
  /\ queue_ \in Seq(Nat)
  /\ caller \in {"idle", "joining"}
  /\ alive \in BOOLEAN

\* Whatever the owner restarts and the reader takes, the queue holds the newest
\* frames in capture order with no id used twice: a restart of the loader goes
\* on numbering where the previous worker stopped.
QueueIsNewestSuffix ==
  /\ Len(queue_) <= QueueSize
  /\ Len(queue_) <= frame_id_
  /\ queue_ = NewestOf(frame_id_, Len(queue_))

\* Once stop() has returned no worker is left that could still push an event
\* into a queue the owner may now destroy.
QuietAfterStop == alive /\ caller = "idle" /\ ~running_ => worker = "none"

\* A worker that was not told to stop ends only when it has nothing left to
\* offer: a failed read never ends a stream, a frame set is offered to its end.
WorkerEndsOnlyWhenDone ==
  alive /\ worker = "returned" /\ running_ => sourceType \notin Streams /\ remaining = 0
=============================================================================
