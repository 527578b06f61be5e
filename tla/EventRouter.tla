----------------------------- MODULE EventRouter -----------------------------
(***************************************************************************)
(* EventRouter (infrastructure/event/src/event_router.cpp): a worker       *)
(* thread polls the EventQueue and hands every IMAGE event to the frame    *)
(* port; an owner thread calls start and stop.  Testing queue_.empty() and *)
(* calling queue_.pop() are two critical sections, and pop blocks when the *)
(* queue is empty.  Events carry the number in which they were pushed.     *)
(***************************************************************************)
EXTENDS BoundedFifo

CONSTANTS QueueSize,   \* max_size_ of the event queue
          EventTypes,  \* the values of Event::type that reach the queue
          MaxEvents    \* bound on the events pushed in a behaviour

VARIABLES running_,
          worker,   \* worker_thread_: "none" = not joinable, else where it is
          evt,      \* the event taken from the queue, 0 before the first
          queue_,   \* the event queue, as the numbers of its events
          type,     \* type[n]: Event::type of the n-th event pushed
          caller    \* the owner: "idle", or "joining" inside stop

vars == <<running_, worker, evt, queue_, type, caller>>

Init ==
  /\ running_ = FALSE
  /\ worker = "none"
  /\ evt = 0
  /\ queue_ = <<>>
  /\ type = <<>>
  /\ caller = "idle"

\* start(): a second call while running does nothing.
Start ==
  /\ caller = "idle" /\ ~running_
  /\ running_' = TRUE
  /\ worker' = "loop"
  /\ UNCHANGED <<evt, queue_, type, caller>>

ClearFlag ==
  /\ caller = "idle"
  /\ running_' = FALSE
  /\ UNCHANGED <<worker, evt, queue_, type>>

\* Mutant of Stop: return without joining the worker.
StopWithoutJoin == ClearFlag /\ UNCHANGED caller

\* stop(), or the destructor: the flag is cleared, then the worker is joined.
Stop == ClearFlag /\ caller' = IF worker = "none" THEN "idle" ELSE "joining"

StopReturns ==
  /\ caller = "joining" /\ caller' = "idle"
  /\ worker = "returned" /\ worker' = "none"
  /\ UNCHANGED <<running_, evt, queue_, type>>

WorkerGoes(from, to) == worker = from /\ worker' = to /\ UNCHANGED <<running_, type, caller>>
KeepEvents == UNCHANGED <<evt, queue_>>

\* while (running_)
Loop == WorkerGoes("loop", IF running_ THEN "poll" ELSE "returned") /\ KeepEvents

\* Mutant of Poll: no test of empty(), as the comment at line 48 reads.
PollBlind == WorkerGoes("poll", "pop") /\ KeepEvents

\* After the 10 ms pause: queue_.empty().
Poll == WorkerGoes("poll", IF queue_ = <<>> THEN "loop" ELSE "pop") /\ KeepEvents

CopyFront == WorkerGoes("pop", "dispatch") /\ queue_ # <<>> /\ evt' = Head(queue_)

\* Mutants of Pop: the front is copied but not removed; the newest comes first.
PopKeepsFront == CopyFront /\ UNCHANGED queue_
PopNewest ==
  /\ WorkerGoes("pop", "dispatch") /\ queue_ # <<>>
  /\ evt' = queue_[Len(queue_)]
  /\ queue_' = SubSeq(queue_, 1, Len(queue_) - 1)

\* queue_.pop(), which waits while the queue is empty.
Pop == CopyFront /\ queue_' = Tail(queue_)

\* switch (evt.type): an image is passed to onFrameReceived ...
DispatchImage == WorkerGoes("dispatch", "handling") /\ type[evt] = "IMAGE" /\ KeepEvents

\* ... and every other event is reported and dropped.
DispatchOther == WorkerGoes("dispatch", "loop") /\ type[evt] # "IMAGE" /\ KeepEvents

HandlerReturns == WorkerGoes("handling", "loop") /\ KeepEvents

\* Mutant of HandlerThrows: the exception ends the loop.
ThrowEndsWorker == WorkerGoes("handling", "returned") /\ KeepEvents

\* onFrameReceived throws a std::exception: it is caught and logged.
HandlerThrows == WorkerGoes("handling", "loop") /\ KeepEvents

Worker == Loop \/ Poll \/ Pop \/ DispatchImage \/ DispatchOther
            \/ HandlerReturns \/ HandlerThrows
Owner == Start \/ Stop \/ StopReturns

\* A producer (VideoLoader in the program) pushes an event.
Arrive(t) ==
  /\ Len(type) < MaxEvents
  /\ type' = Append(type, t)
  /\ queue_' = PushTo(queue_, Len(type) + 1, QueueSize)
  /\ UNCHANGED <<running_, worker, evt, caller>>

Next == Owner \/ Worker \/ \E t \in EventTypes : Arrive(t)

\* Threads are scheduled, and the frame port returns or throws.
Fairness == WF_vars(Worker) /\ WF_vars(StopReturns)

Spec == Init /\ [][Next]_vars /\ Fairness
-----------------------------------------------------------------------------
\* Type invariant of the router's state.
TypeOK ==
  /\ running_ \in BOOLEAN
  /\ worker \in {"none", "loop", "poll", "pop", "dispatch", "handling", "returned"}
  /\ evt \in 0..Len(type)
  /\ queue_ \in Seq(1..Len(type))
  /\ type \in Seq(EventTypes)
  /\ caller \in {"idle", "joining"}

\* The pop that follows a non-empty poll never blocks: although empty() and
\* pop() are separate critical sections and push may drop the front in between,
\* the queue cannot become empty while the router is its only reader.  This is
\* what makes stop() safe from a worker asleep inside the condition variable.
PopNeverBlocks == worker = "pop" => queue_ # <<>>

\* After stop() returns nothing is in the handler and nothing will be.
QuietAfterStop == caller = "idle" /\ ~running_ => worker = "none"
=============================================================================
