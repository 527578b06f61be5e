----------------------------- MODULE BoundedFifo -----------------------------
(***************************************************************************)
(* The value of EventQueue::queue_ under push, shared by the modules that  *)
(* call the queue.                                                         *)
(***************************************************************************)
EXTENDS Naturals, Sequences

\* Mutant of PushTo: a full queue refuses the new event.
RefuseNewest(q, event, max_size_) == IF Len(q) >= max_size_ THEN q ELSE Append(q, event)

\* EventQueue::push on the queue's value: a full queue drops its front first.
PushTo(q, event, max_size_) ==
  Append(IF Len(q) >= max_size_ THEN Tail(q) ELSE q, event)

\* The numbers of the n newest of last items, oldest first.
NewestOf(last, n) == [i \in 1..n |-> last - n + i]
=============================================================================
