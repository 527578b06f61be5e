----------------------------- MODULE EventQueue -----------------------------
(***************************************************************************)
(* EventQueue (infrastructure/event/include/event_queue.hpp): a bounded    *)
(* queue guarded by one mutex and one condition variable.  The body of     *)
(* push and the part of pop before and after the wait run entirely under   *)
(* the mutex, so each is one step; a consumer inside cv_.wait is in        *)
(* waiting until it is notified (or wakes spuriously), and in woken until  *)
(* it has the mutex back and tests the predicate again.                    *)
(* Events are numbered in the order they are pushed.                       *)
(***************************************************************************)
EXTENDS BoundedFifo, FiniteSets

CONSTANTS MaxSize,    \* max_size_
          Consumers,  \* the threads that call pop
          MaxPushes   \* bound on the pushes of a behaviour

\* push pops the front of an EMPTY std::queue when max_size_ is 0.
ASSUME MaxSizeAssumption == MaxSize \in Nat \ {0}
ASSUME MaxPushesAssumption == MaxPushes \in Nat
ASSUME ConsumersAssumption == IsFiniteSet(Consumers)

VARIABLES queue_,   \* the queue, front first
          pushed,   \* events pushed so far; the newest has this number
          waiting,  \* consumers blocked in cv_.wait
          woken,    \* consumers notified that have not retaken the mutex
          taken,    \* history: the events returned by pop
          last      \* history: the event returned by the latest pop

vars == <<queue_, pushed, waiting, woken, taken, last>>

Init ==
  /\ queue_ = <<>>
  /\ pushed = 0
  /\ waiting = {} /\ woken = {}
  /\ taken = {} /\ last = 0

\* Mutant of NotifyOne: notify only when the queue was empty before the push.
NotifyIfWasEmpty ==
  \/ (waiting = {} \/ queue_ # <<>>) /\ UNCHANGED <<waiting, woken>>
  \/ \E c \in waiting :
        queue_ = <<>> /\ waiting' = waiting \ {c} /\ woken' = woken \cup {c}

\* cv_.notify_one(): one blocked consumer, if there is one, is released.
NotifyOne ==
  \/ waiting = {} /\ UNCHANGED <<waiting, woken>>
  \/ \E c \in waiting : waiting' = waiting \ {c} /\ woken' = woken \cup {c}

Push ==
  /\ pushed < MaxPushes
  /\ pushed' = pushed + 1
  /\ queue_' = PushTo(queue_, pushed + 1, MaxSize)
  /\ NotifyOne
  /\ UNCHANGED <<taken, last>>

\* Mutant of TakeFront: the newest event first.
TakeBack ==
  /\ queue_ # <<>>
  /\ taken' = taken \cup {queue_[Len(queue_)]}
  /\ last' = queue_[Len(queue_)]
  /\ queue_' = SubSeq(queue_, 1, Len(queue_) - 1)
  /\ UNCHANGED pushed

\* The end of pop: the predicate holds and the front is moved out.
TakeFront ==
  /\ queue_ # <<>>
  /\ taken' = taken \cup {Head(queue_)}
  /\ last' = Head(queue_)
  /\ queue_' = Tail(queue_)
  /\ UNCHANGED pushed

\* A consumer calls pop: it takes the front, or blocks on an empty queue.
Pop(c) ==
  /\ c \notin waiting \cup woken
  /\ \/ TakeFront /\ UNCHANGED <<waiting, woken>>
     \/ /\ queue_ = <<>>
        /\ waiting' = waiting \cup {c}
        /\ UNCHANGED <<queue_, pushed, woken, taken, last>>

\* A notified consumer has the mutex again and re-evaluates the predicate.
Resume(c) ==
  /\ c \in woken
  /\ woken' = woken \ {c}
  /\ \/ TakeFront /\ UNCHANGED waiting
     \/ /\ queue_ = <<>>
        /\ waiting' = waiting \cup {c}
        /\ UNCHANGED <<queue_, pushed, taken, last>>

\* The condition variable may wake a thread that nobody notified.
SpuriousWakeup(c) ==
  /\ c \in waiting
  /\ waiting' = waiting \ {c}
  /\ woken' = woken \cup {c}
  /\ UNCHANGED <<queue_, pushed, taken, last>>

Next ==
  \/ Push
  \/ \E c \in Consumers : Pop(c) \/ Resume(c) \/ SpuriousWakeup(c)

Spec == Init /\ [][Next]_vars
-----------------------------------------------------------------------------
Contents == {queue_[i] : i \in 1..Len(queue_)}

\* Type invariant of the queue's state.
TypeOK ==
  /\ queue_ \in Seq(Nat)
  /\ pushed \in Nat
  /\ waiting \in SUBSET Consumers
  /\ woken \in SUBSET (Consumers \ waiting)
  /\ taken \in SUBSET Nat
  /\ last \in Nat

\* The queue never holds a gap, a repeat or an old event in place of a newer
\* one: it is always exactly the newest Len(queue_) events, oldest first, and
\* never more than max_size_ of them (event_queue.hpp:19-24).
QueueIsNewestSuffix ==
  /\ Len(queue_) <= MaxSize
  /\ Len(queue_) <= pushed
  /\ queue_ = NewestOf(pushed, Len(queue_))

\* An event that is neither queued nor returned by pop was displaced by at
\* least max_size_ newer ones: nothing else in push or pop loses an event.
OnlyStaleEventsLost ==
  \A e \in (1..pushed) \ (taken \cup Contents) : e + MaxSize <= pushed

\* While a consumer sleeps in cv_.wait, every queued event has a notified
\* consumer on its way to it: one notify_one per push is enough, whatever the
\* order in which consumers enter pop, wake up and are overtaken.
NoLostWakeup ==
  waiting # {} => Len(queue_) <= Cardinality(woken)

\* The queue implements the channel of capacity max_size_: in order, at most
\* once, and never at the cost of one of the max_size_ newest events.
Channel == INSTANCE LossyChannel
             WITH Capacity <- MaxSize, sent <- pushed, pending <- Contents,
                  got <- last, open <- TRUE
ImplementsLossyChannel == Channel!Spec
=============================================================================
