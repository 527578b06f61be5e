---------------------------- MODULE LossyChannel ----------------------------
(***************************************************************************)
(* What the reader is promised at both hand-over points of the frame path: *)
(* EventQueue (drop the oldest when full) and the latest_frame_ slot of    *)
(* VisionPilotServiceImpl (overwrite).  Items have increasing numbers; the *)
(* reader gets them in that order, each at most once, and an item is lost  *)
(* only to make room: the oldest go first, and only when Capacity newer    *)
(* ones remain, or when the owner closes the channel.                      *)
(***************************************************************************)
EXTENDS Naturals, FiniteSets

CONSTANT Capacity

VARIABLES sent,     \* the newest item sent, 0 before the first
          pending,  \* items sent that are neither delivered nor lost
          got,      \* the last item delivered, 0 before the first
          open      \* FALSE once the owner has closed the channel

vars == <<sent, pending, got, open>>

Init == sent = 0 /\ pending = {} /\ got = 0 /\ open = TRUE

Send ==
  /\ open
  /\ sent' \in Nat /\ sent < sent'
  /\ \E lost \in SUBSET pending :
        /\ \A i \in lost, j \in pending \ lost : i < j
        /\ lost # {} => Cardinality(pending \ lost) + 1 = Capacity
        /\ pending' = (pending \ lost) \cup {sent'}
  /\ UNCHANGED <<got, open>>

\* The reader gets the oldest pending item.
Deliver ==
  /\ got' \in pending
  /\ \A i \in pending : got' <= i
  /\ pending' = pending \ {got'}
  /\ UNCHANGED <<sent, open>>

\* Whatever is still pending is discarded when the owner closes the channel.
Close ==
  /\ open
  /\ open' = FALSE
  /\ pending' = {}
  /\ UNCHANGED <<sent, got>>

Next == Send \/ Deliver \/ Close

Spec == Init /\ [][Next]_vars
=============================================================================
