---------------------------- MODULE MCComponents ----------------------------
(***************************************************************************)
(* Components of the frame path, each by itself: the queue with three      *)
(* interchangeable consumers, the loader that fills one, the router that   *)
(* reads one, and the two adapters with a state of their own.  part says   *)
(* which of them runs in a behaviour; VisionPipeline puts them together.   *)
(***************************************************************************)
EXTENDS EventQueue, LoaderAndRouter, ObjectDetector, VslamAdapter, TLC

VARIABLE part

loaderVars == <<sourceType, lRunning, lWorker, remaining, frame_id_, lQueue, lCaller, alive>>
routerVars == <<rRunning, rWorker, evt, rQueue, type, rCaller>>

ComponentsInit ==
  /\ part \in {"queue", "loader", "router", "detector", "slam"}
  /\ Init /\ L!Init /\ R!Init /\ DetectorInit /\ SlamInit
  /\ part # "loader" => sourceType = "FRAME_SET"
  /\ part # "slam" => kind = "mono"

ComponentsNext ==
  /\ UNCHANGED part
  /\ \/ part = "queue" /\ Next /\ UNCHANGED <<loaderVars, routerVars, detectorVars, slamVars>>
     \/ part = "loader" /\ L!Next /\ UNCHANGED <<vars, routerVars, detectorVars, slamVars>>
     \/ part = "router" /\ R!Next /\ UNCHANGED <<vars, loaderVars, detectorVars, slamVars>>
     \/ part = "detector" /\ DetectorNext /\ UNCHANGED <<vars, loaderVars, routerVars, slamVars>>
     \/ part = "slam" /\ SlamNext /\ UNCHANGED <<vars, loaderVars, routerVars, detectorVars>>

ComponentsSpec ==
  ComponentsInit /\ [][ComponentsNext]_<<part, vars, loaderVars, routerVars, detectorVars, slamVars>>
-----------------------------------------------------------------------------
Symmetry == Permutations(Consumers)

\* Objects inside, across and outside the edges of every picture, along one axis
\* at a time and along both.
Seen == [from : {-2, 0, 1, 4, 9}, len : {0, 1, 4, 8}]
OneByOne == [from |-> 0, len |-> 1]
SeenObjects ==
  {[x |-> e, y |-> OneByOne] : e \in Seen} \cup {[x |-> OneByOne, y |-> e] : e \in Seen}
     \cup {[x |-> e, y |-> e] : e \in Seen}
=============================================================================
