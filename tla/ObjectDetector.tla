--------------------------- MODULE ObjectDetector ---------------------------
(***************************************************************************)
(* YOLOv8AdapterImpl (adapter/out/object_detection_adapter): a picture is  *)
(* scaled into the middle of the network's input, every anchor of the      *)
(* network's output that is confident enough becomes a box in the picture, *)
(* and boxes that overlap a better one are suppressed.  The network is     *)
(* external: an anchor shows one extent of the picture, seen through the   *)
(* letterbox, with a score for each class.  Coordinates are exact          *)
(* fractions where the code has floats; thresholds are on integer scales.  *)
(***************************************************************************)
EXTENDS Integers, Sequences, FiniteSets

CONSTANTS InputWidth, InputHeight,   \* of the network, config_.inputWidth/Height
          ConfThreshold,             \* config_.confThreshold, on the scale of Scores
          NmsPercent,                \* config_.nmsThreshold, in percent
          Sizes,                     \* widths and heights of pictures
          Objects,                   \* what anchors may show: [x, y], two extents
          Classes, Scores,           \* 0..Classes - 1 are the class ids
          Anchors                    \* rows of the network's output

ASSUME InputAssumption == InputWidth \in Nat \ {0} /\ InputHeight \in Nat \ {0}
ASSUME SizesAssumption == Sizes \subseteq Nat \ {0}
Extents == [from : Int, len : Nat]
ASSUME ObjectAssumption == Objects \subseteq [x : Extents, y : Extents]
ASSUME ScoreAssumption == Scores \subseteq Nat /\ ConfThreshold \in Nat
ASSUME CountAssumption == Classes \in Nat /\ Anchors \in Nat /\ NmsPercent \in Nat

VARIABLES is_initialized_,
          img,          \* [w, h] of the picture in progress, Nothing between calls
          boxes, confidences, class_ids,   \* the candidates so far
          shown,        \* history: what each anchor scanned so far showed
          detections    \* what the latest call returned, {} during a call

detectorVars == <<is_initialized_, img, boxes, confidences, class_ids, shown, detections>>
candidates == <<boxes, confidences, class_ids, shown>>

Least(a, b) == IF a < b THEN a ELSE b
Most(a, b) == IF a > b THEN a ELSE b
Towards0(a, b) == IF a >= 0 THEN a \div b ELSE -((-a) \div b)   \* static_cast<int>(a / b)
Rounded(a, b) == (2 * a + b) \div (2 * b)                       \* std::round, a >= 0

\* scale, as a fraction: the smaller of the two ratios.
Scale(pic) ==
  IF InputWidth * pic.h <= InputHeight * pic.w THEN [num |-> InputWidth, den |-> pic.w]
                                               ELSE [num |-> InputHeight, den |-> pic.h]

\* Along one axis: the scaled length new_w (new_h) and the padding dw (dh).
Scaled(pic, length) == Rounded(length * Scale(pic).num, Scale(pic).den)
Padding(pic, length, target) == (target - Scaled(pic, length)) \div 2

\* The output of a network that sees the extent through the letterbox, in units
\* of 1 / (2 * length): its centre and its length.
Projected(pic, extent, length, target) ==
  [center |-> 2 * length * Padding(pic, length, target)
                + (2 * extent.from + extent.len) * Scaled(pic, length),
   len |-> 2 * extent.len * Scaled(pic, length)]

\* Mutant of Restored: the padding is not taken away.
RestoredWithPadding(pic, out, length, target) ==
  LET s == Scale(pic)
  IN  [from |-> Towards0((2 * out.center - out.len) * s.den, 4 * length * s.num),
       len |-> Towards0(out.len * s.den, 2 * length * s.num)]

\* Back to the picture: the padding is taken away, the scale undone, the corner
\* computed, and the fraction cut off.
Restored(pic, out, length, target) ==
  LET s == Scale(pic)
      unpadded == out.center - 2 * length * Padding(pic, length, target)
  IN  [from |-> Towards0((2 * unpadded - out.len) * s.den, 4 * length * s.num),
       len |-> Towards0(out.len * s.den, 2 * length * s.num)]

\* Mutant of Clamped: the length is cut before the corner has been moved.
ClampedLengthFirst(extent, length) ==
  [from |-> Most(0, Least(extent.from, length - 1)),
   len |-> Most(1, Least(extent.len, length - extent.from))]

\* Into the picture: first the corner, then the length from where the corner is now.
Clamped(extent, length) ==
  LET from == Most(0, Least(extent.from, length - 1))
  IN  [from |-> from, len |-> Most(1, Least(extent.len, length - from))]

BoxAlong(pic, extent, length, target) ==
  Clamped(Restored(pic, Projected(pic, extent, length, target), length, target), length)

Box(pic, object) == [x |-> BoxAlong(pic, object.x, pic.w, InputWidth),
                   y |-> BoxAlong(pic, object.y, pic.h, InputHeight)]

ClassIds == 0..Classes - 1
Unknown == -1   \* ClassId::UNKNOWN

\* The first class with the highest score; none when no score is above 0.
Best(scores) ==
  IF \A c \in ClassIds : scores[c] = 0
    THEN [class |-> Unknown, conf |-> 0]
    ELSE LET best == CHOOSE c \in ClassIds :
                       \A d \in ClassIds : scores[d] <= scores[c] /\ (d < c => scores[d] < scores[c])
         IN  [class |-> best, conf |-> scores[best]]

Common(a, b) == Most(0, Least(a.from + a.len, b.from + b.len) - Most(a.from, b.from))
Area(box) == box.x.len * box.y.len

\* Intersection over union above the threshold.
Overlap(a, b) ==
  LET both == Common(a.x, b.x) * Common(a.y, b.y)
  IN  100 * both > NmsPercent * (Area(a) + Area(b) - both)

\* What cv::dnn::NMSBoxes may keep: boxes above the threshold, no two of which
\* overlap, such that every box left out overlaps one kept that is as good.
Survivors(keep) ==
  LET above == {i \in 1..Len(boxes) : confidences[i] > ConfThreshold}
  IN  /\ keep \subseteq above
      /\ \A i, j \in keep : i # j => ~Overlap(boxes[i], boxes[j])
      /\ \A i \in above \ keep :
            \E j \in keep : confidences[j] >= confidences[i] /\ Overlap(boxes[i], boxes[j])
-----------------------------------------------------------------------------
Nothing == [w |-> 0, h |-> 0]
Idle == img = Nothing

DetectorInit ==
  /\ is_initialized_ \in BOOLEAN   \* the constructor calls initialize()
  /\ img = Nothing
  /\ boxes = <<>> /\ confidences = <<>> /\ class_ids = <<>> /\ shown = <<>>
  /\ detections = {}

\* initialize() of an adapter without a network; it fails without a model file.
LoadNetwork ==
  /\ Idle /\ ~is_initialized_
  /\ is_initialized_' = TRUE
  /\ UNCHANGED <<img, candidates, detections>>

DropNetwork ==
  /\ Idle /\ is_initialized_
  /\ is_initialized_' = FALSE
  /\ UNCHANGED <<img, candidates, detections>>

Resizable(pic) == Scaled(pic, pic.w) > 0 /\ Scaled(pic, pic.h) > 0

\* detectObject without a network or of a picture without data returns nothing;
\* of a picture that is not resizable (so long and thin that nothing of it is
\* left) it throws.
DetectNothing ==
  /\ Idle
  /\ detections' = {}
  /\ UNCHANGED <<is_initialized_, img, candidates>>

\* detectObject up to the network's output.
Begin(pic) ==
  /\ Idle /\ is_initialized_
  /\ Resizable(pic)
  /\ img' = pic
  /\ detections' = {}
  /\ UNCHANGED <<is_initialized_, candidates>>

\* Mutant of AnchorRow: the class of an anchor that is not confident is kept too.
AnchorKeepsClass(object, scores) ==
  LET best == Best(scores)
      confident == best.conf >= ConfThreshold
  IN  /\ ~Idle /\ Len(shown) < Anchors
      /\ shown' = Append(shown, [object |-> object, scores |-> scores])
      /\ boxes' = IF confident THEN Append(boxes, Box(img, object)) ELSE boxes
      /\ confidences' = IF confident THEN Append(confidences, best.conf) ELSE confidences
      /\ class_ids' = Append(class_ids, best.class)
      /\ UNCHANGED <<is_initialized_, img, detections>>

\* One row of the output: it becomes a candidate if its best class reaches the
\* threshold.
AnchorRow(object, scores) ==
  LET best == Best(scores)
  IN  /\ ~Idle /\ Len(shown) < Anchors
      /\ shown' = Append(shown, [object |-> object, scores |-> scores])
      /\ IF best.conf >= ConfThreshold
           THEN /\ boxes' = Append(boxes, Box(img, object))
                /\ confidences' = Append(confidences, best.conf)
                /\ class_ids' = Append(class_ids, best.class)
           ELSE UNCHANGED <<boxes, confidences, class_ids>>
      /\ UNCHANGED <<is_initialized_, img, detections>>

\* Suppression, and the conversion of what survives.
Return ==
  /\ ~Idle /\ Len(shown) = Anchors
  /\ \E keep \in SUBSET (1..Len(boxes)) :
        /\ Survivors(keep)
        /\ detections' = {[class_id |-> class_ids[i], confidence |-> confidences[i],
                           bbox |-> boxes[i]] : i \in keep}
  /\ img' = Nothing
  /\ boxes' = <<>> /\ confidences' = <<>> /\ class_ids' = <<>> /\ shown' = <<>>
  /\ UNCHANGED is_initialized_

Pictures == [w : Sizes, h : Sizes]

DetectorNext ==
  \/ LoadNetwork \/ DropNetwork \/ DetectNothing \/ Return
  \/ \E pic \in Pictures : Begin(pic)
  \/ \E object \in Objects, scores \in [ClassIds -> Scores] : AnchorRow(object, scores)

DetectorSpec == DetectorInit /\ [][DetectorNext]_detectorVars
-----------------------------------------------------------------------------
Within(extent, length) ==
  extent.from >= 0 /\ extent.len >= 1 /\ extent.from + extent.len <= length

\* Every candidate box is a non-empty part of the picture, wherever the network
\* puts the object (the comment at line 259: nothing goes outside the picture).
BoxesInside ==
  \A i \in 1..Len(boxes) : Within(boxes[i].x, img.w) /\ Within(boxes[i].y, img.h)

\* The letterbox is undone: the box of an object that lies inside the picture is
\* where the object is, up to one pixel of the picture and half a pixel of the
\* network's input on each edge.
Near(pic, a, b) == 2 * Scale(pic).num * Most(a - b, b - a) <= 2 * Scale(pic).num + Scale(pic).den

RestoresObject ==
  \A i \in 1..Len(shown) :
     LET seen == shown[i].object
         box == Box(img, seen)
     IN  Within(seen.x, img.w) /\ Within(seen.y, img.h) =>
           /\ Near(img, box.x.from, seen.x.from) /\ Near(img, box.x.len, seen.x.len)
           /\ Near(img, box.y.from, seen.y.from) /\ Near(img, box.y.len, seen.y.len)

\* What is returned belongs together: each detection has the box, the class and
\* the confidence of one and the same anchor, and that class is its best.
DetectionsAligned ==
  [][\A d \in detections' :
       d \in detections \/
       \E i \in 1..Len(shown) :
          /\ d.bbox = Box(img, shown[i].object)
          /\ d.class_id \in ClassIds
          /\ d.confidence = shown[i].scores[d.class_id]
          /\ \A c \in ClassIds : shown[i].scores[c] <= d.confidence]_detectorVars
=============================================================================
