---------------------------- MODULE ZoneBuilder ----------------------------
(***************************************************************************)
(* The builder of ZoneDetect databases (database/builder/builder.cpp).     *)
(* The rings of a shapefile are read, sorted and encoded one after the     *)
(* other as chains of differences.  A stretch of border that an earlier    *)
(* ring has encoded is written as a reference to the earlier bytes, which  *)
(* the reader follows in either direction.  Points that lie in the         *)
(* direction of the one before are left out.  Coordinates are the fixed-   *)
(* point integers of doubleToFixedPoint; shapelib is external.             *)
(***************************************************************************)
EXTENDS ZoneBytes, TLC

CONSTANTS Inputs,        \* shapefiles [tableType, attributes, rings], rings being [meta, points]
          Versions,      \* of the format
          TzidToAlpha2, NaturalEarth, OwnNames,   \* the countries of timezones and their names
          Notice, Precision

ASSUME VersionAssumption == Versions \subseteq {0, 1}

VARIABLES phase,         \* "open", "read", "data", "meta", "bbox", "written", or "fatal"
          version,
          source,        \* the shapefile
          rings,         \* those not yet read
          metadata_,     \* the strings of every record
          pointMap_,     \* point -> [parent, index, encoded, offset]
          polygons_,     \* [points, min, max, meta, fileIndex], in the order of the file
          outputData, outputMeta,
          usedStrings_,  \* string -> its place in outputMeta
          metaIndex,     \* the place of each record in outputMeta
          file           \* what is written in the end

vars == <<phase, version, source, rings, metadata_, pointMap_, polygons_, outputData, outputMeta,
          usedStrings_, metaIndex, file>>

Origin == <<0, 0>>
NoParent == 0
NewPoint == [parent |-> NoParent, index |-> 0, encoded |-> FALSE, offset |-> 0]
NotYet == -1

Init ==
  /\ phase = "open" /\ version \in Versions /\ source \in Inputs
  /\ rings = source.rings /\ metadata_ = <<>>
  /\ pointMap_ = <<>> /\ polygons_ = <<>>
  /\ outputData = <<>> /\ outputMeta = <<>> /\ usedStrings_ = <<>> /\ metaIndex = <<>>
  /\ file = <<>>
-----------------------------------------------------------------------------
Slash == 47
None == <<>>
Unknown == <<45, 57, 57>>   \* "-99"

LookedUp(table, key) == IF key \in DOMAIN table THEN table[key] ELSE None

\* parseAlpha2ToName: of records [alpha2, name], where alpha2 is a sequence of
\* columns of which the first that says something counts.
Alpha2ToName ==
  LET Enter(table, record) ==
        LET known == SelectSeq(record.alpha2, LAMBDA s : s \notin {None, Unknown})
        IN  IF known = <<>> THEN table ELSE (known[1] :> record.name) @@ table
  IN  OwnNames @@ FoldLeft(Enter, <<>>, NaturalEarth)

\* readMetaDataTimezone: the identifier is cut behind its first slash.
TimezoneRecord(tzid) ==
  LET cut == SelectInSeq(tzid, LAMBDA c : c = Slash)
      alpha2 == LookedUp(TzidToAlpha2, tzid)
  IN  (IF cut = 0 THEN <<tzid, None>> ELSE <<SubSeq(tzid, 1, cut), SubSeq(tzid, cut + 1, Len(tzid))>>)
        \o <<alpha2, LookedUp(Alpha2ToName, alpha2)>>

\* readMetaDataNaturalEarthCountry: the last column that says something counts.
CountryRecord(country) ==
  LET Code(columns) == LET known == SelectSeq(columns, LAMBDA s : s # Unknown)
                       IN  IF known = <<>> THEN None ELSE Last(known)
  IN  <<Code(country.alpha2), Code(country.alpha3), country.name>>

ReadMetaData ==
  /\ phase = "open"
  /\ phase' = IF source.tableType \in {Timezones, Countries} THEN "read" ELSE "fatal"
  /\ metadata_' = [i \in DOMAIN source.attributes |->
                     IF source.tableType = Timezones THEN TimezoneRecord(source.attributes[i])
                     ELSE CountryRecord(source.attributes[i])]
  /\ UNCHANGED <<version, source, rings, pointMap_, polygons_, outputData, outputMeta,
                 usedStrings_, metaIndex, file>>

\* PolygonData::processPoint for every point of a ring: the bounding box grows,
\* and a point equal to the one before is dropped.
Polygon(ring) ==
  LET Along(axis) == {ring.points[i][axis] : i \in DOMAIN ring.points}
  IN  [points |-> FoldLeft(LAMBDA kept, p : IF kept # <<>> /\ Last(kept) = p THEN kept
                                            ELSE Append(kept, p), <<>>, ring.points),
       min |-> <<Min(Along(1)), Min(Along(2))>>, max |-> <<Max(Along(1)), Max(Along(2))>>,
       meta |-> ring.meta, fileIndex |-> NotYet]

\* A part of a shape is read; Point::GetPoint makes equal points one object.
ReadPolygon ==
  /\ phase = "read" /\ rings # <<>>
  /\ Origin \notin ToSet(Head(rings).points)
  /\ polygons_' = Append(polygons_, Polygon(Head(rings)))
  /\ pointMap_' = [p \in DOMAIN pointMap_ \cup ToSet(Head(rings).points) |-> NewPoint]
  /\ rings' = Tail(rings)
  /\ UNCHANGED <<phase, version, source, metadata_, outputData, outputMeta, usedStrings_, metaIndex, file>>

\* The point (0, 0) cannot be encoded: the builder gives up.
ReadOrigin ==
  /\ phase = "read" /\ rings # <<>>
  /\ Origin \in ToSet(Head(rings).points)
  /\ phase' = "fatal"
  /\ UNCHANGED <<version, source, metadata_, rings, pointMap_, polygons_, outputData, outputMeta,
                 usedStrings_, metaIndex, file>>

Rearranged(perm) == [i \in DOMAIN polygons_ |-> polygons_[perm[i]]]

\* Mutant of SortPolygons: the order of the shapefile is kept.
SortNothing ==
  /\ phase = "read" /\ rings = <<>>
  /\ phase' = IF polygons_ = <<>> THEN "meta" ELSE "data"
  /\ UNCHANGED <<version, source, metadata_, rings, pointMap_, polygons_, outputData, outputMeta,
                 usedStrings_, metaIndex, file>>

\* std::sort by the lowest latitude: equal ones in any order.
SortPolygons ==
  /\ phase = "read" /\ rings = <<>>
  /\ \E perm \in Permutations(DOMAIN polygons_) :
        /\ polygons_' = Rearranged(perm)
        /\ IsSorted(polygons_', LAMBDA a, b : a.min[1] <= b.min[1])
  /\ phase' = IF polygons_ = <<>> THEN "meta" ELSE "data"
  /\ UNCHANGED <<version, source, metadata_, rings, pointMap_, outputData, outputMeta, usedStrings_, metaIndex, file>>
-----------------------------------------------------------------------------
\* LineSegment::sameDirection of a difference and the one before it.
SameDirection(diff, before) ==
  /\ before # Origin
  /\ \A axis \in {1, 2} : diff[axis] * before[axis] >= 0
  /\ IF diff[1] = 0 THEN before[1] = 0
     ELSE before[2] = Quotient(diff[2] * before[1], diff[1])

Minus(p, q) == <<p[1] - q[1], p[2] - q[2]>>
Plus(p, q) == <<p[1] + q[1], p[2] + q[2]>>

\* The lambda encodePoint: the accumulated difference is written, and the point
\* it leads to is marked with the place reached, if mark is its parent.
PointBytes(point) ==
  IF version = 0 THEN Encoded(point[1]) \o Encoded(point[2]) ELSE Digits[PointKey(point)]

Mark(s, mark) ==
  [s EXCEPT !.acc = Origin,
            !.map = IF mark # NoParent /\ @[s.prev].parent = mark
                      THEN [@ EXCEPT ![s.prev].encoded = TRUE, ![s.prev].offset = Len(s.out)] ELSE @]

EncodePoint(s, mark, force) ==
  Mark(IF s.acc = Origin /\ ~force THEN s
       ELSE [s EXCEPT !.out = @ \o PointBytes(s.acc), !.count = @ + 1], mark)

\* A point in the direction of the one before only adds to the difference.
Step(s, diff, point, mark) ==
  [(IF SameDirection(diff, s.diff) THEN s ELSE EncodePoint(s, mark, FALSE))
     EXCEPT !.acc = Plus(@, diff), !.diff = diff, !.prev = point]

\* LineSegment::encodeDelta of the points from start to end, after out; map is
\* pointMap_ as it is then.
EncodeDelta(out, map, segment, mark, start, end) ==
  LET before == IF start > 1 THEN segment.points[start - 1] ELSE segment.prev
      begin == [out |-> out, map |-> map, acc |-> Origin, diff |-> Origin, prev |-> before, count |-> 0]
  IN  EncodePoint(FoldLeft(LAMBDA s, point : Step(s, Minus(point, s.prev), point, mark),
                           begin, SubSeq(segment.points, start, end)), mark, version = 0)

\* Mutant of EncodeReference: the direction of the reference is lost.
EncodeReferenceForward(segment, map) ==
  LET marked == {i \in DOMAIN segment.points : map[segment.points[i]].encoded}
      start == Min(marked)  end == Max(marked)
      from == map[segment.points[start]].offset
      length == Abs(map[segment.points[end]].offset - from)
      head == EncodeDelta(<<>>, map, segment, NoParent, 1, start).out
      middle == IF start = end THEN <<>> ELSE <<0, 1>> \o Digits[from] \o Encoded(length)
  IN  EncodeDelta(head \o middle, map, segment, NoParent, end + 1, Len(segment.points)).out

\* LineSegment::encodeReference: differences up to the first encoded point, a
\* reference from there to the last one, differences for the rest.
EncodeReference(segment, map) ==
  LET marked == {i \in DOMAIN segment.points : map[segment.points[i]].encoded}
      start == Min(marked)  end == Max(marked)
      from == map[segment.points[start]].offset
      length == map[segment.points[end]].offset - from
      head == EncodeDelta(<<>>, map, segment, NoParent, 1, start).out
      middle == IF start = end THEN <<>> ELSE <<0, 1>> \o Digits[from] \o Encoded(length)
  IN  EncodeDelta(head \o middle, map, segment, NoParent, end + 1, Len(segment.points)).out

\* encodeBinaryData, step 2: the ring without its first and last point is cut
\* into segments that belong to one parent and follow its numbering.  A point
\* without a parent gets this polygon.
JoinSegment(polygon, k, s, i) ==
  LET point == polygon.points[i]
      map == IF s.map[point].parent = NoParent
               THEN [s.map EXCEPT ![point].parent = k, ![point].index = i - 1] ELSE s.map
      parent == map[point].parent
      step == map[point].index - map[polygon.points[i - 1]].index
      follows == IF s.direction = 0 THEN step \in {-1, 1} ELSE step = s.direction
      n == Len(s.lines)
  IN  IF n > 0 /\ s.lines[n].parent = parent /\ follows
        THEN [map |-> map, direction |-> step,
              lines |-> [s.lines EXCEPT ![n].points = Append(@, point)]]
        ELSE [map |-> map, direction |-> 0,
              lines |-> Append(s.lines, [parent |-> parent, prev |-> polygon.points[i - 1],
                                         points |-> <<point>>])]

\* Step 3: a segment of its own is written and marked, one of another polygon is
\* written or referred to, whichever is shorter.
Shorter(delta, reference) == IF Len(delta) <= Len(reference) THEN delta ELSE reference

OwnSegment(s, own) == [out |-> own.out, map |-> own.map, count |-> s.count + own.count]

SharedSegment(s, segment, delta) ==
  [s EXCEPT !.out = @ \o IF \E i \in DOMAIN segment.points : s.map[segment.points[i]].encoded
                            THEN Shorter(delta, EncodeReference(segment, s.map)) ELSE delta]

EncodeSegment(k, s, segment) ==
  IF segment.parent = k \/ version = 0
    THEN OwnSegment(s, EncodeDelta(s.out, s.map, segment, k, 1, Len(segment.points)))
    ELSE SharedSegment(s, segment,
                       EncodeDelta(<<>>, s.map, segment, NoParent, 1, Len(segment.points)).out)

\* encodeBinaryData of polygon k: its first point, its segments and, from
\* version 1 on, the end marker.
WithLines(k, out, cut) ==
  FoldLeft(LAMBDA s, segment : EncodeSegment(k, s, segment),
           [out |-> out, map |-> cut.map, count |-> 1], cut.lines)

EncodedPolygon(polygon, k, out) ==
  LET inner == [i \in 1..Len(polygon.points) - 2 |-> i + 1]
      cut == FoldLeft(LAMBDA s, i : JoinSegment(polygon, k, s, i),
                      [map |-> pointMap_, direction |-> 0, lines |-> <<>>], inner)
  IN  [WithLines(k, out \o PointBytes(polygon.points[1]), cut)
         EXCEPT !.out = IF version = 0 THEN @ ELSE @ \o <<0, 0>>]

\* One polygon is added to the data section; version 0 puts the number of its
\* points in front.
AddPolygon(encoded) ==
  /\ pointMap_' = encoded.map
  /\ outputData' = IF version = 0 THEN outputData \o Digits[encoded.count] \o encoded.out ELSE encoded.out

EncodePolygon ==
  \E k \in DOMAIN polygons_ :
     /\ phase = "data" /\ polygons_[k].fileIndex = NotYet
     /\ \A j \in 1..k - 1 : polygons_[j].fileIndex # NotYet
     /\ AddPolygon(EncodedPolygon(polygons_[k], k, IF version = 0 THEN <<>> ELSE outputData))
     /\ polygons_' = [polygons_ EXCEPT ![k].fileIndex = Len(outputData)]
     /\ phase' = IF k = Len(polygons_) THEN "meta" ELSE "data"
     /\ UNCHANGED <<version, source, metadata_, rings, outputMeta, usedStrings_, metaIndex, file>>
-----------------------------------------------------------------------------

\* MetaData::encodeBinaryData: a string that was written before is replaced by
\* its place.
EncodeString(s, string) ==
  IF string \in DOMAIN s.used
    THEN [s EXCEPT !.out = @ \o Digits[s.used[string] + Remote]]
    ELSE [out |-> s.out \o EncodedString(string),
          used |-> [t \in DOMAIN s.used \cup {string} |-> IF t = string THEN Len(s.out) ELSE s.used[t]]]

EncodeRecord ==
  /\ phase = "meta" /\ Len(metaIndex) < Len(metadata_)
  /\ LET record == metadata_[Len(metaIndex) + 1]
         result == FoldLeft(EncodeString, [out |-> outputMeta, used |-> usedStrings_], record)
     IN  IF \E i \in DOMAIN record : Len(record[i]) >= Remote
           THEN phase' = "fatal" /\ UNCHANGED <<outputMeta, usedStrings_, metaIndex>>
           ELSE /\ outputMeta' = result.out /\ usedStrings_' = result.used
                /\ metaIndex' = Append(metaIndex, Len(outputMeta))
                /\ phase' = IF Len(metaIndex') = Len(metadata_) THEN "bbox" ELSE "meta"
  /\ UNCHANGED <<version, source, metadata_, rings, pointMap_, polygons_, outputData, file>>

\* The entry of polygon k in the list of bounding boxes: where its record and
\* its data are is written as the difference from the entry before.
BBoxEntry(k) ==
  LET polygon == polygons_[k]
      Place(j) == metaIndex[polygons_[j].meta]
      place == Place(k) - (IF k = 1 THEN 0 ELSE Place(k - 1))
      data == polygon.fileIndex - (IF k = 1 THEN 0 ELSE polygons_[k - 1].fileIndex)
  IN  Encoded(polygon.min[1]) \o Encoded(polygon.min[2]) \o Encoded(polygon.max[1])
        \o Encoded(polygon.max[2]) \o Encoded(place) \o Digits[data]

FieldNames == IF source.tableType = Timezones THEN TimezoneFields ELSE CountryFields

Header(bboxSize) ==
  Magic \o <<source.tableType, version, Precision, Len(FieldNames)>>
    \o FlattenSeq([i \in DOMAIN FieldNames |-> EncodedString(FieldNames[i])])
    \o EncodedString(Notice)
    \o Digits[bboxSize] \o Digits[Len(outputMeta)] \o Digits[Len(outputData)]

Write ==
  /\ phase = "bbox"
  /\ LET outputBBox == FlattenSeq([k \in DOMAIN polygons_ |-> BBoxEntry(k)])
     IN  file' = Header(Len(outputBBox)) \o outputBBox \o outputMeta \o outputData
  /\ phase' = "written"
  /\ UNCHANGED <<version, source, metadata_, rings, pointMap_, polygons_, outputData, outputMeta, usedStrings_, metaIndex>>

Next == ReadMetaData \/ ReadPolygon \/ ReadOrigin \/ SortPolygons \/ EncodePolygon \/ EncodeRecord \/ Write

Spec == Init /\ [][Next]_vars
=============================================================================
