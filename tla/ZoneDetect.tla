----------------------------- MODULE ZoneDetect -----------------------------
(***************************************************************************)
(* The ZoneDetect library (gaia/ZoneDetect/library/zonedetect.c): a file   *)
(* is opened, and the zones in which a point lies are looked up.  ZDLookup *)
(* goes through the bounding boxes one after the other; for those that     *)
(* contain the point it walks around the polygon and adds up quadrants.    *)
(* Floats are exact fractions here, and malloc does not fail.              *)
(***************************************************************************)
EXTENDS ZoneBytes

CONSTANTS Targets,     \* fixed-point positions that are looked up
          MaxPoints    \* points of a polygon that fit into the largest list

VARIABLES library,     \* the open database, or Closed
          scan,        \* the lookup in progress, or Idle
          results,     \* its results so far: [polygonId, metaId, lookupResult, data]
          answer       \* [target, results, distance] of the latest lookup

vars == <<library, scan, results, answer>>

Closed == [open |-> FALSE]
Idle == [step |-> "idle"]
NoAnswer == [given |-> FALSE]

Init == library = Closed /\ scan = Idle /\ results = <<>> /\ answer = NoAnswer
-----------------------------------------------------------------------------
\* Strings one behind the other.
NextString(s, string) ==
  [ok |-> s.ok /\ string.ok, at |-> string.at, strings |-> Append(s.strings, string.value)]

\* ZDParseHeader.
FieldNamesAt(file) ==
  FoldLeft(LAMBDA s, i : NextString(s, StringAt(file, s.at, 0)),
           [ok |-> TRUE, at |-> 7, strings |-> <<>>], [i \in 1..file[7] |-> i])

\* Mutant of AsLongAsSaid: the sizes are not compared with the file's length.
AsLongAsSaidUnchecked(file, sizes) == sizes.ok

\* The sizes of the three sections end where the file ends.
AsLongAsSaid(file, sizes) ==
  sizes.ok /\ sizes.at + sizes.values[1] + sizes.values[2] + sizes.values[3] = Len(file)

ParsedSizes(file, fieldNames, notice, sizes) ==
  IF ~notice.ok \/ ~AsLongAsSaid(file, sizes) THEN Closed
  ELSE [open |-> TRUE, file |-> file, tableType |-> file[4], version |-> file[5],
        precision |-> file[6], numFields |-> file[7],
        fieldNames |-> fieldNames, notice |-> notice.value,
        bboxOffset |-> sizes.at, metadataOffset |-> sizes.at + sizes.values[1],
        dataOffset |-> sizes.at + sizes.values[1] + sizes.values[2]]

ParsedNotice(file, fieldNames, notice) ==
  ParsedSizes(file, fieldNames, notice, NumbersAt(file, notice.at, 3))

ParsedFields(file, fields) == ParsedNotice(file, fields.strings, StringAt(file, fields.at, 0))

Parsed(file) ==
  IF Len(file) < 7 \/ SubSeq(file, 1, 3) # Magic \/ file[5] >= 2 THEN Closed
  ELSE ParsedFields(file, FieldNamesAt(file))

\* ZDOpenDatabase, ZDOpenDatabaseFromMemory: a file whose header does not fit
\* is closed again.
OpenDatabase(file) ==
  /\ ~library.open
  /\ library' = IF Len(file) = 0 THEN Closed ELSE Parsed(file)
  /\ UNCHANGED <<scan, results, answer>>

\* ZDCloseDatabase, when no lookup is in progress.
CloseDatabase ==
  /\ library.open /\ scan = Idle /\ ~answer.given
  /\ library' = Closed
  /\ UNCHANGED <<scan, results, answer>>
-----------------------------------------------------------------------------
\* struct Reader after ZDReaderInit.
NewReader(polygonIndex) ==
  [at |-> polygonIndex, numVertices |-> 0, done |-> 0, first |-> TRUE,
   refAt |-> 0, refEnd |-> 0, direction |-> 0, point |-> <<0, 0>>, firstPoint |-> <<0, 0>>]

Error(reader) == [status |-> -1, reader |-> reader]
Ended(reader) == [status |-> 0, reader |-> reader]

\* Version 1: the next number, from the polygon itself or from the data it
\* refers to, which ends where the reference ends.
NumberOf(lib, r) ==
  IF r.direction = 0 THEN DecodedAt(lib.file, r.at)
  ELSE IF r.direction > 0 THEN DecodedAt(lib.file, r.refAt)
  ELSE DecodedBefore(lib.file, r.refAt)

MovedTo(r, at) ==
  IF r.direction = 0 THEN [r EXCEPT !.at = at]
  ELSE IF (r.direction > 0 /\ at >= r.refEnd) \/ (r.direction < 0 /\ at <= r.refEnd)
    THEN [r EXCEPT !.refAt = at, !.direction = 0]
  ELSE [r EXCEPT !.refAt = at]

\* A 0 and a 1: the reference that follows is entered.
Entered(r, at, start, diff) ==
  LET back == IF diff < 0 THEN 1 ELSE 0
  IN  [status |-> 1, reader |-> [r EXCEPT !.at = at, !.direction = diff, !.refAt = start - back,
                                          !.refEnd = start + diff - back]]

EnterReference(lib, r, numbers) ==
  IF ~numbers.ok THEN Error(r)
  ELSE Entered(r, numbers.at, lib.dataOffset + numbers.values[1], Signed(numbers.values[2]))

\* The reader moves to its next point: by a difference, or back to the first
\* point to close the polygon.
Advanced(r, diff) ==
  LET p == <<r.point[1] + diff[1], r.point[2] + diff[2]>>
  IN  IF r.done > 0 THEN [r EXCEPT !.point = r.firstPoint, !.done = 2, !.first = FALSE]
      ELSE [r EXCEPT !.point = p, !.firstPoint = IF r.first THEN p ELSE @, !.first = FALSE]

\* ZDReaderGetPoint for version 1: a difference, the end marker (0, 0), or a
\* reference (0, 1), whose first difference is read at once.
Times(sign, point) == <<sign * point[1], sign * point[2]>>

RECURSIVE GetPointV1(_, _)
FollowReference(lib, entered) ==
  IF entered.status < 0 THEN entered ELSE GetPointV1(lib, entered.reader)

AfterZero(lib, r, mark) ==
  IF r.direction # 0 \/ ~mark.ok THEN Error(r)
  ELSE IF mark.value = 1 THEN FollowReference(lib, EnterReference(lib, r, NumbersAt(lib.file, mark.at, 2)))
  ELSE [status |-> 1, reader |-> Advanced([r EXCEPT !.at = mark.at,
                                                    !.done = IF mark.value = 0 THEN 2 ELSE @], <<0, 0>>)]

AfterNumber(lib, r, number) ==
  IF ~number.ok THEN Error(r)
  ELSE IF number.value = 0 THEN AfterZero(lib, r, DecodedAt(lib.file, number.at))
  ELSE [status |-> 1, reader |-> Advanced(MovedTo(r, number.at),
                                          Times(IF r.direction < 0 THEN -1 ELSE 1, PointOf(number.value)))]

GetPointV1(lib, r) == IF r.done > 1 THEN Ended(r) ELSE AfterNumber(lib, r, NumberOf(lib, r))

\* ZDReaderGetPoint for version 0: two differences are read also when the
\* polygon is only to be closed, and a point equal to the one before is skipped.
Counted(r) == [r EXCEPT !.numVertices = @ - 1, !.done = IF r.numVertices = 1 THEN 1 ELSE @]

RECURSIVE GetPointV0(_, _)
NotTwice(lib, before, r) ==
  IF before.values = <<0, 0>> THEN GetPointV0(lib, r) ELSE [status |-> 1, reader |-> r]

NextVertex(lib, r, diff) ==
  IF ~diff.ok THEN Error(r)
  ELSE NotTwice(lib, diff, Counted(Advanced([r EXCEPT !.at = diff.at],
                                            <<Signed(diff.values[1]), Signed(diff.values[2])>>)))

FirstVertex(lib, r, count) ==
  IF ~count.ok \/ count.value = 0 THEN Error(r)
  ELSE NextVertex(lib, [r EXCEPT !.numVertices = count.value, !.at = count.at], NumbersAt(lib.file, count.at, 2))

GetPointV0(lib, r) ==
  IF r.done > 1 THEN Ended(r)
  ELSE IF r.first THEN FirstVertex(lib, r, DecodedAt(lib.file, r.at))
  ELSE NextVertex(lib, r, NumbersAt(lib.file, r.at, 2))

GetPoint(lib, reader) ==
  IF lib.version = 0 THEN GetPointV0(lib, reader) ELSE GetPointV1(lib, reader)

\* All points of a polygon, and whether it could be read to its end.
RECURSIVE Walk(_, _, _)
WalkOn(lib, next, path) ==
  IF next.status < 1 THEN [path |-> path, ok |-> next.status = 0]
  ELSE Walk(lib, next.reader, Append(path, next.reader.point))

Walk(lib, reader, path) == WalkOn(lib, GetPoint(lib, reader), path)

PathOf(lib, polygonIndex) == Walk(lib, NewReader(polygonIndex), <<>>)

\* An entry of the list of bounding boxes.
Box(numbers) ==
  IF ~numbers.ok THEN [ok |-> FALSE]
  ELSE LET n == numbers.values
       IN  [ok |-> TRUE, at |-> numbers.at, min |-> <<Signed(n[1]), Signed(n[2])>>,
            max |-> <<Signed(n[3]), Signed(n[4])>>, meta |-> Signed(n[5]), data |-> n[6]]

BoxAt(lib, at) == Box(NumbersAt(lib.file, at, 6))

\* ZDFindPolygon: the offset of the data of a polygon; 0 when there is none.
RECURSIVE FindFrom(_, _, _, _)
FindIn(lib, wanted, polygonIndex, entry) ==
  IF ~entry.ok THEN 0
  ELSE IF wanted = 0 THEN lib.dataOffset + polygonIndex + entry.data
  ELSE FindFrom(lib, wanted - 1, entry.at, polygonIndex + entry.data)

FindFrom(lib, wanted, at, polygonIndex) ==
  IF at >= lib.metadataOffset THEN 0 ELSE FindIn(lib, wanted, polygonIndex, BoxAt(lib, at))

\* ZDPolygonToList: the points of a polygon, none if it cannot be read or is too
\* long for the list.
ListOf(walk) == IF ~walk.ok \/ Len(walk.path) > MaxPoints THEN <<>> ELSE walk.path

PolygonToList(lib, wanted) ==
  LET index == FindFrom(lib, wanted, lib.bboxOffset, 0)
  IN  IF index = 0 THEN <<>> ELSE ListOf(PathOf(lib, index))
-----------------------------------------------------------------------------
Between(a, x, b) == (a <= x /\ x <= b) \/ (b <= x /\ x <= a)

\* ZDPointInBox, of the box spanned by two points.
InBox(p, x, q) == Between(p[1], x[1], q[1]) /\ Between(p[2], x[2], q[2])

Quadrant(p, target) ==
  IF p[1] >= target[1] THEN (IF p[2] >= target[2] THEN 0 ELSE 1)
                       ELSE (IF p[2] >= target[2] THEN 3 ELSE 2)

\* Where the line through two points passes the target's latitude, cut to an integer.
IntersectLon(p, q, target) ==
  LET dLat == p[1] - q[1]  dLon == p[2] - q[2]
  IN  Quotient(p[2] * dLat + (target[1] - p[1]) * dLon, dLat)

\* The winding of the step from q to p around the target, in quadrants.
TurnBetween(from, to, side) ==
  IF to = from THEN 0
  ELSE IF to = (from + 1) % 4 THEN 1
  ELSE IF from = (to + 1) % 4 THEN -1
  ELSE IF to \in {2, 3} THEN side ELSE -side

Turn(q, p, target) ==
  TurnBetween(Quadrant(q, target), Quadrant(p, target),
              IF IntersectLon(p, q, target) < target[2] THEN 2 ELSE -2)

Opposite(q, p, target) == Abs(Quadrant(p, target) - Quadrant(q, target)) = 2

Straight(q, p) == p[1] = q[1] \/ p[2] = q[2]

\* The target is on the step from q to p, or so near that fractions cannot tell.
OnSegment(q, p, target) ==
  IF Straight(q, p) THEN InBox(p, target, q) \/ Opposite(q, p, target)
  ELSE Opposite(q, p, target) /\ Abs(IntersectLon(p, q, target) - target[2]) <= 1

\* The squared distance from the target to the step, or to its end point.
LineFoot(q, p, target) ==
  LET dLat == p[1] - q[1]  dLon == p[2] - q[2]
      n == dLat * dLat + dLon * dLon
      \* a and b of lat = a * lon + b, times dLon
      b == p[1] * dLon - dLat * p[2]
      lon == target[2] * dLon * dLon + dLat * dLon * target[1] - dLat * b
      lat == dLat * (target[2] * dLon + dLat * target[1]) + b * dLon
  IN  IF ~Straight(q, p) THEN [lat |-> lat, lon |-> lon, den |-> n]
      ELSE IF p[2] = q[2] THEN [lat |-> target[1], lon |-> p[2], den |-> 1]
      ELSE [lat |-> p[1], lon |-> target[2], den |-> 1]

Square(diffLat, diffLon) == diffLat * diffLat + 4 * diffLon * diffLon

DistanceVia(q, p, target, foot) ==
  IF InBox(p, <<Quotient(foot.lat, foot.den), Quotient(foot.lon, foot.den)>>, q)
    THEN Square(Quotient(foot.lat - target[1] * foot.den, foot.den),
                Quotient(foot.lon - target[2] * foot.den, foot.den))
    ELSE Square(p[1] - target[1], p[2] - target[2])

SquaredDistance(q, p, target) == DistanceVia(q, p, target, LineFoot(q, p, target))

\* What ZDPointInPolygon says of a walk: it ends on the border, or with the
\* winding number.
Decided(walk, target, borders, winding, nearest) ==
  IF borders # {}
    THEN [verdict |-> IF walk.path[Min(borders)] = target THEN "on vertex" ELSE "on segment", distance |-> 0]
  ELSE IF ~walk.ok THEN [verdict |-> "parse error", distance |-> nearest]
  ELSE IF winding \notin {-4, 0, 4} THEN [verdict |-> "on segment", distance |-> 0]
  ELSE [verdict |-> CASE winding = -4 -> "in zone" [] winding = 4 -> "in excluded zone"
                      [] winding = 0 -> "not in zone",
        distance |-> nearest]

VerdictOn(walk, target, distance) ==
  LET Border(i) == \/ walk.path[i] = target
                   \/ i > 1 /\ OnSegment(walk.path[i - 1], walk.path[i], target)
      steps == 2..Len(walk.path)
      winding == MapThenSumSet(LAMBDA i : Turn(walk.path[i - 1], walk.path[i], target), steps)
      distances == {SquaredDistance(walk.path[i - 1], walk.path[i], target) : i \in steps}
  IN  Decided(walk, target, {i \in DOMAIN walk.path : Border(i)}, winding, Min(distances \cup {distance}))

PointInPolygon(lib, polygonIndex, target, distance) ==
  VerdictOn(PathOf(lib, polygonIndex), target, distance)
-----------------------------------------------------------------------------
Unlimited == 1000000   \* (uint64_t)-1

\* ZDLookup, of a caller who has freed what an earlier one returned.
BeginLookup(target) ==
  /\ library.open /\ scan = Idle /\ ~answer.given
  /\ scan' = [step |-> "boxes", target |-> target, at |-> library.bboxOffset,
              metadataIndex |-> 0, polygonIndex |-> 0, polygonId |-> 0, distance |-> Unlimited]
  /\ results' = <<>>
  /\ UNCHANGED <<library, answer>>

Entry == BoxAt(library, scan.at)
MoreBoxes == scan.step = "boxes" /\ scan.at < library.metadataOffset /\ Entry.ok

\* The loop ends with the list, or at the first box that begins above the target:
\* the boxes are sorted.
LeaveBoxes ==
  /\ scan.step = "boxes"
  /\ ~MoreBoxes \/ scan.target[1] < Entry.min[1]
  /\ scan' = [scan EXCEPT !.step = "clean"]
  /\ UNCHANGED <<library, results, answer>>

NextScan(distance) ==
  [scan EXCEPT !.at = Entry.at, !.metadataIndex = @ + Entry.meta, !.polygonIndex = @ + Entry.data,
               !.polygonId = @ + 1, !.distance = distance]

SkipBox ==
  /\ MoreBoxes /\ scan.target[1] >= Entry.min[1]
  /\ ~InBox(Entry.min, scan.target, Entry.max)
  /\ scan' = NextScan(scan.distance)
  /\ UNCHANGED <<library, results, answer>>

\* A verdict is a result unless the target is outside; one that could not be
\* reached ends the loop.
AddResult(found, next) ==
  IF found.verdict = "parse error"
    THEN /\ scan' = [scan EXCEPT !.step = "clean", !.distance = found.distance]
         /\ UNCHANGED results
    ELSE /\ scan' = [next EXCEPT !.distance = found.distance]
         /\ results' = IF found.verdict = "not in zone" THEN results
                       ELSE Append(results, [polygonId |-> scan.polygonId, metaId |-> next.metadataIndex,
                                             lookupResult |-> found.verdict])

\* The target lies in the box: its polygon is walked around.
TestPolygon ==
  /\ MoreBoxes /\ InBox(Entry.min, scan.target, Entry.max)
  /\ LET next == NextScan(scan.distance)
     IN  AddResult(PointInPolygon(library, library.dataOffset + next.polygonIndex, scan.target, scan.distance),
                   next)
  /\ UNCHANGED <<library, answer>>

\* One round of the clean-up: the results of one zone become one result, a border
\* if any of them is one, or else what is left when exclusions are subtracted.
Merged(rs, i) ==
  LET same == {j \in i..Len(rs) : rs[j].metaId = rs[i].metaId}
      borders == {j \in same : rs[j].lookupResult \in {"on vertex", "on segment"}}
      Count(verdict) == Cardinality({j \in same : rs[j].lookupResult = verdict})
      total == IF borders # {} THEN rs[Max(borders)].lookupResult
               ELSE IF Count("in zone") # Count("in excluded zone") THEN "in zone" ELSE "ignore"
  IN  [j \in DOMAIN rs |-> IF j \notin same THEN rs[j]
                           ELSE [rs[j] EXCEPT !.lookupResult = IF j = i THEN total ELSE "ignore"]]

CleanUp ==
  /\ scan.step = "clean"
  /\ results' = SelectSeq(FoldLeft(Merged, results, [i \in DOMAIN results |-> i]),
                          LAMBDA r : r.lookupResult # "ignore")
  /\ scan' = [scan EXCEPT !.step = "metadata"]
  /\ UNCHANGED <<library, answer>>

\* The strings of a zone.
DataOf(metaId) ==
  FoldLeft(LAMBDA s, i : NextString(s, StringAt(library.file, s.at, library.metadataOffset)),
           [ok |-> TRUE, at |-> library.metadataOffset + metaId, strings |-> <<>>],
           [i \in 1..library.numFields |-> i])

Answer(data) ==
  [given |-> TRUE, target |-> scan.target, distance |-> scan.distance,
   ok |-> \A i \in DOMAIN data : data[i].ok,
   results |-> [i \in DOMAIN results |->
                  [polygonId |-> results[i].polygonId, metaId |-> results[i].metaId,
                   lookupResult |-> results[i].lookupResult, data |-> data[i].strings]]]

\* The metadata is added and the lookup returns; nothing when a string is broken.
Return ==
  /\ scan.step = "metadata"
  /\ answer' = Answer([i \in DOMAIN results |-> DataOf(results[i].metaId)])
  /\ scan' = Idle /\ results' = <<>>
  /\ UNCHANGED library

FieldOf(result, name) ==
  LET i == SelectLastInSeq(library.fieldNames, LAMBDA n : n = name)
  IN  IF i = 0 THEN <<>> ELSE result.data[i]

\* ZDHelperSimpleLookupString of an answer: the identifier of the first zone,
\* put together again; empty for NULL.
LookupString(a) ==
  IF ~a.ok \/ a.results = <<>> THEN <<>>
  ELSE IF library.tableType = Timezones
    THEN FieldOf(a.results[1], TimezoneFields[1]) \o FieldOf(a.results[1], TimezoneFields[2])
  ELSE IF library.tableType = Countries THEN FieldOf(a.results[1], CountryFields[2])
  ELSE <<>>

\* ZDFreeResults.
FreeResults ==
  /\ answer.given /\ answer' = NoAnswer
  /\ UNCHANGED <<library, scan, results>>

Next ==
  \/ \E target \in Targets : BeginLookup(target)
  \/ LeaveBoxes \/ SkipBox \/ TestPolygon \/ CleanUp \/ Return
  \/ FreeResults \/ CloseDatabase
=============================================================================
