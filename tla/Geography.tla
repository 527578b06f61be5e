----------------------------- MODULE Geography -----------------------------
(***************************************************************************)
(* Positions, polygons and circles (gaia_geography.cpp).  A position is    *)
(* <<latitude, longitude>> in whole units, a polygon the sequence of its   *)
(* corners; lengths are metres.  Doubles are exact fractions here, what    *)
(* ZDLookup finds (ZoneDetect) is stated directly.                         *)
(***************************************************************************)
EXTENDS Integers, FiniteSets, SequencesExt, FiniteSetsExt

CONSTANTS Positions,     \* that are asked for
          Ground,        \* positions on which circles are compared with polygons
          Polygons,      \* that are asked for with a position
          PolygonPairs,  \* <<locations, otherlocations>>
          Rectangles,    \* sequences of [northLimit, southLimit, eastLimit, westLimit]
          Circles,       \* [locations, center, radius]
          Requests,      \* [path, country, center, radius, padding, promote]
          Databases,     \* path -> polygons [alpha3, points] of a database; <<>> is no database
          Alpha3Codes,   \* M49 code -> ISO 3166 code
          Pole,          \* 900000000
          LatMetres,     \* kMetersPerDegLat
          LonMetres      \* latitude -> the same along a parallel

VARIABLES country_db, answer

Plane == Int \X Int

\* Positions are whole numbers of units; of a database, only the codes and the
\* corners matter.
ASSUME GeographyAssumption ==
  /\ Pole \in Int /\ LatMetres \in Int
  /\ Positions \subseteq Plane /\ Ground \subseteq Plane
  /\ Polygons \subseteq Seq(Plane) /\ PolygonPairs \subseteq Seq(Plane) \X Seq(Plane)
  /\ \A circle \in Circles : /\ circle.locations \in Seq(Plane) /\ circle.center \in Plane /\ circle.radius \in Int
                            /\ LonMetres[circle.center[1]] \in Int
  /\ \A request \in Requests : request.center \in Plane /\ request.radius \in Int /\ request.padding \in Int
  /\ \A path \in DOMAIN Databases : Databases[path] \in Seq([alpha3 : STRING, points : Seq(Plane)])

vars == <<country_db, answer>>

NoDatabase == "none"
NoAnswer == [op |-> "none"]

Init == country_db = NoDatabase /\ answer = NoAnswer
-----------------------------------------------------------------------------
Abs(n) == IF n < 0 THEN -n ELSE n
Sign(n) == IF n > 0 THEN 1 ELSE IF n < 0 THEN -1 ELSE 0

CrossProduct(p, q, r) == (q[1] - p[1]) * (r[2] - p[2]) - (r[1] - p[1]) * (q[2] - p[2])
Ccw(p, q, r) == Sign(CrossProduct(p, q, r))

\* The i-th corner; behind the last comes the first.
Corner(locations, i) == locations[((i - 1) % Len(locations)) + 1]

Between(n, m, k) == (m <= n /\ n <= k) \/ (k <= n /\ n <= m)
Meeting(on, crosses) == [on |-> on, crosses |-> crosses]

\* Mutant of LineSegmentIntersection: a border that only touches the meridian at a
\* corner counts like one that crosses it.
CountTouches(previous, a, b, next, here) ==
  LET north == <<Pole, here[2]>>
      sides == Ccw(a, b, here) * Ccw(a, b, north)
      ends == Ccw(here, north, a) * Ccw(here, north, b)
  IN  IF sides = 0 /\ ends = 0
        THEN Meeting(Between(here[1], a[1], b[1]),
                     /\ IF a[1] < b[1] THEN here[1] < a[1] ELSE here[1] <= b[1]
                     /\ (here[2] - previous[2]) * (next[2] - here[2]) < 0)
      ELSE IF sides < 0 /\ ends < 0 THEN Meeting(FALSE, TRUE)
      ELSE IF Ccw(a, b, here) = 0
        THEN Meeting(here = a \/ (here # b /\ Between(here[1], a[1], b[1])), FALSE)
      ELSE Meeting(a = here /\ Ccw(here, north, a) = 0, Ccw(here, north, a) = 0 /\ here[1] <= a[1])

\* The border from a to b, with the corners before and after it, and the meridian
\* from here to the pole: whether here is on the border, whether they cross.  A
\* corner on the meridian is counted with the border that begins there, and not
\* at all when both borders lie on one side of it; a border along the meridian
\* counts when its neighbours lie on the same side.
LineSegmentIntersection(previous, a, b, next, here) ==
  LET north == <<Pole, here[2]>>
      sides == Ccw(a, b, here) * Ccw(a, b, north)
      ends == Ccw(here, north, a) * Ccw(here, north, b)
      SameSide == (here[2] - previous[2]) * (next[2] - here[2]) < 0
      Touches == (b[2] - a[2]) * (a[2] - previous[2]) < 0
  IN  IF sides = 0 /\ ends = 0
        THEN Meeting(Between(here[1], a[1], b[1]),
                     SameSide /\ (IF a[1] < b[1] THEN here[1] < a[1] ELSE here[1] <= b[1]))
      ELSE IF sides < 0 /\ ends < 0 THEN Meeting(FALSE, TRUE)
      ELSE IF Ccw(a, b, here) = 0   \* of a parallel, only the latitude is compared
        THEN Meeting(here = a \/ (here # b /\ (\/ (a[1] <= here[1] /\ here[1] < b[1])
                                               \/ (b[1] <= here[1] /\ here[1] < a[1])
                                               \/ (a[1] = b[1] /\ a[1] = here[1]))), FALSE)
      ELSE IF Ccw(here, north, a) = 0
        THEN Meeting(a = here, a # here /\ here[1] <= a[1] /\ ~Touches)
      ELSE Meeting(FALSE, FALSE)

InsidePolygonIndicator(locations, here) ==
  LET Met(i) == LineSegmentIntersection(Corner(locations, i), Corner(locations, i + 1),
                                        Corner(locations, i + 2), Corner(locations, i + 3), here)
  IN  \/ \E i \in DOMAIN locations : Met(i).on
      \/ Cardinality({i \in DOMAIN locations : Met(i).crosses}) % 2 = 1

\* Mutant of Cuts: the bounds are not strict.
CutsOrMeets(p, q, start, end) ==
  LET dLat == q[1] - p[1]  dLon == q[2] - p[2]
      eLat == end[1] - start[1]  eLon == end[2] - start[2]
      den == dLat * eLon - eLat * dLon
      num == (end[1] - q[1]) * dLon * eLon + dLat * eLon * q[2] - eLat * dLon * end[2]
  IN  /\ dLon # 0 /\ eLon # 0 /\ den # 0
      /\ \A pair \in {<<p, q>>, <<start, end>>} :
            LET lons == {pair[1][2], pair[2][2]}
            IN  Sign(den) * num >= Min(lons) * Abs(den) /\ Sign(den) * num <= Max(lons) * Abs(den)

\* Where two lines meet lies strictly between the ends of both.  A slope divided by
\* a difference of longitudes of 0 is infinite or no number, and then the longitude
\* that is compared is no number: nothing is cut.
Cuts(p, q, start, end) ==
  LET dLat == q[1] - p[1]  dLon == q[2] - p[2]
      eLat == end[1] - start[1]  eLon == end[2] - start[2]
      den == dLat * eLon - eLat * dLon
      num == (end[1] - q[1]) * dLon * eLon + dLat * eLon * q[2] - eLat * dLon * end[2]
  IN  /\ dLon # 0 /\ eLon # 0 /\ den # 0
      /\ \A pair \in {<<p, q>>, <<start, end>>} :
            LET lons == {pair[1][2], pair[2][2]}
            IN  Sign(den) * num > Min(lons) * Abs(den) /\ Sign(den) * num < Max(lons) * Abs(den)

LineInPolygon(locations, start, end) ==
  /\ InsidePolygonIndicator(locations, start) /\ InsidePolygonIndicator(locations, end)
  /\ \A i \in DOMAIN locations : ~Cuts(locations[i], Corner(locations, i + 1), start, end)

PolygonInsidePolygonIndicator(locations, otherlocations) ==
  \A i \in DOMAIN otherlocations : LineInPolygon(locations, otherlocations[i], Corner(otherlocations, i + 1))

InsideRectangleIndicator(rectangles, here) ==
  \E i \in DOMAIN rectangles :
     /\ here[1] <= rectangles[i].northLimit /\ here[1] >= rectangles[i].southLimit
     /\ here[2] <= rectangles[i].eastLimit /\ here[2] >= rectangles[i].westLimit
-----------------------------------------------------------------------------
Dot(p, q) == p[1] * q[1] + p[2] * q[2]
Minus(p, q) == <<p[1] - q[1], p[2] - q[2]>>

\* pointSegmentDistSquared, a fraction: from an end, or from the foot of the
\* perpendicular.
SegmentDistance(p, a, b) ==
  LET v == Minus(b, a)  t == Dot(Minus(p, a), v)  cross == CrossProduct(a, b, p)
  IN  IF t <= 0 THEN [num |-> Dot(Minus(p, a), Minus(p, a)), den |-> 1]
      ELSE IF t >= Dot(v, v) THEN [num |-> Dot(Minus(p, b), Minus(p, b)), den |-> 1]
      ELSE [num |-> cross * cross, den |-> Dot(v, v)]

\* Metres north and east of the centre, on the plane that touches there.
Local(p, center) == <<(p[1] - center[1]) * LatMetres, (p[2] - center[2]) * LonMetres[center[1]]>>

\* checkCircleInsidePolygonDeg: no border nearer than the radius.
CheckCircleInsidePolygon(locations, center, radius) ==
  /\ Len(locations) >= 3 /\ radius > 0
  /\ \A i \in DOMAIN locations :
        LET d == SegmentDistance(<<0, 0>>, Local(locations[i], center), Local(Corner(locations, i + 1), center))
        IN  d.num >= radius * radius * d.den

CircleInsidePolygon(locations, center, radius) ==
  /\ Len(locations) >= 3
  /\ InsidePolygonIndicator(locations, center)
  /\ CheckCircleInsidePolygon(locations, center, radius)
-----------------------------------------------------------------------------
M49ToAlpha3(code) == IF code \in DOMAIN Alpha3Codes THEN Alpha3Codes[code] ELSE ""

\* What ZDLookup finds: the polygons whose box holds the position, ...
Border(points, p) ==
  \E i \in DOMAIN points : LET a == points[i]  b == Corner(points, i + 1)
                           IN  Ccw(a, b, p) = 0 /\ Between(p[1], a[1], b[1]) /\ Between(p[2], a[2], b[2])
Winds(points, p) ==
  Cardinality({i \in DOMAIN points :
     LET a == points[i]  b == Corner(points, i + 1)
     IN  (a[2] > p[2]) # (b[2] > p[2]) /\ Sign(b[2] - a[2]) * CrossProduct(a, b, p) < 0}) % 2 = 1
Boxed(points, p) ==
  \A k \in {1, 2} : LET side == {points[i][k] : i \in DOMAIN points} IN  Min(side) <= p[k] /\ p[k] <= Max(side)

\* ...the countries it is in, whose holes it is not in, ...
Touching(path, alpha3, p) ==
  {k \in DOMAIN Databases[path] : LET polygon == Databases[path][k]
                                  IN  polygon.alpha3 = alpha3 /\ (Border(polygon.points, p) \/ Winds(polygon.points, p))}
InCountry(path, alpha3, p) ==
  LET ks == Touching(path, alpha3, p)
  IN  (\E k \in ks : Border(Databases[path][k].points, p)) \/ Cardinality(ks) % 2 = 1

\* ...and the square of the distance to the nearest border of a polygon whose box
\* holds the position, with a degree as long in every direction.
SafeSquare(path, p) ==
  LET points == UNION {{<<Databases[path][k].points[i], Corner(Databases[path][k].points, i + 1)>> :
                          i \in DOMAIN Databases[path][k].points} :
                        k \in {j \in DOMAIN Databases[path] : Boxed(Databases[path][j].points, p)}}
      squares == {SegmentDistance(p, edge[1], edge[2]) : edge \in points}
  IN  CHOOSE d \in squares : \A e \in squares : d.num * e.den <= e.num * d.den

\* getPolygonId: the first polygon of the country's result; polygons count from 0,
\* and 0 stands for none as well.
PolygonId(path, alpha3, p) ==
  IF ~InCountry(path, alpha3, p) THEN 0 ELSE Min(Touching(path, alpha3, p)) - 1

\* The radius and what is added to it reach no farther than the nearest border.
Fits(reach, request, square) ==
  (request.radius + reach) * (request.radius + reach) * square.den <= LatMetres * LatMetres * square.num

FastCheck(request, square) ==
  IF ~Fits(request.padding, request, square) THEN "OUT_OF_BORDER"
  ELSE IF Fits(request.padding + request.promote, request, square) THEN "SUCCESS"
  ELSE "NEED_TO_PRECISE_CHECK"

\* circleInsideCountryAt, with a database.
CircleInsideCountry(path, request) ==
  LET alpha3 == M49ToAlpha3(request.country)
      polygonId == PolygonId(path, alpha3, request.center)
      fast == FastCheck(request, SafeSquare(path, request.center))
  IN  /\ Abs(request.center[1]) <= Pole /\ Abs(request.center[2]) <= 2 * Pole
      /\ polygonId # 0
      /\ \/ fast = "SUCCESS"
         \/ fast = "NEED_TO_PRECISE_CHECK"
              /\ CheckCircleInsidePolygon(Databases[path][polygonId + 1].points, request.center, request.radius)
-----------------------------------------------------------------------------
AskInside(locations, here) ==
  /\ answer' = [op |-> "inside", locations |-> locations, here |-> here,
                result |-> InsidePolygonIndicator(locations, here)]
  /\ UNCHANGED country_db

AskPolygon(pair) ==
  /\ answer' = [op |-> "polygon", locations |-> pair[1], other |-> pair[2],
                result |-> PolygonInsidePolygonIndicator(pair[1], pair[2])]
  /\ UNCHANGED country_db

AskRectangle(rectangles, here) ==
  /\ answer' = [op |-> "rectangle", rectangles |-> rectangles, here |-> here,
                result |-> InsideRectangleIndicator(rectangles, here)]
  /\ UNCHANGED country_db

AskCircle(circle) ==
  /\ answer' = [op |-> "circle", locations |-> circle.locations, center |-> circle.center, radius |-> circle.radius,
                result |-> CircleInsidePolygon(circle.locations, circle.center, circle.radius)]
  /\ UNCHANGED country_db

\* dbInit: every path must lead to a file, but only the first database is opened;
\* one that does not open is tried again by the next call.
Used(path) == IF country_db = NoDatabase THEN path ELSE country_db

AskCountry(request) ==
  LET path == Used(request.path)
  IN  IF request.path \notin DOMAIN Databases \/ Databases[path] = <<>> \/ M49ToAlpha3(request.country) = ""
        THEN /\ answer' = [op |-> "throws", request |-> request]
             /\ country_db' = IF request.path \in DOMAIN Databases /\ Databases[path] # <<>> THEN path ELSE country_db
      ELSE /\ answer' = [op |-> "country", request |-> request,
                         result |-> CircleInsideCountry(path, request)]
           /\ country_db' = path

\* getCountryCodeFromLatLon: the first country that ZDLookup finds.
AskCode(path, here) ==
  LET used == Used(path)
      found == {k \in DOMAIN Databases[used] : InCountry(used, Databases[used][k].alpha3, here)
                                              /\ k \in Touching(used, Databases[used][k].alpha3, here)}
  IN  /\ path \in DOMAIN Databases /\ Databases[used] # <<>>
      /\ answer' = [op |-> "code", here |-> here,
                    result |-> IF found = {} THEN "" ELSE Databases[used][Min(found)].alpha3]
      /\ country_db' = used

\* The caller has its answer, and may ask again.
Return == answer # NoAnswer /\ answer' = NoAnswer /\ UNCHANGED country_db

Next ==
  \/ /\ answer = NoAnswer
     /\ \/ \E locations \in Polygons, here \in Positions : AskInside(locations, here)
        \/ \E pair \in PolygonPairs : AskPolygon(pair)
        \/ \E rectangles \in Rectangles, here \in Positions : AskRectangle(rectangles, here)
        \/ \E circle \in Circles : AskCircle(circle)
        \/ \E request \in Requests : AskCountry(request) \/ AskCode(request.path, request.center)
  \/ Return

Spec == Init /\ [][Next]_vars
-----------------------------------------------------------------------------
Within(locations, p) == Border(locations, p) \/ Winds(locations, p)

\* The cases that the meridian test gets wrong: a position on the latitude of a
\* border along a parallel, a corner that only divides a border along a meridian,
\* and a corner, or the position, that is not south of the pole, where the meridian
\* ends.
LevelWithParallel(locations, p) ==
  \E i \in DOMAIN locations : locations[i][1] = p[1] /\ Corner(locations, i + 1)[1] = p[1]
DividedMeridian(locations) ==
  \E i \in DOMAIN locations : Cardinality({Corner(locations, i + n)[2] : n \in 0..2}) = 1
SouthOfPole(locations, p) == p[1] < Pole /\ \A i \in DOMAIN locations : locations[i][1] < Pole
Sound(locations, p) == ~LevelWithParallel(locations, p) /\ ~DividedMeridian(locations) /\ SouthOfPole(locations, p)

\* A position on the latitude of a border along a parallel is what the comments of
\* lineSegmentIntersection say: on the border it is inside, beside it it does not meet
\* it, and the other borders decide.  Away from such latitudes InsideIsRight says so.
InsideMeansInside ==
  /\ answer.op = "inside" /\ LevelWithParallel(answer.locations, answer.here)
  /\ ~DividedMeridian(answer.locations) /\ SouthOfPole(answer.locations, answer.here)
  => answer.result = Within(answer.locations, answer.here)

\* In all but these cases the test by crossings of the meridian is right, with
\* corners on the meridian, borders along it and positions on a border.
InsideIsRight ==
  answer.op = "inside" /\ Sound(answer.locations, answer.here) =>
    answer.result = Within(answer.locations, answer.here)

Properly(p, q, start, end) ==
  Ccw(p, q, start) * Ccw(p, q, end) < 0 /\ Ccw(start, end, p) * Ccw(start, end, q) < 0
OnMeridian(p, q) == p[2] = q[2]

\* A polygon that is reported inside another has its corners there, and no border
\* cuts one of the other's unless one of the two runs along a meridian; a polygon
\* of which that is true is never refused.
PolygonStaysInside ==
  answer.op = "polygon" /\ (\A i \in DOMAIN answer.other : Sound(answer.locations, answer.other[i])) =>
    LET Edges(l) == {<<l[i], Corner(l, i + 1)>> : i \in DOMAIN l}
    IN  answer.result = /\ \A i \in DOMAIN answer.other : Within(answer.locations, answer.other[i])
                        /\ \A e \in Edges(answer.locations), f \in Edges(answer.other) :
                              OnMeridian(e[1], e[2]) \/ OnMeridian(f[1], f[2])
                                \/ ~Properly(e[1], e[2], f[1], f[2])

Inner(p, center, reach) == LET local == Local(p, center) IN  Dot(local, local) < reach * reach

\* A circle that is reported inside a polygon, or inside a country, has nothing
\* outside: for a country with its padding, when a degree is as long along the
\* parallel and no hole is so far off that its box leaves the centre out.
CirclesStayInside ==
  /\ answer.op = "circle" /\ answer.result /\ Sound(answer.locations, answer.center) =>
       \A p \in Ground : Inner(p, answer.center, answer.radius) => Within(answer.locations, p)
  /\ answer.op = "country" /\ answer.result /\ LonMetres[answer.request.center[1]] = LatMetres =>
       LET alpha3 == M49ToAlpha3(answer.request.country)
           own == {k \in DOMAIN Databases[country_db] : Databases[country_db][k].alpha3 = alpha3}
       IN  (\A k \in own : Boxed(Databases[country_db][k].points, answer.request.center)) =>
             \A p \in Ground : Inner(p, answer.request.center, answer.request.radius + answer.request.padding)
                                   => InCountry(country_db, alpha3, p)

\* A polygon or a circle that is reported inside a region is.
StaysInside == PolygonStaysInside /\ CirclesStayInside
=============================================================================
