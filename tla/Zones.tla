------------------------------- MODULE Zones -------------------------------
(***************************************************************************)
(* ZoneDetect end to end: the builder writes a database, and the library   *)
(* opens it, or what a broken copy has left of it, and looks positions up. *)
(* The properties compare what the library finds in the bytes with the     *)
(* rings of the shapefile.                                                 *)
(***************************************************************************)
EXTENDS ZoneBuilder

CONSTANTS Targets, MaxPoints

VARIABLES library, scan, results, answer

D == INSTANCE ZoneDetect

detectVars == <<library, scan, results, answer>>

ZonesInit == Init /\ D!Init

\* The file, or the beginning of it, is opened once the builder is done.
Open ==
  /\ phase = "written" /\ ~answer.given
  /\ \E length \in 0..Len(file) : D!OpenDatabase(SubSeq(file, 1, length))

ZonesNext ==
  \/ Next /\ UNCHANGED detectVars
  \/ (Open \/ D!Next) /\ UNCHANGED vars

ZonesSpec == ZonesInit /\ [][ZonesNext]_<<vars, detectVars>>
-----------------------------------------------------------------------------
\* A database opens only if it is whole: no length at which a copy may have
\* stopped passes for a file (ZDParseHeader compares the sizes).
OnlyWholeFilesOpen == library.open => library.file = file

Resting == library.open /\ scan = D!Idle /\ ~answer.given

Cross(p, q, r) == (q[1] - p[1]) * (r[2] - p[2]) - (q[2] - p[2]) * (r[1] - p[1])
OnStep(p, q, r) == Cross(p, q, r) = 0 /\ D!InBox(p, r, q)

\* A corner q between p and r is all but straight when neither coordinate turns back
\* and the line through q and r passes p by less than a unit of longitude, which is
\* lost where sameDirection divides.  The builder sees a corner in the order of one of
\* the rings that it belongs to.
Onward(p, q, r) ==
  /\ \A axis \in {1, 2} : (q[axis] - p[axis]) * (r[axis] - q[axis]) >= 0
  /\ IF r[1] = q[1] THEN p[1] = q[1] ELSE Abs(Cross(p, q, r)) < Abs(r[1] - q[1])
AlmostStraight(p, q, r) == Onward(p, q, r) \/ Onward(r, q, p)

\* A ring is kept as drawn when it begins and ends as it did, and what is left
\* out between two points that are kept are corners that are all but straight.
KeptAsDrawn(drawn, kept) ==
  LET Place(i) == IF i = Len(kept) THEN Len(drawn) ELSE SelectInSeq(drawn, LAMBDA p : p = kept[i])
  IN  /\ kept # <<>> /\ kept[1] = drawn[1] /\ Last(kept) = Last(drawn)
      /\ \A i \in 1..Len(kept) - 1 :
            /\ 0 < Place(i) /\ Place(i) < Place(i + 1)
            /\ \A j \in Place(i) + 1..Place(i + 1) - 1 : AlmostStraight(drawn[j - 1], drawn[j], drawn[j + 1])

\* Every polygon read back from the file is the ring that was drawn, closed, with
\* nothing lost but corners that are each all but straight: references to the border
\* of another ring lead over the same points in the right direction, wherever they
\* begin.  Of version 0 the last polygon cannot be read: behind its last
\* point the reader asks for one more (zonedetect.c:526).
ReadsBackAsDrawn ==
  Resting => \A k \in DOMAIN polygons_ :
                version = 1 \/ k < Len(polygons_) =>
                  KeptAsDrawn(polygons_[k].points, D!PolygonToList(library, k - 1))

\* The rings of a zone, and where a position is relative to one of them: the
\* reference counts the steps that cross its latitude east of it.
RingsOf(zone) == {k \in DOMAIN polygons_ : polygons_[k].meta = zone}
Steps(ring) == 1..Len(ring) - 1
OnRing(t, ring) == \E i \in Steps(ring) : OnStep(ring[i], ring[i + 1], t)
CrossesEast(p, q, t) ==
  /\ (p[1] > t[1]) # (q[1] > t[1])
  /\ IF p[1] > q[1] THEN Cross(q, p, t) < 0 ELSE Cross(p, q, t) < 0
Within(t, ring) == Cardinality({i \in Steps(ring) : CrossesEast(ring[i], ring[i + 1], t)}) % 2 = 1

Tolerance == 2
NearRing(t, ring) == \E d \in -Tolerance..Tolerance : OnRing(<<t[1], t[2] + d>>, ring)

On(zone, t) == \E k \in RingsOf(zone) : OnRing(t, polygons_[k].points)
Near(zone, t) == \E k \in RingsOf(zone) : NearRing(t, polygons_[k].points)
InZone(zone, t) == Cardinality({k \in RingsOf(zone) : Within(t, polygons_[k].points)}) % 2 = 1

Zones == DOMAIN metadata_
MetaIdOf(zone) == metaIndex[zone]
FoundAs(zone) == {answer.results[i].lookupResult :
                    i \in {j \in DOMAIN answer.results : answer.results[j].metaId = MetaIdOf(zone)}}

\* A zone is found just when the position is in it: not in its hole, on its border as
\* such, and it is not missed because a box ended the search.  Only within rounding of
\* a border may border be said for inside or outside.
Finds(zone) ==
  LET as == FoundAs(zone)
  IN  /\ Cardinality(as) <= 1
      /\ On(zone, answer.target) => as # {} /\ as \subseteq {"on vertex", "on segment"}
      /\ ~Near(zone, answer.target) => as = IF InZone(zone, answer.target) THEN {"in zone"} ELSE {}

\* A lookup finds the area a point belongs to, as the library's README says: just the
\* zones that the position is in.  But corners that are all but straight for the
\* builder may, where the step behind them is long, be far from straight.
LookupFindsTheZones == answer.given => answer.ok /\ \A zone \in Zones : Finds(zone)

\* No corner of the zone is all but straight without being so.
Sharp(zone) ==
  \A k \in RingsOf(zone) : \A i \in 2..Len(polygons_[k].points) - 1 :
     LET corner(n) == polygons_[k].points[i + n]
     IN  AlmostStraight(corner(-1), corner(0), corner(1)) => Cross(corner(-1), corner(0), corner(1)) = 0

Identifier(zone) == IF source.tableType = Timezones THEN source.attributes[zone]
                    ELSE metadata_[zone][2]

\* The simple lookup names a zone by the identifier the shapefile has for it, put
\* together from strings that may be stored with other zones.
NamesAZone ==
  LET near == {zone \in Zones : FoundAs(zone) # {}}
  IN  IF near = {} THEN D!LookupString(answer) = <<>>
      ELSE \E zone \in near : Identifier(zone) = D!LookupString(answer)
                               /\ MetaIdOf(zone) = answer.results[1].metaId

\* The two things a client asks for: which zones, and what they are called.  Zones
\* whose corners the builder may have dropped are left out, and in version 0 the zone
\* of the last polygon, where a lookup breaks off.
FindsAndNamesZones ==
  answer.given =>
    /\ answer.ok /\ NamesAZone
    /\ \A zone \in Zones : Sharp(zone) /\ (version = 1 \/ Len(polygons_) \notin RingsOf(zone)) => Finds(zone)
=============================================================================
