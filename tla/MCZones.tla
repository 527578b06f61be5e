------------------------------ MODULE MCZones ------------------------------
(***************************************************************************)
(* Zones of a few corners on a lattice, drawn in all the ways that make    *)
(* the encoder cut a border differently: straight and bent borders, rings  *)
(* that begin anywhere, holes, enclaves, islands, corners of three zones.  *)
(***************************************************************************)
EXTENDS Zones

At(point) == <<30 * point[1] + 7, 30 * point[2] + 11>>

\* A ring of points, closed, that begins with the one after the first n, and one of
\* corners of the lattice.
Closed(zone, points, n) ==
  LET turned == SubSeq(points, n + 1, Len(points)) \o SubSeq(points, 1, n)
  IN  [meta |-> zone, points |-> Append(turned, turned[1])]
Ring(zone, corners, n) == Closed(zone, [i \in DOMAIN corners |-> At(corners[i])], n)

Identifiers == <<<<69, 47, 97>>, <<69, 47, 98>>, <<71>>>>   \* E/a, E/b, G
Shapefile(parts) == [tableType |-> Timezones, attributes |-> Identifiers, rings |-> parts]

\* Two zones on the sides of a border, which one goes up and the other down.
TwoZones ==
  {Shapefile(<<Ring(1, <<<<-2, -3>>, <<2, -3>>, <<2, c>>, <<1, b>>, <<0, a>>, <<-2, c>>>>, m),
               Ring(2, <<<<-2, c>>, <<0, a>>, <<1, b>>, <<2, c>>, <<2, 3>>, <<-2, 3>>>>, n)>>) :
     a \in -1..1, b \in -1..1, c \in {0, 1}, m \in {0, 3}, n \in {0, 2}}

\* A zone whose hole is another zone, and an island of the first beside it.
Enclave(m, n, a) ==
  LET hole == <<<<1, -2>>, <<1, 0>>, <<a, 1>>, <<-1, 0>>, <<-1, -2>>>>
  IN  <<Ring(1, <<<<-2, -3>>, <<2, -3>>, <<2, 2>>, <<-2, 2>>>>, m),
        Ring(1, Reverse(hole), m), Ring(2, hole, n),
        Ring(1, <<<<-2, 3>>, <<0, 3>>, <<-2, 4>>>>, 0)>>
Enclaves == {Shapefile(Enclave(m, n, a)) : m \in {0, 2}, n \in {0, 1, 4}, a \in {-1, 0}}

\* A third zone sits in the middle of the border, so that one ring meets the
\* other twice.
ThreeZones ==
  {Shapefile(<<Ring(1, <<<<-2, -3>>, <<2, -3>>, <<2, 0>>, <<1, 0>>, <<0, a>>, <<-1, 0>>, <<-2, 0>>>>, m),
               Ring(2, <<<<-2, 0>>, <<-1, 0>>, <<0, 2>>, <<1, 0>>, <<2, 0>>, <<2, 3>>, <<-2, 3>>>>, n),
               Ring(3, <<<<-1, 0>>, <<0, a>>, <<1, 0>>, <<0, 2>>>>, k)>>) :
     a \in {-1, 0}, m \in {0, 4}, n \in {0, 2}, k \in {0, 1}}

\* Two zones on a border with corners a unit or a few apart: one of its corners is the
\* end of a long turn, others are hardly any.
FineBorders == {<<<<-53, 11>>, <<7, 11>>, <<8, 11>>, <<68, 70>>>>,
                <<<<-53, 11>>, <<-52, 11>>, <<-49, 12>>, <<-47, 13>>, <<-44, 15>>, <<68, 70>>>>}
FineZones ==
  {Shapefile(<<Closed(1, Reverse(border) \o <<<<-53, -49>>, <<68, -49>>>>, m),
               Closed(2, border \o <<<<-53, 70>>>>, n)>>) : border \in FineBorders, m \in {0, 2}, n \in {0, 2}}

Squares(n) == <<Ring(1, <<<<0, 0>>, <<n, 0>>, <<n, n>>, <<0, n>>>>, 0)>>

\* Countries, one of them with codes that are unknown in a column.
CountryFile ==
  [tableType |-> Countries,
   attributes |-> <<[alpha2 |-> <<<<65>>, <<45, 57, 57>>>>, alpha3 |-> <<<<65, 66>>, <<65, 67>>>>, name |-> <<68>>],
                    [alpha2 |-> <<<<45, 57, 57>>>>, alpha3 |-> <<<<66>>, <<45, 57, 57>>>>, name |-> <<65>>]>>,
   rings |-> Enclave(0, 2, 0)]

\* What the builder refuses: another table, the point (0, 0), a string of 256.
Refused ==
  {[CountryFile EXCEPT !.tableType = 88],
   Shapefile(<<[meta |-> 1, points |-> <<<<0, 0>>, <<30, 0>>, <<0, 30>>, <<0, 0>>>>]>>),
   [Shapefile(Squares(1)) EXCEPT !.attributes[1] = [i \in 1..256 |-> 65]]}

Shapefiles == TwoZones \cup Enclaves \cup ThreeZones \cup FineZones \cup {CountryFile, Shapefile(<<>>)} \cup Refused

\* Corners, middles of borders, positions next to them and away from them.
Positions == {<<15 * i + 7, 15 * j + 11>> : i \in {-4, -3, -1, 0, 1, 2, 5}, j \in {-7, -4, -1, 0, 1, 2, 3}} \cup
             {<<30 * i + 7, 15 * j + 12>> : i \in {-1, 0, 1}, j \in -1..2} \cup
             {<<-38, 106>>}   \* on the island

\* Inside the second fine zone, more than 10 units from its border, where the turn of
\* the first border leaves the straight line between its ends.
InTheTurn == {<<22, 41>>}

Field(n) == <<102, n>>
TimezoneNames == <<Field(1), Field(2), Field(3), Field(4)>>
CountryNames == <<Field(3), Field(5), Field(6)>>
AlphaTable == (<<69, 47, 97>> :> <<65>>) @@ (<<69, 47, 98>> :> <<66>>)
NaturalEarthTable == <<[alpha2 |-> <<<<45, 57, 57>>, <<65>>>>, name |-> <<68>>],
                       [alpha2 |-> <<>>, name |-> <<70>>]>>
OwnNamesTable == <<66>> :> <<69>>
NoticeText == <<78>>
=============================================================================
