-------------------------- MODULE Geography_proofs --------------------------
(***************************************************************************)
(* Polygons, circles and countries, wherever their corners lie.  The test  *)
(* by crossings of the meridian tells inside from outside; a polygon, a    *)
(* circle or a country that is reported to hold something holds it.        *)
(***************************************************************************)
EXTENDS Geography, CommonLemmas

\* Signs of products.
LEMMA SignIs ==
  ASSUME NEW x \in Int, NEW y \in Int
  PROVE  /\ Sign(x) \in {-1, 0, 1}
         /\ Sign(x) = 0 <=> x = 0
         /\ Sign(x) < 0 <=> x < 0
         /\ Sign(x) * Sign(y) < 0 <=> (x < 0 /\ y > 0) \/ (x > 0 /\ y < 0)
         /\ Sign(x) * Sign(y) = 0 <=> x = 0 \/ y = 0
BY DEF Sign

\* The cross product changes its sign when two of its positions change places.
LEMMA CrossIs ==
  ASSUME NEW a \in Plane, NEW b \in Plane, NEW c \in Plane
  PROVE  /\ CrossProduct(a, b, c) \in Int
         /\ CrossProduct(b, a, c) = -CrossProduct(a, b, c)
         /\ CrossProduct(a, c, b) = -CrossProduct(a, b, c)
BY DEF CrossProduct, Plane

\* A line has the border from a to b on its one side and both positions on its
\* other side.
Apart(a, b, c, p) ==
  \E f1, f2, k \in Int : /\ f1 * c[1] + f2 * c[2] < k /\ f1 * p[1] + f2 * p[2] < k
                         /\ f1 * a[1] + f2 * a[2] >= k /\ f1 * b[1] + f2 * b[2] >= k

LEMMA ApartTurned ==
  ASSUME NEW a \in Plane, NEW b \in Plane, NEW c \in Plane, NEW p \in Plane, Apart(a, b, c, p)
  PROVE  Apart(b, a, c, p) /\ Apart(a, b, p, c) /\ Apart(b, a, p, c)
BY DEF Apart

\* The border from a to b is counted for the position here.
Counted(a, b, here) == (a[2] > here[2]) # (b[2] > here[2]) /\ Sign(b[2] - a[2]) * CrossProduct(a, b, here) < 0

\* x is south of the way from c to p.
SouthOf(c, p, x) == (x[2] > c[2]) # (x[2] > p[2]) /\ Sign(p[2] - c[2]) * CrossProduct(c, p, x) > 0

LEMMA Turned ==
  ASSUME NEW a \in Plane, NEW b \in Plane, NEW c \in Plane
  PROVE  /\ Counted(a, b, c) <=> Counted(b, a, c)
         /\ SouthOf(a, b, c) <=> SouthOf(b, a, c)
<1> DEFINE x == CrossProduct(a, b, c)
           y == CrossProduct(b, a, c)
<1>1. x \in Int /\ y = -x
  BY CrossIs
<1> HIDE DEF x, y
<1>2. a[2] \in Int /\ b[2] \in Int /\ c[2] \in Int
  BY DEF Plane
<1>3. Sign(b[2] - a[2]) * x = Sign(a[2] - b[2]) * y
  BY <1>1, <1>2 DEF Sign
<1> QED BY <1>2, <1>3 DEF Counted, SouthOf, x, y

\* Of two borders, each end lies as far from the other border as these sums say.
LEMMA Brackets ==
  ASSUME NEW a \in Plane, NEW b \in Plane, NEW c \in Plane, NEW p \in Plane
  PROVE  LET abc == CrossProduct(a, b, c)
             abp == CrossProduct(a, b, p)
             acp == CrossProduct(c, p, a)
             bcp == CrossProduct(c, p, b)
         IN  /\ bcp - acp = abc - abp
             /\ bcp * a[1] - acp * b[1] = abc * p[1] - abp * c[1]
             /\ bcp * a[2] - acp * b[2] = abc * p[2] - abp * c[2]
BY DEF CrossProduct, Plane

\* Where the border from a to b and the way from c to p end up on different sides of
\* each other they meet, and no line has them apart.
LEMMA Parted ==
  ASSUME NEW a \in Plane, NEW b \in Plane, NEW c \in Plane, NEW p \in Plane, Apart(a, b, c, p),
         CrossProduct(c, p, b) >= 0, CrossProduct(c, p, a) <= 0,
         CrossProduct(a, b, c) >= 0, CrossProduct(a, b, p) <= 0
  PROVE  CrossProduct(c, p, b) = CrossProduct(c, p, a)
<1> DEFINE abc == CrossProduct(a, b, c)
           abp == CrossProduct(a, b, p)
           acp == CrossProduct(c, p, a)
           bcp == CrossProduct(c, p, b)
<1>1. abc \in Int /\ abp \in Int /\ acp \in Int /\ bcp \in Int /\ bcp >= 0 /\ acp <= 0 /\ abc >= 0 /\ abp <= 0
  BY CrossIs
<1>2. /\ bcp - acp = abc - abp
      /\ bcp * a[1] - acp * b[1] = abc * p[1] - abp * c[1]
      /\ bcp * a[2] - acp * b[2] = abc * p[2] - abp * c[2]
  BY Brackets
<1> HIDE DEF abc, abp, acp, bcp
<1>3. a[1] \in Int /\ a[2] \in Int /\ b[1] \in Int /\ b[2] \in Int /\ c[1] \in Int /\ c[2] \in Int /\ p[1] \in Int /\ p[2] \in Int
  BY DEF Plane
<1>4. PICK f1, f2, k \in Int : /\ f1 * c[1] + f2 * c[2] < k /\ f1 * p[1] + f2 * p[2] < k
                               /\ f1 * a[1] + f2 * a[2] >= k /\ f1 * b[1] + f2 * b[2] >= k
  BY DEF Apart
<1> DEFINE fa == f1 * a[1] + f2 * a[2]
           fb == f1 * b[1] + f2 * b[2]
           fc == f1 * c[1] + f2 * c[2]
           fp == f1 * p[1] + f2 * p[2]
<1>5. bcp * fa - acp * fb = abc * fp - abp * fc
  <2>1. bcp * fa - acp * fb = f1 * (bcp * a[1] - acp * b[1]) + f2 * (bcp * a[2] - acp * b[2])
    BY <1>1, <1>3
  <2>2. abc * fp - abp * fc = f1 * (abc * p[1] - abp * c[1]) + f2 * (abc * p[2] - abp * c[2])
    BY <1>1, <1>3
  <2> QED BY <2>1, <2>2, <1>2
<1>6. fa \in Int /\ fb \in Int /\ fc \in Int /\ fp \in Int /\ fa >= k /\ fb >= k /\ fc < k /\ fp < k
  BY <1>3, <1>4
<1> HIDE DEF fa, fb, fc, fp
<1> DEFINE A == bcp * (fa - k)
           B == (-acp) * (fb - k)
           C == (-abp) * (k - fc)
           P == abc * (k - fp)
<1>7. /\ A \in Int /\ A >= 0 /\ B \in Int /\ B >= 0
      /\ C \in Int /\ C >= 0 /\ (abp < 0 => C > 0)
      /\ P \in Int /\ P >= 0 /\ (abc > 0 => P > 0)
  BY <1>1, <1>6
<1>8. bcp * fa - acp * fb = A + B + (bcp - acp) * k /\ abc * fp - abp * fc = (abc - abp) * k - P - C
  BY <1>1, <1>6
<1> HIDE DEF A, B, C, P
<1>9. A + B + (abc - abp) * k = (abc - abp) * k - P - C /\ (abc - abp) * k \in Int
  BY <1>1, <1>2, <1>5, <1>8
<1>10. A + B + P + C = 0
  BY <1>7, <1>9
<1> QED BY <1>1, <1>2, <1>7, <1>10 DEF acp, bcp

\* A border that a line has apart from c and p is counted for just one of them when
\* it leads from one side of the way from c to p, to the south of it, to another.
LEMMA SameCrossingsEastward ==
  ASSUME NEW a \in Plane, NEW b \in Plane, NEW c \in Plane, NEW p \in Plane, Apart(a, b, c, p),
         a[2] <= b[2], c[2] <= p[2]
  PROVE  (Counted(a, b, c) <=> Counted(a, b, p)) <=> (SouthOf(c, p, a) <=> SouthOf(c, p, b))
<1> DEFINE abc == CrossProduct(a, b, c)
           abp == CrossProduct(a, b, p)
           acp == CrossProduct(c, p, a)
           bcp == CrossProduct(c, p, b)
<1>1. abc \in Int /\ abp \in Int /\ acp \in Int /\ bcp \in Int
  BY CrossIs
<1>2. /\ bcp - acp = abc - abp
      /\ bcp * a[1] - acp * b[1] = abc * p[1] - abp * c[1]
      /\ bcp * a[2] - acp * b[2] = abc * p[2] - abp * c[2]
  BY Brackets
<1>3. /\ Counted(a, b, c) <=> (a[2] > c[2]) # (b[2] > c[2]) /\ Sign(b[2] - a[2]) * abc < 0
      /\ Counted(a, b, p) <=> (a[2] > p[2]) # (b[2] > p[2]) /\ Sign(b[2] - a[2]) * abp < 0
      /\ SouthOf(c, p, a) <=> (a[2] > c[2]) # (a[2] > p[2]) /\ Sign(p[2] - c[2]) * acp > 0
      /\ SouthOf(c, p, b) <=> (b[2] > c[2]) # (b[2] > p[2]) /\ Sign(p[2] - c[2]) * bcp > 0
  BY DEF Counted, SouthOf
<1> HIDE DEF abc, abp, acp, bcp
<1>4. a[1] \in Int /\ a[2] \in Int /\ b[1] \in Int /\ b[2] \in Int /\ c[1] \in Int /\ c[2] \in Int /\ p[1] \in Int /\ p[2] \in Int
  BY DEF Plane
<1>5. ~(bcp >= 0 /\ acp <= 0 /\ abc >= 0 /\ abp <= 0) \/ bcp = acp
  BY Parted DEF abc, abp, acp, bcp
<1>6. ~(bcp <= 0 /\ acp >= 0 /\ abc <= 0 /\ abp >= 0) \/ bcp = acp
  <2> SUFFICES ASSUME bcp <= 0, acp >= 0, abc <= 0, abp >= 0 PROVE bcp = acp
    OBVIOUS
  <2>1. CrossProduct(b, a, c) = -abc /\ CrossProduct(b, a, p) = -abp
    BY CrossIs DEF abc, abp
  <2>2. CrossProduct(b, a, c) >= 0 /\ CrossProduct(b, a, p) <= 0 /\ Apart(b, a, c, p)
    BY <1>1, <2>1, ApartTurned
  <2> QED BY <2>2, Parted DEF acp, bcp
<1> DEFINE a2 == a[2]
           b2 == b[2]
           c2 == c[2]
           p2 == p[2]
<1>7. /\ a2 \in Int /\ b2 \in Int /\ c2 \in Int /\ p2 \in Int /\ a2 <= b2 /\ c2 <= p2
      /\ bcp - acp = abc - abp
      /\ bcp * a2 - acp * b2 = abc * p2 - abp * c2
  BY <1>2, <1>4
<1>8. /\ a2 <= c2 /\ c2 < b2 /\ b2 <= p2 => (abc < 0 <=> bcp > 0)
      /\ a2 <= c2 /\ p2 < b2 => (abc < 0 <=> abp < 0)
      /\ c2 < a2 /\ b2 <= p2 => (acp > 0 <=> bcp > 0)
      /\ c2 < a2 /\ a2 <= p2 /\ p2 < b2 => (abp < 0 <=> acp > 0)
  <2> HIDE DEF a2, b2, c2, p2
  <2>1. bcp * (a2 - c2) - acp * (b2 - c2) = abc * (p2 - c2)
    BY <1>1, <1>7
  <2>2. bcp * (a2 - p2) - acp * (b2 - p2) = abp * (p2 - c2)
    BY <1>1, <1>7
  <2>3. acp * (b2 - a2) = abp * (c2 - a2) - abc * (p2 - a2)
    BY <1>1, <1>7
  <2>4. bcp * (b2 - a2) = abp * (c2 - b2) - abc * (p2 - b2)
    BY <1>1, <1>7
  <2>5. a2 <= c2 /\ c2 < b2 /\ b2 <= p2 => (abc < 0 <=> bcp > 0)
    BY <1>1, <1>5, <1>6, <1>7, <2>1, <2>2, <2>3, <2>4
  <2>6. a2 <= c2 /\ p2 < b2 => (abc < 0 <=> abp < 0)
    BY <1>1, <1>5, <1>6, <1>7, <2>1, <2>2, <2>3, <2>4
  <2>7. c2 < a2 /\ b2 <= p2 => (acp > 0 <=> bcp > 0)
    BY <1>1, <1>5, <1>6, <1>7, <2>1, <2>2, <2>3, <2>4
  <2>8. c2 < a2 /\ a2 <= p2 /\ p2 < b2 => (abp < 0 <=> acp > 0)
    BY <1>1, <1>5, <1>6, <1>7, <2>1, <2>2, <2>3, <2>4
  <2> QED BY <2>5, <2>6, <2>7, <2>8
<1>9. /\ a[2] < b[2] => Sign(b[2] - a[2]) * abc = abc /\ Sign(b[2] - a[2]) * abp = abp
      /\ c[2] < p[2] => Sign(p[2] - c[2]) * acp = acp /\ Sign(p[2] - c[2]) * bcp = bcp
  BY <1>1, <1>4 DEF Sign
<1>10. /\ Counted(a, b, c) <=> a[2] <= c[2] /\ c[2] < b[2] /\ abc < 0
       /\ Counted(a, b, p) <=> a[2] <= p[2] /\ p[2] < b[2] /\ abp < 0
       /\ SouthOf(c, p, a) <=> c[2] < a[2] /\ a[2] <= p[2] /\ acp > 0
       /\ SouthOf(c, p, b) <=> c[2] < b[2] /\ b[2] <= p[2] /\ bcp > 0
  BY <1>3, <1>4, <1>9
<1> QED BY <1>4, <1>8, <1>10

LEMMA SameCrossings ==
  ASSUME NEW a \in Plane, NEW b \in Plane, NEW c \in Plane, NEW p \in Plane, Apart(a, b, c, p)
  PROVE  (Counted(a, b, c) <=> Counted(a, b, p)) <=> (SouthOf(c, p, a) <=> SouthOf(c, p, b))
<1>1. a[2] \in Int /\ b[2] \in Int /\ c[2] \in Int /\ p[2] \in Int
  BY DEF Plane
<1>2. CASE a[2] <= b[2] /\ c[2] <= p[2]
  BY <1>2, SameCrossingsEastward
<1>3. CASE a[2] <= b[2] /\ p[2] <= c[2]
  <2>1. (Counted(a, b, p) <=> Counted(a, b, c)) <=> (SouthOf(p, c, a) <=> SouthOf(p, c, b))
    BY <1>3, ApartTurned, SameCrossingsEastward
  <2> QED BY <2>1, Turned
<1>4. CASE b[2] <= a[2] /\ c[2] <= p[2]
  <2>1. (Counted(b, a, c) <=> Counted(b, a, p)) <=> (SouthOf(c, p, b) <=> SouthOf(c, p, a))
    BY <1>4, ApartTurned, SameCrossingsEastward
  <2> QED BY <2>1, Turned
<1>5. CASE b[2] <= a[2] /\ p[2] <= c[2]
  <2>1. (Counted(b, a, p) <=> Counted(b, a, c)) <=> (SouthOf(p, c, b) <=> SouthOf(p, c, a))
    BY <1>5, ApartTurned, SameCrossingsEastward
  <2> QED BY <2>1, Turned
<1> QED BY <1>1, <1>2, <1>3, <1>4, <1>5
-----------------------------------------------------------------------------
\* p is nearer to c than the distance d, which is squared and a fraction.
Near(d, p, c) == Dot(Minus(p, c), Minus(p, c)) * d.den < d.num

\* No position on a border is apart from it.
LEMMA BorderNotApart ==
  ASSUME NEW a \in Plane, NEW b \in Plane, NEW c \in Plane, NEW p \in Plane, Apart(a, b, c, p),
         Ccw(a, b, c) = 0, Between(c[1], a[1], b[1]), Between(c[2], a[2], b[2])
  PROVE  FALSE
<1> DEFINE a1 == a[1]
           a2 == a[2]
           b1 == b[1]
           b2 == b[2]
           c1 == c[1]
           c2 == c[2]
<1>1. a1 \in Int /\ a2 \in Int /\ b1 \in Int /\ b2 \in Int /\ c1 \in Int /\ c2 \in Int
  BY DEF Plane
<1>2. (b1 - a1) * (c2 - a2) = (c1 - a1) * (b2 - a2)
  <2>1. CrossProduct(a, b, c) = 0
    BY SignIs, CrossIs DEF Ccw
  <2>2. CrossProduct(a, b, c) = (b1 - a1) * (c2 - a2) - (c1 - a1) * (b2 - a2)
    BY DEF CrossProduct
  <2> DEFINE x == (b1 - a1) * (c2 - a2)
             y == (c1 - a1) * (b2 - a2)
  <2>3. x \in Int /\ y \in Int
    BY <1>1
  <2> HIDE DEF x, y
  <2>4. x = y
    BY <2>1, <2>2, <2>3 DEF x, y
  <2> QED BY <2>4 DEF x, y
<1>3. PICK f1, f2, k \in Int : f1 * c1 + f2 * c2 < k /\ f1 * a1 + f2 * a2 >= k /\ f1 * b1 + f2 * b2 >= k
  BY DEF Apart
<1>4. /\ (a1 <= c1 /\ c1 <= b1) \/ (b1 <= c1 /\ c1 <= a1)
      /\ (a2 <= c2 /\ c2 <= b2) \/ (b2 <= c2 /\ c2 <= a2)
  BY <1>1 DEF Between
<1> HIDE DEF a1, a2, b1, b2, c1, c2
<1> DEFINE fa == f1 * a1 + f2 * a2 - k
           fb == f1 * b1 + f2 * b2 - k
           fc == f1 * c1 + f2 * c2 - k
<1>5. fa \in Int /\ fb \in Int /\ fc \in Int /\ fa >= 0 /\ fb >= 0 /\ fc < 0
  BY <1>1, <1>3
<1>6. (b2 - a2) * fc = (b2 - c2) * fa + (c2 - a2) * fb
  BY <1>1, <1>2
<1>7. (b1 - a1) * fc = (b1 - c1) * fa + (c1 - a1) * fb
  BY <1>1, <1>2
<1>8. a1 = b1 /\ a2 = b2 => fc = fa
  <2>1. a1 = b1 /\ a2 = b2 => c1 = a1 /\ c2 = a2
    BY <1>1, <1>4
  <2> QED BY <2>1
<1> HIDE DEF fa, fb, fc
<1>9. CASE a2 < b2
  BY <1>1, <1>4, <1>5, <1>6, <1>9
<1>10. CASE b2 < a2
  BY <1>1, <1>4, <1>5, <1>6, <1>10
<1>11. CASE a1 < b1
  BY <1>1, <1>4, <1>5, <1>7, <1>11
<1>12. CASE b1 < a1
  BY <1>1, <1>4, <1>5, <1>7, <1>12
<1> QED BY <1>1, <1>5, <1>8, <1>9, <1>10, <1>11, <1>12

\* What is nearer than a border is apart from it.
LEMMA NearIsApart ==
  ASSUME NEW a \in Plane, NEW b \in Plane, NEW c \in Plane, NEW p \in Plane,
         Near(SegmentDistance(c, a, b), p, c)
  PROVE  Apart(a, b, c, p)
<1> DEFINE v1 == b[1] - a[1]
           v2 == b[2] - a[2]
           w1 == c[1] - a[1]
           w2 == c[2] - a[2]
           u1 == p[1] - c[1]
           u2 == p[2] - c[2]
           t == w1 * v1 + w2 * v2
           vv == v1 * v1 + v2 * v2
           uu == u1 * u1 + u2 * u2
           cross == v1 * w2 - w1 * v2
<1>1. a[1] \in Int /\ a[2] \in Int /\ b[1] \in Int /\ b[2] \in Int /\ c[1] \in Int /\ c[2] \in Int /\ p[1] \in Int /\ p[2] \in Int
  BY DEF Plane
<1>2. v1 \in Int /\ v2 \in Int /\ w1 \in Int /\ w2 \in Int /\ u1 \in Int /\ u2 \in Int
  BY <1>1
<1>3. /\ Dot(Minus(c, a), Minus(b, a)) = t
      /\ Dot(Minus(b, a), Minus(b, a)) = vv
      /\ Dot(Minus(p, c), Minus(p, c)) = uu
      /\ Dot(Minus(c, a), Minus(c, a)) = w1 * w1 + w2 * w2
      /\ Dot(Minus(c, b), Minus(c, b)) = (w1 - v1) * (w1 - v1) + (w2 - v2) * (w2 - v2)
      /\ CrossProduct(a, b, c) = cross
  BY <1>1 DEF Dot, Minus, CrossProduct
<1>4. /\ t <= 0 => uu < w1 * w1 + w2 * w2
      /\ ~(t <= 0) /\ t >= vv => uu < (w1 - v1) * (w1 - v1) + (w2 - v2) * (w2 - v2)
      /\ ~(t <= 0) /\ ~(t >= vv) => uu * vv < cross * cross
  <2> HIDE DEF v1, v2, w1, w2, u1, u2, t, vv, uu, cross
  <2>1. uu \in Int
    BY <1>2 DEF uu
  <2> QED BY <1>3, <2>1 DEF Near, SegmentDistance
<1> DEFINE g(f1, f2, x) == f1 * x[1] + f2 * x[2]
<1>5. \A f1, f2, k \in Int :
        g(f1, f2, c) < k /\ g(f1, f2, p) < k /\ g(f1, f2, a) >= k /\ g(f1, f2, b) >= k => Apart(a, b, c, p)
  BY DEF Apart
<1>6. \A f1, f2 \in Int : /\ g(f1, f2, c) \in Int
                          /\ g(f1, f2, p) = g(f1, f2, c) + (f1 * u1 + f2 * u2)
                          /\ g(f1, f2, a) = g(f1, f2, c) - (f1 * w1 + f2 * w2)
                          /\ g(f1, f2, b) = g(f1, f2, c) + (f1 * (v1 - w1) + f2 * (v2 - w2))
  <2> SUFFICES ASSUME NEW f1 \in Int, NEW f2 \in Int
               PROVE  /\ g(f1, f2, c) \in Int
                      /\ g(f1, f2, p) = g(f1, f2, c) + (f1 * u1 + f2 * u2)
                      /\ g(f1, f2, a) = g(f1, f2, c) - (f1 * w1 + f2 * w2)
                      /\ g(f1, f2, b) = g(f1, f2, c) + (f1 * (v1 - w1) + f2 * (v2 - w2))
    OBVIOUS
  <2>1. g(f1, f2, c) \in Int
    BY <1>1
  <2>2. g(f1, f2, p) = g(f1, f2, c) + (f1 * u1 + f2 * u2)
    BY <1>1
  <2>3. g(f1, f2, a) = g(f1, f2, c) - (f1 * w1 + f2 * w2)
    BY <1>1
  <2>4. g(f1, f2, b) = g(f1, f2, c) + (f1 * (v1 - w1) + f2 * (v2 - w2))
    <3>1. v1 - w1 = b[1] - c[1] /\ v2 - w2 = b[2] - c[2]
      BY <1>1
    <3>2. g(f1, f2, b) = g(f1, f2, c) + (f1 * (b[1] - c[1]) + f2 * (b[2] - c[2]))
      BY <1>1
    <3> QED BY <3>1, <3>2
  <2> QED BY <2>1, <2>2, <2>3, <2>4
<1> HIDE DEF g, v1, v2, w1, w2, u1, u2
<1>7. \A f1, f2, m \in Int :
        0 < m /\ f1 * u1 + f2 * u2 < m /\ -(f1 * w1 + f2 * w2) >= m /\ f1 * (v1 - w1) + f2 * (v2 - w2) >= m =>
          Apart(a, b, c, p)
  <2> SUFFICES ASSUME NEW f1 \in Int, NEW f2 \in Int, NEW m \in Int, 0 < m, f1 * u1 + f2 * u2 < m,
                      -(f1 * w1 + f2 * w2) >= m, f1 * (v1 - w1) + f2 * (v2 - w2) >= m
               PROVE  Apart(a, b, c, p)
    OBVIOUS
  <2> DEFINE k == g(f1, f2, c) + m
             x == f1 * u1 + f2 * u2
             y == f1 * w1 + f2 * w2
             z == f1 * (v1 - w1) + f2 * (v2 - w2)
  <2>1. g(f1, f2, c) \in Int /\ x \in Int /\ y \in Int /\ z \in Int /\ x < m /\ -y >= m /\ z >= m
    <3>1. g(f1, f2, c) \in Int
      BY <1>6
    <3>2. x \in Int /\ y \in Int /\ z \in Int
      BY <1>2
    <3> QED BY <3>1, <3>2
  <2>2. g(f1, f2, p) = g(f1, f2, c) + x /\ g(f1, f2, a) = g(f1, f2, c) - y /\ g(f1, f2, b) = g(f1, f2, c) + z
    BY <1>6
  <2> HIDE DEF x, y, z
  <2>3. k \in Int /\ g(f1, f2, c) < k /\ g(f1, f2, p) < k /\ g(f1, f2, a) >= k /\ g(f1, f2, b) >= k
    BY <2>1, <2>2
  <2> HIDE DEF k
  <2> QED BY <2>3, <1>5
<1>8. CASE t <= 0
  <2> DEFINE m == w1 * w1 + w2 * w2
             f1 == -w1
             f2 == -w2
  <2>1. uu < m /\ t \in Int /\ uu \in Int /\ m \in Int /\ uu >= 0
    BY <1>2, <1>4, <1>8
  <2>2. f1 * u1 + f2 * u2 < m
    <3> DEFINE x == w1 * u1 + w2 * u2
    <3>1. (u1 + w1) * (u1 + w1) + (u2 + w2) * (u2 + w2) >= 0
      BY <1>2
    <3>2. (u1 + w1) * (u1 + w1) + (u2 + w2) * (u2 + w2) = uu + 2 * x + m /\ x \in Int /\ f1 * u1 + f2 * u2 = -x
      BY <1>2
    <3> HIDE DEF uu, x, m
    <3> QED BY <2>1, <3>1, <3>2
  <2>3. -(f1 * w1 + f2 * w2) = m /\ f1 * (v1 - w1) + f2 * (v2 - w2) = m - t
    BY <1>2
  <2>4. m - t >= m /\ f1 \in Int /\ f2 \in Int /\ 0 < m
    BY <1>2, <1>8, <2>1
  <2> HIDE DEF f1, f2, m, t
  <2> QED BY <1>7, <2>1, <2>2, <2>3, <2>4
<1>9. CASE ~(t <= 0) /\ t >= vv
  <2> DEFINE m == (w1 - v1) * (w1 - v1) + (w2 - v2) * (w2 - v2)
             f1 == v1 - w1
             f2 == v2 - w2
  <2>1. uu < m /\ t \in Int /\ vv \in Int /\ uu \in Int /\ m \in Int /\ uu >= 0
    BY <1>2, <1>4, <1>9
  <2>2. f1 * u1 + f2 * u2 < m
    <3> DEFINE x == f1 * u1 + f2 * u2
    <3>1. (u1 - f1) * (u1 - f1) + (u2 - f2) * (u2 - f2) >= 0
      BY <1>2
    <3>2. (u1 - f1) * (u1 - f1) + (u2 - f2) * (u2 - f2) = uu - 2 * x + m /\ x \in Int
      BY <1>2
    <3> HIDE DEF uu, x, m
    <3> QED BY <2>1, <3>1, <3>2 DEF x
  <2>3. -(f1 * w1 + f2 * w2) = m + (t - vv) /\ f1 * (v1 - w1) + f2 * (v2 - w2) = m
    BY <1>2
  <2>4. m + (t - vv) >= m /\ f1 \in Int /\ f2 \in Int /\ 0 < m
    <3>1. f1 \in Int /\ f2 \in Int
      BY <1>2
    <3> HIDE DEF m, t, vv, f1, f2, uu
    <3> QED BY <1>9, <2>1, <3>1
  <2> HIDE DEF f1, f2, m, t, vv
  <2> QED BY <1>7, <2>1, <2>2, <2>3, <2>4
<1>10. CASE ~(t <= 0) /\ ~(t >= vv)
  <2> DEFINE y == v1 * u2 - u1 * v2
  <2>1. cross \in Int /\ y \in Int /\ uu * vv < cross * cross
    BY <1>2, <1>4, <1>10
  <2>2. y * y <= uu * vv
    <3>1. uu * vv = y * y + (v1 * u1 + v2 * u2) * (v1 * u1 + v2 * u2)
      BY <1>2
    <3>2. (v1 * u1 + v2 * u2) \in Int
      BY <1>2
    <3> DEFINE z == v1 * u1 + v2 * u2
    <3> HIDE DEF z, y, uu, vv
    <3>3. z * z >= 0 /\ z * z \in Int /\ y * y \in Int
      BY <3>2, <2>1 DEF z
    <3> QED BY <3>1, <3>3 DEF z
  <2>3. y * y < cross * cross
    <3>1. uu * vv \in Int
      BY <1>2
    <3> DEFINE n == uu * vv
    <3> HIDE DEF n, y, cross
    <3> QED BY <2>1, <2>2, <3>1 DEF n
  <2>4. CASE cross > 0
    <3> DEFINE f1 == v2
               f2 == -v1
    <3>1. f1 * u1 + f2 * u2 = -y /\ -(f1 * w1 + f2 * w2) = cross /\ f1 * (v1 - w1) + f2 * (v2 - w2) = cross
      BY <1>2
    <3>2. -y < cross /\ f1 \in Int /\ f2 \in Int
      <4> HIDE DEF y, cross
      <4> QED BY <1>2, <2>1, <2>3, <2>4
    <3> HIDE DEF f1, f2, cross, y
    <3>3. f1 * u1 + f2 * u2 < cross /\ -(f1 * w1 + f2 * w2) >= cross /\ f1 * (v1 - w1) + f2 * (v2 - w2) >= cross
      BY <3>1, <3>2, <2>1
    <3> QED BY <1>7, <2>1, <2>4, <3>2, <3>3
  <2>5. CASE cross < 0
    <3> DEFINE f1 == -v2
               f2 == v1
               m == -cross
    <3>1. f1 * u1 + f2 * u2 = y /\ -(f1 * w1 + f2 * w2) = m /\ f1 * (v1 - w1) + f2 * (v2 - w2) = m
      BY <1>2
    <3>2. y < m /\ f1 \in Int /\ f2 \in Int /\ m \in Int /\ 0 < m
      <4> HIDE DEF y, cross
      <4> QED BY <1>2, <2>1, <2>3, <2>5
    <3> HIDE DEF f1, f2, cross, y, m
    <3>3. f1 * u1 + f2 * u2 < m /\ -(f1 * w1 + f2 * w2) >= m /\ f1 * (v1 - w1) + f2 * (v2 - w2) >= m
      BY <3>1, <3>2
    <3> QED BY <1>7, <3>2, <3>3
  <2>6. cross # 0
    <3> HIDE DEF cross, y
    <3>1. y * y >= 0
      BY <2>1
    <3> QED BY <2>1, <2>3, <3>1
  <2> HIDE DEF cross
  <2> QED BY <2>1, <2>4, <2>5, <2>6
<1> QED BY <1>8, <1>9, <1>10
-----------------------------------------------------------------------------
\* Around a polygon: where two sets of borders differ in just those that lead from
\* one side of something to the other, their numbers are both even or both odd.
LEMMA SameParity ==
  ASSUME NEW n \in Nat, NEW A \in SUBSET (1..n), NEW B \in SUBSET (1..n), NEW T,
         1 \in T <=> n + 1 \in T,
         \A i \in 1..n : (i \in A <=> i \in B) <=> (i \in T <=> i + 1 \in T)
  PROVE  Cardinality(A) % 2 = 1 <=> Cardinality(B) % 2 = 1
<1> DEFINE Odd(S, m) == Cardinality(S \cap 1..m) % 2 = 1
           D == {m \in 0..n : (Odd(A, m) <=> Odd(B, m)) <=> (1 \in T <=> m + 1 \in T)}
<1>1. \A S \in SUBSET (1..n) : \A m \in 0..n : Cardinality(S \cap 1..m) \in Nat /\ IsFiniteSet(S \cap 1..m)
  <2> SUFFICES ASSUME NEW S \in SUBSET (1..n), NEW m \in 0..n
               PROVE  Cardinality(S \cap 1..m) \in Nat /\ IsFiniteSet(S \cap 1..m)
    OBVIOUS
  <2>1. IsFiniteSet(1..m) /\ S \cap 1..m \in SUBSET (1..m)
    BY FS_Interval
  <2>2. IsFiniteSet(S \cap 1..m)
    BY <2>1, FS_Subset
  <2> QED BY <2>2, FS_CardinalityType
<1>2. \A S \in SUBSET (1..n) : ~Odd(S, 0) /\ \A m \in 1..n : Odd(S, m) <=> (m \in S <=> ~Odd(S, m - 1))
  <2> SUFFICES ASSUME NEW S \in SUBSET (1..n)
               PROVE  ~Odd(S, 0) /\ \A m \in 1..n : Odd(S, m) <=> (m \in S <=> ~Odd(S, m - 1))
    OBVIOUS
  <2>1. ~Odd(S, 0)
    <3>1. S \cap 1..0 = {}
      OBVIOUS
    <3> QED BY <3>1, FS_EmptySet
  <2>2. ASSUME NEW m \in 1..n PROVE Odd(S, m) <=> (m \in S <=> ~Odd(S, m - 1))
    <3>1. m \in 0..n /\ m - 1 \in 0..n /\ m \notin S \cap 1..m - 1
      OBVIOUS
    <3>2. Cardinality(S \cap 1..m - 1) \in Nat /\ IsFiniteSet(S \cap 1..m - 1)
      BY <1>1, <3>1
    <3>3. CASE m \in S
      <4>1. S \cap 1..m = (S \cap 1..m - 1) \cup {m}
        BY <3>3
      <4>2. Cardinality(S \cap 1..m) = Cardinality(S \cap 1..m - 1) + 1
        BY <3>1, <3>2, <4>1, FS_AddElement
      <4> QED BY <3>2, <3>3, <4>2
    <3>4. CASE m \notin S
      <4>1. S \cap 1..m = S \cap 1..m - 1
        BY <3>4
      <4> QED BY <3>4, <4>1
    <3> QED BY <3>3, <3>4
  <2> QED BY <2>1, <2>2
<1> HIDE DEF Odd
<1>3. 0 \in D
  BY <1>2
<1>4. ASSUME NEW i \in 1..n, i - 1 \in D PROVE i \in D
  <2>1. (Odd(A, i - 1) <=> Odd(B, i - 1)) <=> (1 \in T <=> i \in T)
    BY <1>4
  <2>2. Odd(A, i) <=> (i \in A <=> ~Odd(A, i - 1))
    BY <1>2
  <2>3. Odd(B, i) <=> (i \in B <=> ~Odd(B, i - 1))
    BY <1>2
  <2>4. (i \in A <=> i \in B) <=> (i \in T <=> i + 1 \in T)
    OBVIOUS
  <2>5. (Odd(A, i) <=> Odd(B, i)) <=> (1 \in T <=> i + 1 \in T)
    BY <2>1, <2>2, <2>3, <2>4
  <2> QED BY <2>5
<1>5. n \in D
  <2> HIDE DEF D
  <2>1. \A i \in 0..n : i \in D
    BY <1>3, <1>4, UpTo
  <2> QED BY <2>1
<1>6. Odd(A, n) <=> Odd(B, n)
  BY <1>5
<1>7. A \cap 1..n = A /\ B \cap 1..n = B
  OBVIOUS
<1> QED BY <1>6, <1>7 DEF Odd

\* Behind the last corner comes the first.
LEMMA RoundAgain ==
  ASSUME NEW n \in Nat \ {0}, NEW k \in Nat
  PROVE  (k + n) % n = k % n
<1> DEFINE q == k \div n
           r == k % n
           s == (k + n) \div n
           t == (k + n) % n
<1>1. q \in Int /\ r \in Int /\ 0 <= r /\ r < n /\ k = n * q + r
  BY SMT
<1>2. s \in Int /\ t \in Int /\ 0 <= t /\ t < n /\ k + n = n * s + t
  BY SMT
<1> HIDE DEF q, r, s, t
<1> DEFINE d == s - q - 1
<1>3. n * d = r - t /\ d \in Int
  BY <1>1, <1>2
<1> HIDE DEF d
<1>4. ~(d > 0) /\ ~(d < 0)
  <2>1. d > 0 => n * d >= n
    BY <1>3
  <2>2. d < 0 => n * d <= -n
    BY <1>3
  <2> QED BY <1>1, <1>2, <1>3, <2>1, <2>2
<1>5. t = r
  BY <1>1, <1>2, <1>3, <1>4
<1> QED BY <1>5 DEF t, r

LEMMA CornerIs ==
  ASSUME NEW l \in Seq(Plane), Len(l) > 0
  PROVE  /\ \A i \in Nat \ {0} : Corner(l, i) \in Plane /\ \E j \in 1..Len(l) : Corner(l, i) = l[j]
         /\ \A i \in 1..Len(l) : Corner(l, i) = l[i]
         /\ \A i \in Nat \ {0} : Corner(l, i + Len(l)) = Corner(l, i)
<1> DEFINE n == Len(l)
<1>1. n \in Nat \ {0} /\ \A j \in 1..n : l[j] \in Plane
  OBVIOUS
<1> HIDE DEF n
<1>2. \A i \in Nat \ {0} : ((i - 1) % n) + 1 \in 1..n
  BY <1>1
<1>3. \A i \in 1..n : ((i - 1) % n) + 1 = i
  BY <1>1
<1>4. \A i \in Nat \ {0} : ((i + n - 1) % n) = ((i - 1) % n)
  <2> SUFFICES ASSUME NEW i \in Nat \ {0} PROVE (i + n - 1) % n = (i - 1) % n
    OBVIOUS
  <2>1. i - 1 \in Nat /\ i + n - 1 = (i - 1) + n
    BY <1>1
  <2> QED BY <1>1, <2>1, RoundAgain
<1>5. \A i : Corner(l, i) = l[((i - 1) % n) + 1]
  BY DEF Corner, n
<1>6. \A i \in Nat \ {0} : Corner(l, i) \in Plane /\ \E j \in 1..Len(l) : Corner(l, i) = l[j]
  BY <1>1, <1>2, <1>5 DEF n
<1>7. \A i \in 1..Len(l) : Corner(l, i) = l[i]
  BY <1>3, <1>5 DEF n
<1>8. \A i \in Nat \ {0} : Corner(l, i + Len(l)) = Corner(l, i)
  BY <1>4, <1>5 DEF n
<1> QED BY <1>6, <1>7, <1>8

LEMMA CornersTyped ==
  ASSUME NEW l \in Seq(Plane), NEW i \in 1..Len(l)
  PROVE  l[i] \in Plane /\ Corner(l, i + 1) \in Plane
<1>1. Len(l) > 0 /\ i + 1 \in Nat \ {0} /\ l[i] \in Plane
  OBVIOUS
<1>2. \A k \in Nat \ {0} : Corner(l, k) \in Plane
  BY <1>1, CornerIs
<1> QED BY <1>1, <1>2

\* The borders that count for the position here.
CountedOf(l, here) == {i \in 1..Len(l) : Counted(Corner(l, i), Corner(l, i + 1), here)}

LEMMA WindsIs ==
  ASSUME NEW l \in Seq(Plane), NEW here \in Plane
  PROVE  Winds(l, here) <=> Cardinality(CountedOf(l, here)) % 2 = 1
<1>1. CASE Len(l) = 0
  <2>1. l = <<>> /\ DOMAIN l = {}
    BY <1>1
  <2>2. CountedOf(l, here) = {}
    BY <1>1 DEF CountedOf
  <2> QED BY <2>1, <2>2 DEF Winds
<1>2. CASE Len(l) > 0
  <2>1. DOMAIN l = 1..Len(l) /\ \A i \in 1..Len(l) : Corner(l, i) = l[i]
    BY <1>2, CornerIs
  <2>2. Winds(l, here) <=> Cardinality({i \in DOMAIN l : Counted(l[i], Corner(l, i + 1), here)}) % 2 = 1
    BY DEF Winds, Counted
  <2>3. {i \in DOMAIN l : Counted(l[i], Corner(l, i + 1), here)} = CountedOf(l, here)
    BY <2>1 DEF CountedOf
  <2> QED BY <2>2, <2>3
<1> QED BY <1>1, <1>2

\* Two positions that every border of a polygon is apart from are both inside or
\* both outside.
LEMMA ApartFromAll ==
  ASSUME NEW l \in Seq(Plane), NEW c \in Plane, NEW p \in Plane,
         \A i \in 1..Len(l) : Apart(l[i], Corner(l, i + 1), c, p)
  PROVE  /\ Winds(l, c) <=> Winds(l, p)
         /\ ~Border(l, c) /\ ~Border(l, p)
<1>1. Winds(l, c) <=> Winds(l, p)
  <2>1. CASE Len(l) = 0
    <3>1. CountedOf(l, c) = CountedOf(l, p)
      BY <2>1 DEF CountedOf
    <3> QED BY <3>1, WindsIs
  <2>2. CASE Len(l) > 0
    <3> DEFINE T == {i \in 1..Len(l) + 1 : SouthOf(c, p, Corner(l, i))}
    <3>1. Len(l) \in Nat /\ CountedOf(l, c) \in SUBSET (1..Len(l)) /\ CountedOf(l, p) \in SUBSET (1..Len(l))
      BY DEF CountedOf
    <3>2. 1 \in T <=> Len(l) + 1 \in T
      <4>1. Corner(l, 1 + Len(l)) = Corner(l, 1)
        BY <2>2, CornerIs
      <4>2. Corner(l, Len(l) + 1) = Corner(l, 1)
        BY <4>1, <3>1
      <4> QED BY <2>2, <3>1, <4>2
    <3>3. ASSUME NEW i \in 1..Len(l)
          PROVE  (i \in CountedOf(l, c) <=> i \in CountedOf(l, p)) <=> (i \in T <=> i + 1 \in T)
      <4>1. Corner(l, i) \in Plane /\ Corner(l, i + 1) \in Plane /\ Corner(l, i) = l[i]
        BY <2>2, CornerIs
      <4>2. (Counted(Corner(l, i), Corner(l, i + 1), c) <=> Counted(Corner(l, i), Corner(l, i + 1), p))
              <=> (SouthOf(c, p, Corner(l, i)) <=> SouthOf(c, p, Corner(l, i + 1)))
        BY <4>1, SameCrossings
      <4>3. i \in 1..Len(l) + 1 /\ i + 1 \in 1..Len(l) + 1
        BY <3>1
      <4> QED BY <4>2, <4>3 DEF CountedOf
    <3> HIDE DEF T
    <3>4. Cardinality(CountedOf(l, c)) % 2 = 1 <=> Cardinality(CountedOf(l, p)) % 2 = 1
      BY <3>1, <3>2, <3>3, SameParity
    <3> QED BY <3>4, WindsIs
  <2> QED BY <2>1, <2>2
<1>2. ASSUME NEW i \in 1..Len(l)
      PROVE  /\ ~(Ccw(l[i], Corner(l, i + 1), c) = 0 /\ Between(c[1], l[i][1], Corner(l, i + 1)[1])
                    /\ Between(c[2], l[i][2], Corner(l, i + 1)[2]))
             /\ ~(Ccw(l[i], Corner(l, i + 1), p) = 0 /\ Between(p[1], l[i][1], Corner(l, i + 1)[1])
                    /\ Between(p[2], l[i][2], Corner(l, i + 1)[2]))
  <2>1. l[i] \in Plane /\ Corner(l, i + 1) \in Plane
    BY CornersTyped
  <2>2. Apart(l[i], Corner(l, i + 1), c, p) /\ Apart(l[i], Corner(l, i + 1), p, c)
    BY <2>1, ApartTurned
  <2> QED BY <2>1, <2>2, BorderNotApart
<1>3. ~Border(l, c) /\ ~Border(l, p)
  <2>1. DOMAIN l = 1..Len(l)
    OBVIOUS
  <2> QED BY <1>2, <2>1 DEF Border
<1> QED BY <1>1, <1>3
-----------------------------------------------------------------------------
\* Positions south of the pole.
Below == {p \in Plane : p[1] < Pole}

\* From here to the pole: which side of the meridian a corner is on, and which side
\* of a border its ends are.
LEMMA MeridianIs ==
  ASSUME Pole \in Int, NEW a \in Below, NEW b \in Below, NEW here \in Below
  PROVE  LET north == <<Pole, here[2]>>
             X == CrossProduct(a, b, here)
             Y == CrossProduct(a, b, north)
         IN  /\ X \in Int /\ Y \in Int
             /\ CrossProduct(here, north, a) \in Int /\ CrossProduct(here, north, b) \in Int
             /\ CrossProduct(here, north, a) < 0 <=> a[2] < here[2]
             /\ CrossProduct(here, north, a) > 0 <=> a[2] > here[2]
             /\ CrossProduct(here, north, b) < 0 <=> b[2] < here[2]
             /\ CrossProduct(here, north, b) > 0 <=> b[2] > here[2]
             /\ a[2] < here[2] /\ here[2] < b[2] => Y < 0
             /\ b[2] < here[2] /\ here[2] < a[2] => Y > 0
             /\ (a[2] = here[2] /\ b[2] # here[2]) \/ (a[2] # here[2] /\ b[2] = here[2]) => Y # 0
<1> DEFINE north == <<Pole, here[2]>>
           X == CrossProduct(a, b, here)
           Y == CrossProduct(a, b, north)
           Ma == CrossProduct(here, north, a)
           Mb == CrossProduct(here, north, b)
           a1 == a[1]
           a2 == a[2]
           b1 == b[1]
           b2 == b[2]
           h1 == here[1]
           h2 == here[2]
<1>1. /\ a1 \in Int /\ a2 \in Int /\ b1 \in Int /\ b2 \in Int /\ h1 \in Int /\ h2 \in Int
      /\ a1 < Pole /\ b1 < Pole /\ h1 < Pole /\ a \in Plane /\ b \in Plane /\ here \in Plane /\ north \in Plane
  BY DEF Below, Plane
<1>2. X \in Int /\ Y \in Int /\ Ma \in Int /\ Mb \in Int
  BY <1>1, CrossIs
<1>3. /\ X = (b1 - a1) * (h2 - a2) - (h1 - a1) * (b2 - a2)
      /\ Y = (b1 - a1) * (h2 - a2) - (Pole - a1) * (b2 - a2)
      /\ Ma = (Pole - h1) * (a2 - h2)
      /\ Mb = (Pole - h1) * (b2 - h2)
  <2>1. north[1] = Pole /\ north[2] = h2
    OBVIOUS
  <2>2. /\ X = (b1 - a1) * (h2 - a2) - (h1 - a1) * (b2 - a2)
        /\ Y = (b1 - a1) * (h2 - a2) - (Pole - a1) * (b2 - a2)
    BY <2>1 DEF CrossProduct
  <2>3. /\ Ma = (Pole - h1) * (a2 - h2) - (a1 - h1) * (h2 - h2)
        /\ Mb = (Pole - h1) * (b2 - h2) - (b1 - h1) * (h2 - h2)
    BY <2>1 DEF CrossProduct
  <2> QED BY <1>1, <2>2, <2>3
<1> HIDE DEF X, Y, Ma, Mb, a1, a2, b1, b2, h1, h2, north
<1>4. /\ Ma < 0 <=> a2 < h2
      /\ Ma > 0 <=> a2 > h2
      /\ Mb < 0 <=> b2 < h2
      /\ Mb > 0 <=> b2 > h2
  BY <1>1, <1>3
<1>5. a2 < h2 /\ h2 < b2 => Y < 0
  <2> SUFFICES ASSUME a2 < h2, h2 < b2 PROVE Y < 0
    OBVIOUS
  <2>1. (Pole - a1) * (b2 - a2) - (b1 - a1) * (h2 - a2) = (Pole - a1) * (b2 - h2) + (Pole - b1) * (h2 - a2)
    BY <1>1
  <2>2. (Pole - a1) * (b2 - h2) > 0 /\ (Pole - b1) * (h2 - a2) > 0
    BY <1>1
  <2> QED BY <1>1, <1>2, <1>3, <2>1, <2>2
<1>6. b2 < h2 /\ h2 < a2 => Y > 0
  <2> SUFFICES ASSUME b2 < h2, h2 < a2 PROVE Y > 0
    OBVIOUS
  <2>1. (b1 - a1) * (h2 - a2) - (Pole - a1) * (b2 - a2) = (Pole - a1) * (h2 - b2) + (Pole - b1) * (a2 - h2)
    BY <1>1
  <2>2. (Pole - a1) * (h2 - b2) > 0 /\ (Pole - b1) * (a2 - h2) > 0
    BY <1>1
  <2> QED BY <1>1, <1>2, <1>3, <2>1, <2>2
<1>7. a2 = h2 => Y = (a1 - Pole) * (b2 - h2)
  BY <1>1, <1>3
<1>8. b2 = h2 => Y = (b1 - Pole) * (h2 - a2)
  BY <1>1, <1>3
<1>9. (a2 = h2 /\ b2 # h2) \/ (a2 # h2 /\ b2 = h2) => Y # 0
  BY <1>1, <1>7, <1>8
<1> QED BY <1>2, <1>4, <1>5, <1>6, <1>9 DEF X, Y, Ma, Mb, a1, a2, b1, b2, h1, h2, north

\* Where an end of a border is on the meridian, the side of the border that a
\* position is on says whether that end is north of it.
LEMMA EndOnMeridianIs ==
  ASSUME NEW a \in Plane, NEW b \in Plane, NEW here \in Plane
  PROVE  LET X == CrossProduct(a, b, here)
         IN  /\ a[2] = here[2] /\ b[2] = here[2] => X = 0
             /\ a[2] = here[2] /\ b[2] > here[2] => (X < 0 <=> here[1] > a[1]) /\ (X > 0 <=> here[1] < a[1])
             /\ a[2] = here[2] /\ b[2] < here[2] => (X < 0 <=> here[1] < a[1]) /\ (X > 0 <=> here[1] > a[1])
             /\ b[2] = here[2] /\ a[2] > here[2] => (X < 0 <=> here[1] < b[1]) /\ (X > 0 <=> here[1] > b[1])
             /\ b[2] = here[2] /\ a[2] < here[2] => (X < 0 <=> here[1] > b[1]) /\ (X > 0 <=> here[1] < b[1])
<1> DEFINE X == CrossProduct(a, b, here)
           a1 == a[1]
           a2 == a[2]
           b1 == b[1]
           b2 == b[2]
           h1 == here[1]
           h2 == here[2]
<1>1. a1 \in Int /\ a2 \in Int /\ b1 \in Int /\ b2 \in Int /\ h1 \in Int /\ h2 \in Int
  BY DEF Plane
<1>2. X \in Int /\ X = (b1 - a1) * (h2 - a2) - (h1 - a1) * (b2 - a2)
  BY CrossIs DEF CrossProduct
<1> HIDE DEF X, a1, a2, b1, b2, h1, h2
<1>3. a2 = h2 => X = (a1 - h1) * (b2 - h2)
  BY <1>1, <1>2
<1>4. b2 = h2 => X = (b1 - h1) * (h2 - a2)
  BY <1>1, <1>2
<1>5. a2 = h2 /\ b2 = h2 => X = 0
  BY <1>1, <1>3
<1>6. /\ a2 = h2 /\ b2 > h2 => (X < 0 <=> h1 > a1) /\ (X > 0 <=> h1 < a1)
      /\ a2 = h2 /\ b2 < h2 => (X < 0 <=> h1 < a1) /\ (X > 0 <=> h1 > a1)
  BY <1>1, <1>3
<1>7. /\ b2 = h2 /\ a2 > h2 => (X < 0 <=> h1 < b1) /\ (X > 0 <=> h1 > b1)
      /\ b2 = h2 /\ a2 < h2 => (X < 0 <=> h1 > b1) /\ (X > 0 <=> h1 < b1)
  BY <1>1, <1>4
<1> QED BY <1>5, <1>6, <1>7 DEF X, a1, a2, b1, b2, h1, h2

\* The position here lies on the border from a to b.
OnBorder(a, b, here) == Ccw(a, b, here) = 0 /\ Between(here[1], a[1], b[1]) /\ Between(here[2], a[2], b[2])

\* What lineSegmentIntersection finds, by where the ends of the border are.
LEMMA MetIs ==
  ASSUME Pole \in Int, NEW previous \in Below, NEW a \in Below, NEW b \in Below, NEW next \in Below, NEW here \in Below,
         ~(a[1] = here[1] /\ b[1] = here[1])
  PROVE  LET met == LineSegmentIntersection(previous, a, b, next, here)
             X == CrossProduct(a, b, here)
             SameSide == (here[2] - previous[2]) * (next[2] - here[2]) < 0
             Touches == (b[2] - a[2]) * (a[2] - previous[2]) < 0
         IN  /\ met.on <=> OnBorder(a, b, here)
             /\ ~met.on /\ a[2] = here[2] /\ b[2] = here[2] => (met.crosses <=> SameSide /\ a[1] > here[1])
             /\ ~met.on /\ a[2] = here[2] /\ b[2] # here[2] => (met.crosses <=> ~Touches /\ a[1] > here[1])
             /\ ~met.on /\ a[2] # here[2] /\ b[2] = here[2] => ~met.crosses
             /\ ~met.on /\ a[2] < here[2] /\ here[2] < b[2] => (met.crosses <=> X > 0)
             /\ ~met.on /\ b[2] < here[2] /\ here[2] < a[2] => (met.crosses <=> X < 0)
             /\ ~met.on /\ a[2] < here[2] /\ b[2] < here[2] => ~met.crosses
             /\ ~met.on /\ a[2] > here[2] /\ b[2] > here[2] => ~met.crosses
<1> DEFINE met == LineSegmentIntersection(previous, a, b, next, here)
           north == <<Pole, here[2]>>
           X == CrossProduct(a, b, here)
           Y == CrossProduct(a, b, north)
           Ma == CrossProduct(here, north, a)
           Mb == CrossProduct(here, north, b)
           SameSide == (here[2] - previous[2]) * (next[2] - here[2]) < 0
           Touches == (b[2] - a[2]) * (a[2] - previous[2]) < 0
           sides == Ccw(a, b, here) * Ccw(a, b, north)
           ends == Ccw(here, north, a) * Ccw(here, north, b)
           Along == Meeting(Between(here[1], a[1], b[1]),
                            SameSide /\ (IF a[1] < b[1] THEN here[1] < a[1] ELSE here[1] <= b[1]))
           Level == Meeting(here = a \/ (here # b /\ (\/ (a[1] <= here[1] /\ here[1] < b[1])
                                                      \/ (b[1] <= here[1] /\ here[1] < a[1])
                                                      \/ (a[1] = b[1] /\ a[1] = here[1]))), FALSE)
           From == Meeting(a = here, a # here /\ here[1] <= a[1] /\ ~Touches)
<1>1. /\ a[1] \in Int /\ a[2] \in Int /\ b[1] \in Int /\ b[2] \in Int /\ here[1] \in Int /\ here[2] \in Int
      /\ a = <<a[1], a[2]>> /\ b = <<b[1], b[2]>> /\ here = <<here[1], here[2]>>
      /\ a \in Plane /\ b \in Plane /\ here \in Plane
  BY DEF Below, Plane
<1>2. /\ X \in Int /\ Y \in Int /\ Ma \in Int /\ Mb \in Int
      /\ Ma < 0 <=> a[2] < here[2]
      /\ Ma > 0 <=> a[2] > here[2]
      /\ Mb < 0 <=> b[2] < here[2]
      /\ Mb > 0 <=> b[2] > here[2]
  BY MeridianIs
<1>3. /\ a[2] < here[2] /\ here[2] < b[2] => Y < 0
      /\ b[2] < here[2] /\ here[2] < a[2] => Y > 0
      /\ (a[2] = here[2] /\ b[2] # here[2]) \/ (a[2] # here[2] /\ b[2] = here[2]) => Y # 0
      /\ a[2] = here[2] /\ b[2] = here[2] => X = 0
  BY <1>1, MeridianIs, EndOnMeridianIs
<1>4. /\ a[2] = here[2] /\ b[2] > here[2] => (X < 0 <=> here[1] > a[1]) /\ (X > 0 <=> here[1] < a[1])
      /\ a[2] = here[2] /\ b[2] < here[2] => (X < 0 <=> here[1] < a[1]) /\ (X > 0 <=> here[1] > a[1])
      /\ b[2] = here[2] /\ a[2] > here[2] => (X < 0 <=> here[1] < b[1]) /\ (X > 0 <=> here[1] > b[1])
      /\ b[2] = here[2] /\ a[2] < here[2] => (X < 0 <=> here[1] > b[1]) /\ (X > 0 <=> here[1] < b[1])
  BY <1>1, EndOnMeridianIs
<1>5. met = IF sides = 0 /\ ends = 0 THEN Along
            ELSE IF sides < 0 /\ ends < 0 THEN Meeting(FALSE, TRUE)
            ELSE IF Ccw(a, b, here) = 0 THEN Level
            ELSE IF Ccw(here, north, a) = 0 THEN From ELSE Meeting(FALSE, FALSE)
  BY Zenon DEF LineSegmentIntersection
<1>6. /\ sides = 0 <=> X = 0 \/ Y = 0
      /\ sides < 0 <=> (X < 0 /\ Y > 0) \/ (X > 0 /\ Y < 0)
      /\ ends = 0 <=> Ma = 0 \/ Mb = 0
      /\ ends < 0 <=> (Ma < 0 /\ Mb > 0) \/ (Ma > 0 /\ Mb < 0)
      /\ Ccw(a, b, here) = 0 <=> X = 0
      /\ Ccw(here, north, a) = 0 <=> Ma = 0
  BY <1>2, SignIs DEF Ccw
<1>7. \A x, y : Meeting(x, y).on = x /\ Meeting(x, y).crosses = y
  BY DEF Meeting
<1>8. OnBorder(a, b, here) <=> X = 0 /\ Between(here[1], a[1], b[1]) /\ Between(here[2], a[2], b[2])
  BY <1>6 DEF OnBorder
<1>9. X = (b[1] - a[1]) * (here[2] - a[2]) - (here[1] - a[1]) * (b[2] - a[2])
  BY DEF CrossProduct
<1> HIDE DEF met, sides, ends, X, Y, Ma, Mb, north, SameSide, Touches, Along, Level, From
<1>10. CASE a[2] = here[2] /\ b[2] = here[2]
  <2>1. X = 0 /\ Ma = 0
    BY <1>1, <1>2, <1>3, <1>10
  <2>2. met = Along
    BY <1>5, <1>6, <2>1
  <2>3. met.on <=> Between(here[1], a[1], b[1])
    <3>1. Along.on = Between(here[1], a[1], b[1])
      BY <1>7 DEF Along
    <3> QED BY <2>2, <3>1
  <2>4. met.crosses <=> SameSide /\ (IF a[1] < b[1] THEN here[1] < a[1] ELSE here[1] <= b[1])
    BY <2>2, <1>7, Zenon DEF Along
  <2>5. met.on <=> OnBorder(a, b, here)
    BY <1>1, <1>8, <1>10, <2>1, <2>3 DEF Between
  <2>6. ~met.on => ((IF a[1] < b[1] THEN here[1] < a[1] ELSE here[1] <= b[1]) <=> a[1] > here[1])
    BY <1>1, <2>3 DEF Between
  <2>7. ~met.on => (met.crosses <=> SameSide /\ a[1] > here[1])
    BY <2>4, <2>6
  <2> QED BY <1>1, <1>10, <2>5, <2>7 DEF met, SameSide
<1>11. CASE (a[2] = here[2] /\ b[2] # here[2]) \/ (a[2] # here[2] /\ b[2] = here[2])
  <2>1. Y # 0 /\ (Ma = 0 \/ Mb = 0) /\ (Ma = 0 <=> a[2] = here[2])
    BY <1>1, <1>2, <1>3, <1>11
  <2>2. X = 0 <=> here = a \/ here = b
    <3>1. here = a <=> here[1] = a[1] /\ here[2] = a[2]
      BY <1>1
    <3>2. here = b <=> here[1] = b[1] /\ here[2] = b[2]
      BY <1>1
    <3>3. X = 0 <=> ~(X < 0) /\ ~(X > 0)
      BY <1>2
    <3> QED BY <1>1, <1>4, <1>11, <3>1, <3>2, <3>3
  <2>3. CASE here = a \/ here = b
    <3>1. met = Along
      BY <1>5, <1>6, <2>1, <2>2, <2>3
    <3>2. Between(here[1], a[1], b[1]) /\ Between(here[2], a[2], b[2])
      BY <1>1, <2>3 DEF Between
    <3>3. met.on /\ OnBorder(a, b, here)
      BY <1>7, <1>8, <2>2, <2>3, <3>1, <3>2 DEF Along
    <3> QED BY <3>3 DEF met
  <2>4. CASE here # a /\ here # b
    <3>1. X # 0 /\ ~(sides = 0) /\ ~(ends < 0)
      BY <1>2, <1>6, <2>1, <2>2, <2>4
    <3>2. ~OnBorder(a, b, here)
      BY <1>8, <3>1
    <3>3. CASE a[2] = here[2]
      <4>1. met = From
        BY <1>5, <1>6, <2>1, <3>1, <3>3
      <4>2. ~met.on
        BY <2>4, <4>1, <1>7 DEF From
      <4>3. met.crosses <=> here[1] <= a[1] /\ ~Touches
        BY <2>4, <4>1, <1>7, Zenon DEF From
      <4>4. here[1] # a[1]
        BY <1>1, <2>4, <3>3
      <4> QED BY <1>1, <1>11, <3>2, <3>3, <4>2, <4>3, <4>4 DEF met, Touches
    <3>4. CASE a[2] # here[2]
      <4>1. met = Meeting(FALSE, FALSE)
        BY <1>5, <1>6, <2>1, <3>1, <3>4
      <4>2. ~met.on /\ ~met.crosses
        BY <4>1, <1>7
      <4> QED BY <1>1, <1>11, <3>2, <3>4, <4>2 DEF met
    <3> QED BY <3>3, <3>4
  <2> QED BY <2>3, <2>4
<1>12. CASE (a[2] < here[2] /\ here[2] < b[2]) \/ (b[2] < here[2] /\ here[2] < a[2])
  <2>1. ends < 0 /\ ~(ends = 0) /\ Ma # 0 /\ Y # 0
    BY <1>1, <1>2, <1>3, <1>6, <1>12
  <2>2. CASE X = 0
    <3>1. met = Level
      BY <1>5, <1>6, <2>1, <2>2
    <3>2. here # a /\ here # b
      BY <1>1, <1>12
    <3>3. met.on <=> (\/ (a[1] <= here[1] /\ here[1] < b[1])
                      \/ (b[1] <= here[1] /\ here[1] < a[1])
                      \/ (a[1] = b[1] /\ a[1] = here[1]))
      BY <3>1, <3>2, <1>7, Zenon DEF Level
    <3>4. Between(here[2], a[2], b[2])
      BY <1>1, <1>12 DEF Between
    <3>5. /\ a[1] < b[1] => a[1] < here[1] /\ here[1] < b[1]
          /\ b[1] < a[1] => b[1] < here[1] /\ here[1] < a[1]
          /\ a[1] = b[1] => here[1] = a[1]
      <4> DEFINE u == here[2] - a[2]
                 v == b[2] - a[2]
                 r == here[1] - a[1]
                 s == b[1] - a[1]
      <4>1. /\ u \in Int /\ v \in Int /\ r \in Int /\ s \in Int /\ s * u = r * v
            /\ (0 < u /\ u < v) \/ (v < u /\ u < 0)
        <5>1. u \in Int /\ v \in Int /\ r \in Int /\ s \in Int
          BY <1>1
        <5>2. (0 < u /\ u < v) \/ (v < u /\ u < 0)
          BY <1>1, <1>12
        <5>3. s * u - r * v = 0
          BY <1>9, <2>2
        <5> HIDE DEF s, u, r, v
        <5> QED BY <5>1, <5>2, <5>3
      <4> HIDE DEF u, v, r, s
      <4>2. /\ s > 0 => 0 < r /\ r < s
            /\ s < 0 => s < r /\ r < 0
            /\ s = 0 => r = 0
        BY <4>1
      <4> QED BY <1>1, <4>2 DEF r, s
    <3>6. met.on /\ OnBorder(a, b, here)
      BY <1>1, <1>8, <2>2, <3>3, <3>4, <3>5 DEF Between
    <3> QED BY <3>6 DEF met
  <2>3. CASE X # 0
    <3>1. ~OnBorder(a, b, here)
      BY <1>8, <2>3
    <3>2. CASE sides < 0
      <4>1. met = Meeting(FALSE, TRUE)
        BY <1>5, <1>6, <2>1, <2>3, <3>2
      <4>2. ~met.on /\ met.crosses
        BY <4>1, <1>7
      <4> QED BY <1>1, <1>2, <1>3, <1>6, <1>12, <3>1, <3>2, <4>2 DEF met, X
    <3>3. CASE ~(sides < 0)
      <4>1. met = Meeting(FALSE, FALSE)
        BY <1>5, <1>6, <2>1, <2>3, <3>3
      <4>2. ~met.on /\ ~met.crosses
        BY <4>1, <1>7
      <4> QED BY <1>1, <1>2, <1>3, <1>6, <1>12, <3>1, <3>3, <4>2 DEF met, X
    <3> QED BY <3>2, <3>3
  <2> QED BY <2>2, <2>3
<1>13. CASE (a[2] < here[2] /\ b[2] < here[2]) \/ (a[2] > here[2] /\ b[2] > here[2])
  <2>1. ~(ends = 0) /\ ~(ends < 0) /\ Ma # 0
    BY <1>1, <1>2, <1>6, <1>13
  <2>2. ~Between(here[2], a[2], b[2]) /\ ~OnBorder(a, b, here)
    BY <1>1, <1>8, <1>13 DEF Between
  <2>3. here # a /\ here # b
    BY <1>1, <1>13
  <2>4. CASE X # 0
    <3>1. met = Meeting(FALSE, FALSE)
      BY <1>5, <1>6, <2>1, <2>4
    <3>2. ~met.on /\ ~met.crosses
      BY <3>1, <1>7
    <3> QED BY <1>1, <1>13, <2>2, <3>2 DEF met
  <2>5. CASE X = 0
    <3>1. met = Level
      BY <1>5, <1>6, <2>1, <2>5
    <3>2. ~met.crosses
      BY <3>1, <1>7 DEF Level
    <3>3. met.on <=> (\/ (a[1] <= here[1] /\ here[1] < b[1])
                      \/ (b[1] <= here[1] /\ here[1] < a[1])
                      \/ (a[1] = b[1] /\ a[1] = here[1]))
      BY <2>3, <3>1, <1>7, Zenon DEF Level
    <3>4. ~(a[1] <= here[1] /\ here[1] < b[1]) /\ ~(b[1] <= here[1] /\ here[1] < a[1])
      <4> DEFINE u == here[2] - a[2]
                 w == here[2] - b[2]
                 r == here[1] - a[1]
                 s == b[1] - here[1]
      <4>1. u \in Int /\ w \in Int /\ r \in Int /\ s \in Int
        BY <1>1
      <4>2. (0 < u /\ 0 < w) \/ (u < 0 /\ w < 0)
        BY <1>1, <1>13
      <4>3. s * u + r * w = 0
        <5>1. (b[1] - a[1]) * (here[2] - a[2]) - (here[1] - a[1]) * (b[2] - a[2]) = s * u + r * w
          BY <1>1
        <5> QED BY <1>9, <2>5, <5>1
      <4> HIDE DEF u, w, r, s
      <4>4. ~(r >= 0 /\ s > 0) /\ ~(s <= 0 /\ r < 0)
        BY <4>1, <4>2, <4>3
      <4> QED BY <1>1, <4>4 DEF r, s
    <3>5. ~met.on
      BY <1>1, <3>3, <3>4
    <3> QED BY <1>1, <1>13, <2>2, <3>2, <3>5 DEF met
  <2> QED BY <2>4, <2>5
<1> QED BY <1>1, <1>10, <1>11, <1>12, <1>13

\* A corner on the meridian is reckoned with the east when the border that comes to
\* it, or the first of two, comes from there.
Turn(previous, x, next, here) ==
  \/ x[2] > here[2]
  \/ /\ x[2] = here[2] /\ x[1] > here[1]
     /\ IF previous[2] = here[2] THEN ~(next[2] > here[2]) ELSE previous[2] > here[2]

\* Where the meridian test and the definition count a border differently, one of its
\* ends is on the meridian and reckoned with another side than it is by the other.
LEMMA CrossesIs ==
  ASSUME Pole \in Int, NEW previous \in Below, NEW a \in Below, NEW b \in Below, NEW next \in Below, NEW here \in Below,
         ~(a[1] = here[1] /\ b[1] = here[1]),
         ~(previous[2] = a[2] /\ a[2] = b[2]), ~(a[2] = b[2] /\ b[2] = next[2]),
         ~LineSegmentIntersection(previous, a, b, next, here).on
  PROVE  (LineSegmentIntersection(previous, a, b, next, here).crosses <=> Counted(a, b, here))
           <=> (Turn(previous, a, b, here) <=> Turn(a, b, next, here))
<1> DEFINE met == LineSegmentIntersection(previous, a, b, next, here)
           X == CrossProduct(a, b, here)
           SameSide == (here[2] - previous[2]) * (next[2] - here[2]) < 0
           Touches == (b[2] - a[2]) * (a[2] - previous[2]) < 0
           signed == Sign(b[2] - a[2]) * X
<1>1. /\ a[1] \in Int /\ a[2] \in Int /\ b[1] \in Int /\ b[2] \in Int /\ here[1] \in Int /\ here[2] \in Int
      /\ previous[2] \in Int /\ next[2] \in Int /\ a \in Plane /\ b \in Plane /\ here \in Plane
  BY DEF Below, Plane
<1>2. ~OnBorder(a, b, here)
  BY MetIs
<1>3. /\ a[2] = here[2] /\ b[2] = here[2] => (met.crosses <=> SameSide /\ a[1] > here[1])
      /\ a[2] = here[2] /\ b[2] # here[2] => (met.crosses <=> ~Touches /\ a[1] > here[1])
      /\ a[2] # here[2] /\ b[2] = here[2] => ~met.crosses
      /\ a[2] < here[2] /\ here[2] < b[2] => (met.crosses <=> X > 0)
      /\ b[2] < here[2] /\ here[2] < a[2] => (met.crosses <=> X < 0)
      /\ a[2] < here[2] /\ b[2] < here[2] => ~met.crosses
      /\ a[2] > here[2] /\ b[2] > here[2] => ~met.crosses
  BY MetIs
<1>4. /\ X \in Int
      /\ a[2] = here[2] /\ b[2] = here[2] => X = 0
      /\ a[2] = here[2] /\ b[2] > here[2] => (X < 0 <=> here[1] > a[1]) /\ (X > 0 <=> here[1] < a[1])
      /\ a[2] = here[2] /\ b[2] < here[2] => (X < 0 <=> here[1] < a[1]) /\ (X > 0 <=> here[1] > a[1])
      /\ b[2] = here[2] /\ a[2] > here[2] => (X < 0 <=> here[1] < b[1]) /\ (X > 0 <=> here[1] > b[1])
      /\ b[2] = here[2] /\ a[2] < here[2] => (X < 0 <=> here[1] > b[1]) /\ (X > 0 <=> here[1] < b[1])
  <2>1. X \in Int
    BY <1>1, CrossIs
  <2> QED BY <1>1, <2>1, EndOnMeridianIs
<1>5. ~(X = 0 /\ Between(here[1], a[1], b[1]) /\ Between(here[2], a[2], b[2]))
  BY <1>2, <1>4, SignIs DEF OnBorder, Ccw
<1>6. Counted(a, b, here) <=> (a[2] > here[2]) # (b[2] > here[2]) /\ signed < 0
  BY DEF Counted
<1>7. /\ a[2] < b[2] => signed = X
      /\ b[2] < a[2] => signed = -X
  <2>1. X \in Int
    BY <1>4
  <2>2. /\ a[2] < b[2] => Sign(b[2] - a[2]) = 1
        /\ b[2] < a[2] => Sign(b[2] - a[2]) = -1
    BY <1>1 DEF Sign
  <2> HIDE DEF X
  <2>3. 1 * X = X /\ (-1) * X = -X
    BY <2>1
  <2> QED BY <2>2, <2>3
<1> HIDE DEF met, X, signed
<1>8. Counted(a, b, here) <=> \/ a[2] <= here[2] /\ here[2] < b[2] /\ X < 0
                              \/ b[2] <= here[2] /\ here[2] < a[2] /\ X > 0
  BY <1>1, <1>4, <1>6, <1>7
<1>9. CASE a[2] = here[2] /\ b[2] = here[2]
  <2>1. previous[2] # here[2] /\ next[2] # here[2]
    BY <1>9
  <2>2. SameSide <=> (previous[2] > here[2] <=> next[2] > here[2])
    <3> DEFINE u == here[2] - previous[2]
               v == next[2] - here[2]
    <3>1. u \in Int /\ v \in Int /\ u # 0 /\ v # 0
      BY <1>1, <2>1
    <3> HIDE DEF u, v
    <3>2. u * v < 0 <=> (u < 0 <=> v > 0)
      BY <3>1
    <3> QED BY <1>1, <3>2 DEF u, v
  <2>3. a[1] > here[1] <=> b[1] > here[1]
    BY <1>1, <1>4, <1>5, <1>9 DEF Between
  <2>4. ~Counted(a, b, here)
    BY <1>1, <1>8, <1>9
  <2>5. met.crosses <=> SameSide /\ a[1] > here[1]
    BY <1>3, <1>9
  <2>6. Turn(previous, a, b, here) <=> a[1] > here[1] /\ previous[2] > here[2]
    BY <1>1, <1>9, <2>1 DEF Turn
  <2>7. Turn(a, b, next, here) <=> b[1] > here[1] /\ ~(next[2] > here[2])
    BY <1>1, <1>9, <2>1 DEF Turn
  <2> HIDE DEF SameSide
  <2> QED BY <2>2, <2>3, <2>4, <2>5, <2>6, <2>7 DEF met
<1>10. CASE a[2] = here[2] /\ b[2] # here[2]
  <2>1. a[1] # here[1]
    BY <1>1, <1>4, <1>5, <1>10 DEF Between
  <2>2. Touches <=> (b[2] > here[2] /\ previous[2] > here[2]) \/ (b[2] < here[2] /\ previous[2] < here[2])
    <3> DEFINE u == b[2] - a[2]
               v == a[2] - previous[2]
    <3>1. u \in Int /\ v \in Int /\ u # 0
      BY <1>1, <1>10
    <3> HIDE DEF u, v
    <3>2. u * v < 0 <=> (u > 0 /\ v < 0) \/ (u < 0 /\ v > 0)
      BY <3>1
    <3> QED BY <1>1, <1>10, <3>2 DEF u, v
  <2>3. Counted(a, b, here) <=> b[2] > here[2] /\ a[1] < here[1]
    BY <1>1, <1>4, <1>8, <1>10
  <2>4. met.crosses <=> ~Touches /\ a[1] > here[1]
    BY <1>3, <1>10
  <2>5. Turn(a, b, next, here) <=> b[2] > here[2]
    BY <1>1, <1>10 DEF Turn
  <2>6. Turn(previous, a, b, here) <=> /\ a[1] > here[1]
                                       /\ IF previous[2] = here[2] THEN ~(b[2] > here[2]) ELSE previous[2] > here[2]
    BY <1>1, <1>10 DEF Turn
  <2> HIDE DEF Touches
  <2> QED BY <1>1, <1>10, <2>1, <2>2, <2>3, <2>4, <2>5, <2>6 DEF met
<1>11. CASE a[2] # here[2] /\ b[2] = here[2]
  <2>1. b[1] # here[1]
    BY <1>1, <1>4, <1>5, <1>11 DEF Between
  <2>2. Counted(a, b, here) <=> a[2] > here[2] /\ b[1] < here[1]
    BY <1>1, <1>4, <1>8, <1>11
  <2>3. ~met.crosses
    BY <1>3, <1>11
  <2>4. Turn(a, b, next, here) <=> b[1] > here[1] /\ a[2] > here[2]
    BY <1>1, <1>11 DEF Turn
  <2>5. Turn(previous, a, b, here) <=> a[2] > here[2]
    BY <1>1, <1>11 DEF Turn
  <2> QED BY <1>1, <2>1, <2>2, <2>3, <2>4, <2>5 DEF met
<1>12. CASE a[2] # here[2] /\ b[2] # here[2]
  <2>1. Turn(a, b, next, here) <=> b[2] > here[2]
    BY <1>12 DEF Turn
  <2>2. Turn(previous, a, b, here) <=> a[2] > here[2]
    BY <1>12 DEF Turn
  <2>3. X = 0 => ~((a[2] < here[2] /\ here[2] < b[2]) \/ (b[2] < here[2] /\ here[2] < a[2]))
    <3> SUFFICES ASSUME X = 0, (a[2] < here[2] /\ here[2] < b[2]) \/ (b[2] < here[2] /\ here[2] < a[2]) PROVE FALSE
      OBVIOUS
    <3> DEFINE u == here[2] - a[2]
               w == b[2] - here[2]
               r == here[1] - a[1]
               s == b[1] - here[1]
    <3>1. /\ u \in Int /\ w \in Int /\ r \in Int /\ s \in Int
          /\ (0 < u /\ 0 < w) \/ (u < 0 /\ w < 0)
      BY <1>1
    <3>2. s * u - r * w = 0
      <4>1. X = (b[1] - a[1]) * (here[2] - a[2]) - (here[1] - a[1]) * (b[2] - a[2])
        BY DEF X, CrossProduct
      <4>2. (b[1] - a[1]) * (here[2] - a[2]) - (here[1] - a[1]) * (b[2] - a[2]) = s * u - r * w
        BY <1>1
      <4> QED BY <4>1, <4>2
    <3> HIDE DEF u, w, r, s
    <3>3. (r >= 0 /\ s >= 0) \/ (r <= 0 /\ s <= 0)
      BY <3>1, <3>2
    <3>4. Between(here[1], a[1], b[1]) /\ Between(here[2], a[2], b[2])
      BY <1>1, <3>3 DEF Between, r, s
    <3> QED BY <1>5, <3>4
  <2> QED BY <1>1, <1>3, <1>4, <1>8, <1>12, <2>1, <2>2, <2>3 DEF met
<1> QED BY <1>9, <1>10, <1>11, <1>12

LEMMA BorderIs ==
  ASSUME NEW l \in Seq(Plane), NEW here \in Plane
  PROVE  Border(l, here) <=> \E i \in 1..Len(l) : OnBorder(Corner(l, i), Corner(l, i + 1), here)
<1>1. DOMAIN l = 1..Len(l)
  OBVIOUS
<1>2. \A i \in 1..Len(l) : Corner(l, i) = l[i]
  BY CornerIs
<1> QED BY <1>1, <1>2 DEF Border, OnBorder

LEMMA DividedIs ==
  ASSUME NEW l \in Seq(Plane), ~DividedMeridian(l), NEW i \in 1..Len(l)
  PROVE  ~(Corner(l, i)[2] = Corner(l, i + 1)[2] /\ Corner(l, i + 1)[2] = Corner(l, i + 2)[2])
<1> SUFFICES ASSUME Corner(l, i)[2] = Corner(l, i + 1)[2], Corner(l, i + 1)[2] = Corner(l, i + 2)[2] PROVE FALSE
  OBVIOUS
<1>1. i \in DOMAIN l /\ i \in Nat /\ i + 0 = i
  OBVIOUS
<1>2. 0..2 = {0, 1, 2}
  OBVIOUS
<1>3. {Corner(l, i + n)[2] : n \in 0..2} = {Corner(l, i)[2]}
  BY <1>1, <1>2
<1>4. Cardinality({Corner(l, i)[2]}) = 1
  BY FS_Singleton
<1> QED BY <1>1, <1>3, <1>4 DEF DividedMeridian

\* The test by crossings of the meridian is right: with Turn, what it counts goes up
\* and down around the polygon together with what the definition counts.
LEMMA InsideIs ==
  ASSUME Pole \in Int, NEW l \in Seq(Below), NEW here \in Below, Sound(l, here)
  PROVE  InsidePolygonIndicator(l, here) <=> Border(l, here) \/ Winds(l, here)
<1> DEFINE n == Len(l)
           At(i) == Corner(l, i)
           Met(i) == LineSegmentIntersection(At(i), At(i + 1), At(i + 2), At(i + 3), here)
           A == {i \in DOMAIN l : Met(i).crosses}
<1>1. InsidePolygonIndicator(l, here) <=> (\E i \in DOMAIN l : Met(i).on) \/ Cardinality(A) % 2 = 1
  BY DEF InsidePolygonIndicator
<1>2. Below \in SUBSET Plane
  BY DEF Below
<1>3. l \in Seq(Plane) /\ here \in Plane /\ n \in Nat /\ DOMAIN l = 1..n
  <2>1. \A i \in 1..Len(l) : l[i] \in Plane
    BY <1>2
  <2> QED BY <1>2, <2>1, SeqDef
<1>4. CASE n = 0
  <2>1. DOMAIN l = {} /\ A = {}
    BY <1>3, <1>4
  <2>2. CountedOf(l, here) = {}
    BY <1>4 DEF CountedOf
  <2>3. Winds(l, here) <=> Cardinality(A) % 2 = 1
    BY <1>3, <2>1, <2>2, WindsIs
  <2>4. ~Border(l, here)
    BY <2>1 DEF Border
  <2> QED BY <1>1, <2>1, <2>3, <2>4
<1>5. CASE n # 0
  <2>1. /\ \A i \in Nat \ {0} : At(i) \in Below
        /\ \A i \in Nat \ {0} : At(i + n) = At(i)
        /\ \A i \in 1..n : At(i) = l[i]
    <3>1. \A i \in Nat \ {0} : \E j \in 1..n : At(i) = l[j]
      BY <1>3, <1>5, CornerIs
    <3>2. \A j \in 1..n : l[j] \in Below
      OBVIOUS
    <3>3. \A i \in Nat \ {0} : At(i) \in Below
      BY <3>1, <3>2
    <3>4. \A i \in Nat \ {0} : At(i + n) = At(i)
      BY <1>3, <1>5, CornerIs
    <3>5. \A i \in 1..n : At(i) = l[i]
      BY <1>3, <1>5, CornerIs
    <3> QED BY <3>3, <3>4, <3>5
  <2>2. At(n + 1) = At(1) /\ At(n + 2) = At(2) /\ At(n + 3) = At(3)
    <3>1. At(1 + n) = At(1) /\ At(2 + n) = At(2) /\ At(3 + n) = At(3)
      BY <2>1
    <3>2. n + 1 = 1 + n /\ n + 2 = 2 + n /\ n + 3 = 3 + n
      BY <1>3
    <3> QED BY <3>1, <3>2
  <2>3. ASSUME NEW i \in 1..n
        PROVE  /\ ~(At(i)[1] = here[1] /\ At(i + 1)[1] = here[1])
               /\ ~(At(i)[2] = At(i + 1)[2] /\ At(i + 1)[2] = At(i + 2)[2])
    <3>1. ~(At(i)[1] = here[1] /\ At(i + 1)[1] = here[1])
      BY <1>3, <2>1 DEF Sound, LevelWithParallel
    <3>2. ~(At(i)[2] = At(i + 1)[2] /\ At(i + 1)[2] = At(i + 2)[2])
      BY <1>3, DividedIs DEF Sound
    <3> QED BY <3>1, <3>2
  <2> HIDE DEF At, n
  <2>4. \A i \in 1..n : i + 1 \in 1..n \/ i = n
    BY <1>3
  <2>5. 1 \in 1..n /\ n \in 1..n
    BY <1>3, <1>5
  <2>6. ASSUME NEW i \in 1..n
        PROVE  /\ ~(At(i + 1)[1] = here[1] /\ At(i + 2)[1] = here[1])
               /\ ~(At(i + 1)[2] = At(i + 2)[2] /\ At(i + 2)[2] = At(i + 3)[2])
    <3>1. CASE i + 1 \in 1..n
      <4>1. i + 1 + 1 = i + 2 /\ i + 1 + 2 = i + 3
        BY <1>3
      <4> QED BY <2>3, <3>1, <4>1
    <3>2. CASE i = n
      <4>1. 1 + 1 = 2 /\ 1 + 2 = 3
        OBVIOUS
      <4> QED BY <2>2, <2>3, <2>5, <3>2, <4>1
    <3> QED BY <2>4, <3>1, <3>2
  <2>7. ASSUME NEW i \in 1..n
        PROVE  At(i) \in Below /\ At(i + 1) \in Below /\ At(i + 2) \in Below /\ At(i + 3) \in Below
    <3>1. i \in Nat \ {0} /\ i + 1 \in Nat \ {0} /\ i + 2 \in Nat \ {0} /\ i + 3 \in Nat \ {0}
      BY <1>3
    <3> QED BY <2>1, <3>1
  <2>8. ASSUME NEW i \in 1..n PROVE Met(i).on <=> OnBorder(At(i + 1), At(i + 2), here)
    BY <2>6, <2>7, MetIs
  <2>9. (\E i \in 1..n : Met(i).on) <=> \E i \in 1..n : OnBorder(At(i), At(i + 1), here)
    <3>1. ASSUME NEW i \in 1..n, Met(i).on PROVE \E j \in 1..n : OnBorder(At(j), At(j + 1), here)
      <4>1. OnBorder(At(i + 1), At(i + 2), here)
        BY <2>8, <3>1
      <4>2. CASE i + 1 \in 1..n
        <5>1. i + 1 + 1 = i + 2
          BY <1>3
        <5> QED BY <4>1, <4>2, <5>1
      <4>3. CASE i = n
        <5>1. OnBorder(At(1), At(2), here) /\ 1 + 1 = 2
          BY <2>2, <4>1, <4>3
        <5> QED BY <2>5, <5>1
      <4> QED BY <2>4, <4>2, <4>3
    <3>2. ASSUME NEW j \in 1..n, OnBorder(At(j), At(j + 1), here) PROVE \E i \in 1..n : Met(i).on
      <4>1. CASE j = 1
        <5>1. OnBorder(At(n + 1), At(n + 2), here)
          BY <2>2, <3>2, <4>1
        <5> QED BY <2>5, <2>8, <5>1
      <4>2. CASE j # 1
        <5>1. j - 1 \in 1..n /\ (j - 1) + 1 = j /\ (j - 1) + 2 = j + 1
          BY <1>3, <4>2
        <5> QED BY <2>8, <3>2, <5>1
      <4> QED BY <4>1, <4>2
    <3> QED BY <3>1, <3>2
  <2>10. (\E i \in DOMAIN l : Met(i).on) <=> Border(l, here)
    <3>1. Border(l, here) <=> \E i \in 1..n : OnBorder(At(i), At(i + 1), here)
      BY <1>3, BorderIs DEF At, n
    <3> QED BY <1>3, <2>9, <3>1
  <2>11. ASSUME ~Border(l, here) PROVE Cardinality(A) % 2 = 1 <=> Winds(l, here)
    <3> DEFINE Around(i) == Turn(At(i), At(i + 1), At(i + 2), here)
               Here(i) == Counted(At(i), At(i + 1), here)
               T == {i \in 1..n + 1 : ~(Around(i) <=> Here(i))}
    <3>1. A \in SUBSET (1..n) /\ CountedOf(l, here) \in SUBSET (1..n)
      BY <1>3 DEF CountedOf, n
    <3>2. ASSUME NEW i \in 1..n
          PROVE  (Met(i).crosses <=> Here(i + 1)) <=> (Around(i) <=> Around(i + 1))
      <4>1. ~Met(i).on
        BY <1>3, <2>10, <2>11
      <4>2. i + 1 + 1 = i + 2 /\ i + 1 + 2 = i + 3
        BY <1>3
      <4>3. (Met(i).crosses <=> Counted(At(i + 1), At(i + 2), here))
              <=> (Turn(At(i), At(i + 1), At(i + 2), here) <=> Turn(At(i + 1), At(i + 2), At(i + 3), here))
        BY <2>3, <2>6, <2>7, <4>1, CrossesIs
      <4> QED BY <4>2, <4>3
    <3>3. 1 \in T <=> n + 1 \in T
      <4>1. n + 1 + 1 = n + 2 /\ n + 1 + 2 = n + 3 /\ 1 + 1 = 2 /\ 1 + 2 = 3
        BY <1>3
      <4>2. (Around(n + 1) <=> Around(1)) /\ (Here(n + 1) <=> Here(1))
        BY <2>2, <4>1
      <4>3. 1 \in 1..n + 1 /\ n + 1 \in 1..n + 1
        BY <1>3
      <4> QED BY <4>2, <4>3
    <3>4. ASSUME NEW i \in 1..n
          PROVE  (i \in A <=> i \in CountedOf(l, here)) <=> (i \in T <=> i + 1 \in T)
      <4>1. i \in A <=> Met(i).crosses
        BY <1>3
      <4>2. i \in CountedOf(l, here) <=> Here(i)
        BY DEF CountedOf, At, n
      <4>3. i \in 1..n + 1 /\ i + 1 \in 1..n + 1
        BY <1>3
      <4>4. (i \in T <=> ~(Around(i) <=> Here(i))) /\ (i + 1 \in T <=> ~(Around(i + 1) <=> Here(i + 1)))
        BY <4>3
      <4> HIDE DEF T, A, Around, Here, Met
      <4> QED BY <3>2, <4>1, <4>2, <4>4
    <3> HIDE DEF T, A
    <3>5. Cardinality(A) % 2 = 1 <=> Cardinality(CountedOf(l, here)) % 2 = 1
      BY <1>3, <3>1, <3>3, <3>4, SameParity
    <3> QED BY <1>3, <3>5, WindsIs
  <2> HIDE DEF A, Met
  <2> QED BY <1>1, <2>10, <2>11
<1> QED BY <1>4, <1>5
-----------------------------------------------------------------------------
LEMMA MinMaxIs ==
  ASSUME NEW x \in Int, NEW y \in Int
  PROVE  /\ Min({x, y}) = IF x <= y THEN x ELSE y
         /\ Max({x, y}) = IF x <= y THEN y ELSE x
<1>1. \E z \in {x, y} : \A u \in {x, y} : z <= u
  OBVIOUS
<1>2. \E z \in {x, y} : \A u \in {x, y} : z >= u
  OBVIOUS
<1>3. Min({x, y}) \in {x, y} /\ \A u \in {x, y} : Min({x, y}) <= u
  BY <1>1 DEF Min
<1>4. Max({x, y}) \in {x, y} /\ \A u \in {x, y} : Max({x, y}) >= u
  BY <1>2 DEF Max
<1> QED BY <1>3, <1>4

\* A fraction lies strictly between two numbers when it is beyond just one of them.
LEMMA BetweenIs ==
  ASSUME NEW num \in Int, NEW den \in Int, den # 0, NEW x \in Int, NEW y \in Int
  PROVE  (Sign(den) * num > Min({x, y}) * Abs(den) /\ Sign(den) * num < Max({x, y}) * Abs(den))
           <=> (num - x * den) * (num - y * den) < 0
<1> DEFINE m == IF x <= y THEN x ELSE y
           k == IF x <= y THEN y ELSE x
           u == num - m * den
           v == num - k * den
<1>1. Min({x, y}) = m /\ Max({x, y}) = k
  BY MinMaxIs
<1>2. m \in Int /\ k \in Int /\ m <= k /\ ((m = x /\ k = y) \/ (m = y /\ k = x))
  OBVIOUS
<1> HIDE DEF m, k
<1>3. u \in Int /\ v \in Int /\ u = v + (k - m) * den
  BY <1>2
<1>4. (num - x * den) * (num - y * den) = u * v
  <2>1. CASE m = x /\ k = y
    BY <2>1
  <2>2. CASE m = y /\ k = x
    BY <2>2, <1>2
  <2> QED BY <1>2, <2>1, <2>2
<1>5. CASE den > 0
  <2>1. Sign(den) = 1 /\ Abs(den) = den
    BY <1>5 DEF Sign, Abs
  <2>2. Sign(den) * num > m * Abs(den) <=> u > 0
    BY <1>2, <2>1
  <2>3. Sign(den) * num < k * Abs(den) <=> v < 0
    BY <1>2, <2>1
  <2>4. (k - m) * den >= 0
    BY <1>2, <1>5
  <2> HIDE DEF u, v
  <2>5. (k - m) * den \in Int
    BY <1>2
  <2>6. u * v < 0 <=> u > 0 /\ v < 0
    <3>1. u >= v
      BY <1>3, <2>4, <2>5
    <3> QED BY <1>3, <3>1
  <2> QED BY <1>1, <1>4, <2>2, <2>3, <2>6
<1>6. CASE den < 0
  <2>1. Sign(den) = -1 /\ Abs(den) = -den
    BY <1>6 DEF Sign, Abs
  <2>2. Sign(den) * num > m * Abs(den) <=> u < 0
    <3>1. m * (-den) = -(m * den) /\ m * den \in Int /\ (-1) * num = -num
      BY <1>2
    <3> QED BY <2>1, <3>1
  <2>3. Sign(den) * num < k * Abs(den) <=> v > 0
    <3>1. k * (-den) = -(k * den) /\ k * den \in Int /\ (-1) * num = -num
      BY <1>2
    <3> QED BY <2>1, <3>1
  <2>4. (k - m) * den <= 0
    BY <1>2, <1>6
  <2> HIDE DEF u, v
  <2>5. (k - m) * den \in Int
    BY <1>2
  <2>6. u * v < 0 <=> u < 0 /\ v > 0
    <3>1. u <= v
      BY <1>3, <2>4, <2>5
    <3> QED BY <1>3, <3>1
  <2> QED BY <1>1, <1>4, <2>2, <2>3, <2>6
<1> QED BY <1>5, <1>6

\* lineInPolygon compares longitudes where it means that two borders cross.
LEMMA CutsIs ==
  ASSUME NEW p \in Plane, NEW q \in Plane, NEW start \in Plane, NEW end \in Plane
  PROVE  Cuts(p, q, start, end) <=> ~OnMeridian(p, q) /\ ~OnMeridian(start, end) /\ Properly(p, q, start, end)
<1> DEFINE dLat == q[1] - p[1]
           dLon == q[2] - p[2]
           eLat == end[1] - start[1]
           eLon == end[2] - start[2]
           den == dLat * eLon - eLat * dLon
           num == (end[1] - q[1]) * dLon * eLon + dLat * eLon * q[2] - eLat * dLon * end[2]
           A == CrossProduct(start, end, p)
           B == CrossProduct(start, end, q)
           C == CrossProduct(p, q, start)
           D == CrossProduct(p, q, end)
           Inside(x, y) == Sign(den) * num > Min({x, y}) * Abs(den) /\ Sign(den) * num < Max({x, y}) * Abs(den)
<1>1. /\ p[1] \in Int /\ p[2] \in Int /\ q[1] \in Int /\ q[2] \in Int
      /\ start[1] \in Int /\ start[2] \in Int /\ end[1] \in Int /\ end[2] \in Int
  BY DEF Plane
<1>2. A \in Int /\ B \in Int /\ C \in Int /\ D \in Int
  BY CrossIs
<1>3. /\ A = (end[1] - start[1]) * (p[2] - start[2]) - (p[1] - start[1]) * (end[2] - start[2])
      /\ B = (end[1] - start[1]) * (q[2] - start[2]) - (q[1] - start[1]) * (end[2] - start[2])
      /\ C = (q[1] - p[1]) * (start[2] - p[2]) - (start[1] - p[1]) * (q[2] - p[2])
      /\ D = (q[1] - p[1]) * (end[2] - p[2]) - (end[1] - p[1]) * (q[2] - p[2])
  BY DEF CrossProduct
<1>4. Properly(p, q, start, end) <=> ((C < 0 /\ D > 0) \/ (C > 0 /\ D < 0)) /\ ((A < 0 /\ B > 0) \/ (A > 0 /\ B < 0))
  BY <1>2, SignIs DEF Properly, Ccw
<1>5. Cuts(p, q, start, end) <=>
        dLon # 0 /\ eLon # 0 /\ den # 0 /\ Inside(p[2], q[2]) /\ Inside(start[2], end[2])
  <2> DEFINE Between2(pair) == LET lons == {pair[1][2], pair[2][2]}
                               IN  Sign(den) * num > Min(lons) * Abs(den) /\ Sign(den) * num < Max(lons) * Abs(den)
  <2>1. Cuts(p, q, start, end) <=>
          dLon # 0 /\ eLon # 0 /\ den # 0 /\ \A pair \in {<<p, q>>, <<start, end>>} : Between2(pair)
    BY Zenon DEF Cuts
  <2>2. (\A pair \in {<<p, q>>, <<start, end>>} : Between2(pair)) <=> Between2(<<p, q>>) /\ Between2(<<start, end>>)
    <3> HIDE DEF Between2
    <3> QED BY Zenon
  <2>3. <<p, q>>[1] = p /\ <<p, q>>[2] = q /\ <<start, end>>[1] = start /\ <<start, end>>[2] = end
    OBVIOUS
  <2> QED BY <2>1, <2>2, <2>3
<1>6. den \in Int /\ num \in Int /\ dLon \in Int /\ eLon \in Int
  BY <1>1
<1>7. num - p[2] * den = dLon * A /\ num - q[2] * den = dLon * B
  BY <1>1, <1>3
<1>8. num - start[2] * den = -(eLon * C) /\ num - end[2] * den = -(eLon * D)
  BY <1>1, <1>3
<1>9. A - B = den
  BY <1>1, <1>3
<1>10. OnMeridian(p, q) <=> dLon = 0
  BY <1>1 DEF OnMeridian
<1>11. OnMeridian(start, end) <=> eLon = 0
  BY <1>1 DEF OnMeridian
<1> HIDE DEF A, B, C, D, den, num, dLon, eLon, dLat, eLat
<1>12. den # 0 /\ dLon # 0 => (Inside(p[2], q[2]) <=> (A < 0 /\ B > 0) \/ (A > 0 /\ B < 0))
  <2> SUFFICES ASSUME den # 0, dLon # 0 PROVE Inside(p[2], q[2]) <=> (A < 0 /\ B > 0) \/ (A > 0 /\ B < 0)
    OBVIOUS
  <2>1. Inside(p[2], q[2]) <=> (num - p[2] * den) * (num - q[2] * den) < 0
    BY <1>1, <1>6, BetweenIs
  <2>2. (num - p[2] * den) * (num - q[2] * den) < 0 <=> (dLon * A) * (dLon * B) < 0
    BY <1>7
  <2> HIDE DEF Inside
  <2>3. (dLon * A) * (dLon * B) = (dLon * dLon) * (A * B)
    BY <1>2, <1>6
  <2>4. dLon * dLon \in Int /\ dLon * dLon > 0 /\ A * B \in Int
    BY <1>2, <1>6
  <2>5. (dLon * dLon) * (A * B) < 0 <=> A * B < 0
    <3> DEFINE x == dLon * dLon
               y == A * B
    <3> HIDE DEF x, y
    <3>1. x \in Int /\ y \in Int /\ x > 0
      BY <2>4 DEF x, y
    <3>2. x * y < 0 <=> y < 0
      BY <3>1
    <3> QED BY <3>2 DEF x, y
  <2>6. A * B < 0 <=> (A < 0 /\ B > 0) \/ (A > 0 /\ B < 0)
    BY <1>2
  <2> QED BY <2>1, <2>2, <2>3, <2>5, <2>6
<1>13. den # 0 /\ eLon # 0 => (Inside(start[2], end[2]) <=> (C < 0 /\ D > 0) \/ (C > 0 /\ D < 0))
  <2> SUFFICES ASSUME den # 0, eLon # 0 PROVE Inside(start[2], end[2]) <=> (C < 0 /\ D > 0) \/ (C > 0 /\ D < 0)
    OBVIOUS
  <2>1. Inside(start[2], end[2]) <=> (num - start[2] * den) * (num - end[2] * den) < 0
    BY <1>1, <1>6, BetweenIs
  <2>2. (num - start[2] * den) * (num - end[2] * den) < 0 <=> (-(eLon * C)) * (-(eLon * D)) < 0
    BY <1>8
  <2> HIDE DEF Inside
  <2>3. (-(eLon * C)) * (-(eLon * D)) = (eLon * eLon) * (C * D)
    BY <1>2, <1>6
  <2>4. eLon * eLon \in Int /\ eLon * eLon > 0 /\ C * D \in Int
    BY <1>2, <1>6
  <2>5. (eLon * eLon) * (C * D) < 0 <=> C * D < 0
    <3> DEFINE x == eLon * eLon
               y == C * D
    <3> HIDE DEF x, y
    <3>1. x \in Int /\ y \in Int /\ x > 0
      BY <2>4 DEF x, y
    <3>2. x * y < 0 <=> y < 0
      BY <3>1
    <3> QED BY <3>2 DEF x, y
  <2>6. C * D < 0 <=> (C < 0 /\ D > 0) \/ (C > 0 /\ D < 0)
    BY <1>2
  <2> QED BY <2>1, <2>2, <2>3, <2>5, <2>6
<1>14. den = 0 => ~((A < 0 /\ B > 0) \/ (A > 0 /\ B < 0))
  BY <1>2, <1>9
<1> HIDE DEF Inside
<1> QED BY <1>4, <1>5, <1>10, <1>11, <1>12, <1>13, <1>14

\* What PolygonStaysInside says of an answer.
PolygonAnswered(l, other, result) ==
  LET Edges(m) == {<<m[i], Corner(m, i + 1)>> : i \in DOMAIN m}
  IN  result = /\ \A i \in DOMAIN other : Within(l, other[i])
               /\ \A e \in Edges(l), f \in Edges(other) :
                     OnMeridian(e[1], e[2]) \/ OnMeridian(f[1], f[2]) \/ ~Properly(e[1], e[2], f[1], f[2])

LEMMA PolygonInsideIs ==
  ASSUME Pole \in Int, NEW l \in Seq(Below), NEW other \in Seq(Below), \A i \in DOMAIN other : Sound(l, other[i])
  PROVE  PolygonAnswered(l, other, PolygonInsidePolygonIndicator(l, other))
<1> DEFINE Edges(m) == {<<m[i], Corner(m, i + 1)>> : i \in DOMAIN m}
           Free(e, f) == OnMeridian(e[1], e[2]) \/ OnMeridian(f[1], f[2]) \/ ~Properly(e[1], e[2], f[1], f[2])
           Uncut(i, j) == ~Cuts(l[i], Corner(l, i + 1), other[j], Corner(other, j + 1))
           result == PolygonInsidePolygonIndicator(l, other)
<1>1. Below \in SUBSET Plane
  BY DEF Below
<1>2. /\ DOMAIN l = 1..Len(l) /\ Len(l) \in Nat /\ l \in Seq(Plane) /\ \A i \in DOMAIN l : l[i] \in Below
      /\ DOMAIN other = 1..Len(other) /\ Len(other) \in Nat /\ other \in Seq(Plane) /\ \A i \in DOMAIN other : other[i] \in Below
  <2>1. (\A i \in 1..Len(l) : l[i] \in Plane) /\ (\A i \in 1..Len(other) : other[i] \in Plane)
    BY <1>1
  <2> QED BY <2>1, SeqDef
<1>3. \A m \in Seq(Plane) : \A i \in DOMAIN m : Corner(m, i + 1) \in Plane /\ \E j \in DOMAIN m : Corner(m, i + 1) = m[j]
  <2> SUFFICES ASSUME NEW m \in Seq(Plane), NEW i \in DOMAIN m
               PROVE  Corner(m, i + 1) \in Plane /\ \E j \in DOMAIN m : Corner(m, i + 1) = m[j]
    OBVIOUS
  <2>1. DOMAIN m = 1..Len(m) /\ Len(m) > 0 /\ i + 1 \in Nat \ {0}
    OBVIOUS
  <2> QED BY <2>1, CornerIs
<1>4. \A j \in DOMAIN other : InsidePolygonIndicator(l, other[j]) <=> Within(l, other[j])
  BY <1>2, InsideIs DEF Within
<1>5. result <=> \A j \in DOMAIN other : /\ InsidePolygonIndicator(l, other[j])
                                         /\ InsidePolygonIndicator(l, Corner(other, j + 1))
                                         /\ \A i \in DOMAIN l : Uncut(i, j)
  BY Zenon DEF PolygonInsidePolygonIndicator, LineInPolygon
<1>6. (\A j \in DOMAIN other : InsidePolygonIndicator(l, other[j]) /\ InsidePolygonIndicator(l, Corner(other, j + 1)))
        <=> \A j \in DOMAIN other : Within(l, other[j])
  BY <1>2, <1>3, <1>4
<1>7. \A i \in DOMAIN l, j \in DOMAIN other :
        Uncut(i, j) <=> Free(<<l[i], Corner(l, i + 1)>>, <<other[j], Corner(other, j + 1)>>)
  <2> SUFFICES ASSUME NEW i \in DOMAIN l, NEW j \in DOMAIN other
               PROVE  Uncut(i, j) <=> Free(<<l[i], Corner(l, i + 1)>>, <<other[j], Corner(other, j + 1)>>)
    OBVIOUS
  <2>1. l[i] \in Plane /\ Corner(l, i + 1) \in Plane /\ other[j] \in Plane /\ Corner(other, j + 1) \in Plane
    BY <1>1, <1>2, <1>3
  <2> QED BY <2>1, CutsIs
<1>8. (\A e \in Edges(l), f \in Edges(other) : Free(e, f))
        <=> \A i \in DOMAIN l, j \in DOMAIN other : Free(<<l[i], Corner(l, i + 1)>>, <<other[j], Corner(other, j + 1)>>)
  <2> HIDE DEF Free
  <2> QED BY Zenon
<1>9. result <=> (\A j \in DOMAIN other : Within(l, other[j])) /\ \A e \in Edges(l), f \in Edges(other) : Free(e, f)
  <2> HIDE DEF Free, Uncut, result, Edges
  <2> QED BY <1>5, <1>6, <1>7, <1>8
<1>10. result \in BOOLEAN
  BY DEF PolygonInsidePolygonIndicator
<1>11. result = ((\A j \in DOMAIN other : Within(l, other[j])) /\ \A e \in Edges(l), f \in Edges(other) : Free(e, f))
  <2> HIDE DEF Free, result, Edges
  <2> QED BY <1>9, <1>10
<1> HIDE DEF result
<1> QED BY <1>11, Zenon DEF PolygonAnswered, result
-----------------------------------------------------------------------------
\* What Sound says of where the corners are.
LEMMA SoundIs ==
  ASSUME NEW l \in Seq(Plane), NEW here \in Plane, Sound(l, here)
  PROVE  l \in Seq(Below) /\ here \in Below
<1>1. \A i \in 1..Len(l) : l[i] \in Below
  BY DEF Sound, SouthOfPole, Below
<1>2. here \in Below
  BY DEF Sound, SouthOfPole, Below
<1> QED BY <1>1, <1>2, SeqDef

LEMMA DistanceIs ==
  ASSUME NEW c \in Plane, NEW a \in Plane, NEW b \in Plane
  PROVE  LET d == SegmentDistance(c, a, b) IN  d.num \in Int /\ d.den \in Int /\ d.den > 0
<1> DEFINE v == Minus(b, a)
           t == Dot(Minus(c, a), v)
           cross == CrossProduct(a, b, c)
<1>1. /\ v \in Plane /\ Minus(c, a) \in Plane /\ Minus(c, b) \in Plane
      /\ \A x, y \in Plane : Dot(x, y) \in Int
  BY DEF Minus, Dot, Plane
<1>2. t \in Int /\ Dot(v, v) \in Int /\ cross \in Int
  BY <1>1, CrossIs
<1>3. SegmentDistance(c, a, b) =
        IF t <= 0 THEN [num |-> Dot(Minus(c, a), Minus(c, a)), den |-> 1]
        ELSE IF t >= Dot(v, v) THEN [num |-> Dot(Minus(c, b), Minus(c, b)), den |-> 1]
        ELSE [num |-> cross * cross, den |-> Dot(v, v)]
  BY Zenon DEF SegmentDistance
<1> HIDE DEF t, cross
<1>4. CASE t <= 0
  BY <1>1, <1>3, <1>4
<1>5. CASE ~(t <= 0) /\ t >= Dot(v, v)
  BY <1>1, <1>3, <1>5
<1>6. CASE ~(t <= 0) /\ ~(t >= Dot(v, v))
  BY <1>1, <1>2, <1>3, <1>6
<1> QED BY <1>4, <1>5, <1>6

\* What is apart on the plane that touches at the centre is so on the ground.
LEMMA LocalApart ==
  ASSUME LatMetres \in Int, NEW c \in Plane, LonMetres[c[1]] \in Int,
         NEW a \in Plane, NEW b \in Plane, NEW p \in Plane,
         Apart(Local(a, c), Local(b, c), <<0, 0>>, Local(p, c))
  PROVE  Apart(a, b, c, p)
<1> DEFINE lat == LatMetres
           lon == LonMetres[c[1]]
<1>1. lat \in Int /\ lon \in Int /\ c[1] \in Int /\ c[2] \in Int
  BY DEF Plane
<1>2. \A x : Local(x, c)[1] = (x[1] - c[1]) * lat /\ Local(x, c)[2] = (x[2] - c[2]) * lon
  BY DEF Local
<1>3. <<0, 0>>[1] = 0 /\ <<0, 0>>[2] = 0
  OBVIOUS
<1>4. PICK f1, f2, k \in Int :
        /\ f1 * 0 + f2 * 0 < k
        /\ f1 * Local(p, c)[1] + f2 * Local(p, c)[2] < k
        /\ f1 * Local(a, c)[1] + f2 * Local(a, c)[2] >= k
        /\ f1 * Local(b, c)[1] + f2 * Local(b, c)[2] >= k
  BY <1>3, Zenon DEF Apart
<1> DEFINE g1 == f1 * lat
           g2 == f2 * lon
           G(x) == g1 * x[1] + g2 * x[2]
           m == k + G(c)
<1>5. g1 \in Int /\ g2 \in Int /\ k \in Int /\ 0 < k
  BY <1>1, <1>4
<1>6. ASSUME NEW x \in Plane
      PROVE  f1 * Local(x, c)[1] + f2 * Local(x, c)[2] = G(x) - G(c) /\ G(x) \in Int
  <2>1. x[1] \in Int /\ x[2] \in Int
    BY DEF Plane
  <2>2. G(x) \in Int
    BY <1>5, <2>1
  <2>3. f1 * ((x[1] - c[1]) * lat) + f2 * ((x[2] - c[2]) * lon) = G(x) - G(c)
    <3> HIDE DEF lat, lon
    <3> QED BY <1>1, <2>1
  <2> QED BY <1>2, <2>2, <2>3
<1> HIDE DEF G
<1>7. G(c) \in Int /\ G(p) \in Int /\ G(a) \in Int /\ G(b) \in Int
  BY <1>6
<1>8. G(p) - G(c) < k /\ G(a) - G(c) >= k /\ G(b) - G(c) >= k
  BY <1>4, <1>6
<1>9. m \in Int /\ G(c) < m /\ G(p) < m /\ G(a) >= m /\ G(b) >= m
  BY <1>5, <1>7, <1>8
<1> HIDE DEF g1, g2, m
<1>10. \A h1, h2, n \in Int :
        h1 * c[1] + h2 * c[2] < n /\ h1 * p[1] + h2 * p[2] < n
          /\ h1 * a[1] + h2 * a[2] >= n /\ h1 * b[1] + h2 * b[2] >= n => Apart(a, b, c, p)
  BY DEF Apart
<1> QED BY <1>5, <1>9, <1>10 DEF G

\* A circle that no border comes nearer to than its radius.
LEMMA CircleApart ==
  ASSUME LatMetres \in Int, NEW l \in Seq(Plane), NEW c \in Plane, LonMetres[c[1]] \in Int, NEW r \in Int,
         CheckCircleInsidePolygon(l, c, r), NEW p \in Plane, Inner(p, c, r)
  PROVE  \A i \in 1..Len(l) : Apart(l[i], Corner(l, i + 1), c, p)
<1> SUFFICES ASSUME NEW i \in 1..Len(l) PROVE Apart(l[i], Corner(l, i + 1), c, p)
  OBVIOUS
<1> DEFINE a == l[i]
           b == Corner(l, i + 1)
           origin == <<0, 0>>
           d == SegmentDistance(origin, Local(a, c), Local(b, c))
<1>1. a \in Plane /\ b \in Plane
  BY CornersTyped
<1>2. \A x \in Plane : Local(x, c) \in Plane
  <2> SUFFICES ASSUME NEW x \in Plane PROVE Local(x, c) \in Plane
    OBVIOUS
  <2>1. x[1] - c[1] \in Int /\ x[2] - c[2] \in Int
    BY DEF Plane
  <2> DEFINE u == x[1] - c[1]
             v == x[2] - c[2]
             lon == LonMetres[c[1]]
  <2>2. Local(x, c) = <<u * LatMetres, v * lon>>
    BY DEF Local
  <2> HIDE DEF u, v, lon
  <2>3. u * LatMetres \in Int /\ v * lon \in Int
    BY <2>1 DEF u, v, lon
  <2> QED BY <2>2, <2>3 DEF Plane
<1>3. origin \in Plane
  BY DEF Plane
<1>4. d.num >= r * r * d.den
  <2>1. i \in DOMAIN l
    OBVIOUS
  <2> QED BY <2>1, Zenon DEF CheckCircleInsidePolygon
<1> HIDE DEF origin
<1>5. d.num \in Int /\ d.den \in Int /\ d.den > 0
  BY <1>1, <1>2, <1>3, DistanceIs
<1>6. Dot(Local(p, c), Local(p, c)) < r * r
  BY DEF Inner
<1>7. Minus(Local(p, c), origin) = Local(p, c)
  <2>1. Local(p, c) \in Int \X Int
    BY <1>2 DEF Plane
  <2>2. origin[1] = 0 /\ origin[2] = 0
    BY DEF origin
  <2> HIDE DEF origin
  <2> QED BY <2>1, <2>2 DEF Minus
<1>8. Near(d, Local(p, c), origin)
  <2> DEFINE u == Dot(Local(p, c), Local(p, c))
             rr == r * r
  <2>1. u \in Int /\ rr \in Int
    BY <1>2 DEF Dot, Plane
  <2> HIDE DEF d, u, rr
  <2>2. u < rr /\ d.num >= rr * d.den
    BY <1>4, <1>6 DEF u, rr, d
  <2>3. u * d.den < d.num
    <3> DEFINE n == d.num
               e == d.den
    <3>1. n \in Int /\ e \in Int /\ e > 0 /\ n >= rr * e
      BY <1>5, <2>2 DEF d
    <3> HIDE DEF n, e
    <3>2. u * e < rr * e
      BY <2>1, <2>2, <3>1
    <3>3. u * e \in Int /\ rr * e \in Int
      BY <2>1, <3>1
    <3>4. u * e < n
      BY <3>1, <3>2, <3>3
    <3> QED BY <3>4 DEF n, e
  <2> QED BY <1>7, <2>3 DEF Near, u
<1>9. Apart(Local(a, c), Local(b, c), origin, Local(p, c))
  BY <1>1, <1>2, <1>3, <1>8, NearIsApart
<1>10. Apart(Local(a, c), Local(b, c), <<0, 0>>, Local(p, c))
  BY <1>9 DEF origin
<1> HIDE DEF a, b
<1>11. Apart(a, b, c, p)
  BY <1>1, <1>10, LocalApart
<1> QED BY <1>11 DEF a, b

\* A circle inside a polygon has nothing outside: each border is apart from the
\* centre and from every position of the circle.
LEMMA CircleStaysInside ==
  ASSUME Pole \in Int, LatMetres \in Int, NEW l \in Seq(Plane), NEW c \in Plane, LonMetres[c[1]] \in Int, NEW r \in Int,
         CircleInsidePolygon(l, c, r), Sound(l, c), NEW p \in Plane, Inner(p, c, r)
  PROVE  Within(l, p)
<1>1. InsidePolygonIndicator(l, c) /\ CheckCircleInsidePolygon(l, c, r)
  BY DEF CircleInsidePolygon
<1>2. l \in Seq(Below) /\ c \in Below
  BY SoundIs
<1>3. Border(l, c) \/ Winds(l, c)
  BY <1>1, <1>2, InsideIs
<1>4. \A i \in 1..Len(l) : Apart(l[i], Corner(l, i + 1), c, p)
  BY <1>1, CircleApart
<1>5. (Winds(l, c) <=> Winds(l, p)) /\ ~Border(l, c)
  BY <1>4, ApartFromAll
<1> QED BY <1>3, <1>5 DEF Within

\* Of finitely many fractions one is the least.
LEMMA LeastFraction ==
  ASSUME NEW S, IsFiniteSet(S), S # {}, \A d \in S : d.num \in Int /\ d.den \in Int /\ d.den > 0
  PROVE  \E d \in S : \A e \in S : d.num * e.den <= e.num * d.den
<1> DEFINE AtMost(d, e) == d.num * e.den <= e.num * d.den
<1>1. \A x, y, z \in S : AtMost(x, y) /\ AtMost(y, z) => AtMost(x, z)
  <2> SUFFICES ASSUME NEW x \in S, NEW y \in S, NEW z \in S, AtMost(x, y), AtMost(y, z) PROVE AtMost(x, z)
    OBVIOUS
  <2> DEFINE xn == x.num
             xd == x.den
             yn == y.num
             yd == y.den
             zn == z.num
             zd == z.den
  <2>1. /\ xn \in Int /\ xd \in Int /\ xd > 0 /\ yn \in Int /\ yd \in Int /\ yd > 0
        /\ zn \in Int /\ zd \in Int /\ zd > 0 /\ xn * yd <= yn * xd /\ yn * zd <= zn * yd
    OBVIOUS
  <2> HIDE DEF xn, xd, yn, yd, zn, zd
  <2>2. (xn * yd) * zd <= (yn * xd) * zd /\ (yn * zd) * xd <= (zn * yd) * xd
    BY <2>1
  <2>3. yd * (xn * zd) <= yd * (zn * xd)
    BY <2>1, <2>2
  <2>4. xn * zd <= zn * xd
    <3> DEFINE s == xn * zd
               t == zn * xd
    <3>1. s \in Int /\ t \in Int /\ yd * s <= yd * t
      BY <2>1, <2>3
    <3> HIDE DEF s, t
    <3>2. s <= t
      BY <2>1, <3>1
    <3> QED BY <3>2 DEF s, t
  <2> QED BY <2>4 DEF xn, xd, zn, zd
<1>2. \A x, y \in S : AtMost(x, y) \/ AtMost(y, x)
  <2> SUFFICES ASSUME NEW x \in S, NEW y \in S PROVE AtMost(x, y) \/ AtMost(y, x)
    OBVIOUS
  <2>1. x.num * y.den \in Int /\ y.num * x.den \in Int
    OBVIOUS
  <2> QED BY <2>1
<1> HIDE DEF AtMost
<1>3. PICK n \in Nat : ExistsBijection(1..n, S)
  BY FS_CardinalityType
<1>4. PICK f \in [1..n -> S] : \A d \in S : \E i \in 1..n : f[i] = d
  BY <1>3 DEF ExistsBijection, Bijection, Injection, Surjection
<1> DEFINE Least(m) == \E d \in S : \A i \in 1..m : AtMost(d, f[i])
           D == {m \in 0..n : Least(m)}
<1>5. 0 \in D
  OBVIOUS
<1>6. ASSUME NEW m \in 1..n, m - 1 \in D PROVE m \in D
  <2>1. PICK d \in S : \A i \in 1..m - 1 : AtMost(d, f[i])
    BY <1>6
  <2>2. f[m] \in S /\ \A i \in 1..n : f[i] \in S
    BY <1>4
  <2>3. \A i \in 1..m : i = m \/ i \in 1..m - 1
    OBVIOUS
  <2>4. CASE AtMost(d, f[m])
    <3>1. \A i \in 1..m : AtMost(d, f[i])
      BY <2>1, <2>3, <2>4
    <3> QED BY <3>1
  <2>5. CASE AtMost(f[m], d)
    <3>1. AtMost(f[m], f[m])
      BY <1>2, <2>2
    <3>2. \A i \in 1..m : i \in 1..n
      OBVIOUS
    <3>3. \A i \in 1..m : AtMost(f[m], f[i])
      BY <1>1, <2>1, <2>2, <2>3, <2>5, <3>1, <3>2
    <3> QED BY <2>2, <3>3
  <2> QED BY <1>2, <2>2, <2>4, <2>5
<1>7. n \in D
  <2> HIDE DEF D
  <2>1. \A i \in 0..n : i \in D
    BY <1>5, <1>6, UpTo
  <2> QED BY <2>1
<1>8. PICK d \in S : \A i \in 1..n : AtMost(d, f[i])
  BY <1>7
<1>9. \A e \in S : AtMost(d, e)
  BY <1>4, <1>8
<1> QED BY <1>9 DEF AtMost
-----------------------------------------------------------------------------
\* The distance to the nearest border is one that there is: borders are finitely many.
LEMMA ImageFinite ==
  ASSUME NEW S, IsFiniteSet(S), NEW f, DOMAIN f = S
  PROVE  IsFiniteSet({f[x] : x \in S})
<1> DEFINE T == {f[x] : x \in S}
           g == [x \in S |-> f[x]]
<1>1. g \in Surjection(S, T)
  BY DEF Surjection
<1> HIDE DEF g, T
<1>2. IsFiniteSet(T)
  BY <1>1, FS_Surjection
<1> QED BY <1>2 DEF T

PolygonRecords == [alpha3 : STRING, points : Seq(Plane)]

\* How far the centre may go is no farther than any border of a polygon whose box
\* holds it.
LEMMA SafeSquareIs ==
  ASSUME NEW path, Databases[path] \in Seq(PolygonRecords), NEW c \in Plane,
         NEW k \in DOMAIN Databases[path], Boxed(Databases[path][k].points, c),
         NEW i \in DOMAIN Databases[path][k].points
  PROVE  LET s == SafeSquare(path, c)
             d == SegmentDistance(c, Databases[path][k].points[i], Corner(Databases[path][k].points, i + 1))
         IN  s.num \in Int /\ s.den \in Int /\ s.den > 0 /\ s.num * d.den <= d.num * s.den
<1> DEFINE Pts(j) == Databases[path][j].points
           Edge(j, n) == <<Pts(j)[n], Corner(Pts(j), n + 1)>>
           J == {j \in DOMAIN Databases[path] : Boxed(Pts(j), c)}
           Edges(j) == {Edge(j, n) : n \in DOMAIN Pts(j)}
           AllEdges == {Edges(j) : j \in J}
           points == UNION AllEdges
           Square(e) == SegmentDistance(c, e[1], e[2])
           squares == {Square(e) : e \in points}
           Least(d) == \A e \in squares : d.num * e.den <= e.num * d.den
<1>1. SafeSquare(path, c) = CHOOSE d \in squares : Least(d)
  BY Zenon DEF SafeSquare
<1>2. ASSUME NEW j \in DOMAIN Databases[path]
      PROVE  /\ Pts(j) \in Seq(Plane) /\ DOMAIN Pts(j) = 1..Len(Pts(j)) /\ Len(Pts(j)) \in Nat
             /\ \A n \in DOMAIN Pts(j) : Pts(j)[n] \in Plane /\ Corner(Pts(j), n + 1) \in Plane
  <2>1. Databases[path][j] \in PolygonRecords
    BY <1>2
  <2>2. Pts(j) \in Seq(Plane)
    BY <2>1 DEF PolygonRecords
  <2> HIDE DEF Pts
  <2>3. \A n \in 1..Len(Pts(j)) : Pts(j)[n] \in Plane /\ Corner(Pts(j), n + 1) \in Plane
    BY <2>2, CornersTyped
  <2> QED BY <2>2, <2>3
<1> HIDE DEF Pts
<1>3. IsFiniteSet(J)
  <2>1. DOMAIN Databases[path] = 1..Len(Databases[path]) /\ Len(Databases[path]) \in Nat
    OBVIOUS
  <2>2. IsFiniteSet(1..Len(Databases[path])) /\ J \in SUBSET (1..Len(Databases[path]))
    BY <2>1, FS_Interval
  <2> QED BY <2>2, FS_Subset
<1>4. ASSUME NEW j \in J PROVE IsFiniteSet(Edges(j))
  <2> DEFINE g == [n \in DOMAIN Pts(j) |-> Edge(j, n)]
  <2>1. IsFiniteSet(DOMAIN Pts(j)) /\ DOMAIN g = DOMAIN Pts(j)
    BY <1>2, FS_Interval
  <2>2. Edges(j) = {g[n] : n \in DOMAIN Pts(j)}
    OBVIOUS
  <2> HIDE DEF g, Edges
  <2> QED BY <2>1, <2>2, ImageFinite
<1>5. IsFiniteSet(AllEdges)
  <2> DEFINE g == [j \in J |-> Edges(j)]
  <2>1. DOMAIN g = J /\ AllEdges = {g[j] : j \in J}
    OBVIOUS
  <2> HIDE DEF g, AllEdges, J
  <2> QED BY <1>3, <2>1, ImageFinite
<1>6. IsFiniteSet(points)
  <2>1. \A T \in AllEdges : IsFiniteSet(T)
    BY <1>4
  <2> HIDE DEF AllEdges
  <2> QED BY <1>5, <2>1, FS_UNION
<1>7. IsFiniteSet(squares)
  <2> DEFINE g == [e \in points |-> Square(e)]
  <2>1. DOMAIN g = points /\ squares = {g[e] : e \in points}
    OBVIOUS
  <2> HIDE DEF g, points, squares
  <2> QED BY <1>6, <2>1, ImageFinite
<1>8. \A e \in points : e[1] \in Plane /\ e[2] \in Plane
  BY <1>2
<1>9. \A d \in squares : d.num \in Int /\ d.den \in Int /\ d.den > 0
  <2> SUFFICES ASSUME NEW e \in points PROVE Square(e).num \in Int /\ Square(e).den \in Int /\ Square(e).den > 0
    BY Zenon
  <2>1. e[1] \in Plane /\ e[2] \in Plane
    BY <1>8
  <2> QED BY <2>1, DistanceIs
<1>10. Square(Edge(k, i)) \in squares
  <2>1. k \in J /\ i \in DOMAIN Pts(k)
    BY DEF Pts
  <2>2. Edge(k, i) \in Edges(k)
    <3> HIDE DEF Edge
    <3> QED BY <2>1
  <2>3. Edges(k) \in AllEdges
    <3> HIDE DEF Edges, J
    <3> QED BY <2>1
  <2>4. Edge(k, i) \in points
    <3> HIDE DEF Edges, Edge, AllEdges
    <3> QED BY <2>2, <2>3
  <2> HIDE DEF points, Square
  <2> QED BY <2>4
<1> HIDE DEF squares, Square
<1>11. \E d \in squares : Least(d)
  BY <1>7, <1>9, <1>10, LeastFraction
<1>12. SafeSquare(path, c) \in squares /\ Least(SafeSquare(path, c))
  <2> HIDE DEF Least
  <2> QED BY <1>1, <1>11
<1>13. Square(Edge(k, i)) = SegmentDistance(c, Databases[path][k].points[i], Corner(Databases[path][k].points, i + 1))
  BY DEF Square, Pts
<1> HIDE DEF Edge
<1> QED BY <1>9, <1>10, <1>12, <1>13

\* The radius with the padding reaches no farther than a border that the distance
\* of the country's polygons is at most as long as.
LEMMA FitsIsNear ==
  ASSUME LatMetres \in Int, NEW request, request.radius \in Int, NEW reach \in Int, NEW s, NEW d,
         s.num \in Int, s.den \in Int, s.den > 0, d.num \in Int, d.den \in Int, d.den > 0,
         Fits(reach, request, s), s.num * d.den <= d.num * s.den,
         NEW u \in Int, u >= 0, LatMetres * LatMetres * u < (request.radius + reach) * (request.radius + reach)
  PROVE  u * d.den < d.num
<1> DEFINE mm == LatMetres * LatMetres
           rr == (request.radius + reach) * (request.radius + reach)
           sn == s.num
           sd == s.den
           dn == d.num
           dd == d.den
<1>1. /\ mm \in Int /\ mm >= 0 /\ rr \in Int /\ sn \in Int /\ sd \in Int /\ sd > 0 /\ dn \in Int /\ dd \in Int /\ dd > 0
      /\ rr * sd <= mm * sn /\ sn * dd <= dn * sd /\ mm * u < rr
  BY DEF Fits
<1> HIDE DEF mm, rr, sn, sd, dn, dd
<1>2. (mm * u) * sd < mm * sn
  <2>1. (mm * u) * sd < rr * sd
    <3> DEFINE t == mm * u
    <3>1. t \in Int /\ t < rr
      BY <1>1
    <3> HIDE DEF t
    <3> QED BY <1>1, <3>1 DEF t
  <2>2. (mm * u) * sd \in Int /\ rr * sd \in Int /\ mm * sn \in Int
    BY <1>1
  <2> QED BY <1>1, <2>1, <2>2
<1>3. u * sd < sn
  <2> DEFINE t == u * sd
  <2>1. t \in Int
    BY <1>1
  <2>2. (mm * u) * sd = mm * t
    BY <1>1
  <2> HIDE DEF t
  <2>3. mm * t < mm * sn
    BY <1>2, <2>2
  <2>4. t < sn
    BY <1>1, <2>1, <2>3
  <2> QED BY <2>4 DEF t
<1>4. (u * sd) * dd < dn * sd
  <2> DEFINE t == u * sd
  <2>1. t \in Int /\ t < sn
    BY <1>1, <1>3
  <2> HIDE DEF t
  <2>2. t * dd < sn * dd /\ t * dd \in Int /\ sn * dd \in Int /\ dn * sd \in Int
    BY <1>1, <2>1
  <2>3. t * dd < dn * sd
    BY <1>1, <2>2
  <2> QED BY <2>3 DEF t
<1>5. u * dd < dn
  <2> DEFINE t == u * dd
  <2>1. t \in Int /\ (u * sd) * dd = t * sd
    BY <1>1
  <2> HIDE DEF t
  <2>2. t * sd < dn * sd
    BY <1>4, <2>1
  <2>3. t < dn
    BY <1>1, <2>1, <2>2
  <2> QED BY <2>3 DEF t
<1> QED BY <1>5 DEF dn, dd

\* A circle that is reported inside a country has nothing outside.
LEMMA CountryStaysInside ==
  ASSUME LatMetres \in Int, NEW path, Databases[path] \in Seq(PolygonRecords), NEW request,
         request.center \in Plane, request.radius \in Int, request.padding \in Int,
         LonMetres[request.center[1]] = LatMetres, CircleInsideCountry(path, request),
         \A k \in DOMAIN Databases[path] :
            Databases[path][k].alpha3 = M49ToAlpha3(request.country) => Boxed(Databases[path][k].points, request.center),
         NEW p \in Plane, Inner(p, request.center, request.radius + request.padding)
  PROVE  InCountry(path, M49ToAlpha3(request.country), p)
<1> DEFINE alpha3 == M49ToAlpha3(request.country)
           c == request.center
           Pts(k) == Databases[path][k].points
           Own(k) == Databases[path][k].alpha3 = alpha3
           safe == SafeSquare(path, c)
           u == Dot(Minus(p, c), Minus(p, c))
<1>1. InCountry(path, alpha3, c)
  BY Zenon DEF CircleInsideCountry, PolygonId
<1>2. Fits(request.padding, request, safe)
  BY DEF CircleInsideCountry, FastCheck
<1>3. u \in Int /\ u >= 0 /\ LatMetres * LatMetres * u < (request.radius + request.padding) * (request.radius + request.padding)
  <2> DEFINE v == p[1] - c[1]
             w == p[2] - c[2]
  <2>1. v \in Int /\ w \in Int
    BY DEF Plane
  <2>2. u = v * v + w * w
    BY DEF Dot, Minus
  <2>3. Dot(Local(p, c), Local(p, c)) = (v * LatMetres) * (v * LatMetres) + (w * LatMetres) * (w * LatMetres)
    BY DEF Dot, Local
  <2>4. Dot(Local(p, c), Local(p, c)) < (request.radius + request.padding) * (request.radius + request.padding)
    BY DEF Inner
  <2> HIDE DEF u, v, w
  <2>5. u \in Int /\ u >= 0
    BY <2>1, <2>2
  <2>6. (v * LatMetres) * (v * LatMetres) + (w * LatMetres) * (w * LatMetres) = LatMetres * LatMetres * u
    BY <2>1, <2>2
  <2> QED BY <2>3, <2>4, <2>5, <2>6
<1> HIDE DEF u
<1>4. ASSUME NEW k \in DOMAIN Databases[path], Own(k)
      PROVE  /\ Border(Pts(k), c) \/ Winds(Pts(k), c) <=> Border(Pts(k), p) \/ Winds(Pts(k), p)
             /\ ~Border(Pts(k), c) /\ ~Border(Pts(k), p)
  <2>1. Databases[path][k] \in PolygonRecords
    OBVIOUS
  <2>2. Pts(k) \in Seq(Plane) /\ DOMAIN Pts(k) = 1..Len(Pts(k))
    BY <2>1 DEF PolygonRecords
  <2>3. Boxed(Pts(k), c)
    BY <1>4
  <2>4. ASSUME NEW i \in 1..Len(Pts(k)) PROVE Apart(Pts(k)[i], Corner(Pts(k), i + 1), c, p)
    <3> DEFINE a == Pts(k)[i]
               b == Corner(Pts(k), i + 1)
               d == SegmentDistance(c, a, b)
    <3>1. /\ safe.num \in Int /\ safe.den \in Int /\ safe.den > 0 /\ safe.num * d.den <= d.num * safe.den
      BY <2>2, <2>3, SafeSquareIs
    <3> HIDE DEF Pts
    <3>2. a \in Plane /\ b \in Plane
      BY <2>2, CornersTyped
    <3>3. d.num \in Int /\ d.den \in Int /\ d.den > 0
      BY <3>2, DistanceIs
    <3> HIDE DEF a, b, safe
    <3>4. u * d.den < d.num
      <4> HIDE DEF d
      <4> QED BY <1>2, <1>3, <3>1, <3>3, FitsIsNear
    <3>5. Near(d, p, c)
      BY <3>4 DEF Near, u
    <3>6. Apart(a, b, c, p)
      BY <3>2, <3>5, NearIsApart
    <3> QED BY <3>6 DEF a, b
  <2> HIDE DEF Pts
  <2> QED BY <2>2, <2>4, ApartFromAll
<1> HIDE DEF Pts
<1>5. Touching(path, alpha3, c) = Touching(path, alpha3, p)
  <2>1. Touching(path, alpha3, c) = {k \in DOMAIN Databases[path] : Own(k) /\ (Border(Pts(k), c) \/ Winds(Pts(k), c))}
    BY Zenon DEF Touching, Pts
  <2>2. Touching(path, alpha3, p) = {k \in DOMAIN Databases[path] : Own(k) /\ (Border(Pts(k), p) \/ Winds(Pts(k), p))}
    BY Zenon DEF Touching, Pts
  <2> HIDE DEF Own
  <2> QED BY <1>4, <2>1, <2>2
<1>6. ~\E k \in Touching(path, alpha3, c) : Border(Databases[path][k].points, c)
  <2>1. \A k \in Touching(path, alpha3, c) : k \in DOMAIN Databases[path] /\ Own(k)
    BY DEF Touching
  <2> QED BY <1>4, <2>1 DEF Pts
<1>7. Cardinality(Touching(path, alpha3, c)) % 2 = 1
  BY <1>1, <1>6, Zenon DEF InCountry
<1>8. Cardinality(Touching(path, alpha3, p)) % 2 = 1
  BY <1>5, <1>7
<1> QED BY <1>8, Zenon DEF InCountry
-----------------------------------------------------------------------------
\* A database that is open is one of those there are.
DatabaseKnown == country_db = NoDatabase \/ country_db \in DOMAIN Databases

\* The inductive invariant.
GeographyInv == DatabaseKnown /\ InsideIsRight /\ StaysInside

\* Of the other questions' answers nothing is said.
LEMMA OtherAnswers ==
  ASSUME answer'.op \notin {"inside", "polygon", "circle", "country"}
  PROVE  InsideIsRight' /\ StaysInside'
BY DEF InsideIsRight, StaysInside, PolygonStaysInside, CirclesStayInside

LEMMA AskInsideInv ==
  ASSUME GeographyInv, NEW l \in Polygons, NEW here \in Positions, AskInside(l, here)
  PROVE  GeographyInv'
<1>1. l \in Seq(Plane) /\ here \in Plane /\ Pole \in Int
  BY GeographyAssumption DEF GeographyAssumption
<1>2. /\ answer' = [op |-> "inside", locations |-> l, here |-> here, result |-> InsidePolygonIndicator(l, here)]
      /\ country_db' = country_db
  BY Zenon DEF AskInside
<1>3. Sound(l, here) => InsidePolygonIndicator(l, here) = Within(l, here)
  <2> SUFFICES ASSUME Sound(l, here) PROVE InsidePolygonIndicator(l, here) = Within(l, here)
    OBVIOUS
  <2>1. InsidePolygonIndicator(l, here) <=> Within(l, here)
    BY <1>1, SoundIs, InsideIs DEF Within
  <2>2. InsidePolygonIndicator(l, here) \in BOOLEAN /\ Within(l, here) \in BOOLEAN
    BY DEF InsidePolygonIndicator, Within
  <2> QED BY <2>1, <2>2
<1>4. InsideIsRight'
  BY <1>2, <1>3 DEF InsideIsRight
<1>5. StaysInside'
  BY <1>2 DEF StaysInside, PolygonStaysInside, CirclesStayInside
<1> QED BY <1>2, <1>4, <1>5 DEF GeographyInv, DatabaseKnown

LEMMA AskPolygonInv ==
  ASSUME GeographyInv, NEW pair \in PolygonPairs, AskPolygon(pair)
  PROVE  GeographyInv'
<1> DEFINE l == pair[1]
           other == pair[2]
           result == PolygonInsidePolygonIndicator(l, other)
<1>1. l \in Seq(Plane) /\ other \in Seq(Plane) /\ Pole \in Int
  BY GeographyAssumption DEF GeographyAssumption
<1>2. answer' = [op |-> "polygon", locations |-> l, other |-> other, result |-> result] /\ country_db' = country_db
  BY Zenon DEF AskPolygon
<1>3. ASSUME \A i \in DOMAIN other : Sound(l, other[i]) PROVE PolygonAnswered(l, other, result)
  <2> HIDE DEF l, other
  <2>1. DOMAIN other = 1..Len(other) /\ \A i \in DOMAIN other : other[i] \in Plane
    BY <1>1
  <2>2. CASE DOMAIN other = {}
    <3>1. result
      BY <2>2 DEF PolygonInsidePolygonIndicator
    <3>2. result \in BOOLEAN
      BY DEF PolygonInsidePolygonIndicator
    <3> HIDE DEF result
    <3> QED BY <2>2, <3>1, <3>2 DEF PolygonAnswered
  <2>3. CASE DOMAIN other # {}
    <3>1. \A i \in DOMAIN other : l \in Seq(Below) /\ other[i] \in Below
      BY <1>1, <1>3, <2>1, SoundIs
    <3>2. l \in Seq(Below) /\ \A i \in 1..Len(other) : other[i] \in Below
      BY <2>1, <2>3, <3>1
    <3>3. other \in Seq(Below)
      BY <1>1, <3>2, SeqDef
    <3> QED BY <1>1, <1>3, <3>2, <3>3, PolygonInsideIs
  <2> QED BY <2>2, <2>3
<1>4. PolygonStaysInside'
  <2>1. answer'.locations = l /\ answer'.other = other /\ answer'.result = result
    BY <1>2
  <2> HIDE DEF l, other, result
  <2> QED BY <1>3, <2>1, Zenon DEF PolygonStaysInside, PolygonAnswered
<1>5. InsideIsRight' /\ CirclesStayInside'
  BY <1>2 DEF InsideIsRight, CirclesStayInside
<1> QED BY <1>2, <1>4, <1>5 DEF GeographyInv, DatabaseKnown, StaysInside

LEMMA AskCircleInv ==
  ASSUME GeographyInv, NEW circle \in Circles, AskCircle(circle)
  PROVE  GeographyInv'
<1> DEFINE l == circle.locations
           c == circle.center
           r == circle.radius
<1>1. /\ l \in Seq(Plane) /\ c \in Plane /\ r \in Int /\ LonMetres[c[1]] \in Int
      /\ Pole \in Int /\ LatMetres \in Int /\ Ground \subseteq Plane
  BY GeographyAssumption DEF GeographyAssumption
<1>2. /\ answer' = [op |-> "circle", locations |-> l, center |-> c, radius |-> r, result |-> CircleInsidePolygon(l, c, r)]
      /\ country_db' = country_db
  BY Zenon DEF AskCircle
<1> HIDE DEF l, c, r
<1>3. ASSUME CircleInsidePolygon(l, c, r), Sound(l, c), NEW p \in Ground, Inner(p, c, r) PROVE Within(l, p)
  <2>1. p \in Plane
    BY <1>1
  <2> QED BY <1>1, <1>3, <2>1, CircleStaysInside
<1>4. CirclesStayInside'
  <2>1. /\ answer'.op = "circle" /\ answer'.locations = l /\ answer'.center = c /\ answer'.radius = r
        /\ answer'.result = CircleInsidePolygon(l, c, r)
    BY <1>2
  <2> QED BY <1>3, <2>1 DEF CirclesStayInside
<1>5. InsideIsRight' /\ PolygonStaysInside'
  BY <1>2 DEF InsideIsRight, PolygonStaysInside
<1> QED BY <1>2, <1>4, <1>5 DEF GeographyInv, DatabaseKnown, StaysInside

LEMMA AskCountryInv ==
  ASSUME GeographyInv, NEW request \in Requests, AskCountry(request)
  PROVE  GeographyInv'
<1> DEFINE path == Used(request.path)
           Refused == request.path \notin DOMAIN Databases \/ Databases[path] = <<>> \/ M49ToAlpha3(request.country) = ""
<1>1. /\ request.center \in Plane /\ request.radius \in Int /\ request.padding \in Int
      /\ LatMetres \in Int /\ Ground \subseteq Plane
      /\ \A db \in DOMAIN Databases : Databases[db] \in Seq(PolygonRecords)
  BY GeographyAssumption DEF GeographyAssumption, PolygonRecords
<1>2. request.path \in DOMAIN Databases => path \in DOMAIN Databases
  BY DEF Used, GeographyInv, DatabaseKnown
<1>3. CASE Refused
  <2>1. /\ answer' = [op |-> "throws", request |-> request]
        /\ country_db' = country_db \/ (request.path \in DOMAIN Databases /\ country_db' = path)
    BY <1>3, Zenon DEF AskCountry
  <2>2. DatabaseKnown'
    BY <1>2, <2>1 DEF GeographyInv, DatabaseKnown
  <2>3. InsideIsRight' /\ StaysInside'
    BY <2>1, OtherAnswers
  <2> QED BY <2>2, <2>3 DEF GeographyInv
<1>4. CASE ~Refused
  <2>1. answer' = [op |-> "country", request |-> request, result |-> CircleInsideCountry(path, request)] /\ country_db' = path
    BY <1>4, Zenon DEF AskCountry
  <2>2. path \in DOMAIN Databases
    BY <1>2, <1>4
  <2> HIDE DEF path, Refused
  <2>3. DatabaseKnown'
    BY <2>1, <2>2 DEF DatabaseKnown
  <2>4. ASSUME CircleInsideCountry(path, request), LonMetres[request.center[1]] = LatMetres,
               \A k \in DOMAIN Databases[path] :
                  Databases[path][k].alpha3 = M49ToAlpha3(request.country) => Boxed(Databases[path][k].points, request.center),
               NEW p \in Ground, Inner(p, request.center, request.radius + request.padding)
        PROVE  InCountry(path, M49ToAlpha3(request.country), p)
    <3>1. p \in Plane /\ Databases[path] \in Seq(PolygonRecords)
      BY <1>1, <2>2
    <3> QED BY <1>1, <2>4, <3>1, CountryStaysInside
  <2>5. CirclesStayInside'
    <3>1. answer'.op = "country" /\ answer'.request = request /\ answer'.result = CircleInsideCountry(path, request)
      BY <2>1
    <3> QED BY <2>1, <2>4, <3>1 DEF CirclesStayInside
  <2>6. InsideIsRight' /\ PolygonStaysInside'
    BY <2>1 DEF InsideIsRight, PolygonStaysInside
  <2> QED BY <2>3, <2>5, <2>6 DEF GeographyInv, StaysInside
<1> QED BY <1>3, <1>4

LEMMA GeographyInvStep == GeographyInv /\ [Next]_vars => GeographyInv'
<1> SUFFICES ASSUME GeographyInv, [Next]_vars PROVE GeographyInv'
  OBVIOUS
<1>1. ASSUME NEW l \in Polygons, NEW here \in Positions, AskInside(l, here) PROVE GeographyInv'
  BY <1>1, AskInsideInv
<1>2. ASSUME NEW pair \in PolygonPairs, AskPolygon(pair) PROVE GeographyInv'
  BY <1>2, AskPolygonInv
<1>3. ASSUME NEW rectangles \in Rectangles, NEW here \in Positions, AskRectangle(rectangles, here) PROVE GeographyInv'
  <2>1. answer'.op = "rectangle" /\ country_db' = country_db
    BY <1>3 DEF AskRectangle
  <2> QED BY <2>1, OtherAnswers DEF GeographyInv, DatabaseKnown
<1>4. ASSUME NEW circle \in Circles, AskCircle(circle) PROVE GeographyInv'
  BY <1>4, AskCircleInv
<1>5. ASSUME NEW request \in Requests, AskCountry(request) PROVE GeographyInv'
  BY <1>5, AskCountryInv
<1>6. ASSUME NEW path, NEW here, AskCode(path, here) PROVE GeographyInv'
  <2>1. answer'.op = "code" /\ country_db' = Used(path) /\ path \in DOMAIN Databases
    BY <1>6 DEF AskCode
  <2>2. DatabaseKnown'
    BY <2>1 DEF GeographyInv, DatabaseKnown, Used
  <2> QED BY <2>1, <2>2, OtherAnswers DEF GeographyInv
<1>7. CASE Return
  <2>1. answer'.op = "none" /\ country_db' = country_db
    BY <1>7 DEF Return, NoAnswer
  <2> QED BY <2>1, OtherAnswers DEF GeographyInv, DatabaseKnown
<1>8. CASE UNCHANGED vars
  <2>1. answer' = answer /\ country_db' = country_db
    BY <1>8 DEF vars
  <2>2. InsideIsRight'
    BY <2>1, Zenon DEF GeographyInv, InsideIsRight
  <2>3. PolygonStaysInside' /\ CirclesStayInside'
    BY <2>1, Zenon DEF GeographyInv, StaysInside, PolygonStaysInside, CirclesStayInside
  <2> QED BY <2>1, <2>2, <2>3 DEF GeographyInv, DatabaseKnown, StaysInside
<1> QED BY <1>1, <1>2, <1>3, <1>4, <1>5, <1>6, <1>7, <1>8 DEF Next

LEMMA GeographyInvInit == Init => GeographyInv
BY DEF Init, GeographyInv, DatabaseKnown, NoAnswer, InsideIsRight, StaysInside, PolygonStaysInside, CirclesStayInside

\* insidePolygonIndicator tells inside from outside for every polygon, with any
\* number of corners and of turns, and every position, but for the cases of Sound.
THEOREM TellsInsideFromOutside == Spec => []InsideIsRight
<1>1. GeographyInv => InsideIsRight
  BY DEF GeographyInv
<1> QED BY <1>1, GeographyInvInit, GeographyInvStep, PTL DEF Spec

\* What polygonInsidePolygonIndicator, circleInsidePolygon and circleInsideCountryAt
\* report inside a polygon or a country is inside, and a polygon that is inside is
\* reported so.
THEOREM ReportedInsideIsInside == Spec => []StaysInside
<1>1. GeographyInv => StaysInside
  BY DEF GeographyInv
<1> QED BY <1>1, GeographyInvInit, GeographyInvStep, PTL DEF Spec
=============================================================================
