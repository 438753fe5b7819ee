----------------------------- MODULE GreatCircle -----------------------------
(***************************************************************************)
(* GreatCircle, GeoUtils::distance() and generateGreatCirclePath(), along   *)
(* the equator: a place is its longitude, a whole number of degrees above   *)
(* -180 and below 180, and a great circle is the shorter way round.  What   *)
(* happens to a leg does not depend on more: whether it is long enough to   *)
(* be divided, into how many points, and whether two of them lie on either  *)
(* side of the date line.  Near a pole points are further apart in          *)
(* longitude, and antipodes have no great circle; neither is modelled.      *)
(***************************************************************************)
EXTENDS Integers, Sequences, FiniteSets

AbsDiff(a, b) == IF a < b THEN b - a ELSE a - b

(* GeoUtils::distance(), in degrees of the equator. *)
DistanceDegrees(a, b) ==
  IF AbsDiff(a, b) <= 180 THEN AbsDiff(a, b) ELSE 360 - AbsDiff(a, b)

(* atan2()'s range. *)
Normalise(lon) == ((lon + 180) % 360) - 180

(* The way from a to b, eastwards positive. *)
Towards(a, b) == Normalise(b - a)

(* interpolate(): the i-th of n points from a to b, rounded down. *)
Interpolate(a, b, i, n) ==
  Normalise(a + ((Towards(a, b) * (i - 1)) \div (n - 1)))

(* arcFirstPass(): two points or fewer are the ends, in radians; those are  *)
(* not asked for, a divided leg has three at least.                         *)
FirstPass(a, b, n) == [i \in 1..n |-> Interpolate(a, b, i, n)]

DateLineOffset == 10

CrossesDateLine(x, y) ==
  /\ AbsDiff(x, y) > 360 - DateLineOffset
  /\ \/ x > 180 - DateLineOffset /\ y < -180 + DateLineOffset
     \/ y > 180 - DateLineOffset /\ x < -180 + DateLineOffset

(* calculateLongitudeDifferences() *)
HasBigDiff(points) ==
  \E i \in 2..Len(points) : CrossesDateLine(points[i - 1], points[i])

SmallDiffsBelow(points, limit) ==
  \A i \in 2..Len(points) :
    CrossesDateLine(points[i - 1], points[i])
      \/ AbsDiff(points[i - 1], points[i]) < limit

(* handleBigDifference() fills a copy of the lines it was given: the lines  *)
(* that arc() adds up afterwards are the none it began with.                *)
HandleBigDifference(points) == << >>

Arc(a, b, n) ==
  LET points == FirstPass(a, b, n)
  IN  IF HasBigDiff(points) /\ SmallDiffsBelow(points, DateLineOffset)
        THEN HandleBigDifference(points)
        ELSE points

(* 300 kilometres of the equator, and a point for every hundred. *)
LongLeg == 3
PointsOf(distance) == (distance * 11119) \div 10000

(* A point of the arc between two way points has none. *)
NoName == ""

(* The bug of naming the first point of the arc after its end. *)
GreatCirclePath_NamesFirst(from, to) ==
  LET arc == Arc(from.at, to.at, PointsOf(DistanceDegrees(from.at, to.at)))
  IN  [i \in 1..Len(arc) |->
         [name |-> IF i = 1 THEN to.name ELSE NoName, at |-> arc[i]]]

(* generateGreatCirclePath(): the last point of the arc bears the name.     *)
GreatCirclePath(from, to) ==
  LET arc == Arc(from.at, to.at, PointsOf(DistanceDegrees(from.at, to.at)))
  IN  [i \in 1..Len(arc) |->
         [name |-> IF i = Len(arc) THEN to.name ELSE NoName, at |-> arc[i]]]
=============================================================================
