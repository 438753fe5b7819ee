------------------------------ MODULE RouteText ------------------------------
(***************************************************************************)
(* RouteTextFormat::loadString(route, origin, dest): the words of a route   *)
(* are looked up one after the other, each near the place the last one led  *)
(* to, the airports are put before and behind the way points, and long legs *)
(* are divided along the great circle.                                      *)
(*                                                                          *)
(* One step is one word.  The nav data are a choice: Little Navmap's, whose *)
(* isAirway() answers true for every word, or a source with the airways,    *)
(* departures and arrivals of its own that the base classes provide, as the *)
(* tests' is.  expandAirway() adds nothing: Little Navmap's                 *)
(* findNextAirwayWaypoint() finds nothing, the base class has no airway     *)
(* points.  A use of a null airport is the step to "crashed".               *)
(***************************************************************************)
EXTENDS GreatCircle

CONSTANTS
  AirportAt,  \* findByCode(): the place of each known airport
  NavAidsAt,  \* findById(): the places of the nav aids of each name
  LatLonAt,   \* parseLatLon(): the place that a coordinate stands for
  Airways, Departures, Arrivals,  \* the words that are these
  Routes      \* the routes that are loaded: sequences of words

Nowhere == "none"

(* What the points of a route are called, and where it can lead. *)
PointNames == DOMAIN AirportAt \cup DOMAIN NavAidsAt \cup DOMAIN LatLonAt
PlacesOf(at) == {at[name] : name \in DOMAIN at}
RoutePlaces ==
  PlacesOf(AirportAt) \cup PlacesOf(LatLonAt)
    \cup {p \in -179..179 : \E id \in DOMAIN NavAidsAt :
                               p \in PlacesOf(NavAidsAt[id])}

RouteTextConstants ==
  /\ DOMAIN AirportAt \cap (DOMAIN NavAidsAt \cup DOMAIN LatLonAt) = {}
  /\ Nowhere \notin DOMAIN AirportAt
  /\ \A id \in DOMAIN NavAidsAt :
       NavAidsAt[id] \in Seq(-179..179) /\ NavAidsAt[id] # << >>
  /\ \A p, q \in RoutePlaces : p \in -179..179 /\ AbsDiff(p, q) # 180

VARIABLES
  navData,     \* "littleNavMap" or "base"
  route,       \* the route's words
  given,       \* the origin and the destination that loadString() was given
  routePhase,  \* "parse", "great circle", "loaded" or "crashed"
  rest,        \* the words that are left
  routeState,  \* START, EN_ROUTE or END
  origin, dest,  \* originAirport, destAirport
  lastCoord,   \* where the last way point was
  wayPoints,   \* parsedPoints, then resolvedPoints: [name, at]
  flightRoute, \* the flight plan's route: [name, at]
  reached      \* its length when each of the way points was added

routeVars == <<navData, route, given, routePhase, rest, routeState, origin,
               dest, lastCoord, wayPoints, flightRoute, reached>>

Found(code) == IF code \in DOMAIN AirportAt THEN code ELSE Nowhere

Init ==
  /\ navData \in {"littleNavMap", "base"}
  /\ route \in Routes
  /\ given \in (DOMAIN AirportAt \cup {Nowhere}) \X
                 (DOMAIN AirportAt \cup {Nowhere})
  /\ routePhase = "parse"
  /\ rest = route
  /\ routeState = "START"
  /\ origin = Found(given[1]) /\ dest = Found(given[2])
  /\ lastCoord = IF origin = Nowhere THEN 0 ELSE AirportAt[origin]
  /\ wayPoints = << >> /\ flightRoute = << >> /\ reached = << >>

-----------------------------------------------------------------------------
(* tokenise(): an airport, else a nav aid, else an airway, else a procedure.*)
Word == Head(rest)
IsAirport == Word \in DOMAIN AirportAt
IsNavAid == ~IsAirport /\ Word \in DOMAIN NavAidsAt
AirwayName(word) ==
  word = "DCT" \/ navData = "littleNavMap" \/ word \in Airways
IsAirway == ~IsAirport /\ ~IsNavAid /\ AirwayName(Word)
IsProcedure(kind, airport) ==
  /\ ~IsAirport /\ ~IsNavAid /\ ~IsAirway
  /\ airport # Nowhere /\ Word \in kind
IsDeparture == IsProcedure(Departures, origin)
IsArrival == ~IsDeparture /\ IsProcedure(Arrivals, dest)

(* NavAids::findById(id, near): the first of the nearest. *)
NearestAt(id, near) ==
  LET places == NavAidsAt[id]
      isNearest(n) == \A m \in DOMAIN places :
        DistanceDegrees(places[n], near) <= DistanceDegrees(places[m], near)
  IN  places[CHOOSE n \in DOMAIN places :
               isNearest(n) /\ \A m \in 1..(n - 1) : ~isNearest(m)]

Parsing == routePhase = "parse" /\ rest # << >>

Crash ==
  /\ routePhase' = "crashed"
  /\ UNCHANGED <<navData, route, given, rest, routeState, origin, dest,
                 lastCoord, wayPoints, flightRoute, reached>>

(* "Unexpected Airway", which starts the route, or takes it up again. *)
SkipAirway ==
  /\ Parsing /\ IsAirway
  /\ routeState' = "EN_ROUTE"
  /\ rest' = Tail(rest)
  /\ UNCHANGED <<navData, route, given, routePhase, origin, dest, lastCoord,
                 wayPoints, flightRoute, reached>>

(* The airport a route starts with takes the place of the one given, but    *)
(* not in lastCoord.  With no origin given the comparison is with null.     *)
StartAirport ==
  /\ Parsing /\ routeState = "START" /\ IsAirport
  /\ \/ /\ origin = Nowhere
        /\ Crash
     \/ /\ origin # Nowhere
        /\ origin' = Word
        /\ rest' = Tail(rest)
        /\ UNCHANGED <<navData, route, given, routePhase, routeState, dest,
                       lastCoord, wayPoints, flightRoute, reached>>

StartDeparture ==
  /\ Parsing /\ routeState = "START" /\ IsDeparture
  /\ rest' = Tail(rest)
  /\ UNCHANGED <<navData, route, given, routePhase, routeState, origin, dest,
                 lastCoord, wayPoints, flightRoute, reached>>

(* A word that is treated as en route: also the first that is neither an    *)
(* airport nor a departure.                                                 *)
EnRoute ==
  /\ Parsing /\ ~IsAirway
  /\ \/ routeState = "EN_ROUTE"
     \/ routeState = "START" /\ ~IsAirport /\ ~IsDeparture

(* parseAirway(): the airway behind a way point belongs to it. *)
AfterWayPoint ==
  LET next == Tail(rest)
  IN  IF next # << >> /\ AirwayName(Head(next)) THEN Tail(next) ELSE next

(* The bug of looking up every way point near the origin. *)
WayPoint_NearOrigin ==
  /\ EnRoute
  /\ Word \in DOMAIN NavAidsAt \cup DOMAIN LatLonAt
  /\ LET at == IF IsNavAid THEN NearestAt(Word, lastCoord) ELSE LatLonAt[Word]
     IN  wayPoints' = Append(wayPoints, [name |-> Word, at |-> at])
  /\ routeState' = "EN_ROUTE"
  /\ rest' = AfterWayPoint
  /\ UNCHANGED <<navData, route, given, routePhase, origin, dest, lastCoord,
                 flightRoute, reached>>

(* parseWaypoint() *)
WayPoint ==
  /\ EnRoute
  /\ Word \in DOMAIN NavAidsAt \cup DOMAIN LatLonAt
  /\ LET at == IF IsNavAid THEN NearestAt(Word, lastCoord) ELSE LatLonAt[Word]
     IN  /\ wayPoints' = Append(wayPoints, [name |-> Word, at |-> at])
         /\ lastCoord' = at
  /\ routeState' = "EN_ROUTE"
  /\ rest' = AfterWayPoint
  /\ UNCHANGED <<navData, route, given, routePhase, origin, dest, flightRoute, reached>>

Arrival ==
  /\ EnRoute /\ IsArrival /\ Word \notin DOMAIN LatLonAt
  /\ routeState' = "END"
  /\ rest' = Tail(rest)
  /\ UNCHANGED <<navData, route, given, routePhase, origin, dest, lastCoord,
                 wayPoints, flightRoute, reached>>

(* The bug of going on to the next word without a destination. *)
DestinationAirport_Unchecked ==
  /\ EnRoute /\ IsAirport
  /\ dest' = Word
  /\ routeState' = "END"
  /\ rest' = Tail(rest)
  /\ UNCHANGED <<navData, route, given, routePhase, origin, lastCoord,
                 wayPoints, flightRoute, reached>>

DestinationAirport ==
  /\ EnRoute /\ IsAirport
  /\ \/ /\ dest = Nowhere
        /\ Crash
     \/ /\ dest # Nowhere
        /\ dest' = Word
        /\ routeState' = "END"
        /\ rest' = Tail(rest)
        /\ UNCHANGED <<navData, route, given, routePhase, origin, lastCoord,
                       wayPoints, flightRoute, reached>>

(* A word nobody knows, and a departure in the middle of the route. *)
UnknownWord ==
  /\ EnRoute /\ ~IsAirport /\ ~IsArrival
  /\ Word \notin DOMAIN NavAidsAt \cup DOMAIN LatLonAt
  /\ routeState' = "EN_ROUTE"
  /\ rest' = Tail(rest)
  /\ UNCHANGED <<navData, route, given, routePhase, origin, dest, lastCoord,
                 wayPoints, flightRoute, reached>>

AfterEnd ==
  /\ Parsing /\ routeState = "END" /\ ~IsAirway
  /\ rest' = Tail(rest)
  /\ UNCHANGED <<navData, route, given, routePhase, routeState, origin, dest,
                 lastCoord, wayPoints, flightRoute, reached>>

(* addAirport() and expandAirways() *)
Resolved ==
  <<[name |-> origin, at |-> AirportAt[origin]]>> \o wayPoints
    \o <<[name |-> dest, at |-> AirportAt[dest]]>>

EndOfRoute ==
  /\ routePhase = "parse" /\ rest = << >>
  /\ \/ /\ origin = Nowhere \/ dest = Nowhere
        /\ Crash
     \/ /\ origin # Nowhere /\ dest # Nowhere
        /\ routePhase' = "great circle"
        /\ wayPoints' = Resolved
        /\ UNCHANGED <<navData, route, given, rest, routeState, origin, dest,
                       lastCoord, flightRoute, reached>>

IsLong(i) ==
  i > 1 /\ DistanceDegrees(wayPoints[i - 1].at, wayPoints[i].at) >= LongLeg

PointsTo(i) ==
  IF IsLong(i) THEN GreatCirclePath(wayPoints[i - 1], wayPoints[i])
               ELSE <<wayPoints[i]>>

(* generateGreatCirclePaths(): one point after the other. *)
AddPoint ==
  /\ routePhase = "great circle" /\ Len(reached) < Len(wayPoints)
  /\ flightRoute' = flightRoute \o PointsTo(Len(reached) + 1)
  /\ reached' = Append(reached, Len(flightRoute'))
  /\ UNCHANGED <<navData, route, given, routePhase, rest, routeState, origin,
                 dest, lastCoord, wayPoints>>

SetRoute ==
  /\ routePhase = "great circle" /\ Len(reached) = Len(wayPoints)
  /\ routePhase' = "loaded"
  /\ UNCHANGED <<navData, route, given, rest, routeState, origin, dest,
                 lastCoord, wayPoints, flightRoute, reached>>

Next ==
  \/ SkipAirway \/ StartAirport \/ StartDeparture \/ WayPoint \/ Arrival
  \/ DestinationAirport \/ UnknownWord \/ AfterEnd \/ EndOfRoute
  \/ AddPoint \/ SetRoute

Spec == Init /\ [][Next]_routeVars

-----------------------------------------------------------------------------
Parsed ==
  IF routePhase \in {"parse", "crashed"}
    THEN wayPoints ELSE SubSeq(wayPoints, 2, Len(wayPoints) - 1)

(* Every variable stays in its domain. *)
TypeOK ==
  /\ navData \in {"littleNavMap", "base"} /\ route \in Routes
  /\ routePhase \in {"parse", "great circle", "loaded", "crashed"}
  /\ routeState \in {"START", "EN_ROUTE", "END"}
  /\ {origin, dest} \subseteq DOMAIN AirportAt \cup {Nowhere}
  /\ lastCoord \in -179..179
  /\ wayPoints \in Seq([name : PointNames, at : -179..179])
  /\ flightRoute \in Seq([name : PointNames \cup {NoName}, at : -180..179])
  /\ reached \in Seq(Nat)

(* A name that several nav aids bear is the one nearest to where the route  *)
(* is: to the way point before, a coordinate too, and at first to the       *)
(* origin that was given.                                                   *)
NearestToPrevious ==
  \A i \in DOMAIN Parsed :
    Parsed[i].name \in DOMAIN NavAidsAt =>
      LET start == IF Found(given[1]) = Nowhere THEN 0 ELSE AirportAt[given[1]]
          near == IF i = 1 THEN start ELSE Parsed[i - 1].at
          places == NavAidsAt[Parsed[i].name]
      IN  \A n \in DOMAIN places :
            DistanceDegrees(Parsed[i].at, near) <= DistanceDegrees(places[n], near)

(* A route is loaded when both of its airports are known, whatever its      *)
(* words are, and only an airport that is missing ends the program.         *)
RoutesNeedAirports ==
  LET known == given[1] # Nowhere /\ given[2] # Nowhere
  IN  /\ routePhase = "loaded" => known
      /\ routePhase = "crashed" => ~known

OverDateLine(i) ==
  IsLong(i) /\ AbsDiff(wayPoints[i - 1].at, wayPoints[i].at) > 180
Kept == {i \in DOMAIN wayPoints : ~OverDateLine(i)}

(* The flight plan's route has the resolved points in their order and at    *)
(* their places, none but these have a name, and no two points are further  *)
(* apart than a leg that need not be divided, as long as no long leg        *)
(* crosses the date line: the end of one that does is lost.                 *)
RouteIsWhole ==
  routePhase = "loaded" =>
    /\ DOMAIN reached = DOMAIN wayPoints
    /\ \A i, j \in Kept : i < j => reached[i] < reached[j]
    /\ \A i \in Kept :
         reached[i] \in DOMAIN flightRoute /\ flightRoute[reached[i]] = wayPoints[i]
    /\ \A n \in DOMAIN flightRoute :
         flightRoute[n].name # NoName => \E i \in Kept : n = reached[i]
    /\ Kept = DOMAIN wayPoints =>
         \A n \in 2..Len(flightRoute) :
           DistanceDegrees(flightRoute[n - 1].at, flightRoute[n].at) < LongLeg

Named(points) == SelectSeq(points, LAMBDA p : p.name # NoName)

(* The comment on dfDateLineOffset: geometries are split at the date line,  *)
(* they do not disappear there.                                             *)
DateLineLegsAreSplit ==
  routePhase = "loaded" => Named(flightRoute) = wayPoints
=============================================================================
