---------------------------- MODULE MCNavigation ----------------------------
(***************************************************************************)
(* The navigation data and what is made of them: the database, the          *)
(* procedures read from it, the quad tree of the nav aids, X-Plane's files, *)
(* routes and flight plans.  The models share no variable; a behaviour is   *)
(* one of a part, the others stay as they begin.                            *)
(***************************************************************************)
EXTENDS Database, Integers, TLC

CONSTANTS
  None,
  Airports, Keys, Versions, RowsOf,
  Size, Capacity, Places, Ids, MaxAids,
  Codes, MaxLines, MaxLoads,
  AirportAt, NavAidsAt, LatLonAt, Airways, Departures, Arrivals, Routes,
  KnownAirports, NavAidsOf, FixPlaces, MaxEntries, MaxPieces

VARIABLES
  driven,  \* the part, by the name of its instance below
  version, procedures, airportProcedures, fetch, cut,
  aids, leaves, inserting, aidsById, aborted,
  loading, file, current, currentLat, rule, hasRule, airportList, byCode,
  airports, navAids, answer, loads,
  navData, route, given, routePhase, rest, routeState, origin, dest, lastCoord,
  wayPoints, flightRoute, reached,
  format, planPhase, pieces, entries, ends, points

(* The rows of two versions of the file; a procedure with two runways and   *)
(* legs of both tables, and an airport that has nothing in the first.       *)
Row1(key, runway, approach, transition) ==
  [key |-> key, runway |-> runway, approach |-> approach,
   transition |-> transition]
MCRowsOf ==
  [v1 |-> [EGKK |-> <<Row1("sid", "26", 2, 1), Row1("star", "08", 1, 0),
                      Row1("sid", "08", 1, 0)>>,
           LFPG |-> << >>],
   v2 |-> [EGKK |-> <<Row1("star", "26", 1, 1), Row1("sid", "26", 1, 0)>>,
           LFPG |-> <<Row1("other", "27", 1, 0)>>]]

(* Places on either side of the middle and of a quarter's middle, and one   *)
(* outside.                                                                 *)
MCPlaces == {<<0, 0>>, <<0, 1>>, <<1, 0>>, <<1, 2>>, <<2, 1>>, <<2, 2>>,
             <<3, 3>>, <<4, 0>>}

(* A name of one nav aid and a name of two, an airport and places on either *)
(* side of the date line.                                                   *)
MCAirportAt == ("EGKK" :> 10) @@ ("NFFN" :> 175)
MCNavAidsAt == ("SFD" :> <<170, 12>>) @@ ("XIDIL" :> <<-172>>)
MCLatLonAt == ("51N025E" :> 165)
Words == {"EGKK", "NFFN", "SFD", "XIDIL", "51N025E", "M605", "DCT", "SFD4Z",
          "BIBA9W"}

(* Every route of at most three words. *)
MCRoutes == UNION {[1..n -> Words] : n \in 0..3}

(* Two nav aids of an ident, one of which, like X-Plane's, has no name; and *)
(* a place with degrees on the other side of zero.                          *)
MCNavAidsOf ==
  "SFD" :> <<[name |-> "Seaford", at |-> 10], [name |-> "", at |-> -80]>>
MCFixPlaces == {20, -65}

Procs == INSTANCE Procedures
Tree == INSTANCE NavAids
Files == INSTANCE XPlaneNavData
Route == INSTANCE RouteText
Plan == INSTANCE FlightPlanFormats

ASSUME ProceduresAssumption == Procs!ProcedureConstants
ASSUME NavAidsAssumption == Tree!NavAidConstants
ASSUME FilesAssumption == Files!XPlaneNavDataConstants
ASSUME RouteAssumption == Route!RouteTextConstants
ASSUME PlanAssumption == Plan!FlightPlanConstants

procVars == <<version, procedures, airportProcedures, fetch, cut>>
treeVars == <<aids, leaves, inserting, aidsById, aborted>>
filesVars == <<loading, file, current, currentLat, rule, hasRule, airportList,
               byCode, airports, navAids, answer, loads>>
routeVars == <<navData, route, given, routePhase, rest, routeState, origin,
               dest, lastCoord, wayPoints, flightRoute, reached>>
planVars == <<format, planPhase, pieces, entries, ends, points>>
everything == <<driven, vars, procVars, treeVars, filesVars, routeVars, planVars>>

MCInit ==
  /\ driven \in {"database", "procedures", "tree", "files", "route", "plan"}
  /\ Init /\ Procs!Init /\ Tree!Init /\ Files!Init
  /\ Route!Init
  /\ driven # "route" =>
       route = << >> /\ navData = "base" /\ given = <<"EGKK", "EGKK">>
  /\ driven # "procedures" => version = "v1"
  /\ Plan!Init
  /\ driven # "plan" => format = "msfs"

DatabaseNext ==
  /\ driven = "database" /\ Next
  /\ UNCHANGED <<driven, procVars, treeVars, filesVars, routeVars, planVars>>
ProceduresNext ==
  /\ driven = "procedures" /\ Procs!Next
  /\ UNCHANGED <<driven, vars, treeVars, filesVars, routeVars, planVars>>
TreeNext ==
  /\ driven = "tree" /\ Tree!Next
  /\ UNCHANGED <<driven, vars, procVars, filesVars, routeVars, planVars>>
FilesNext ==
  /\ driven = "files" /\ Files!Next
  /\ UNCHANGED <<driven, vars, procVars, treeVars, routeVars, planVars>>
RouteNext ==
  /\ driven = "route" /\ Route!Next
  /\ UNCHANGED <<driven, vars, procVars, treeVars, filesVars, planVars>>
PlanNext ==
  /\ driven = "plan" /\ Plan!Next
  /\ UNCHANGED <<driven, vars, procVars, treeVars, filesVars, routeVars>>

MCNext ==
  \/ DatabaseNext \/ ProceduresNext \/ TreeNext \/ FilesNext \/ RouteNext
  \/ PlanNext

MCSpec == MCInit /\ [][MCNext]_everything

-----------------------------------------------------------------------------
(* The properties of the parts, under their names.                          *)

(* Every variable stays in its domain. *)
TypesOK ==
  /\ TypeOK /\ Procs!TypeOK /\ Tree!TypeOK /\ Files!TypeOK /\ Route!TypeOK
  /\ Plan!TypeOK

(* A question about an airport's procedures is answered by one version of   *)
(* the file, in whole, the same by name as by airport.                      *)
AnswersAreWhole == Procs!AnswersAreWhole /\ Procs!NamesMatchLists

(* Every nav aid is in one leaf of the tree and is found where it is.       *)
AidsAreFound == Tree!EveryAidInOneLeaf /\ Tree!AidsAreFound

(* The airports are those of apt.dat, with their own lines.                 *)
AirportsAreAsWritten == Files!AirportsAreAsWritten

(* Of several nav aids of a name a route takes the nearest.                 *)
NearestToPrevious == Route!NearestToPrevious

(* A route needs both airports, and then has all of its points.             *)
RouteIsWhole == Route!RoutesNeedAirports /\ Route!RouteIsWhole

(* A flight plan has a point for every entry en route.                      *)
PlansAreWhole == Plan!PlansAreWhole
=============================================================================
