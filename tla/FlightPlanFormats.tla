-------------------------- MODULE FlightPlanFormats --------------------------
(***************************************************************************)
(* The flight plans that are read from a file or from SimBrief:             *)
(* MSFSIniFormat::loadFile() line by line, SimbriefJson::load() fix by fix, *)
(* the latter also from the pieces that fetch() gets from the network.      *)
(*                                                                          *)
(* An entry is a line or a fix; a step reads one of any kind.  Airports are *)
(* found by code, a nav aid by its ident near the place the fix is at, and  *)
(* gives the way point its own name.  loadFile() drops what trim() returns, *)
(* so the blanks of a line stay in its key, its value and its fields:       *)
(* "blanks" are the parts of an entry that begin with one (a part that ends *)
(* with one is read the same way, but for a waypoint's key and its place,   *)
(* which are not hurt).  What throws is the step to "threw", as nothing     *)
(* here catches; a null pointer is one to "crashed".                        *)
(***************************************************************************)
EXTENDS Integers, Sequences, FiniteSets

CONSTANTS
  KnownAirports,  \* the codes that findByCode() knows
  NavAidsOf,      \* findById(): the nav aids of each ident, [name, at]
  FixPlaces,      \* where a fix may be: minutes of arc, on a line
  MaxEntries,     \* bound: entries of a plan
  MaxPieces       \* bound: pieces of a response

FlightPlanConstants ==
  /\ MaxEntries \in Nat /\ MaxPieces \in Nat /\ FixPlaces \subseteq Int
  /\ \A id \in DOMAIN NavAidsOf :
       NavAidsOf[id] \in Seq([name : STRING, at : Int]) /\ NavAidsOf[id] # << >>

(* "wpt" is "vor" too, "TOC" is "TOD" too, "apt" is every other type.       *)
Names == DOMAIN NavAidsOf \cup {"TOC", "unknown"}
AidNames ==
  UNION {{NavAidsOf[id][n].name : n \in DOMAIN NavAidsOf[id]} : id \in DOMAIN NavAidsOf}
Fixes ==
  [kind : {"fix"}, procedure : BOOLEAN, type : {"wpt", "ltlg", "apt"},
   name : Names, at : FixPlaces]
Waypoints ==
  [kind : {"waypoint"}, fields : {"few", "five", "six"}, type : {"A", "V"},
   name : Names, at : FixPlaces,
   blanks : {{}, {"key"}, {"type"}, {"place"}, {"type", "place"}}]
Ends == [kind : {"departure_id", "destination_id"},
         code : KnownAirports \cup {"unknown"},
         blanks : {{}, {"key"}, {"code"}}]

VARIABLES
  format,     \* "msfs" or "simbrief"
  planPhase,  \* "idle", "fetch", "header", "load"; "loaded", "null", "threw"
              \* and "crashed"
  pieces,     \* the pieces of the response that curlCallback() has put together
  entries,    \* the entries of the file or of the fixes that have been read
  ends,       \* m_origin and m_destination, "null" when not found
  points      \* the way points: [name, at]

planVars == <<format, planPhase, pieces, entries, ends, points>>

Init ==
  /\ format \in {"msfs", "simbrief"}
  /\ planPhase = "idle"
  /\ pieces = 0
  /\ entries = << >>
  /\ ends = [e \in {"departure_id", "destination_id"} |-> "null"]
  /\ points = << >>

FindByCode(code) == IF code \in KnownAirports THEN code ELSE "null"

(* No code begins with a blank. *)
AirportOf(e) == IF "code" \in e.blanks THEN "null" ELSE FindByCode(e.code)

(* A file: one that cannot be read has no lines, of which at(0) is asked,   *)
(* or is a null FILE for the JSON parser; a first line other than           *)
(* [flightplan] is only reported.                                           *)
LoadFile ==
  /\ planPhase = "idle"
  /\ planPhase' \in IF format = "msfs" THEN {"load", "threw"}
                                      ELSE {"header", "threw", "crashed"}
  /\ UNCHANGED <<format, pieces, entries, ends, points>>

(* fetch(): curlCallback() appends a piece to what it has. *)
Fetch ==
  /\ format = "simbrief" /\ planPhase \in {"idle", "fetch"}
  /\ pieces < MaxPieces
  /\ planPhase' = "fetch" /\ pieces' = pieces + 1
  /\ UNCHANGED <<format, entries, ends, points>>

(* The bug of taking what has come for the whole response. *)
Fetched_Partial ==
  /\ format = "simbrief" /\ planPhase \in {"idle", "fetch"}
  /\ planPhase' = IF pieces = 0 THEN "crashed" ELSE "header"
  /\ UNCHANGED <<format, pieces, entries, ends, points>>

(* curl_easy_perform() has returned: a failure is reported, and what has    *)
(* come is parsed, a null pointer too.  Less than the whole does not parse. *)
Fetched ==
  /\ format = "simbrief" /\ planPhase \in {"idle", "fetch"}
  /\ planPhase' = CASE pieces = 0 -> "crashed"
                    [] pieces = MaxPieces -> "header"
                    [] OTHER -> "threw"
  /\ UNCHANGED <<format, pieces, entries, ends, points>>

Loading == planPhase = "load" /\ Len(entries) < MaxEntries

(* get<string>() throws on a key that SimBrief has left out; getAirports()  *)
(* and getNavAids() answer null when their files cannot be read, and in the *)
(* base class always, which is dereferenced.                                *)
LoadFails ==
  /\ planPhase = "header" \/ Loading
  /\ planPhase' \in IF format = "msfs" THEN {"crashed"} ELSE {"threw", "crashed"}
  /\ UNCHANGED <<format, pieces, entries, ends, points>>

(* SimBrief's origin and destination. *)
ReadHeader ==
  /\ planPhase = "header"
  /\ planPhase' = "load"
  /\ ends' \in [DOMAIN ends -> {FindByCode(e.code) : e \in Ends}]
  /\ UNCHANGED <<format, pieces, entries, points>>

(* The departure_id and destination_id lines; one whose key begins with a   *)
(* blank is unhandled.                                                      *)
ReadEnds ==
  /\ Loading /\ format = "msfs"
  /\ \E e \in Ends :
       /\ entries' = Append(entries, e)
       /\ ends' = IF "key" \in e.blanks THEN ends
                  ELSE [ends EXCEPT ![e.kind] = AirportOf(e)]
  /\ UNCHANGED <<format, planPhase, pieces, points>>

Apart(a, b) == IF a < b THEN b - a ELSE a - b

(* dmmToDegrees(): a letter, the degrees, a blank, the minutes.  Of a place *)
(* that begins with a blank, the blank is the letter, so that no place is   *)
(* south or west, and the letter is in the degrees, which come to nothing.  *)
DmmToDegrees(w) == IF "place" \in w.blanks THEN Apart(w.at, 0) % 60 ELSE w.at

IsAirport(w) == w.type = "A" /\ "type" \notin w.blanks
Unhandled(w) == "key" \in w.blanks

(* A waypoint line; splitString() leaves empty fields out.  Of five fields  *)
(* the second is the type, of six the fourth.  Airports are skipped, unless *)
(* a blank hides the type.                                                  *)
ReadWaypoint ==
  /\ Loading /\ format = "msfs"
  /\ \E w \in Waypoints :
       LET short == w.fields = "few" /\ ~Unhandled(w)
       IN  /\ entries' = Append(entries, w)
           /\ planPhase' = IF short THEN "threw" ELSE "load"
           /\ points' = IF short \/ Unhandled(w) \/ IsAirport(w) THEN points
                        ELSE Append(points, [name |-> w.name, at |-> DmmToDegrees(w)])
  /\ UNCHANGED <<format, pieces, ends>>

Nearest(id, at) ==
  LET found == NavAidsOf[id]
      isNearest(n) ==
        \A m \in DOMAIN found : Apart(found[n].at, at) <= Apart(found[m].at, at)
  IN  found[CHOOSE n \in DOMAIN found :
              isNearest(n) /\ \A m \in 1..(n - 1) : ~isNearest(m)]

NoName == ""

Skipped(fix) == fix.procedure \/ (fix.type = "ltlg" /\ fix.name = "TOC")

(* A nav aid gives its name, not the ident it was found by; X-Plane's have  *)
(* an empty one.  A fix of another type becomes a way point without name or *)
(* place.                                                                   *)
PointOf(fix) ==
  CASE fix.type = "wpt" -> Nearest(fix.name, fix.at)
    [] fix.type = "ltlg" -> [name |-> fix.name, at |-> fix.at]
    [] OTHER -> [name |-> NoName, at |-> 0]

(* The bug of leaving out a fix that is not in the nav data. *)
ReadFix_SkipsUnknown ==
  /\ Loading /\ format = "simbrief"
  /\ \E fix \in Fixes :
       /\ entries' = Append(entries, fix)
       /\ points' =
            IF Skipped(fix) \/ (fix.type = "wpt" /\ fix.name \notin DOMAIN NavAidsOf)
              THEN points ELSE Append(points, PointOf(fix))
  /\ UNCHANGED <<format, pieces, ends, planPhase>>

(* A fix of SimBrief's navlog: one that is not in the nav data ends it.     *)
ReadFix ==
  /\ Loading /\ format = "simbrief"
  /\ \E fix \in Fixes :
       /\ entries' = Append(entries, fix)
       /\ LET unknown == /\ ~Skipped(fix) /\ fix.type = "wpt"
                         /\ fix.name \notin DOMAIN NavAidsOf
          IN  /\ planPhase' = IF unknown THEN "null" ELSE "load"
              /\ points' = IF unknown \/ Skipped(fix) THEN points
                           ELSE Append(points, PointOf(fix))
  /\ UNCHANGED <<format, pieces, ends>>

Loaded ==
  /\ planPhase = "load"
  /\ planPhase' = "loaded"
  /\ UNCHANGED <<format, pieces, entries, ends, points>>

Next ==
  \/ LoadFile \/ Fetch \/ Fetched \/ LoadFails \/ ReadHeader \/ ReadEnds
  \/ ReadWaypoint \/ ReadFix \/ Loaded

Spec == Init /\ [][Next]_planVars

-----------------------------------------------------------------------------
(* An entry that is a point of the route. *)
IsEnroute(e) ==
  \/ e.kind = "waypoint" /\ ~Unhandled(e) /\ ~IsAirport(e)
  \/ e.kind = "fix" /\ ~Skipped(e)

(* Every variable stays in its domain. *)
TypeOK ==
  /\ format \in {"msfs", "simbrief"} /\ pieces \in 0..MaxPieces
  /\ planPhase \in {"idle", "fetch", "header", "load", "loaded", "null",
                    "threw", "crashed"}
  /\ entries \in Seq(Ends \cup Waypoints \cup Fixes) /\ Len(entries) <= MaxEntries
  /\ ends \in [{"departure_id", "destination_id"} -> KnownAirports \cup {"null"}]
  /\ points \in Seq([name : Names \cup AidNames \cup {NoName}, at : Int])

(* The point says what its entry does: the name and the place, or those of  *)
(* the nav aid of the ident that is nearest to it.  Only a place behind a   *)
(* blank is another; a point without name or place is a fix of a type that  *)
(* load() does not know.                                                    *)
IsPointOf(point, e) ==
  \/ /\ e.kind = "waypoint" /\ point.name = e.name
     /\ "place" \notin e.blanks => point.at = e.at
  \/ /\ e.kind = "fix" /\ e.type = "ltlg"
     /\ point.name = e.name /\ point.at = e.at
  \/ /\ e.kind = "fix" /\ e.type = "wpt"
     /\ \E n \in DOMAIN NavAidsOf[e.name] : point = NavAidsOf[e.name][n]
     /\ \A n \in DOMAIN NavAidsOf[e.name] :
          Apart(point.at, e.at) <= Apart(NavAidsOf[e.name][n].at, e.at)
  \/ e.kind = "fix" /\ e.type = "apt" /\ point.name = NoName

(* The points are those of the entries en route, in order. *)
PointsAreEntries ==
  \E order \in [DOMAIN points -> {n \in DOMAIN entries : IsEnroute(entries[n])}] :
    /\ \A i, j \in DOMAIN points : i < j => order[i] < order[j]
    /\ \A n \in DOMAIN entries :
         IsEnroute(entries[n]) => \E i \in DOMAIN points : order[i] = n
    /\ \A i \in DOMAIN points : IsPointOf(points[i], entries[order[i]])

(* A plan that is handed out has a point for every entry of its source that *)
(* is en route, in order, with its name and place, or those of the nearest  *)
(* nav aid that the nav data have under its ident, and comes from a whole   *)
(* response.  What blanks make of a line is excepted: a line whose key      *)
(* begins with one is not read, an airport whose type does is en route, and *)
(* a place that does is another.                                            *)
PlansAreWhole ==
  planPhase = "loaded" => PointsAreEntries /\ pieces \in {0, MaxPieces}
=============================================================================
