---------------------------- MODULE XPlaneNavData ----------------------------
(***************************************************************************)
(* XPlaneNavDataSource: getAirports() and getNavAids() read X-Plane's files *)
(* when they are first asked, keep what a complete reading gave, and read   *)
(* again, into a new object, when one failed.                               *)
(*                                                                          *)
(* apt.dat is a sequence of lines that belong together by their order: an   *)
(* airport is what stands between its line and the next, a runway rule what *)
(* stands between its line and the next rule's or airport's.  A step reads  *)
(* a line of any kind.  What a line says is its number in the file; the     *)
(* codes that airports are found by are values, as two may have the same.   *)
(***************************************************************************)
EXTENDS Integers, Sequences, FiniteSets

CONSTANTS
  Codes,     \* ICAO codes
  MaxLines,  \* bound: lines of an apt.dat
  MaxLoads   \* bound: readings of a file

XPlaneNavDataConstants ==
  MaxLines \in Nat /\ MaxLoads \in Nat /\ "none" \notin Codes

Nil == "none"

(* The lines that a runway rule is made of, and those that an airport has   *)
(* besides: a runway of two ends, a controller, and the 1302 lines.         *)
Kinds == {"airport", "runway", "rule", "condition", "latitude", "longitude",
          "controller"}
Lines == [kind : Kinds, code : {Nil}] \cup [kind : {"code"}, code : Codes]

VARIABLES
  loading,     \* "idle", "airports", "fixes" or "navaids"; "crashed",
               \* "threw" and "aborted"
  file,        \* the lines of apt.dat that have been read
  current,     \* currentAirport; NoAirport when null
  currentLat,  \* the line of the last datum_lat, 0 when none
  rule,        \* runwayRule: its line, 0 for none, and its conditions
  hasRule,     \* a rule line has been read and not flushed
  airportList, \* m_airportList of the object being filled
  byCode,      \* m_airportsByCode
  airports,    \* m_airports: null, or the object that holds airportList
  navAids,     \* m_navAids: null or an object
  answer,      \* what the last call of a getter gave
  loads        \* readings so far

navVars == <<loading, file, current, currentLat, rule, hasRule, airportList,
             byCode, airports, navAids, answer, loads>>
fileVars == <<file, current, currentLat, rule, hasRule, airportList, byCode>>
cacheVars == <<airports, navAids, answer, loads>>

Rule == [line : Nat, conditions : Seq(Nat)]
Airport ==
  [line : Nat, lat : Nat, lon : Nat, code : Codes \cup {Nil},
   runways : Seq(Nat), rules : Seq(Rule), controllers : Seq(Nat)]
NoRule == [line |-> 0, conditions |-> << >>]
NewAirport(n) ==
  [line |-> n, lat |-> 0, lon |-> 0, code |-> Nil, runways |-> << >>,
   rules |-> << >>, controllers |-> << >>]
NoAirport == NewAirport(0)

Init ==
  /\ loading = "idle"
  /\ file = << >> /\ current = NoAirport /\ currentLat = 0
  /\ rule = NoRule /\ hasRule = FALSE
  /\ airportList = << >> /\ byCode = << >>
  /\ airports = Nil /\ navAids = Nil /\ answer = Nil /\ loads = 0

-----------------------------------------------------------------------------
(* XPlaneAirports::init() *)

(* An object of its own is made, and a file that cannot be opened leaves    *)
(* nothing behind.                                                          *)
GetAirports ==
  /\ loading = "idle"
  /\ \/ /\ airports # Nil
        /\ answer' = "object"
        /\ UNCHANGED <<loading, loads, fileVars>>
     \/ /\ airports = Nil /\ loads < MaxLoads
        /\ loads' = loads + 1
        /\ \/ answer' = Nil /\ UNCHANGED <<loading, fileVars>>
           \/ /\ loading' = "airports"
              /\ file' = << >> /\ current' = NoAirport /\ currentLat' = 0
              /\ rule' = NoRule /\ hasRule' = FALSE
              /\ airportList' = << >> /\ byCode' = << >>
              /\ UNCHANGED answer
  /\ UNCHANGED <<airports, navAids>>

Reading(line) ==
  /\ loading = "airports" /\ Len(file) < MaxLines
  /\ file' = Append(file, line)
  /\ UNCHANGED cacheVars

LineNo == Len(file) + 1

(* A line that says something of a null airport. *)
Crash ==
  /\ loading' = "crashed"
  /\ UNCHANGED <<current, currentLat, rule, hasRule, airportList, byCode>>

(* The airport with the rule that was being read. *)
WithRule ==
  IF hasRule THEN [current EXCEPT !.rules = Append(@, rule)] ELSE current

(* addAirport(): an airport at 0, 0 is dropped, and the first of those with *)
(* the same code is the one that is found.  The quad tree it goes into is   *)
(* that of NavAids; its abort() is a step of ReadingFails.                  *)
AddAirport(airport) ==
  IF airport.lat = 0 /\ airport.lon = 0
    THEN UNCHANGED <<airportList, byCode>>
    ELSE /\ airportList' = Append(airportList, airport)
         /\ byCode' =
              IF airport.code = Nil \/ airport.code \in DOMAIN byCode
                THEN byCode
                ELSE [c \in DOMAIN byCode \cup {airport.code} |->
                        IF c = airport.code THEN airport ELSE byCode[c]]

FlushAirport ==
  IF current = NoAirport THEN UNCHANGED <<airportList, byCode>>
                   ELSE AddAirport(WithRule)

(* The bug of leaving the last rule of an airport to the next one. *)
ReadAirport_KeepsRule ==
  /\ Reading([kind |-> "airport", code |-> Nil])
  /\ FlushAirport
  /\ current' = NewAirport(LineNo)
  /\ currentLat' = 0
  /\ UNCHANGED <<loading, rule, hasRule>>

(* 1, 16, 17 *)
ReadAirport ==
  /\ Reading([kind |-> "airport", code |-> Nil])
  /\ FlushAirport
  /\ current' = NewAirport(LineNo)
  /\ currentLat' = 0
  /\ rule' = NoRule /\ hasRule' = FALSE
  /\ UNCHANGED loading

(* 1000 *)
ReadRule ==
  /\ Reading([kind |-> "rule", code |-> Nil])
  /\ \/ /\ hasRule /\ current = NoAirport
        /\ Crash
     \/ /\ hasRule => current # NoAirport
        /\ current' = IF hasRule THEN WithRule ELSE current
        /\ rule' = [line |-> LineNo, conditions |-> << >>]
        /\ hasRule' = TRUE
        /\ UNCHANGED <<loading, currentLat, airportList, byCode>>

(* 1001 to 1004, 1100 and 1110: also before any rule, where a rule that is  *)
(* never flushed takes them.                                                *)
ReadCondition ==
  /\ Reading([kind |-> "condition", code |-> Nil])
  /\ rule' = [rule EXCEPT !.conditions = Append(@, LineNo)]
  /\ UNCHANGED <<loading, current, currentLat, hasRule, airportList, byCode>>

(* 1302 datum_lat, which is only kept until the longitude comes. *)
ReadLatitude ==
  /\ Reading([kind |-> "latitude", code |-> Nil])
  /\ currentLat' = LineNo
  /\ UNCHANGED <<loading, current, rule, hasRule, airportList, byCode>>

(* 100, 1050 to 1056, 1302 datum_lon and icao_code *)
ReadDetail ==
  \E line \in Lines :
    /\ line.kind \in {"runway", "controller", "longitude", "code"}
    /\ Reading(line)
    /\ \/ current = NoAirport /\ Crash
       \/ /\ current # NoAirport
          /\ current' =
               CASE line.kind = "runway" ->
                      [current EXCEPT !.runways = Append(@, LineNo)]
                 [] line.kind = "controller" ->
                      [current EXCEPT !.controllers = Append(@, LineNo)]
                 [] line.kind = "longitude" ->
                      [current EXCEPT !.lat = currentLat, !.lon = LineNo]
                 [] line.kind = "code" ->
                      [current EXCEPT !.code = line.code]
          /\ UNCHANGED <<loading, currentLat, rule, hasRule, airportList,
                         byCode>>

(* at() and stoi() throw on a line that is cut short or has no number where *)
(* one should be, and nothing catches.  The quad tree ends the program when *)
(* too many airports are at one place (see InsertFindsAChild of NavAids);   *)
(* here two are enough, for the lines say nothing of how near they are.     *)
ReadingFails ==
  /\ loading = "airports"
  /\ \/ Len(file) < MaxLines /\ loading' = "threw"
     \/ /\ current.lon # 0 /\ airportList # << >>
        /\ loading' = "aborted"
  /\ UNCHANGED <<fileVars, cacheVars>>

(* What is kept is the whole list, once the file is read. *)
EndOfAirports ==
  /\ loading = "airports"
  /\ FlushAirport
  /\ loading' = "idle"
  /\ airports' = "object" /\ answer' = "object"
  /\ UNCHANGED <<file, current, currentLat, rule, hasRule, navAids, loads>>

-----------------------------------------------------------------------------
(* XPlaneNavAids::init(): fixes, then navigation aids; a header of another  *)
(* version, which a file that cannot be opened has too, fails it.           *)
GetNavAids ==
  /\ loading = "idle"
  /\ \/ /\ navAids # Nil
        /\ answer' = "object"
        /\ UNCHANGED <<loading, loads>>
     \/ /\ navAids = Nil /\ loads < MaxLoads
        /\ loads' = loads + 1
        /\ loading' = "fixes"
        /\ UNCHANGED answer
  /\ UNCHANGED <<fileVars, airports, navAids>>

LoadNavAids ==
  /\ loading \in {"fixes", "navaids"}
  /\ \/ /\ loading' = "idle" /\ answer' = Nil /\ UNCHANGED navAids
     \/ /\ loading = "fixes" /\ loading' = "navaids"
        /\ UNCHANGED <<navAids, answer>>
     \/ /\ loading = "navaids" /\ loading' = "idle"
        /\ navAids' = "object" /\ answer' = "object"
  /\ UNCHANGED <<fileVars, airports, loads>>

Next ==
  \/ GetAirports \/ ReadAirport \/ ReadRule \/ ReadCondition \/ ReadLatitude
  \/ ReadDetail \/ ReadingFails \/ EndOfAirports
  \/ GetNavAids \/ LoadNavAids

Spec == Init /\ [][Next]_navVars

-----------------------------------------------------------------------------
(* The file, read as a whole: its lines are known by their numbers.         *)

LinesOf(lines, kind) == {n \in DOMAIN lines : lines[n].kind = kind}

(* The lines behind line n, up to the next one of the kinds.                *)
Under(lines, kinds, n) ==
  {m \in DOMAIN lines : n < m /\ \A k \in (n + 1)..m : lines[k].kind \notin kinds}

(* The lines of a kind that stand under an airport's line.                  *)
Part(lines, kind, n) ==
  {m \in Under(lines, {"airport"}, n) : lines[m].kind = kind}

Conditions(lines, n) ==
  {m \in Under(lines, {"rule", "airport"}, n) : lines[m].kind = "condition"}

Lists(s, numbers) ==
  /\ \A i, j \in DOMAIN s : i < j => s[i] < s[j]
  /\ {s[i] : i \in DOMAIN s} = numbers

IsLast(n, numbers) ==
  IF numbers = {} THEN n = 0 ELSE n \in numbers /\ \A m \in numbers : m <= n

LinesOfAll(s) == [i \in DOMAIN s |-> s[i].line]

AsWritten(lines, airport) ==
  LET part(kind) == Part(lines, kind, airport.line)
  IN  /\ IsLast(airport.lon, part("longitude"))
      /\ IF airport.lon = 0 THEN airport.lat = 0
         ELSE IsLast(airport.lat, {m \in part("latitude") : m < airport.lon})
      /\ \E n \in 0..Len(lines) :
           /\ IsLast(n, part("code"))
           /\ airport.code = IF n = 0 THEN Nil ELSE lines[n].code
      /\ Lists(airport.runways, part("runway"))
      /\ Lists(airport.controllers, part("controller"))
      /\ Lists(LinesOfAll(airport.rules), part("rule"))
      /\ \A i \in DOMAIN airport.rules :
           Lists(airport.rules[i].conditions,
                 Conditions(lines, airport.rules[i].line))

HasPlace(lines, n) == Part(lines, "longitude", n) # {}

(* Every variable stays in its domain. *)
TypeOK ==
  /\ loading \in {"idle", "airports", "fixes", "navaids", "crashed",
                  "threw", "aborted"}
  /\ file \in Seq(Lines) /\ Len(file) <= MaxLines
  /\ current \in Airport /\ rule \in Rule
  /\ currentLat \in 0..MaxLines /\ hasRule \in BOOLEAN
  /\ airportList \in Seq(Airport)
  /\ \A c \in DOMAIN byCode : c \in Codes /\ byCode[c] \in Airport
  /\ {answer, airports, navAids} \subseteq {Nil, "object"}
  /\ loads \in 0..MaxLoads

(* The airports that are kept are those of the file that have a place, each *)
(* with the lines that stand under it and no others, each rule with its own *)
(* conditions; a code finds the first airport that has it.  A reading       *)
(* dereferences the null airport only where no airport stands before the    *)
(* line; that it may throw, or abort in the quad tree, is no part of this.  *)
AirportsAreAsWritten ==
  /\ airports # Nil =>
       /\ Lists(LinesOfAll(airportList),
                {n \in LinesOf(file, "airport") : HasPlace(file, n)})
       /\ \A i \in DOMAIN airportList : AsWritten(file, airportList[i])
       /\ \A c \in DOMAIN byCode : \E i \in DOMAIN airportList :
            /\ byCode[c] = airportList[i] /\ airportList[i].code = c
            /\ \A j \in 1..(i - 1) : airportList[j].code # c
       /\ \A i \in DOMAIN airportList :
            airportList[i].code \in DOMAIN byCode \cup {Nil}
  /\ loading = "crashed" => LinesOf(file, "airport") = {}
=============================================================================
