------------------------------ MODULE Procedures ------------------------------
(***************************************************************************)
(* Procedures and LNMProcedures: the departures, arrivals and approaches of *)
(* an airport, read from Little Navmap's database on the first question and *)
(* kept from then on, also when there were none.                            *)
(*                                                                          *)
(* One statement walks the rows of the airport; for each row two others     *)
(* read its legs before the walk goes on.  Little Navmap may rewrite the    *)
(* database at any time that nobody reads it, which is external: the model  *)
(* has the rows of each version of the file.  A step that fails, or finds   *)
(* the file busy too often, looks like the end of the rows to the caller.   *)
(***************************************************************************)
EXTENDS Naturals, Sequences

CONSTANTS
  Airports,
  Keys,      \* type, name and airport of a procedure, so that no two
             \* airports share one
  Versions,  \* the versions of the database file
  RowsOf,    \* the rows [key, runway, approach, transition] each version has
             \* for an airport; the last two are the numbers of its legs
  None

RowSet(v, a) == {RowsOf[v][a][i] : i \in DOMAIN RowsOf[v][a]}
AllRows == UNION {UNION {RowSet(v, a) : a \in Airports} : v \in Versions}
KeysOf(v, a) == {RowsOf[v][a][i].key : i \in DOMAIN RowsOf[v][a]}

AllLegs == [table : {"approach", "transition"}, place : Nat, version : Versions]
AllProcedures ==
  [key : Keys, runway : {row.runway : row \in AllRows}, legs : Seq(AllLegs)]

ProcedureConstants ==
  /\ \A v \in Versions, a \in Airports :
       /\ Len(RowsOf[v][a]) \in Nat
       /\ DOMAIN RowsOf[v][a] = 1..Len(RowsOf[v][a])
  /\ \A row \in AllRows :
       row.key \in Keys /\ row.approach \in Nat /\ row.transition \in Nat
  /\ \A v, w \in Versions, a, b \in Airports :
       a # b => KeysOf(v, a) \cap KeysOf(w, b) = {}
  /\ None \notin AllProcedures \cup Seq(AllProcedures)

VARIABLES
  version,            \* the version of the database file
  procedures,         \* m_procedures: the procedure of each key, or None
  airportProcedures,  \* m_airportProcedures: each airport's list, or None
  fetch,              \* the fetchProcedures() under way
  cut                 \* the airports whose answer an error cut short

cacheVars == <<procedures, airportProcedures>>
vars == <<version, cacheVars, fetch, cut>>

NoFetch == [at |-> "idle"]
Fetch(at, a, row, legs, read, found) ==
  [at |-> at, airport |-> a, row |-> row, legs |-> legs, read |-> read,
   found |-> found]

(* m_findStatement is active from its first row until it is done or reset.  *)
Reading == fetch.at # "idle" /\ fetch.row > 0

Row == RowsOf[version][fetch.airport][fetch.row]

(* A leg is known by its table, its place there and the version it is from. *)
Leg(table, i, v) == [table |-> table, place |-> i, version |-> v]
Legs(table, n, v) == [i \in 1..n |-> Leg(table, i, v)]

Procedure(row, legs) == [key |-> row.key, runway |-> row.runway, legs |-> legs]

Init ==
  /\ version \in Versions
  /\ procedures = [k \in Keys |-> None]
  /\ airportProcedures = [a \in Airports |-> None]
  /\ fetch = NoFetch
  /\ cut = {}

(* Little Navmap loads its database anew. *)
Rewrite ==
  /\ ~Reading
  /\ version' \in Versions
  /\ UNCHANGED <<cacheVars, fetch, cut>>

(* checkProcedures(): an airport that is not known yet is fetched. *)
CheckProcedures(a) ==
  /\ fetch = NoFetch
  /\ airportProcedures[a] = None
  /\ fetch' = Fetch("row", a, 0, << >>, 0, FALSE)
  /\ UNCHANGED <<version, cacheVars, cut>>

(* The bug of letting go of the rows before the legs are read. *)
NextRow_Released ==
  /\ fetch.at = "row"
  /\ fetch.row < Len(RowsOf[version][fetch.airport])
  /\ version' \in {v \in Versions : fetch.row < Len(RowsOf[v][fetch.airport])}
  /\ fetch' = Fetch("approach", fetch.airport, fetch.row + 1, << >>, 0, fetch.found)
  /\ UNCHANGED <<cacheVars, cut>>

NextRow ==
  /\ fetch.at = "row"
  /\ fetch.row < Len(RowsOf[version][fetch.airport])
  /\ fetch' = Fetch("approach", fetch.airport, fetch.row + 1, << >>, 0, fetch.found)
  /\ UNCHANGED <<version, cacheVars, cut>>

(* No row is left.  An airport without any gets an empty list. *)
EndFetch ==
  /\ airportProcedures' =
       IF ~fetch.found /\ airportProcedures[fetch.airport] = None
       THEN [airportProcedures EXCEPT ![fetch.airport] = << >>]
       ELSE airportProcedures
  /\ fetch' = NoFetch
  /\ UNCHANGED <<version, procedures>>

LastRow ==
  /\ fetch.at = "row"
  /\ fetch.row = Len(RowsOf[version][fetch.airport])
  /\ EndFetch
  /\ UNCHANGED cut

RowFails ==
  /\ fetch.at = "row"
  /\ EndFetch
  /\ cut' = cut \cup {fetch.airport}

(* The table whose legs are being read: the approach's, or its transition's *)
(* when it has one.                                                         *)
ReadingLegs == fetch.at \in {"approach", "transition"}
LegCount == IF fetch.at = "approach" THEN Row.approach ELSE Row.transition

NextLeg ==
  /\ ReadingLegs /\ fetch.read < LegCount
  /\ fetch' = Fetch(fetch.at, fetch.airport, fetch.row,
                    Append(fetch.legs, Leg(fetch.at, fetch.read + 1, version)),
                    fetch.read + 1, fetch.found)
  /\ UNCHANGED <<version, cacheVars, cut>>

(* The end of a table, after its last leg or at a step that fails. *)
EndLegs ==
  /\ ReadingLegs
  /\ fetch' = Fetch(IF fetch.at = "approach" /\ Row.transition > 0 THEN "transition"
                                                                   ELSE "add",
                    fetch.airport, fetch.row, fetch.legs, 0, fetch.found)
  /\ cut' = IF fetch.read < LegCount THEN cut \cup {fetch.airport} ELSE cut
  /\ UNCHANGED <<version, cacheVars>>

(* The bug of indexing the last procedure of a name and listing the first.  *)
AddProcedure_Overwrites ==
  LET p == Procedure(Row, fetch.legs)
      list == airportProcedures[fetch.airport]
  IN  /\ fetch.at = "add"
      /\ procedures' = [procedures EXCEPT ![p.key] = p]
      /\ airportProcedures' =
           IF procedures[p.key] = None
           THEN [airportProcedures EXCEPT ![fetch.airport] =
                   IF list = None THEN <<p>> ELSE Append(list, p)]
           ELSE airportProcedures
      /\ fetch' = Fetch("row", fetch.airport, fetch.row, fetch.legs, fetch.read, TRUE)
      /\ UNCHANGED <<version, cut>>

(* addProcedure(): the first procedure of a name is kept. *)
AddProcedure ==
  LET p == Procedure(Row, fetch.legs)
      list == airportProcedures[fetch.airport]
  IN  /\ fetch.at = "add"
      /\ \/ /\ procedures[p.key] = None
            /\ procedures' = [procedures EXCEPT ![p.key] = p]
            /\ airportProcedures' = [airportProcedures EXCEPT ![fetch.airport] =
                 IF list = None THEN <<p>> ELSE Append(list, p)]
         \/ /\ procedures[p.key] # None
            /\ UNCHANGED cacheVars
      /\ fetch' = Fetch("row", fetch.airport, fetch.row, fetch.legs, fetch.read, TRUE)
      /\ UNCHANGED <<version, cut>>

FetchProcedures ==
  NextRow \/ LastRow \/ RowFails \/ NextLeg \/ EndLegs \/ AddProcedure

Next == Rewrite \/ (\E a \in Airports : CheckProcedures(a)) \/ FetchProcedures

Spec == Init /\ [][Next]_vars

-----------------------------------------------------------------------------
(* The answers, once an airport has been checked.                           *)

Known == {a \in Airports : airportProcedures[a] # None /\
                           (fetch = NoFetch \/ fetch.airport # a)}

GetProcedures(a) == airportProcedures[a]

(* getDeparture(), getArrival() *)
GetProcedure(k) == procedures[k]

GetProceduresForRunway(a, runway) ==
  SelectSeq(airportProcedures[a], LAMBDA p : p.runway = runway)

-----------------------------------------------------------------------------
(* Every variable stays in its domain. *)
TypeOK ==
  /\ version \in Versions
  /\ procedures \in [Keys -> AllProcedures \cup {None}]
  /\ \A k \in Keys : procedures[k] # None => procedures[k].key = k
  /\ airportProcedures \in [Airports -> Seq(AllProcedures) \cup {None}]
  /\ cut \subseteq Airports
  /\ \/ fetch = NoFetch
     \/ /\ fetch \in [at : {"row", "approach", "transition", "add"},
                      airport : Airports, row : Nat, legs : Seq(AllLegs),
                      read : Nat, found : BOOLEAN]
        /\ fetch.row <= Len(RowsOf[version][fetch.airport])
        /\ fetch.at # "row" => fetch.row > 0

(* The rows of a version of the file that are the first of their key, and   *)
(* the procedure that one is, with all its legs.                            *)
FirstRows(v, a, n) ==
  {i \in 1..n : \A j \in 1..i - 1 : RowsOf[v][a][j].key # RowsOf[v][a][i].key}
ProcedureAt(v, a, i) ==
  LET row == RowsOf[v][a][i]
  IN  Procedure(row, Legs("approach", row.approach, v)
                       \o Legs("transition", row.transition, v))

(* A list has the procedures of those among the first n rows, in order.     *)
IsAnswer(list, v, a, n) ==
  \E order \in [DOMAIN list -> FirstRows(v, a, n)] :
    /\ \A i, j \in DOMAIN list : i < j => order[i] < order[j]
    /\ \A i \in FirstRows(v, a, n) : \E j \in DOMAIN list : order[j] = i
    /\ \A i \in DOMAIN list : list[i] = ProcedureAt(v, a, order[i])

(* The answer about an airport is that of one version of the file, complete *)
(* with all its legs, however often the file is rewritten between and       *)
(* during questions; unless a step failed, in which case what was cut short *)
(* is kept for ever.                                                        *)
AnswersAreWhole ==
  \A a \in Known \ cut : \E v \in Versions :
    IsAnswer(GetProcedures(a), v, a, Len(RowsOf[v][a]))

(* Asked for by name, a procedure is the one that the airport's list has,   *)
(* and the only one of that name there; so are those of a runway.           *)
NamesMatchLists ==
  \A a \in Known :
    LET list == GetProcedures(a)
    IN  /\ \A i, j \in DOMAIN list : list[i].key = list[j].key => i = j
        /\ \A i \in DOMAIN list : GetProcedure(list[i].key) = list[i]
=============================================================================
