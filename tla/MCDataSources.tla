---------------------------- MODULE MCDataSources ----------------------------
(***************************************************************************)
(* What data sources are made of: the aircraft mapping, the aircraft state  *)
(* that they write and others read, and the two that need no simulator.     *)
(* openDataSource() creates one data source; a behaviour is one of a part,  *)
(* the others stay as they begin.                                           *)
(***************************************************************************)
EXTENDS AircraftMapping

CONSTANTS Readers, TypesOf, MaxWrites, Issues, MaxCommands,
          Midnight, Step, MaxTime, MaxPresses
CONSTANTS i1, i2, heading, speed, null, Value, Equals, Zero

VARIABLES
  driven,  \* "mapping", "state", "simulator" or "clock"
  valuesByName, type, value, writer, writes, settled, reader, since, result,
  running, source, position, autopilot, member, published, caller, issued,
  alone, overlapped,
  clockRunning, clockSource, now, timestamp, hour, hour24, showSeconds,
  showYear, showYearTime, pressing, presses, face

State == INSTANCE AircraftState WITH Names <- DOMAIN TypesOf
Simulator == INSTANCE SimulatorDataSource
Clock == INSTANCE ClockDataSource WITH
  running <- clockRunning, source <- clockSource

ASSUME StateAssumption == State!StateConstants
ASSUME SimulatorAssumption == Simulator!SimulatorConstants
ASSUME ClockAssumption == Clock!ClockConstants

(* A name of one type and a name that the simulator and a static definition *)
(* write differently.                                                       *)
MCTypesOf == [course |-> {"FLOAT"}, mode |-> {"INTEGER", "FLOAT"}]

(* Of every kind of command one, two of them at a time. *)
MCIssues ==
  [device |-> {"fineDown", "coarseUp", "swap", "baroStd"},
   main |-> {"headingDown"}]

(* Two names; a plain, a compared, a static and an undefined text entry, a  *)
(* map entry, an unreadable one, and a command that is defined differently. *)
Text(h, r) ==
  {[kind |-> "text", id |-> i, mapping |-> [how |-> h, ref |-> r]] : i \in Ids}
Command(r) ==
  {[kind |-> "command", id |-> i1, mapping |-> [how |-> Value, ref |-> r]]}
MCEntries ==
  Text(Value, heading) \cup Text(Equals, speed)
    \cup {[kind |-> "text", id |-> i1, mapping |-> [how |-> Zero, ref |-> null]]}
    \cup {[kind |-> "text", id |-> i2, mapping |-> [how |-> Value, ref |-> null]]}
    \cup Command(heading) \cup Command(speed)
    \cup {[kind |-> "map", id |-> i1, ref |-> speed]}
    \cup {[kind |-> "broken", id |-> i1, ref |-> null]}

(* Every file of at most two entries. *)
MCContents == UNION {[1..n -> MCEntries] : n \in 0..2}

stateVars ==
  <<valuesByName, type, value, writer, writes, settled, reader, since, result>>
simulatorVars ==
  <<running, source, position, autopilot, member, published, caller, issued,
    alone, overlapped>>
clockVars ==
  <<clockRunning, clockSource, now, timestamp, hour, hour24, showSeconds,
    showYear, showYearTime, pressing, presses, face>>
everything == <<driven, vars, stateVars, simulatorVars, clockVars>>

MCInit ==
  /\ driven \in {"mapping", "state", "simulator", "clock"}
  /\ Init /\ (driven # "mapping" => files = 0)
  /\ State!Init /\ Simulator!Init /\ Clock!Init

MappingNext ==
  /\ driven = "mapping" /\ Next
  /\ UNCHANGED <<driven, stateVars, simulatorVars, clockVars>>

StateNext ==
  /\ driven = "state" /\ State!Next
  /\ UNCHANGED <<driven, vars, simulatorVars, clockVars>>

SimulatorStep(A) ==
  /\ driven = "simulator" /\ A
  /\ UNCHANGED <<driven, vars, stateVars, clockVars>>
SimulatorNext == SimulatorStep(Simulator!Next)

ClockStep(A) ==
  /\ driven = "clock" /\ A
  /\ UNCHANGED <<driven, vars, stateVars, simulatorVars>>
ClockNext == ClockStep(Clock!Next)

MCNext == MappingNext \/ StateNext \/ SimulatorNext \/ ClockNext

(* The components' own fairness: the threads of the data sources go on, and *)
(* a command that has begun.                                                *)
MCFairness ==
  /\ WF_everything(SimulatorStep(Simulator!Update))
  /\ \A c \in Simulator!Callers : WF_everything(SimulatorStep(Simulator!Proceed(c)))
  /\ WF_everything(ClockStep(Clock!Update))

MCSpec == MCInit /\ [][MCNext]_everything /\ MCFairness

-----------------------------------------------------------------------------
(* The properties of the parts, under their names.                          *)

(* Every variable stays in its domain. *)
TypesOK == TypeOK /\ State!TypeOK /\ Simulator!TypeOK /\ Clock!TypeOK

(* A getter throws only where a name is written with several types, and     *)
(* else returns the last completed write or a later one.                    *)
GettersAnswer == State!ThrowsOnlyOnTypeChange /\ State!ReadsAreFresh

(* Commands that do not overlap lose nothing of each other. *)
AloneAsOrdered == Simulator!AloneAsOrdered

(* What the commands made of the simulator's members is published. *)
CommandsShown == Simulator!CommandsShown

(* The panel shows the time that update() sampled. *)
FaceShowsTime == Clock!FaceShowsTime

(* The year is not shown for ever. *)
YearGoesAway == Clock!YearGoesAway
=============================================================================
