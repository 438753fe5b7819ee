------------------------------- MODULE MCPlugin -------------------------------
(***************************************************************************)
(* The X-Plane plugin: its FlightConnector and its data source.  The two    *)
(* share no variable of the models, so each behaviour is one of either.     *)
(***************************************************************************)
EXTENDS UFCPlugin

CONSTANTS CommandRefs, Names, Writable, Values, Controls, Definition, MaxCalls
CONSTANTS r1, r2, n1, n2

VARIABLES
  driven,  \* "connector" or "dataSource"
  checkAircraft, mapping, aircraft, registered, commandDefs, commandQueue,
  drained, executed, dataQueue, toWrite, written, commandMutex, dataMutex,
  script, found, calls, callbackPc

Source == INSTANCE XPPluginDataSource WITH pc <- callbackPc

ASSUME PluginAssumption == Source!PluginConstants

(* A toggle that runs commands on both sides of a value, a plain value, and *)
(* a lone command.                                                          *)
Command(r)  == [kind |-> "exec", ref |-> r]
Value(n, v) == [kind |-> "set", ref |-> n, value |-> v]

MCDefinition ==
  [toggle |-> <<Command(r1), Value(n1, 1), Command(r2)>>,
   dial   |-> <<Value(n1, 0), Value(n2, 1)>>,
   push   |-> <<Command(r2)>>]

MCControls == {"toggle", "dial", "push"}

dataSourceVars ==
  <<checkAircraft, mapping, aircraft, registered, commandDefs, commandQueue,
    drained, executed, dataQueue, toWrite, written, commandMutex, dataMutex,
    script, found, calls, callbackPc>>
everything == <<driven, allVars, dataSourceVars>>

MCInit ==
  /\ driven \in {"connector", "dataSource"}
  /\ Init
  /\ driven = "dataSource" => plugged = {}
  /\ Source!Init
  /\ driven = "connector" => registered = {} /\ ~aircraft

Connector(A) == driven = "connector" /\ A /\ UNCHANGED <<driven, dataSourceVars>>
OfSource(A) == driven = "dataSource" /\ A /\ UNCHANGED <<driven, allVars>>

ConnectorNext == Connector(Next)
DataSourceNext == OfSource(Source!Next)
MCNext == ConnectorNext \/ DataSourceNext

MCFairness ==
  /\ WF_everything(Connector(EntryPoint))
  /\ WF_everything(Connector(InitCallback))
  /\ WF_everything(Connector(MenuDetect))
  /\ WF_everything(Connector(Workers_Step))
  /\ WF_everything(OfSource(Source!UpdateCallback))

MCSpec == MCInit /\ [][MCNext]_everything /\ MCFairness

(* The data source implements the channel of commands and values.           *)
ServesInOrder == Source!ServesInOrder

(* Nothing reaches X-Plane before the aircraft's mapping is loaded.         *)
NothingBeforeReload == Source!NothingBeforeReload
=============================================================================
