------------------------------ MODULE UFCPlugin ------------------------------
(***************************************************************************)
(* The X-Plane plugin around one FlightConnector.                           *)
(*                                                                          *)
(* X-Plane calls the plugin on its main thread, one entry point at a time:  *)
(* XPluginStart, the flight-loop callback that starts the connector, the    *)
(* menu, XPluginStop.  The plugin installs no exit handler, so it is used   *)
(* with Signals = {}.  Its data source's update() returns at once: X-Plane  *)
(* itself calls back when values are due, and disconnect() does nothing, so  *)
(* `source' never leaves "none".  A scan finds every plugged device: one     *)
(* that cannot be opened counts as not plugged.                             *)
(***************************************************************************)
EXTENDS FlightConnector

ASSUME NoHandlerAssumption == Signals = {}

VARIABLES
  call,         \* the entry point the main thread is executing
  menu,         \* what buildMenu() last displayed: "stopped" or "running"
  initPending,  \* the flight-loop callback that runs init() is registered
  plugged,      \* the devices physically present
  loaded        \* XPluginStop has not deleted the FlightConnector

pluginVars == <<call, menu, initPending, plugged, loaded>>
allVars    == <<vars, pluginVars>>

restVars == <<running, deviceVars, updateVars, source, joinVars, toClose, frameVars>>

Init ==
  /\ ConnectorInit
  /\ pc = [c \in Contexts |-> IF c = "main" THEN "initDevices" ELSE "unborn"]
  /\ call = "start"
  /\ menu = "stopped"
  /\ initPending = FALSE
  /\ plugged \in SUBSET Devices
  /\ loaded = TRUE

-----------------------------------------------------------------------------
(* buildMenu(): "Detect new devices..." and "Stop UFC" are offered when     *)
(* running, nothing otherwise.  Item 1002, which menu() would answer by     *)
(* starting UFC again, is never offered.                                    *)

(* The bug of not rebuilding the menu after a stop. *)
BuildMenu_NotAfterStop ==
  menu' = IF running THEN "running" ELSE menu

BuildMenu ==
  menu' = IF running THEN "running" ELSE "stopped"

(* The bug of registering the callback while the connector runs. *)
StartFlightConnector_Always ==
  initPending' = (initPending \/ devices # {})

StartFlightConnector ==
  initPending' = (initPending \/ (devices # {} /\ ~running))

-----------------------------------------------------------------------------
(* The main thread.  The three entry points that detect devices do so one   *)
(* device at a time.                                                        *)

Enter(name, at) ==
  /\ loaded
  /\ Active("main")
  /\ pc["main"] = "idle"
  /\ call' = name
  /\ pc' = [pc EXCEPT !["main"] = at]

InitDevices ==
  /\ (\E d \in plugged : InitDevice("main", d)) \/ RegistryDone("main")
  /\ UNCHANGED pluginVars

Scan ==
  /\ \E d \in plugged : AddDevice("main", d)
  /\ UNCHANGED pluginVars

(* XPluginStart and menu item 1000 end the scan alike. *)
ScanDone ==
  /\ plugged \subseteq devices
  /\ call \in {"start", "detect"}
  /\ Goto("main", "scan", "idle")
  /\ BuildMenu
  /\ StartFlightConnector
  /\ call' = "none"
  /\ UNCHANGED <<restVars, plugged, loaded>>

InitCallback ==
  /\ initPending
  /\ Enter("init", "scan")
  /\ initPending' = FALSE
  /\ UNCHANGED <<restVars, menu, plugged, loaded>>

InitScanned ==
  /\ plugged \subseteq devices
  /\ call = "init"
  /\ Goto("main", "scan", "start")
  /\ UNCHANGED <<restVars, pluginVars>>

InitReturns ==
  /\ Goto("main", "started", "idle")
  /\ BuildMenu
  /\ call' = "none"
  /\ UNCHANGED <<restVars, initPending, plugged, loaded>>

MenuDetect ==
  /\ menu = "running"
  /\ Enter("detect", "scan")
  /\ UNCHANGED <<restVars, menu, initPending, plugged, loaded>>

StopCall(name) ==
  /\ loaded
  /\ Active("main")
  /\ pc["main"] = "idle"
  /\ CallStop("main")
  /\ call' = name
  /\ UNCHANGED <<running, deviceVars, updateVars, source, joinVars, frameVars,
                 menu, initPending, plugged, loaded>>

MenuStop == menu = "running" /\ running /\ StopCall("stop")

MenuStopReturns ==
  /\ call = "stop"
  /\ Goto("main", "waited", "idle")
  /\ BuildMenu
  /\ call' = "none"
  /\ UNCHANGED <<restVars, initPending, plugged, loaded>>

XPluginStop == StopCall("unload")

XPluginStopReturns ==
  /\ call = "unload"
  /\ Goto("main", "waited", "idle")
  /\ loaded' = FALSE
  /\ call' = "none"
  /\ UNCHANGED <<restVars, menu, initPending, plugged>>

EntryPoint ==
  \/ InitDevices \/ Scan \/ ScanDone \/ InitScanned \/ InitReturns
  \/ MenuStopReturns \/ XPluginStopReturns
  \/ (Start("main") \/ Stop("main") \/ Wait("main")) /\ UNCHANGED pluginVars

Workers_Step ==
  (DeviceThread \/ SourceDisconnected) /\ UNCHANGED pluginVars

(* Somebody connects a device to the computer. *)
Plug ==
  /\ \E d \in Devices \ plugged : plugged' = plugged \cup {d}
  /\ UNCHANGED <<vars, call, menu, initPending, loaded>>

Next ==
  \/ EntryPoint \/ InitCallback \/ MenuDetect \/ MenuStop \/ XPluginStop
  \/ Workers_Step \/ Plug

Spec == Init /\ [][Next]_allVars

(* X-Plane runs registered callbacks, every thread runs, and somebody       *)
(* picks "Detect new devices..." if the menu keeps offering it.             *)
Fairness ==
  /\ WF_allVars(EntryPoint)
  /\ WF_allVars(InitCallback)
  /\ WF_allVars(MenuDetect)
  /\ WF_allVars(Workers_Step)

FairSpec == Spec /\ Fairness

-----------------------------------------------------------------------------
(* Every variable stays in its domain. *)
TypeOK ==
  /\ ConnectorTypeOK
  /\ call \in {"none", "start", "init", "detect", "stop", "unload"}
  /\ menu \in {"stopped", "running"}
  /\ initPending \in BOOLEAN
  /\ plugged \subseteq Devices
  /\ loaded \in BOOLEAN

(* XPluginStop deletes the FlightConnector only when neither of its threads *)
(* can still touch it.                                                      *)
NoThreadAfterDelete ==
  ~loaded => \A w \in Workers : pc[w] \in {"unborn", "ended"}

(* start() never replaces a std::thread that is still joinable, whatever    *)
(* the order of callbacks, detections and stops.                            *)
StartReplacesNoThread ==
  /\ pc["main"] = "spawnDevice" => handle["device"] # "joinable"
  /\ pc["main"] = "spawnSource" => handle["source"] # "joinable"

(* Between calls the menu offers what the connector's state allows. *)
MenuMatchesState ==
  loaded /\ pc["main"] = "idle" => (menu = "running" <=> running)

(* While the device thread walks m_devices no detection pushes on it. *)
DevicesStableDuringPass ==
  [][pc["device"] \in {"update", "updating"} => devices' = devices]_allVars

(* A stop, from the menu or on unloading, gives X-Plane its thread back. *)
StopReturns == (pc["main"] = "close") ~> (pc["main"] = "idle")

(* Devices absent when the plugin was loaded and connected later start the  *)
(* connector.                                                               *)
LateDeviceStartsConnector ==
  (loaded /\ pc["main"] = "idle" /\ devices = {} /\ plugged # {})
    ~> (running \/ ~loaded)
=============================================================================
