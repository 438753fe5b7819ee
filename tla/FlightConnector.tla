--------------------------- MODULE FlightConnector ---------------------------
(***************************************************************************)
(* libufc's FlightConnector: the object that owns the devices, the data     *)
(* source and the two threads that serve them.                              *)
(*                                                                          *)
(* The module holds its state and one action per step of its operations,    *)
(* for whichever flow of control `c' performs them.  UFCTool and UFCPlugin  *)
(* extend it with the program that calls those operations.                  *)
(*                                                                          *)
(* A flow of control is a thread or a signal handler.  A handler runs on    *)
(* the thread the signal was delivered to and suspends what that thread was *)
(* doing, possibly another handler or a half-finished join, until it        *)
(* returns.  `under' holds the flows a handler found on its thread.         *)
(*                                                                          *)
(* Both loops over m_devices visit every element once, in the same order.   *)
(* Which order it is no property tells apart: First stands for it.          *)
(***************************************************************************)

CONSTANTS
  Devices,   \* the Device objects detection can produce
  Signals,   \* the SIGINT and SIGTERM signals that may arrive, once each
  None       \* nobody, nothing

Workers  == {"device", "source"}
Threads  == Workers \cup {"main"}
Contexts == Threads \cup Signals

ASSUME ContextAssumption ==
  /\ Signals \cap Threads = {}
  /\ None \notin Contexts
  /\ None \notin Devices

VARIABLES
  running,    \* m_running
  devices,    \* m_devices
  open,       \* the devices initialised and not closed since
  mutex,      \* the thread that holds m_devicesMutex
  toUpdate,   \* the devices this pass of updateDevices() has still to update
  updating,   \* the device whose update() is executing
  source,     \* m_dataSource: "none", "created", "connected", "disconnected";
              \* X-Plane's over a web socket is one of WebSocket
  handle,     \* std::thread of a worker: "none", "joinable", "joined"
  joiner,     \* the thread pthread_join has recorded as waiting for a worker
  pc,         \* where each flow of control is
  toClose,    \* the devices a running stop() has still to close
  under,      \* the flows of control a handler suspended, once delivered
  host        \* the thread a handler runs on, once delivered

deviceVars == <<devices, open>>
updateVars == <<mutex, toUpdate, updating>>
joinVars   == <<handle, joiner>>
frameVars  == <<under, host>>
vars == <<running, deviceVars, updateVars, source, joinVars, pc, toClose,
          frameVars>>

(* The first of a set, in an order of its elements that stays the same. *)
First(set) == CHOOSE x \in set : TRUE

ThreadOf(c) == IF c \in Threads THEN c ELSE host[c]

(* main() has returned, which ends the process. *)
Exited == pc["main"] = "returned"

(* A handler from the signal's delivery to its return. *)
Live(s) == pc[s] \notin {"idle", "returned"}

(* c is what its thread is executing: no live handler has suspended it. *)
Active(c) == ~Exited /\ \A s \in Signals : Live(s) => c \notin under[s]

Goto(c, from, to) ==
  /\ Active(c)
  /\ pc[c] = from
  /\ pc' = [pc EXCEPT ![c] = to]

ConnectorInit ==
  /\ running = FALSE
  /\ devices = {}
  /\ open = {}
  /\ mutex = None
  /\ toUpdate = {}
  /\ updating = None
  /\ source = "none"
  /\ handle = [w \in Workers |-> "none"]
  /\ joiner = [w \in Workers |-> None]
  /\ toClose = [c \in Contexts |-> {}]
  /\ under = [s \in Signals |-> {}]
  /\ host = [s \in Signals |-> "main"]

-----------------------------------------------------------------------------
(* start(): set m_running, then create the threads one after the other.     *)

(* The bug of creating the threads before m_running is set. *)
SetRunning_Late(c) ==
  /\ Goto(c, "start", "spawnDevice")
  /\ UNCHANGED <<running, deviceVars, updateVars, source, joinVars, toClose,
                 frameVars>>

SetRunning(c) ==
  /\ Goto(c, "start", "spawnDevice")
  /\ running' = TRUE
  /\ UNCHANGED <<deviceVars, updateVars, source, joinVars, toClose, frameVars>>

Spawn(c, w, from, to, entry) ==
  /\ Active(c)
  /\ pc[c] = from
  /\ pc' = [pc EXCEPT ![c] = to, ![w] = entry]
  /\ handle' = [handle EXCEPT ![w] = "joinable"]
  /\ joiner' = [joiner EXCEPT ![w] = None]
  /\ UNCHANGED <<running, deviceVars, updateVars, source, toClose, frameVars>>

SpawnDevice(c) == Spawn(c, "device", "spawnDevice", "spawnSource", "loop")
SpawnSource(c) == Spawn(c, "source", "spawnSource", "started", "publish")

Start(c) == SetRunning(c) \/ SpawnDevice(c) \/ SpawnSource(c)

-----------------------------------------------------------------------------
(* wait(): join the device thread, then the data source thread.  A join     *)
(* that throws is ignored.                                                  *)

JoinAt(w)    == IF w = "device" THEN "joinDevice" ELSE "joinSource"
JoiningAt(w) == IF w = "device" THEN "joiningDevice" ELSE "joiningSource"
JoinNext(w)  == IF w = "device" THEN "joinSource" ELSE "waited"

(* pthread_join fails with EDEADLK when a thread would wait for itself or   *)
(* for the thread that waits for it, and with EINVAL when another thread    *)
(* already waits.                                                           *)
JoinFails(t, w) ==
  \/ t = w
  \/ t \in Workers /\ joiner[t] = w
  \/ joiner[w] # None

JoinSkip(c, w) ==
  /\ handle[w] # "joinable"
  /\ Goto(c, JoinAt(w), JoinNext(w))
  /\ UNCHANGED <<running, deviceVars, updateVars, source, joinVars, toClose,
                 frameVars>>

JoinThrows(c, w) ==
  /\ handle[w] = "joinable"
  /\ JoinFails(ThreadOf(c), w)
  /\ Goto(c, JoinAt(w), JoinNext(w))
  /\ UNCHANGED <<running, deviceVars, updateVars, source, joinVars, toClose,
                 frameVars>>

JoinBegins(c, w) ==
  /\ handle[w] = "joinable"
  /\ ~JoinFails(ThreadOf(c), w)
  /\ Goto(c, JoinAt(w), JoiningAt(w))
  /\ joiner' = [joiner EXCEPT ![w] = ThreadOf(c)]
  /\ UNCHANGED <<running, deviceVars, updateVars, source, handle, toClose,
                 frameVars>>

(* The bug of not waiting for the thread. *)
JoinEnds_Early(c, w) ==
  /\ Goto(c, JoiningAt(w), JoinNext(w))
  /\ handle' = [handle EXCEPT ![w] = "joined"]
  /\ UNCHANGED <<running, deviceVars, updateVars, source, joiner, toClose,
                 frameVars>>

(* The bug of detaching the std::thread without joining it. *)
JoinEnds_KeepsHandle(c, w) ==
  /\ pc[w] = "ended"
  /\ Goto(c, JoiningAt(w), JoinNext(w))
  /\ UNCHANGED <<running, deviceVars, updateVars, source, joinVars, toClose,
                 frameVars>>

JoinEnds(c, w) ==
  /\ pc[w] = "ended"
  /\ Goto(c, JoiningAt(w), JoinNext(w))
  /\ handle' = [handle EXCEPT ![w] = "joined"]
  /\ UNCHANGED <<running, deviceVars, updateVars, source, joiner, toClose,
                 frameVars>>

Wait(c) ==
  \E w \in Workers :
    JoinSkip(c, w) \/ JoinThrows(c, w) \/ JoinBegins(c, w) \/ JoinEnds(c, w)

-----------------------------------------------------------------------------
(* stop(): close every device, without m_devicesMutex; clear m_running;     *)
(* disconnect the data source; wait().                                      *)

CallStop(c) ==
  /\ pc' = [pc EXCEPT ![c] = "close"]
  /\ toClose' = [toClose EXCEPT ![c] = devices]

(* The bug of closing one device only. *)
CloseDevice_First(c) ==
  /\ Active(c)
  /\ pc[c] = "close"
  /\ \E d \in toClose[c] :
       /\ d = First(toClose[c])
       /\ open' = open \ {d}
       /\ toClose' = [toClose EXCEPT ![c] = {}]
  /\ UNCHANGED <<running, devices, updateVars, source, joinVars, pc, frameVars>>

CloseDevice(c) ==
  /\ Active(c)
  /\ pc[c] = "close"
  /\ \E d \in toClose[c] :
       /\ d = First(toClose[c])
       /\ open' = open \ {d}
       /\ toClose' = [toClose EXCEPT ![c] = @ \ {d}]
  /\ UNCHANGED <<running, devices, updateVars, source, joinVars, pc, frameVars>>

(* The bug of forgetting m_running. *)
ClearRunning_Dropped(c) ==
  /\ toClose[c] = {}
  /\ Goto(c, "close", "disconnect")
  /\ UNCHANGED <<running, deviceVars, updateVars, source, joinVars, toClose,
                 frameVars>>

ClearRunning(c) ==
  /\ toClose[c] = {}
  /\ Goto(c, "close", "disconnect")
  /\ running' = FALSE
  /\ UNCHANGED <<deviceVars, updateVars, source, joinVars, toClose, frameVars>>

(* X-Plane's data source over a web socket; one whose open stream was sent  *)
(* the close frame; one that had no open stream when it was to be sent.     *)
WebSocket == {"webSocket", "closing", "missed"}

(* Of the data sources only the web socket's disconnect() takes a lock; the *)
(* others' is one store or one close of a socket, and nothing if there is   *)
(* no data source yet.                                                      *)
Disconnect(c) ==
  /\ source \notin WebSocket
  /\ Goto(c, "disconnect", "joinDevice")
  /\ source' = IF source = "connected" THEN "disconnected" ELSE source
  /\ UNCHANGED <<running, deviceVars, updateVars, joinVars, toClose, frameVars>>

Stop(c) == CloseDevice(c) \/ ClearRunning(c) \/ Disconnect(c)

-----------------------------------------------------------------------------
(* updateDeviceMain(): while m_running, update every device under the       *)
(* mutex, then sleep.                                                       *)

LoopTest ==
  /\ Goto("device", "loop", IF running THEN "lock" ELSE "ended")
  /\ UNCHANGED <<running, deviceVars, updateVars, source, joinVars, toClose,
                 frameVars>>

LockDevices ==
  /\ mutex = None
  /\ Goto("device", "lock", "update")
  /\ mutex' = "device"
  /\ toUpdate' = devices
  /\ UNCHANGED <<running, deviceVars, updating, source, joinVars, toClose,
                 frameVars>>

BeginUpdate ==
  /\ Goto("device", "update", "updating")
  /\ \E d \in toUpdate :
       d = First(toUpdate) /\ updating' = d /\ toUpdate' = toUpdate \ {d}
  /\ UNCHANGED <<running, deviceVars, mutex, source, joinVars, toClose,
                 frameVars>>

EndUpdate ==
  /\ Goto("device", "updating", "update")
  /\ updating' = None
  /\ UNCHANGED <<running, deviceVars, mutex, toUpdate, source, joinVars,
                 toClose, frameVars>>

UnlockDevices ==
  /\ toUpdate = {}
  /\ Goto("device", "update", "loop")
  /\ mutex' = None
  /\ UNCHANGED <<running, deviceVars, toUpdate, updating, source, joinVars,
                 toClose, frameVars>>

DeviceThread ==
  LoopTest \/ LockDevices \/ BeginUpdate \/ EndUpdate \/ UnlockDevices

-----------------------------------------------------------------------------
(* updateDataSourceMain(): one call of update(), which returns when the     *)
(* data source is disconnected, or when the simulator stops answering.      *)
(* m_running is neither tested nor changed.                                 *)

SourceDisconnected ==
  /\ source \notin WebSocket \cup {"connected"}
  /\ Goto("source", "publish", "ended")
  /\ UNCHANGED <<running, deviceVars, updateVars, source, joinVars, toClose,
                 frameVars>>

SourceLost ==
  /\ source = "connected"
  /\ Goto("source", "publish", "ended")
  /\ UNCHANGED <<running, deviceVars, updateVars, source, joinVars, toClose,
                 frameVars>>

SourceThread == SourceDisconnected \/ SourceLost

-----------------------------------------------------------------------------
(* initDevices(): registry devices are pushed on m_devices without the      *)
(* mutex.  addDevice(), called by the USB and serial managers from          *)
(* scanDevices(), takes it for the push.                                    *)

NewDevice(d) ==
  /\ d \notin devices
  /\ devices' = devices \cup {d}
  /\ open' = open \cup {d}
  /\ UNCHANGED <<running, updateVars, source, joinVars, pc, toClose, frameVars>>

InitDevice(c, d) == Active(c) /\ pc[c] = "initDevices" /\ NewDevice(d)

(* initDevices() ends with scanDevices(). *)
RegistryDone(c) ==
  /\ Goto(c, "initDevices", "scan")
  /\ UNCHANGED <<running, deviceVars, updateVars, source, joinVars, toClose,
                 frameVars>>

(* The bug of pushing while the device thread iterates. *)
AddDevice_NoLock(c, d) ==
  /\ Active(c)
  /\ pc[c] = "scan"
  /\ NewDevice(d)

AddDevice(c, d) ==
  /\ Active(c)
  /\ pc[c] = "scan"
  /\ mutex = None
  /\ NewDevice(d)

-----------------------------------------------------------------------------
PCs == {"idle", "initDevices", "scan", "open", "connect", "readVersion",
        "start", "spawnDevice", "spawnSource", "started",
        "close", "disconnect", "joinDevice", "joiningDevice", "joinSource",
        "joiningSource", "waited", "returned",
        "unborn", "loop", "lock", "update", "updating", "publish", "ended",
        "signalling", "registering", "opening", "streaming",
        "erasing"}

ConnectorTypeOK ==
  /\ running \in BOOLEAN
  /\ devices \subseteq Devices
  /\ open \subseteq devices
  /\ mutex \in Threads \cup {None}
  /\ toUpdate \subseteq Devices
  /\ updating \in Devices \cup {None}
  /\ source \in {"none", "created", "connected", "disconnected"} \cup WebSocket
  /\ handle \in [Workers -> {"none", "joinable", "joined"}]
  /\ joiner \in [Workers -> Threads \cup {None}]
  /\ pc \in [Contexts -> PCs]
  /\ toClose \in [Contexts -> SUBSET Devices]
  /\ under \in [Signals -> SUBSET Contexts]
  /\ host \in [Signals -> Threads]
=============================================================================
