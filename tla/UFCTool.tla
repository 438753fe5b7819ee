------------------------------- MODULE UFCTool -------------------------------
(***************************************************************************)
(* ufctool: the command line program around one FlightConnector.            *)
(*                                                                          *)
(* The main thread installs the signal handlers, detects the devices, opens *)
(* and connects the data source, starts the two threads and waits for them. *)
(* SIGINT and SIGTERM run FlightConnector::exit(), that is stop(), inside   *)
(* whichever thread the signal is delivered to.                             *)
(*                                                                          *)
(* Devices go by the order in which they are found, signals by the order in *)
(* which they arrive: the code treats all of them alike.                    *)
(***************************************************************************)
EXTENDS FlightConnector

CONSTANT SignalHosts   \* the threads a signal may be delivered to

ASSUME HostAssumption == SignalHosts \subseteq Threads

mainVars == <<running, deviceVars, updateVars, joinVars, toClose, frameVars>>

-----------------------------------------------------------------------------
(* The main thread, from init() to the end of main().                       *)

Init ==
  /\ ConnectorInit
  /\ pc = [c \in Contexts |-> CASE c = "main" -> "initDevices"
                                [] c \in Workers -> "unborn"
                                [] OTHER -> "idle"]

InitDevices ==
  \/ \E d \in Devices \ devices :
       /\ d = First(Devices \ devices)
       /\ InitDevice("main", d) \/ AddDevice("main", d)
  \/ RegistryDone("main")
  \/ /\ Goto("main", "scan", "open")
     /\ UNCHANGED <<mainVars, source>>

(* An unknown data source name ends the program. *)
OpenDataSource ==
  \/ /\ Goto("main", "open", "connect")
     /\ source' \in {"created", "webSocket"}
     /\ UNCHANGED mainVars
  \/ /\ Goto("main", "open", "returned")
     /\ UNCHANGED <<mainVars, source>>

Connect ==
  /\ Goto("main", "connect", "readVersion")
  /\ source' = IF source \in WebSocket THEN source ELSE "connected"
  /\ UNCHANGED mainVars

(* XPlaneDataSource::connect() asks again for as long as the request times  *)
(* out.  Any answer but a timeout ends the loop: success, or a failure that *)
(* ends the program.  A disconnect() in between may make no difference: the *)
(* web socket client has no socket to close yet, and the UDP client, closed *)
(* after the request is sent, reports success without a value.              *)
ReadVersion ==
  /\ \/ Goto("main", "readVersion", "start")
     \/ Goto("main", "readVersion", "returned")
  /\ UNCHANGED <<mainVars, source>>

CallWait ==
  /\ Goto("main", "started", "joinDevice")
  /\ UNCHANGED <<mainVars, source>>

Return ==
  /\ Goto("main", "waited", "returned")
  /\ UNCHANGED <<mainVars, source>>

Main ==
  \/ InitDevices \/ OpenDataSource \/ Connect
  \/ Start("main") \/ CallWait \/ Wait("main") \/ Return

-----------------------------------------------------------------------------
(* exitHandler(): the kernel suspends what thread t executes and runs       *)
(* stop() there; the thread resumes when stop() has returned.               *)

CanHost(t) == ~Exited /\ pc[t] \notin {"unborn", "ended"}

Signal(s, t) ==
  /\ pc[s] = "idle"
  /\ s = First({r \in Signals : pc[r] = "idle"})
  /\ CanHost(t)
  /\ CallStop(s)
  /\ host' = [host EXCEPT ![s] = t]
  /\ under' = [under EXCEPT ![s] =
                 {t} \cup {r \in Signals : Live(r) /\ host[r] = t}]
  /\ UNCHANGED <<running, deviceVars, updateVars, source, joinVars>>

HandlerReturns(s) ==
  /\ Goto(s, "waited", "returned")
  /\ UNCHANGED <<mainVars, source>>

-----------------------------------------------------------------------------
(* X-Plane's web sockets: XPlaneWebSocketClient::disconnect() and           *)
(* streamDataRefs() share m_webSocketsMutex, which is not recursive.  What  *)
(* the stream delivers is XPlaneWebSocketClient's.                          *)

HoldsSockets(c) == pc[c] \in {"signalling", "registering", "erasing"}
SocketsLocked == \E c \in Contexts : HoldsSockets(c)

LockSockets(s) ==
  /\ source \in WebSocket
  /\ ~SocketsLocked
  /\ Goto(s, "disconnect", "signalling")
  /\ UNCHANGED <<mainVars, source>>

(* The bug of not sending the close frame. *)
SignalSockets_None(s) ==
  /\ Goto(s, "signalling", "joinDevice")
  /\ UNCHANGED <<mainVars, source>>

(* The close frame reaches an open stream only: a socket that is not        *)
(* registered yet is not found, one that is not open yet cannot send it.    *)
SignalSockets(s) ==
  /\ Goto(s, "signalling", "joinDevice")
  /\ source' = IF pc["source"] = "streaming" THEN "closing" ELSE "missed"
  /\ UNCHANGED mainVars

StreamStep(from, to) ==
  /\ source \in WebSocket
  /\ Goto("source", from, to)
  /\ UNCHANGED <<mainVars, source>>

(* Nothing makes these happen: there is no data ref to stream or no easy    *)
(* handle; the connection is refused; X-Plane or the network ends the       *)
(* stream.                                                                  *)
StreamLost ==
  \/ StreamStep("publish", "ended")
  \/ ~SocketsLocked /\ StreamStep("opening", "erasing")
  \/ ~SocketsLocked /\ StreamStep("streaming", "erasing")

(* Register the socket, open the connection, stream until the close frame   *)
(* has been sent, erase the socket.                                         *)
Stream ==
  \/ ~SocketsLocked /\ StreamStep("publish", "registering")
  \/ StreamStep("registering", "opening")
  \/ StreamStep("opening", "streaming")
  \/ ~SocketsLocked /\ source = "closing" /\ StreamStep("streaming", "erasing")
  \/ StreamStep("erasing", "ended")

Handler(s) ==
  \/ Stop(s) \/ LockSockets(s) \/ SignalSockets(s)
  \/ Wait(s) \/ HandlerReturns(s)

-----------------------------------------------------------------------------
Next ==
  \/ Main
  \/ ReadVersion
  \/ DeviceThread
  \/ SourceThread \/ Stream \/ StreamLost
  \/ \E s \in Signals : Handler(s)
  \/ \E s \in Signals, t \in SignalHosts : Signal(s, t)

Spec == Init /\ [][Next]_vars

(* A device that stop() has closed under its update(), which may never      *)
(* return: a serial panel with a line in its buffer goes on for ever, a USB *)
(* panel's handle is gone.                                                  *)
UpdateMayHang == pc["device"] = "updating" /\ updating \notin open

(* The places at which a flow may hold a lock that close() of a USB panel   *)
(* takes: hidapi's, or AircraftState's m_mutex, which the command of a      *)
(* pressed button locks when it is a Lua script.                            *)
LockedPlaces == {"initDevices", "scan", "readVersion", "updating", "publish",
                 "streaming", "close"}

CloseMayHang(s) ==
  pc[s] = "close" /\ toClose[s] # {} /\ \E r \in under[s] : pc[r] \in LockedPlaces

(* The operating system runs every thread that is not blocked; update() and *)
(* close() of a device return, but for the cases above, and so does         *)
(* update() of a data source that was disconnected, or whose stream got the *)
(* close frame.  Nothing makes a signal arrive, the simulator answer, or    *)
(* the connection break.                                                    *)
Fairness ==
  /\ WF_vars(Main)
  /\ WF_vars(DeviceThread /\ ~UpdateMayHang)
  /\ WF_vars(SourceDisconnected)
  /\ WF_vars(Stream)
  /\ \A s \in Signals : WF_vars(Handler(s) /\ ~CloseMayHang(s))

FairSpec == Spec /\ Fairness

-----------------------------------------------------------------------------
(* Every variable stays in its domain. *)
TypeOK == ConnectorTypeOK

(* The device thread leaves its loop only once some stop() has cleared      *)
(* m_running: it is never born before start() has set the flag, nor does    *)
(* anything but stop() end it.                                              *)
DeviceThreadEndsOnlyByStop ==
  pc["device"] = "ended" => ~running /\ \E s \in Signals : pc[s] # "idle"

(* main() returns from wait() with both threads gone, although wait()       *)
(* swallows every failed join and handlers may be joining the same threads. *)
WorkersDoneAtExit ==
  Exited => \A w \in Workers : pc[w] \in {"unborn", "ended"}

(* ~FlightConnector destroys no joinable std::thread, which would call      *)
(* std::terminate.                                                          *)
NoJoinableThreadAtExit ==
  Exited => \A w \in Workers : handle[w] # "joinable"

(* Once the two threads have run, the program exits with every device of    *)
(* m_devices closed.                                                        *)
DevicesClosedAtExit ==
  Exited /\ handle["device"] # "none" => open = {}

(* A handler that waits for m_webSocketsMutex on the very thread that holds *)
(* it: the data source thread or another handler, which it suspends.        *)
Relocked(s) ==
  /\ pc[s] = "disconnect" /\ source \in WebSocket
  /\ \E r \in under[s] : HoldsSockets(r)

(* A stream that was opened behind the disconnect(), which found no socket  *)
(* or one that was not open.                                                *)
StreamMissed == pc["source"] = "streaming" /\ source = "missed"

Hung ==
  \/ UpdateMayHang
  \/ \E s \in Signals : CloseMayHang(s) \/ Relocked(s)
  \/ StreamMissed

(* A signal that arrives once start() has set m_running ends the program,   *)
(* whichever thread it lands on and however the other signal interleaves,   *)
(* but for three ways of hanging: a device closed under its own update() or *)
(* inside a lock its close() needs, disconnect() inside its own lock, and a *)
(* stream opened behind the disconnect().  Nothing else keeps it: no join   *)
(* that is refused or mutual, no order of the two stop()s.                  *)
SignalEndsProgram ==
  \A s \in Signals : (pc[s] = "close" /\ running) ~> (Exited \/ []Hung)
=============================================================================
