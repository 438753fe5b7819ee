------------------------ MODULE XPlaneWebSocketClient ------------------------
(***************************************************************************)
(* The web socket client of the X-Plane data source: streamDataRefs() on    *)
(* the data source thread, disconnect() on the thread that stops the        *)
(* connector, X-Plane and libcurl between them.                             *)
(*                                                                          *)
(* Each data ref's id is first asked for over HTTP; then one web socket is  *)
(* registered in m_webSockets, curl_easy_perform() runs it until somebody   *)
(* closes it, and it is cleaned up, taken off m_webSockets and deleted.     *)
(*                                                                          *)
(* An update message of X-Plane reaches dataRefCallback() in one chunk, in  *)
(* two frames of which the first carries CURLWS_CONT, or in two pieces of   *)
(* one frame that libcurl received apart: then neither carries the flag.    *)
(***************************************************************************)
EXTENDS Naturals, Sequences

CONSTANTS
  DataRefs,     \* the data refs of the mapping
  MaxMessages,  \* bound: update messages of X-Plane
  None

ASSUME ClientAssumption == MaxMessages \in Nat /\ None # "stopper"

VARIABLES
  stream,       \* where streamDataRefs() is
  lookups,      \* the data refs whose id it has still to ask for
  subscribed,   \* those X-Plane knows
  webSockets,   \* m_webSockets holds the stream's entry
  info,         \* the DataRefWebSocketInfo: "none", "live", "deleted"
  handle,       \* the CURL handle: "none", "live", "freed"
  socket,       \* the connection: "none", "opening", "open", "closed"
  closeSent,    \* a close frame has been sent
  message,      \* the update message X-Plane sent last
  rest,         \* what has still to arrive of it: "none", "frame", "piece"
  buffer,       \* DataRefWebSocketInfo::buffer, a sequence of chunks
  published,    \* the messages passed on to the data source
  mutex,        \* the holder of m_webSocketsMutex
  stopper,      \* where the stopping thread is
  toSignal      \* disconnect() has still to signal the stream's socket

streamVars == <<stream, lookups, subscribed>>
entryVars  == <<webSockets, info, handle>>
serverVars == <<socket, closeSent, message, rest>>
valueVars  == <<buffer, published>>
stopVars   == <<stopper, toSignal>>
vars == <<streamVars, entryVars, serverVars, valueVars, mutex, stopVars>>

Init ==
  /\ stream = "lookup" /\ lookups = DataRefs /\ subscribed = {}
  /\ webSockets = FALSE /\ info = "live" /\ handle = "none"
  /\ socket = "none" /\ closeSent = FALSE /\ message = 0 /\ rest = "none"
  /\ buffer = << >> /\ published = << >>
  /\ mutex = None
  /\ stopper = "idle" /\ toSignal = FALSE

Stream(from, to) == stream = from /\ stream' = to

-----------------------------------------------------------------------------
(* streamDataRefs()                                                         *)

(* A data ref X-Plane does not know, or a request that fails, gives id -1.  *)
GetDataRefId ==
  /\ stream = "lookup"
  /\ \E d \in lookups :
       /\ lookups' = lookups \ {d}
       /\ subscribed' \in {subscribed, subscribed \cup {d}}
  /\ UNCHANGED <<stream, entryVars, serverVars, valueVars, mutex, stopVars>>

NothingToStream ==
  /\ lookups = {} /\ subscribed = {}
  /\ Stream("lookup", "returned")
  /\ UNCHANGED <<lookups, subscribed, entryVars, serverVars, valueVars, mutex,
                 stopVars>>

InitHandle ==
  /\ lookups = {} /\ subscribed # {}
  /\ \/ Stream("lookup", "register") /\ handle' = "live"
     \/ Stream("lookup", "returned") /\ UNCHANGED handle
  /\ UNCHANGED <<lookups, subscribed, webSockets, info, serverVars, valueVars,
                 mutex, stopVars>>

Register ==
  /\ mutex = None
  /\ Stream("register", "connect")
  /\ webSockets' = TRUE
  /\ UNCHANGED <<lookups, subscribed, info, handle, serverVars, valueVars,
                 mutex, stopVars>>

(* curl_easy_perform() connects, upgrades, subscribes. *)
Perform ==
  /\ Stream("connect", "perform")
  /\ socket' = "opening"
  /\ UNCHANGED <<lookups, subscribed, entryVars, closeSent, message, rest,
                 valueVars, mutex, stopVars>>

PerformReturns ==
  /\ socket = "closed"
  /\ Stream("perform", "cleanup")
  /\ UNCHANGED <<lookups, subscribed, entryVars, serverVars, valueVars, mutex,
                 stopVars>>

Cleanup ==
  /\ Stream("cleanup", "erase")
  /\ handle' = "freed"
  /\ UNCHANGED <<lookups, subscribed, webSockets, info, serverVars, valueVars,
                 mutex, stopVars>>

(* The bug of erasing the entry without m_webSocketsMutex. *)
Erase_NoLock ==
  /\ Stream("erase", "delete")
  /\ webSockets' = FALSE
  /\ UNCHANGED <<lookups, subscribed, info, handle, serverVars, valueVars,
                 mutex, stopVars>>

Erase ==
  /\ mutex = None
  /\ Stream("erase", "delete")
  /\ webSockets' = FALSE
  /\ UNCHANGED <<lookups, subscribed, info, handle, serverVars, valueVars,
                 mutex, stopVars>>

Delete ==
  /\ Stream("delete", "returned")
  /\ info' = "deleted"
  /\ UNCHANGED <<lookups, subscribed, webSockets, handle, serverVars,
                 valueVars, mutex, stopVars>>

StreamDataRefs ==
  \/ GetDataRefId \/ NothingToStream \/ InitHandle \/ Register \/ Perform
  \/ PerformReturns \/ Cleanup \/ Erase \/ Delete

-----------------------------------------------------------------------------
(* dataRefCallback(): a chunk without CURLWS_CONT ends the message.  What   *)
(* does not parse is dropped.                                               *)

Whole(chunks) ==
  \/ \E m \in 1..MaxMessages : chunks = <<[msg |-> m, part |-> "all"]>>
  \/ \E m \in 1..MaxMessages :
       chunks = <<[msg |-> m, part |-> "first"], [msg |-> m, part |-> "second"]>>

(* The bug of not starting the next message with an empty buffer. *)
DataRefCallback_NotCleared(chunk, cont) ==
  LET received == Append(buffer, chunk)
  IN  /\ buffer' = received
      /\ published' = IF ~cont /\ Whole(received)
                      THEN Append(published, chunk.msg) ELSE published

DataRefCallback(chunk, cont) ==
  LET received == Append(buffer, chunk)
  IN  IF cont
      THEN buffer' = received /\ UNCHANGED published
      ELSE /\ buffer' = << >>
           /\ published' = IF Whole(received)
                           THEN Append(published, chunk.msg) ELSE published

(* X-Plane sends its next update, whole or in two parts. *)
ReceiveFirst ==
  /\ socket = "open" /\ rest = "none" /\ message < MaxMessages
  /\ message' = message + 1
  /\ rest' \in {"none", "frame", "piece"}
  /\ DataRefCallback([msg |-> message + 1,
                      part |-> IF rest' = "none" THEN "all" ELSE "first"],
                     rest' = "frame")
  /\ UNCHANGED <<streamVars, entryVars, socket, closeSent, mutex, stopVars>>

ReceiveSecond ==
  /\ socket = "open" /\ rest # "none"
  /\ rest' = "none"
  /\ DataRefCallback([msg |-> message, part |-> "second"], FALSE)
  /\ UNCHANGED <<streamVars, entryVars, socket, closeSent, message, mutex,
                 stopVars>>

Opens ==
  /\ socket = "opening" /\ socket' \in {"open", "closed"}
  /\ UNCHANGED <<streamVars, entryVars, closeSent, message, rest, valueVars,
                 mutex, stopVars>>

(* X-Plane answers a close frame by closing. *)
AnswerClose ==
  /\ socket = "open" /\ closeSent
  /\ socket' = "closed"
  /\ UNCHANGED <<streamVars, entryVars, closeSent, message, rest, valueVars,
                 mutex, stopVars>>

(* X-Plane quits or the connection breaks. *)
Lost ==
  /\ socket = "open"
  /\ socket' = "closed"
  /\ UNCHANGED <<streamVars, entryVars, closeSent, message, rest, valueVars,
                 mutex, stopVars>>

-----------------------------------------------------------------------------
(* FlightConnector::stop(): disconnect(), then the join of the data source  *)
(* thread.                                                                  *)

(* disconnect() signals every socket it finds, holding the mutex. *)
Disconnect ==
  /\ stopper = "idle" /\ stopper' = "disconnect"
  /\ mutex = None /\ mutex' = "stopper"
  /\ toSignal' = webSockets
  /\ UNCHANGED <<streamVars, entryVars, serverVars, valueVars>>

(* The bug of closing no socket. *)
StartCloseFrame_Dropped ==
  /\ stopper = "disconnect" /\ toSignal
  /\ toSignal' = FALSE
  /\ UNCHANGED <<streamVars, entryVars, serverVars, valueVars, mutex, stopper>>

(* curl_ws_start_frame() has no effect on a connection that is not open;    *)
(* its result is ignored.                                                   *)
StartCloseFrame ==
  /\ stopper = "disconnect" /\ toSignal
  /\ toSignal' = FALSE
  /\ closeSent' = (closeSent \/ (handle = "live" /\ socket = "open"))
  /\ UNCHANGED <<streamVars, entryVars, socket, message, rest, valueVars,
                 mutex, stopper>>

Disconnected ==
  /\ ~toSignal
  /\ stopper = "disconnect" /\ stopper' = "join"
  /\ mutex' = None
  /\ UNCHANGED <<streamVars, entryVars, serverVars, valueVars, toSignal>>

Joined ==
  /\ stream = "returned"
  /\ stopper = "join" /\ stopper' = "stopped"
  /\ UNCHANGED <<streamVars, entryVars, serverVars, valueVars, mutex, toSignal>>

Stop == StartCloseFrame \/ Disconnected \/ Joined

-----------------------------------------------------------------------------
Next ==
  \/ StreamDataRefs \/ ReceiveFirst \/ ReceiveSecond
  \/ Opens \/ AnswerClose \/ Lost
  \/ Disconnect \/ Stop

Spec == Init /\ [][Next]_vars

(* Threads run, HTTP requests and connection attempts end, X-Plane answers  *)
(* a close frame and finishes the messages it starts.  Nobody has to stop   *)
(* the connector, and X-Plane need not quit.                                *)
Fairness ==
  /\ WF_vars(StreamDataRefs)
  /\ WF_vars(Stop)
  /\ WF_vars(Opens)
  /\ WF_vars(ReceiveSecond)
  /\ WF_vars(AnswerClose)

FairSpec == Spec /\ Fairness

-----------------------------------------------------------------------------
(* Every variable stays in its domain. *)
TypeOK ==
  /\ stream \in {"lookup", "register", "connect", "perform", "cleanup",
                 "erase", "delete", "returned"}
  /\ lookups \subseteq DataRefs
  /\ subscribed \subseteq DataRefs \ lookups
  /\ webSockets \in BOOLEAN
  /\ info \in {"live", "deleted"}
  /\ handle \in {"none", "live", "freed"}
  /\ socket \in {"none", "opening", "open", "closed"}
  /\ closeSent \in BOOLEAN
  /\ message \in 0..MaxMessages
  /\ rest \in {"none", "frame", "piece"}
  /\ Len(buffer) <= 1
  /\ published \in Seq(1..MaxMessages)
  /\ mutex \in {None, "stopper"}
  /\ stopper \in {"idle", "disconnect", "join", "stopped"}
  /\ toSignal \in BOOLEAN

(* disconnect() never walks over an entry that the stream has deleted, at   *)
(* whatever point of the stream's end it comes.                             *)
EntryOutlivesDisconnect == toSignal => info = "live" /\ webSockets

(* The data source is given every update that arrives in one chunk or in    *)
(* frames, when its last part arrives and whatever was lost before, and     *)
(* never anything put together from parts of two updates.                   *)
UpdatesDelivered ==
  [][LET complete == \/ message' # message /\ rest' = "none"
                     \/ rest = "frame" /\ rest' # rest
     IN  published' # published \/ complete =>
           published' = Append(published, message')]_vars

(* A stream that has subscribed is ended by stop(), and stop() returns. *)
StopEndsOpenStream ==
  (stopper = "disconnect" /\ toSignal /\ socket = "open") ~> (stopper = "stopped")

(* stop() stops the data source thread whenever it is called. *)
StopStopsStream == (stopper # "idle") ~> (stopper = "stopped")
=============================================================================
