--------------------------- MODULE MCXPlaneClients ---------------------------
(***************************************************************************)
(* The two clients of an X-Plane that runs elsewhere: the web socket, which *)
(* the data source prefers, and UDP, which it falls back on.  A behaviour   *)
(* is one of either.                                                        *)
(***************************************************************************)
EXTENDS XPlaneWebSocketClient

CONSTANTS NumRefs, ReadOffset, NameLength, ICAOLength, MaxArriving

VARIABLES
  driven,  \* "webSocket" or "udp"
  op, at, result, count, dataSocket, udpSubscribed, arriving, udpBuffer,
  version, author, icao, unnamed, updates

UDP == INSTANCE XPlaneUDPClient WITH
  subscribed <- udpSubscribed, buffer <- udpBuffer

ASSUME UDPAssumption == UDP!ClientConstants

udpVars == <<op, at, result, count, dataSocket, udpSubscribed, arriving,
             udpBuffer, version, author, icao, unnamed, updates>>
everything == <<driven, vars, udpVars>>

MCInit ==
  /\ driven \in {"webSocket", "udp"}
  /\ Init
  /\ UDP!Init
  /\ driven = "webSocket" => ~unnamed

WebSocketStep(A) == driven = "webSocket" /\ A /\ UNCHANGED <<driven, udpVars>>
UDPStep(A) == driven = "udp" /\ A /\ UNCHANGED <<driven, vars>>

WebSocketNext == WebSocketStep(Next)
UDPNext == UDPStep(UDP!Next)
MCNext == WebSocketNext \/ UDPNext

(* The components' own fairness. *)
MCFairness ==
  /\ WF_everything(WebSocketStep(StreamDataRefs))
  /\ WF_everything(WebSocketStep(Stop))
  /\ WF_everything(WebSocketStep(Opens))
  /\ WF_everything(WebSocketStep(ReceiveSecond))
  /\ WF_everything(WebSocketStep(AnswerClose))
  /\ WF_everything(UDPStep(UDP!Client))

MCSpec == MCInit /\ [][MCNext]_everything /\ MCFairness

-----------------------------------------------------------------------------
(* What the UDP client passes on belongs to the mapping, the texts that it  *)
(* reads are X-Plane's, each in its own variable, and it reports success    *)
(* only when it was disconnected.                                           *)
AnswersReachTheirRequests ==
  UDP!UpdatesAreOfTheMapping /\ UDP!TextIsNotGarbled /\ UDP!SuccessIsStopped

(* disconnect() ends its stream.                                            *)
DisconnectEndsClient == UDP!DisconnectEndsClient
=============================================================================
