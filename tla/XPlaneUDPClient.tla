--------------------------- MODULE XPlaneUDPClient ---------------------------
(***************************************************************************)
(* The UDP client of the X-Plane data source.  XPlaneDataSource::connect()  *)
(* opens m_dataSocket and reads the version and the names of the aircraft   *)
(* over it, one after the other; update() then streams the data refs of the *)
(* mapping over a socket of its own.  disconnect() closes m_dataSocket from *)
(* another thread, or from a signal handler, at any time.                   *)
(*                                                                          *)
(* A request asks X-Plane to send data refs, each under an index, until it  *)
(* is released with frequency 0.  UDP loses, delays and reorders, so that   *)
(* what X-Plane sent for one read may arrive while the next one waits.      *)
(***************************************************************************)
EXTENDS Integers, Sequences, FiniteSets, FiniteSetsExt

CONSTANTS
  NumRefs,      \* data refs of the mapping, streamed as 1..NumRefs
  ReadOffset,   \* READ_OFFSET, the index of the first character of a string
  NameLength,   \* the length of the studio and of the author
  ICAOLength,   \* the length of the ICAO type
  MaxArriving   \* bound: packets under way to one socket

ClientConstants ==
  /\ {NumRefs, ReadOffset, NameLength, ICAOLength, MaxArriving} \subseteq Nat \ {0}
  /\ NumRefs < ReadOffset

VARIABLES
  op,           \* what runs: a read, the stream, or how it ended
  at,           \* where in it
  result,       \* the Result it will return
  count,        \* packets it has taken
  dataSocket,   \* m_dataSocket: "none", "open", "closed"
  subscribed,   \* what X-Plane sends to each socket
  arriving,     \* packets under way to each socket
  buffer,       \* what the running read has put together
  version,      \* m_xPlaneVersion
  author,       \* aircraftAuthor
  icao,         \* aircraftICAO
  unnamed,      \* the aircraft gives no studio
  updates       \* the values last passed to XPlaneDataSource::update()

flow == <<op, at, result, count>>
network == <<subscribed, arriving>>
details == <<buffer, version, author, icao, unnamed>>
vars == <<flow, dataSocket, network, details, updates>>

Strings == {"studio", "author", "icao"}
Sockets == {"data", "stream"}
Ended   == {"failed", "done"}

StringLength(string) == IF string = "icao" THEN ICAOLength ELSE NameLength

(* A value of X-Plane, by the data ref it is of and its place in it. *)
Value(ref, i) == [ref |-> ref, i |-> i]
Zero == Value("zero", 0)

(* The requests of readInt(), readString() and streamDataRefs(). *)
Requests(o) ==
  CASE o = "version" -> {[idx |-> 1, value |-> Value("version", 0)]}
    [] o \in Strings ->
         {[idx |-> ReadOffset + i, value |-> Value(o, i)] :
            i \in 0..StringLength(o) - 1}
    [] OTHER -> {[idx |-> i, value |-> Value("mapping", i)] : i \in 1..NumRefs}

(* The bug of streaming over m_dataSocket. *)
SocketOf_Shared(o) == "data"

SocketOf(o) == IF o = "stream" THEN "stream" ELSE "data"

NoText(o) ==
  IF o \in Strings THEN [i \in 1..StringLength(o) |-> Zero] ELSE << >>

Init ==
  /\ op = "version" /\ at = "open" /\ result = "SUCCESS" /\ count = 0
  /\ dataSocket = "none"
  /\ subscribed = [s \in Sockets |-> {}] /\ arriving = [s \in Sockets |-> {}]
  /\ buffer = << >> /\ version = Zero /\ author = << >> /\ icao = << >>
  /\ unnamed \in BOOLEAN
  /\ updates = {}

-----------------------------------------------------------------------------
(* string(buffer) ends at the first zero. *)
Text(chars) ==
  LET zeros == {i \in DOMAIN chars : \/ chars[i] = Zero
                                     \/ unnamed /\ chars[i].ref = "studio"}
  IN  SubSeq(chars, 1, Min(zeros \cup {Len(chars) + 1}) - 1)

Begin(next) ==
  /\ op' = next
  /\ at' = IF next = "stream" THEN "open" ELSE "request"
  /\ result' = "SUCCESS" /\ count' = 0
  /\ buffer' = NoText(next)

End(how, res) == op' = how /\ result' = res /\ UNCHANGED <<at, count, buffer>>

(* What the caller does with the result: connect() asks for the version     *)
(* until it does not time out, and takes a string that could not be read    *)
(* for an empty one; update() returns.                                      *)
Return(res) ==
  LET text == IF res = "SUCCESS" THEN Text(buffer) ELSE << >>
  IN  CASE op = "version" ->
             /\ IF res = "TIMEOUT" THEN Begin("version")
                ELSE IF res = "FAIL" \/ version = Zero THEN End("failed", "FAIL")
                ELSE Begin("studio")
             /\ UNCHANGED <<author, icao>>
        [] op = "studio" ->
             /\ author' = text
             /\ Begin(IF text = << >> THEN "author" ELSE "icao")
             /\ UNCHANGED icao
        [] op = "author" -> author' = text /\ Begin("icao") /\ UNCHANGED icao
        [] op = "icao"   -> icao' = text /\ Begin("stream") /\ UNCHANGED author
        [] op = "stream" -> End("done", res) /\ UNCHANGED <<author, icao>>

(* connect() and streamDataRefs(): createConnection() *)
Open ==
  /\ op \notin Ended /\ at = "open"
  /\ \/ /\ at' = "request"
        /\ dataSocket' = IF op = "version" THEN "open" ELSE dataSocket
        /\ UNCHANGED <<op, result, count, buffer, version, author, icao>>
     \/ /\ op = "version" /\ End("failed", "FAIL")
        /\ UNCHANGED <<dataSocket, version, author, icao>>
     \/ /\ op = "stream" /\ Return("FAIL")
        /\ UNCHANGED <<dataSocket, version>>
  /\ UNCHANGED <<network, unnamed, updates>>

CanSend(socket) == socket = "data" => dataSocket = "open"

(* sendRREF(): X-Plane hears any of the requests that are sent, all of them *)
(* or those before the one that fails.                                      *)
SendRREF(requests, freq) ==
  LET socket == SocketOf(op)
      kept(heard) == {r \in subscribed[socket] :
                        \A h \in heard : h.idx # r.idx}
  IN  \E heard \in SUBSET requests :
        /\ heard # {} => CanSend(socket)
        /\ subscribed' = [subscribed EXCEPT ![socket] =
                            kept(heard) \cup IF freq = 0 THEN {} ELSE heard]

Request ==
  /\ op \notin Ended /\ at = "request"
  /\ SendRREF(Requests(op), 20)
  /\ \/ /\ CanSend(SocketOf(op)) /\ at' = "loop"
        /\ UNCHANGED <<op, result, count, buffer, version, author, icao>>
     \/ Return("FAIL") /\ UNCHANGED version
  /\ UNCHANGED <<dataSocket, arriving, unnamed, updates>>

(* The bug of watching only the stream's own socket. *)
Streaming_OwnSocket == op = "stream" \/ (dataSocket = "open" /\ count = 0)

Streaming == dataSocket = "open" /\ (op = "stream" \/ count = 0)

(* A read that never entered the loop leaves readInt()'s variable unset. *)
Test ==
  /\ op \notin Ended /\ at = "loop"
  /\ at' = IF Streaming THEN "receive" ELSE "release"
  /\ version' \in IF op = "version" /\ ~Streaming /\ count = 0
                  THEN {Zero, Value("unset", 0)} ELSE {version}
  /\ UNCHANGED <<op, result, count, dataSocket, network, buffer, author, icao,
                 unnamed, updates>>

(* The bug of taking an index below READ_OFFSET for one of a character too. *)
StringCallback_NoOffset(packet) ==
  buffer' = [i \in DOMAIN buffer |->
               LET chars == {p \in packet : p.idx % ReadOffset = i - 1}
               IN  IF chars = {} THEN buffer[i] ELSE (CHOOSE p \in chars : TRUE).value]

(* The callback of readString() *)
StringCallback(packet) ==
  buffer' = [i \in DOMAIN buffer |->
               LET chars == {p \in packet : p.idx = ReadOffset + i - 1}
               IN  IF chars = {} THEN buffer[i] ELSE (CHOOSE p \in chars : TRUE).value]

(* The callback of each operation.  read() keeps the last value. *)
Callback(packet) ==
  CASE op = "version" ->
         /\ version' = (CHOOSE p \in packet : \A q \in packet : q.idx <= p.idx).value
         /\ UNCHANGED <<buffer, updates>>
    [] op \in Strings -> StringCallback(packet) /\ UNCHANGED <<version, updates>>
    [] op = "stream"  -> updates' = packet /\ UNCHANGED <<version, buffer>>

Receive ==
  /\ op \notin Ended /\ at = "receive"
  /\ CanSend(SocketOf(op))
  /\ \E packet \in arriving[SocketOf(op)] :
       /\ arriving' = [arriving EXCEPT ![SocketOf(op)] = @ \ {packet}]
       /\ Callback(packet)
  /\ at' = "loop" /\ count' = 1
  /\ UNCHANGED <<op, result, dataSocket, subscribed, author, icao, unnamed>>

(* The bug of ending a stream that broke as if it had been stopped. *)
NoPacket_Success ==
  /\ op \notin Ended /\ at = "receive"
  /\ at' = "release"
  /\ UNCHANGED <<op, result, count, dataSocket, network, details, updates>>

(* Nothing arrives for 2 seconds, or the socket fails or has been closed. *)
NoPacket ==
  /\ op \notin Ended /\ at = "receive"
  /\ at' = "release" /\ result' \in {"TIMEOUT", "FAIL"}
  /\ UNCHANGED <<op, count, dataSocket, network, details, updates>>

Release ==
  /\ op \notin Ended /\ at = "release"
  /\ SendRREF(Requests(op), 0)
  /\ Return(result)
  /\ UNCHANGED <<dataSocket, arriving, version, unnamed, updates>>

Client == Open \/ Request \/ Test \/ Receive \/ NoPacket \/ Release

-----------------------------------------------------------------------------
(* X-Plane sends some of what a socket has subscribed to. *)
Send ==
  /\ \E s \in Sockets : \E packet \in SUBSET subscribed[s] \ {{}} :
       /\ packet \notin arriving[s] /\ Cardinality(arriving[s]) < MaxArriving
       /\ arriving' = [arriving EXCEPT ![s] = @ \cup {packet}]
  /\ UNCHANGED <<flow, dataSocket, subscribed, details, updates>>

Lose ==
  /\ \E s \in Sockets : \E packet \in arriving[s] :
       arriving' = [arriving EXCEPT ![s] = @ \ {packet}]
  /\ UNCHANGED <<flow, dataSocket, subscribed, details, updates>>

(* disconnect(); before connect() there is no socket to close. *)
Disconnect ==
  /\ dataSocket = "open" /\ dataSocket' = "closed"
  /\ UNCHANGED <<flow, network, details, updates>>

Next == Client \/ Send \/ Lose \/ Disconnect

Spec == Init /\ [][Next]_vars

(* The thread in the client runs; a receive ends after 2 seconds at most. *)
Fairness == WF_vars(Client)

FairSpec == Spec /\ Fairness

-----------------------------------------------------------------------------
(* Whatever arrives late, update() is only given values of the mapping's    *)
(* data refs, each under its own number: no answer to one of connect()'s    *)
(* reads is written to a data ref, or looked up past the end of them.       *)
UpdatesAreOfTheMapping == updates \subseteq Requests("stream")

(* A late answer of an earlier read may be taken for a later one, but       *)
(* neither a longer string nor the version garbles the text: each character *)
(* is one of a string, at its place.                                        *)
TextIsNotGarbled ==
  \A text \in {author, icao} : \A i \in DOMAIN text :
    text[i].ref \in Strings /\ text[i].i = i - 1

(* update() reports success only when the data source was disconnected: a   *)
(* stream that X-Plane stops sending ends as a failure.                     *)
SuccessIsStopped == op = "done" /\ result = "SUCCESS" => dataSocket = "closed"

(* disconnect() ends connect() and the stream, whatever X-Plane still sends *)
(* and whatever is lost.                                                    *)
DisconnectEndsClient == (dataSocket = "closed") ~> (op \in Ended)
=============================================================================
