------------------------- MODULE XPlaneClientsProofs -------------------------
(***************************************************************************)
(* What is proved of the two clients of X-Plane: of the web socket for any  *)
(* data refs and any number of update messages, and of UDP for mappings and *)
(* strings of any length and any number of packets under way.               *)
(***************************************************************************)
EXTENDS MCXPlaneClients, SequenceTheorems, NaturalsInduction,
        WellFoundedInduction, TLAPS

-----------------------------------------------------------------------------
(* The web socket client: the inductive invariant.                          *)

(* The entry is on m_webSockets from Register to Erase, and deleted last.   *)
EntryInv ==
  /\ webSockets <=> stream \in {"connect", "perform", "cleanup", "erase"}
  /\ info = "deleted" => stream = "returned"

(* disconnect() holds the mutex for as long as it may signal an entry.      *)
MutexInv ==
  /\ (mutex = "stopper") <=> (stopper = "disconnect")
  /\ toSignal => mutex = "stopper" /\ webSockets

(* The buffer holds the first frame of a message in two frames, and nothing *)
(* else.                                                                    *)
BufferInv ==
  /\ buffer = IF rest = "frame" THEN <<[msg |-> message, part |-> "first"]>> ELSE << >>
  /\ rest # "none" => message > 0

IInv == TypeOK /\ EntryInv /\ MutexInv /\ BufferInv

-----------------------------------------------------------------------------
(* Which chunks make up a message.                                          *)
LEMMA WholeAlone ==
  ASSUME NEW m \in 1..MaxMessages
  PROVE  /\ Whole(<<[msg |-> m, part |-> "all"]>>)
         /\ ~Whole(<<[msg |-> m, part |-> "first"]>>)
         /\ ~Whole(<<[msg |-> m, part |-> "second"]>>)
<1> DEFINE chunk(part) == [msg |-> m, part |-> part]
<1>1. Whole(<<chunk("all")>>)
  BY DEF Whole
<1>2. ASSUME NEW part \in {"first", "second"}, Whole(<<chunk(part)>>) PROVE FALSE
  <2>1. \A n \in 1..MaxMessages : <<chunk(part)>> # <<[msg |-> n, part |-> "all"]>>
    <3> SUFFICES ASSUME NEW n \in 1..MaxMessages,
                        <<chunk(part)>> = <<[msg |-> n, part |-> "all"]>>
                 PROVE  FALSE
      OBVIOUS
    <3>1. chunk(part) = [msg |-> n, part |-> "all"]
      OBVIOUS
    <3>2. chunk(part).part = "all"
      BY <3>1
    <3> QED BY <3>2
  <2>2. \A n \in 1..MaxMessages :
          <<chunk(part)>> # <<[msg |-> n, part |-> "first"],
                              [msg |-> n, part |-> "second"]>>
    OBVIOUS
  <2> QED BY <1>2, <2>1, <2>2 DEF Whole
<1> QED BY <1>1, <1>2

LEMMA WholePair ==
  ASSUME NEW m \in 1..MaxMessages
  PROVE  Whole(<<[msg |-> m, part |-> "first"], [msg |-> m, part |-> "second"]>>)
BY DEF Whole

LEMMA AppendToOne ==
  ASSUME NEW a, NEW b
  PROVE  Append(<<a>>, b) = <<a, b>>
<1> DEFINE S == {a, b}
<1>1. <<a>> \in Seq(S) /\ <<a, b>> \in Seq(S)
  OBVIOUS
<1>2. Append(<<a>>, b) \in Seq(S) /\ Len(Append(<<a>>, b)) = 2
  OBVIOUS
<1>3. \A i \in 1..2 : Append(<<a>>, b)[i] = <<a, b>>[i]
  OBVIOUS
<1> QED BY <1>1, <1>2, <1>3, SeqEqual

(* What a received chunk does to the buffer and the data source.            *)
LEMMA FirstStep ==
  ASSUME IInv, ReceiveFirst
  PROVE  /\ rest' \in {"none", "frame", "piece"}
         /\ message' = message + 1 /\ message' \in 1..MaxMessages
         /\ BufferInv'
         /\ published' = IF rest' = "none" THEN Append(published, message')
                         ELSE published
<1>1. /\ rest = "none" /\ message' = message + 1
      /\ rest' \in {"none", "frame", "piece"}
      /\ DataRefCallback([msg |-> message + 1,
                          part |-> IF rest' = "none" THEN "all" ELSE "first"],
                         rest' = "frame")
  BY DEF ReceiveFirst
<1>2. message' \in 1..MaxMessages
  BY ClientAssumption DEF ReceiveFirst, IInv, TypeOK
<1>3. buffer = << >>
  BY <1>1 DEF IInv, BufferInv
<1>4. CASE rest' = "none"
  <2>1. DataRefCallback([msg |-> message', part |-> "all"], FALSE)
    BY <1>1, <1>4
  <2>2. Append(buffer, [msg |-> message', part |-> "all"])
          = <<[msg |-> message', part |-> "all"]>>
    BY <1>3
  <2> QED BY <1>1, <1>2, <1>4, <2>1, <2>2, WholeAlone DEF DataRefCallback, BufferInv
<1>5. CASE rest' = "frame"
  <2>1. DataRefCallback([msg |-> message', part |-> "first"], TRUE)
    BY <1>1, <1>5
  <2> QED BY <1>1, <1>2, <1>3, <1>5, <2>1 DEF DataRefCallback, BufferInv
<1>6. CASE rest' = "piece"
  <2>1. DataRefCallback([msg |-> message', part |-> "first"], FALSE)
    BY <1>1, <1>6
  <2>2. Append(buffer, [msg |-> message', part |-> "first"])
          = <<[msg |-> message', part |-> "first"]>>
    BY <1>3
  <2>3. ~Whole(<<[msg |-> message', part |-> "first"]>>)
    BY <1>2, WholeAlone
  <2>4. buffer' = << >> /\ published' = published
    BY <2>1, <2>2, <2>3 DEF DataRefCallback
  <2> QED BY <1>1, <1>2, <1>6, <2>4 DEF BufferInv
<1> QED BY <1>1, <1>2, <1>4, <1>5, <1>6

LEMMA SecondStep ==
  ASSUME IInv, ReceiveSecond
  PROVE  /\ rest' = "none" /\ message' = message
         /\ BufferInv'
         /\ published' = IF rest = "frame" THEN Append(published, message)
                         ELSE published
<1>1. /\ rest \in {"frame", "piece"} /\ rest' = "none" /\ message' = message
      /\ DataRefCallback([msg |-> message, part |-> "second"], FALSE)
  BY DEF ReceiveSecond, IInv, TypeOK
<1>0. message \in 1..MaxMessages
  BY <1>1, ClientAssumption DEF IInv, TypeOK, BufferInv
<1>2. CASE rest = "frame"
  <2>1. Append(buffer, [msg |-> message, part |-> "second"])
          = <<[msg |-> message, part |-> "first"], [msg |-> message, part |-> "second"]>>
    <3>1. buffer = <<[msg |-> message, part |-> "first"]>>
      BY <1>2 DEF IInv, BufferInv
    <3> QED BY <3>1, AppendToOne
  <2> QED BY <1>0, <1>1, <1>2, <2>1, WholePair DEF DataRefCallback, BufferInv
<1>3. CASE rest = "piece"
  <2>1. Append(buffer, [msg |-> message, part |-> "second"])
          = <<[msg |-> message, part |-> "second"]>>
    BY <1>3 DEF IInv, BufferInv
  <2> QED BY <1>0, <1>1, <1>3, <2>1, WholeAlone DEF DataRefCallback, BufferInv
<1> QED BY <1>1, <1>2, <1>3

-----------------------------------------------------------------------------
(* Every step keeps the inductive invariant. *)
LEMMA InvStep == IInv /\ [Next]_vars => IInv'
<1> SUFFICES ASSUME IInv, [Next]_vars PROVE IInv'
  OBVIOUS
<1> USE ClientAssumption
    DEF streamVars, entryVars, serverVars, valueVars, stopVars, Stream
<1>typed. TypeOK
  BY DEF IInv
(* Steps that only move streamDataRefs(). *)
<1>stream. ASSUME UNCHANGED <<serverVars, valueVars, mutex, stopVars>>,
                  TypeOK', EntryInv', toSignal => webSockets'
           PROVE  IInv'
  BY <1>stream DEF IInv, MutexInv, BufferInv
<1>1. CASE StreamDataRefs
  <2>1. CASE GetDataRefId
    BY <1>stream, <1>typed, <2>1 DEF GetDataRefId, TypeOK, EntryInv, MutexInv, IInv
  <2>2. CASE NothingToStream
    BY <1>stream, <1>typed, <2>2 DEF NothingToStream, TypeOK, EntryInv, MutexInv, IInv
  <2>3. CASE InitHandle
    BY <1>stream, <1>typed, <2>3 DEF InitHandle, TypeOK, EntryInv, MutexInv, IInv
  <2>4. CASE Register
    BY <1>stream, <1>typed, <2>4 DEF Register, TypeOK, EntryInv, MutexInv, IInv
  <2>5. CASE Perform
    BY <1>typed, <2>5 DEF Perform, TypeOK, EntryInv, MutexInv, BufferInv, IInv
  <2>6. CASE PerformReturns
    BY <1>stream, <1>typed, <2>6 DEF PerformReturns, TypeOK, EntryInv, MutexInv, IInv
  <2>7. CASE Cleanup
    BY <1>stream, <1>typed, <2>7 DEF Cleanup, TypeOK, EntryInv, MutexInv, IInv
  <2>8. CASE Erase
    BY <1>stream, <1>typed, <2>8 DEF Erase, TypeOK, EntryInv, MutexInv, IInv
  <2>9. CASE Delete
    BY <1>stream, <1>typed, <2>9 DEF Delete, TypeOK, EntryInv, MutexInv, IInv
  <2> QED BY <1>1, <2>1, <2>2, <2>3, <2>4, <2>5, <2>6, <2>7, <2>8, <2>9
          DEF StreamDataRefs
(* Messages. *)
<1>received. ASSUME UNCHANGED <<streamVars, entryVars, socket, closeSent, mutex, stopVars>>,
                    rest' \in {"none", "frame", "piece"},
                    message' \in 0..MaxMessages,
                    BufferInv',
                    published' \in Seq(1..MaxMessages)
             PROVE  IInv'
  <2>1. Len(buffer') <= 1
    BY <1>received DEF BufferInv
  <2> QED BY <1>received, <2>1 DEF IInv, TypeOK, EntryInv, MutexInv
<1>2. CASE ReceiveFirst
  <2>1. published' \in Seq(1..MaxMessages)
    <3>1. published \in Seq(1..MaxMessages)
      BY DEF IInv, TypeOK
    <3>2. published' \in {published, Append(published, message')}
      BY <1>2, FirstStep
    <3>3. message' \in 1..MaxMessages
      BY <1>2, FirstStep
    <3> QED BY <3>1, <3>2, <3>3
  <2> QED BY <1>2, <1>received, <2>1, FirstStep DEF ReceiveFirst
<1>3. CASE ReceiveSecond
  <2>1. message \in 0..MaxMessages /\ rest # "none"
    BY <1>3 DEF ReceiveSecond, IInv, TypeOK
  <2>2. message \in 1..MaxMessages
    BY <2>1 DEF IInv, BufferInv
  <2>3. published' \in Seq(1..MaxMessages)
    <3>1. published \in Seq(1..MaxMessages)
      BY DEF IInv, TypeOK
    <3>2. published' \in {published, Append(published, message)}
      BY <1>3, SecondStep
    <3> QED BY <2>2, <3>1, <3>2
  <2> QED BY <1>3, <1>received, <2>1, <2>3, SecondStep DEF ReceiveSecond
<1>4. CASE Opens \/ AnswerClose \/ Lost
  <2>1. /\ socket' \in {"none", "opening", "open", "closed"}
        /\ UNCHANGED <<streamVars, entryVars, closeSent, message, rest,
                       valueVars, mutex, stopVars>>
    BY <1>4 DEF Opens, AnswerClose, Lost
  <2> QED BY <1>typed, <2>1 DEF IInv, TypeOK, EntryInv, MutexInv, BufferInv
(* The thread that stops the connector. *)
<1>5. CASE Disconnect
  BY <1>typed, <1>5 DEF Disconnect, IInv, TypeOK, EntryInv, MutexInv, BufferInv
<1>6. CASE Stop
  <2>1. CASE StartCloseFrame
    <3>1. closeSent' \in BOOLEAN
      BY <2>1 DEF StartCloseFrame
    <3> QED BY <1>typed, <2>1, <3>1
            DEF StartCloseFrame, IInv, TypeOK, EntryInv, MutexInv, BufferInv
  <2>2. CASE Disconnected
    BY <1>typed, <2>2 DEF Disconnected, IInv, TypeOK, EntryInv, MutexInv, BufferInv
  <2>3. CASE Joined
    BY <1>typed, <2>3 DEF Joined, IInv, TypeOK, EntryInv, MutexInv, BufferInv
  <2> QED BY <1>6, <2>1, <2>2, <2>3 DEF Stop
<1>7. CASE UNCHANGED vars
  BY <1>typed, <1>7 DEF vars, IInv, TypeOK, EntryInv, MutexInv, BufferInv
<1> QED BY <1>1, <1>2, <1>3, <1>4, <1>5, <1>6, <1>7 DEF Next

(* The inductive invariant holds in every reachable state.                  *)
THEOREM Invariance == Spec => []IInv
<1>1. ASSUME Init PROVE IInv
  <2>1. /\ Len(buffer) <= 1 /\ published \in Seq(1..MaxMessages)
        /\ message \in 0..MaxMessages
    BY <1>1, ClientAssumption DEF Init
  <2>2. TypeOK
    BY <1>1, <2>1 DEF Init, TypeOK
  <2> QED BY <1>1, <2>2, ClientAssumption DEF Init, IInv, EntryInv, MutexInv, BufferInv
<1> QED BY <1>1, InvStep, PTL DEF Spec

(* Every variable of the client stays in its domain.                        *)
THEOREM TypeCorrect == Spec => []TypeOK
<1>1. IInv => TypeOK
  BY DEF IInv
<1> QED BY <1>1, Invariance, PTL

(* disconnect() never walks over a deleted entry, whenever it comes.        *)
THEOREM EntryOutlives == Spec => []EntryOutlivesDisconnect
<1>1. IInv => EntryOutlivesDisconnect
  BY DEF IInv, TypeOK, EntryInv, MutexInv, EntryOutlivesDisconnect
<1> QED BY <1>1, Invariance, PTL

(* Every update that arrives in one chunk or in two frames is given to the  *)
(* data source as its last part arrives, and nothing else ever is.          *)
THEOREM Delivered == Spec => UpdatesDelivered
<1> DEFINE complete == \/ message' # message /\ rest' = "none"
                       \/ rest = "frame" /\ rest' # rest
           Delivery == published' # published \/ complete =>
                         published' = Append(published, message')
<1>1. ASSUME IInv, [Next]_vars PROVE Delivery
  <2>1. CASE ReceiveFirst
    <3>1. rest = "none"
      BY <2>1 DEF ReceiveFirst
    <3> QED BY <1>1, <2>1, <3>1, FirstStep
  <2>2. CASE ReceiveSecond
    BY <1>1, <2>2, SecondStep
  <2>3. CASE ~ReceiveFirst /\ ~ReceiveSecond
    <3>1. UNCHANGED <<message, rest, published>>
      BY <1>1, <2>3
         DEF Next, StreamDataRefs, GetDataRefId, NothingToStream, InitHandle,
             Register, Perform, PerformReturns, Cleanup, Erase, Delete, Opens,
             AnswerClose, Lost, Disconnect, Stop, StartCloseFrame, Disconnected,
             Joined, vars, serverVars, valueVars
    <3> QED BY <3>1
  <2> QED BY <2>1, <2>2, <2>3
<1>2. ASSUME IInv, [Next]_vars PROVE [Delivery]_vars
  BY <1>1, <1>2
<1> QED BY <1>2, Invariance, PTL DEF Spec, UpdatesDelivered

-----------------------------------------------------------------------------
(* The UDP client.  X-Plane sends to the stream's socket what the mapping   *)
(* asked for, and to m_dataSocket what the reads of connect() asked for.    *)
ReadRequests == UDP!Requests("version") \cup UNION {UDP!Requests(o) : o \in UDP!Strings}
Asked(s) == IF s = "stream" THEN UDP!Requests("stream") ELSE ReadRequests

NetworkInv ==
  /\ DOMAIN udpSubscribed = UDP!Sockets /\ DOMAIN arriving = UDP!Sockets
  /\ \A s \in UDP!Sockets : udpSubscribed[s] \subseteq Asked(s)
  /\ \A s \in UDP!Sockets : \A packet \in arriving[s] : packet \subseteq Asked(s)
  /\ updates \subseteq UDP!Requests("stream")

(* A character of a string, at its place. *)
Chars == [ref : UDP!Strings \cup {"zero"}, i : Int]
InPlace(c, i) == c.ref \in UDP!Strings /\ c.i = i - 1
Filled(chars) ==
  /\ chars \in Seq(Chars)
  /\ \A i \in DOMAIN chars : chars[i] = UDP!Zero \/ InPlace(chars[i], i)

CharsInv == op \in UDP!Strings => Filled(udpBuffer)
TextInv == \A text \in {author, icao} : \A i \in DOMAIN text : InPlace(text[i], i)

FlowInv ==
  /\ op \in {"version", "stream"} \cup UDP!Strings \cup UDP!Ended
  /\ result \in {"SUCCESS", "TIMEOUT", "FAIL"}
  /\ dataSocket \in {"none", "open", "closed"}
  /\ dataSocket = "none" => op = "failed" \/ (op = "version" /\ at = "open")
  /\ op = "stream" /\ at = "release" /\ result = "SUCCESS" => dataSocket = "closed"
  /\ op = "done" /\ result = "SUCCESS" => dataSocket = "closed"

UDPInv == NetworkInv /\ CharsInv /\ TextInv /\ FlowInv

(* Between its ends, the text that a buffer holds is in place. *)
LEMMA TextInPlace ==
  ASSUME NEW chars, Filled(chars)
  PROVE  \A i \in DOMAIN UDP!Text(chars) : InPlace(UDP!Text(chars)[i], i)
<1> DEFINE zeros == {i \in DOMAIN chars : \/ chars[i] = UDP!Zero
                                          \/ unnamed /\ chars[i].ref = "studio"}
           ends == zeros \cup {Len(chars) + 1}
<1>1. /\ chars \in Seq(Chars) /\ Len(chars) \in Nat /\ DOMAIN chars = 1..Len(chars)
  BY DEF Filled
<1>2. ends \subseteq Nat /\ ends # {} /\ \A e \in ends : 1 <= e
  BY <1>1
<1>3. \E x \in ends : \A y \in ends : <<y, x>> \notin OpToRel(<, Nat)
  <2> HIDE DEF ends
  <2> QED BY <1>2, WFMin, NatLessThanWellFounded
<1>4. PICK x \in ends : \A y \in ends : <<y, x>> \notin OpToRel(<, Nat)
  BY <1>3
<1>5. \A y \in ends : x <= y
  <2>1. \A y \in ends : ~(y < x)
    BY <1>2, <1>4 DEF OpToRel
  <2> HIDE DEF ends
  <2> QED BY <1>2, <2>1
<1>6. PICK m \in ends : m = UDP!Min(ends) /\ \A y \in ends : m <= y
  <2> HIDE DEF ends
  <2> QED BY <1>5 DEF UDP!Min
<1>7. m \in Nat /\ m - 1 \in Nat /\ m - 1 <= Len(chars)
  <2>1. Len(chars) + 1 \in ends /\ m \in Nat /\ 1 <= m
    BY <1>2
  <2> HIDE DEF ends
  <2> QED BY <1>1, <1>6, <2>1
<1>8. ASSUME NEW i \in 1..m - 1
      PROVE  i \in DOMAIN chars /\ i \notin zeros
  <2>1. i \in Nat /\ 1 <= i /\ i < m
    BY <1>7
  <2>2. i \notin ends
    <3> HIDE DEF ends
    <3> QED BY <1>6, <1>7, <2>1
  <2> QED BY <1>1, <1>7, <2>1, <2>2
<1>9. UDP!Text(chars) = SubSeq(chars, 1, m - 1)
  BY <1>6 DEF UDP!Text
<1>10. /\ DOMAIN SubSeq(chars, 1, m - 1) = 1..m - 1
       /\ \A i \in 1..m - 1 : SubSeq(chars, 1, m - 1)[i] = chars[i]
  <2> HIDE DEF ends
  <2> QED BY <1>1, <1>7
<1>11. ASSUME NEW i \in 1..m - 1 PROVE InPlace(chars[i], i)
  BY <1>8 DEF Filled
<1> HIDE DEF ends
<1> QED BY <1>9, <1>10, <1>11

LEMMA NothingRead ==
  ASSUME NEW o \in UDP!Strings
  PROVE  Filled(UDP!NoText(o))
<1>1. UDP!StringLength(o) \in Nat
  BY UDPAssumption DEF UDP!ClientConstants, UDP!StringLength
<1>2. UDP!Zero \in Chars
  BY 0 \in Int DEF UDP!Zero, UDP!Value, Chars
<1> QED BY <1>1, <1>2 DEF UDP!NoText, Filled

(* The callback of readString() puts characters where they belong. *)
LEMMA CallbackFills ==
  ASSUME Filled(udpBuffer), NEW packet, packet \subseteq ReadRequests,
         UDP!StringCallback(packet)
  PROVE  Filled(udpBuffer')
<1>1. /\ udpBuffer \in Seq(Chars) /\ DOMAIN udpBuffer = 1..Len(udpBuffer)
      /\ Len(udpBuffer) \in Nat
  BY DEF Filled
<1>2. ASSUME NEW i \in DOMAIN udpBuffer
      PROVE  /\ udpBuffer'[i] \in Chars
             /\ udpBuffer'[i] = UDP!Zero \/ InPlace(udpBuffer'[i], i)
  <2> DEFINE chars == {p \in packet : p.idx = ReadOffset + i - 1}
  <2>1. udpBuffer'[i] = IF chars = {} THEN udpBuffer[i]
                        ELSE (CHOOSE p \in chars : TRUE).value
    BY DEF UDP!StringCallback
  <2>2. ASSUME NEW p \in chars
        PROVE  p.value \in Chars /\ InPlace(p.value, i)
    <3>1. /\ p \in ReadRequests /\ p.idx = ReadOffset + i - 1
          /\ i \in Int /\ 1 <= i /\ ReadOffset \in Int /\ 1 < ReadOffset
      BY <1>1, UDPAssumption DEF UDP!ClientConstants
    <3>2. p \notin UDP!Requests("version")
      <4>1. UDP!Requests("version") = {[idx |-> 1, value |-> UDP!Value("version", 0)]}
        BY Zenon DEF UDP!Requests, UDP!Strings
      <4> QED BY <3>1, <4>1
    <3>3. PICK o \in UDP!Strings : p \in UDP!Requests(o)
      BY <3>1, <3>2 DEF ReadRequests
    <3>4. o # "version"
      BY DEF UDP!Strings
    <3>5. PICK j \in 0..UDP!StringLength(o) - 1 :
            p = [idx |-> ReadOffset + j, value |-> UDP!Value(o, j)]
      BY <3>3, <3>4 DEF UDP!Requests
    <3>6. j \in Int
      OBVIOUS
    <3>7. j = i - 1
      BY <3>1, <3>5, <3>6
    <3> QED BY <3>5, <3>6, <3>7 DEF UDP!Value, Chars, InPlace
  <2>3. CASE chars = {}
    BY <1>1, <2>1, <2>3 DEF Filled
  <2>4. CASE chars # {}
    <3>1. (CHOOSE p \in chars : TRUE) \in chars
      BY <2>4
    <3> QED BY <2>1, <2>2, <2>4, <3>1
  <2> QED BY <2>3, <2>4
<1>3. udpBuffer' = [i \in 1..Len(udpBuffer) |-> udpBuffer'[i]]
  BY <1>1 DEF UDP!StringCallback
<1> QED BY <1>1, <1>2, <1>3 DEF Filled

(* What the caller does with a result. *)
LEMMA Returning ==
  ASSUME CharsInv, TextInv, NEW res \in {"SUCCESS", "TIMEOUT", "FAIL"},
         op \in {"version", "stream"} \cup UDP!Strings, UDP!Return(res), 
         UNCHANGED unnamed
  PROVE  /\ CharsInv' /\ TextInv'
         /\ op' \in {"version", "stream"} \cup UDP!Strings \cup UDP!Ended
         /\ op' \notin UDP!Ended =>
              result' = "SUCCESS" /\ at' \in {"open", "request"}
         /\ result' \in {res, "SUCCESS", "FAIL"}
         /\ op' = "done" => op = "stream" /\ result' = res
         /\ op' = "version" => at' # "release"
<1> DEFINE text == IF res = "SUCCESS" THEN UDP!Text(udpBuffer) ELSE << >>
<1>1. ASSUME op \in UDP!Strings
      PROVE  \A i \in DOMAIN text : InPlace(text[i], i)
  BY <1>1, TextInPlace DEF CharsInv
<1>2. ASSUME NEW o, UDP!Begin(o), o \in {"version", "stream"} \cup UDP!Strings
      PROVE  /\ CharsInv' /\ op' = o /\ result' = "SUCCESS" 
             /\ at' \in {"open", "request"}
  <2>1. /\ op' = o /\ udpBuffer' = UDP!NoText(o) /\ result' = "SUCCESS"
        /\ at' \in {"open", "request"}
    BY <1>2 DEF UDP!Begin
  <2>2. CASE o \in UDP!Strings
    BY <2>1, <2>2, NothingRead DEF CharsInv
  <2>3. CASE o \notin UDP!Strings
    BY <2>1, <2>3 DEF CharsInv
  <2> QED BY <2>1, <2>2, <2>3
<1>3. ASSUME NEW how \in UDP!Ended, NEW r, UDP!End(how, r)
      PROVE  CharsInv' /\ op' = how /\ result' = r
  BY <1>3 DEF UDP!End, CharsInv, UDP!Ended, UDP!Strings
<1> USE DEF UDP!Strings, UDP!Ended
<1>4. CASE op = "version"
  <2>1. UNCHANGED <<author, icao>>
    BY <1>4 DEF UDP!Return
  <2>2. \/ UDP!Begin("version") \/ UDP!End("failed", "FAIL") \/ UDP!Begin("studio")
    BY <1>4 DEF UDP!Return
  <2>3. TextInv'
    BY <2>1 DEF TextInv
  <2> HIDE DEF UDP!Strings, UDP!Ended
  <2>4. {"version", "studio"} \subseteq {"version", "stream"} \cup UDP!Strings
        /\ "failed" \in UDP!Ended /\ "version" \notin UDP!Ended /\ "studio" \notin UDP!Ended
    BY DEF UDP!Strings, UDP!Ended
  <2> QED BY <1>2, <1>3, <2>2, <2>3, <2>4
<1>5. CASE op = "studio"
  <2>1. /\ author' = text /\ UNCHANGED icao
        /\ UDP!Begin("author") \/ UDP!Begin("icao")
    BY <1>5 DEF UDP!Return
  <2>2. TextInv'
    BY <1>1, <1>5, <2>1 DEF TextInv
  <2> QED BY <1>2, <2>1, <2>2
<1>6. CASE op = "author"
  <2>1. author' = text /\ UNCHANGED icao /\ UDP!Begin("icao")
    BY <1>6 DEF UDP!Return
  <2>2. TextInv'
    BY <1>1, <1>6, <2>1 DEF TextInv
  <2> QED BY <1>2, <2>1, <2>2
<1>7. CASE op = "icao"
  <2>1. icao' = text /\ UNCHANGED author /\ UDP!Begin("stream")
    BY <1>7 DEF UDP!Return
  <2>2. TextInv'
    BY <1>1, <1>7, <2>1 DEF TextInv
  <2> QED BY <1>2, <2>1, <2>2
<1>8. CASE op = "stream"
  <2>1. UNCHANGED <<author, icao>> /\ UDP!End("done", res)
    BY <1>8 DEF UDP!Return
  <2>2. TextInv'
    BY <2>1 DEF TextInv
  <2> QED BY <1>3, <1>8, <2>1, <2>2
<1> QED BY <1>4, <1>5, <1>6, <1>7, <1>8

LEMMA Sending ==
  ASSUME NetworkInv, NEW freq,
         op \in {"version", "stream"} \cup UDP!Strings,
         UDP!SendRREF(UDP!Requests(op), freq), UNCHANGED <<arriving, updates>>
  PROVE  NetworkInv'
<1> DEFINE s == UDP!SocketOf(op)
<1>1. UDP!Requests(op) \subseteq Asked(s) /\ s \in UDP!Sockets
  BY DEF Asked, ReadRequests, UDP!SocketOf, UDP!Sockets
<1>2. PICK heard \in SUBSET UDP!Requests(op) : \E kept \in SUBSET udpSubscribed[s] :
        udpSubscribed' = [udpSubscribed EXCEPT ![s] =
                            kept \cup IF freq = 0 THEN {} ELSE heard]
  BY DEF UDP!SendRREF
<1>3. PICK kept \in SUBSET udpSubscribed[s] :
        udpSubscribed' = [udpSubscribed EXCEPT ![s] =
                            kept \cup IF freq = 0 THEN {} ELSE heard]
  BY <1>2
<1> QED BY <1>1, <1>3 DEF NetworkInv

LEMMA UDPStart == UDP!Init => UDPInv
BY DEF UDP!Init, UDPInv, NetworkInv, CharsInv, TextInv, FlowInv, UDP!Strings,
       UDP!Ended, UDP!Sockets

LEMMA UDPKeeps == UDPInv /\ [UDP!Next]_udpVars => UDPInv'
<1> SUFFICES ASSUME UDPInv, [UDP!Next]_udpVars PROVE UDPInv'
  OBVIOUS
<1>0. NetworkInv /\ CharsInv /\ TextInv /\ FlowInv
  BY DEF UDPInv
<1> USE DEF UDP!flow, UDP!network, UDP!details
<1>going. op \notin UDP!Ended => op \in {"version", "stream"} \cup UDP!Strings
  BY <1>0 DEF FlowInv
<1>1. CASE UDP!Open
  <2>1. op \notin UDP!Ended /\ at = "open" /\ UNCHANGED <<udpSubscribed, arriving, unnamed, updates>>
    BY <1>1 DEF UDP!Open
  <2>2. NetworkInv'
    BY <1>0, <2>1 DEF NetworkInv
  <2>3. CASE /\ at' = "request"
             /\ dataSocket' = IF op = "version" THEN "open" ELSE dataSocket
             /\ UNCHANGED <<op, result, udpBuffer, author, icao>>
    BY <1>0, <2>2, <2>3 DEF UDPInv, CharsInv, TextInv, FlowInv
  <2>4. CASE op = "version" /\ UDP!End("failed", "FAIL") /\ UNCHANGED <<dataSocket, author, icao>>
    BY <1>0, <2>2, <2>4 DEF UDPInv, CharsInv, TextInv, FlowInv, UDP!End, UDP!Ended, UDP!Strings
  <2>5. CASE op = "stream" /\ UDP!Return("FAIL") /\ UNCHANGED dataSocket
    <3>1. /\ CharsInv' /\ TextInv' /\ op' = "done" /\ result' = "FAIL"
      <4>1. UDP!End("done", "FAIL")
        BY <2>5 DEF UDP!Return
      <4>2. CharsInv' /\ TextInv'
        BY <1>0, <1>going, <2>1, <2>5, Returning
      <4> QED BY <4>1, <4>2 DEF UDP!End
    <3> QED BY <1>0, <2>2, <2>5, <3>1 DEF UDPInv, FlowInv, UDP!Ended
  <2> QED BY <1>1, <2>3, <2>4, <2>5 DEF UDP!Open
<1>2. CASE UDP!Request
  <2>1. /\ op \notin UDP!Ended /\ at = "request" /\ UNCHANGED <<dataSocket, arriving, unnamed, updates>>
        /\ UDP!SendRREF(UDP!Requests(op), 20)
    BY <1>2 DEF UDP!Request
  <2>2. NetworkInv'
    BY <1>0, <1>going, <2>1, Sending
  <2>3. CASE at' = "loop" /\ UNCHANGED <<op, result, udpBuffer, author, icao>>
    BY <1>0, <2>1, <2>2, <2>3 DEF UDPInv, CharsInv, TextInv, FlowInv
  <2>4. CASE UDP!Return("FAIL")
    <3>1. /\ CharsInv' /\ TextInv'
          /\ op' \in {"version", "stream"} \cup UDP!Strings \cup UDP!Ended
          /\ op' \notin UDP!Ended => at' \in {"open", "request"}
          /\ result' \in {"SUCCESS", "FAIL"}
          /\ op' = "done" => result' = "FAIL"
      BY <1>0, <1>going, <2>1, <2>4, Returning
    <3>2. dataSocket' # "none"
      BY <1>0, <2>1 DEF FlowInv, UDP!Ended
    <3> QED BY <1>0, <2>1, <2>2, <3>1, <3>2 DEF UDPInv, FlowInv, UDP!Ended
  <2> QED BY <1>2, <2>3, <2>4 DEF UDP!Request
<1>3. CASE UDP!Test
  <2>1. /\ at = "loop" /\ at' = IF UDP!Streaming THEN "receive" ELSE "release"
        /\ UNCHANGED <<op, result, dataSocket, udpSubscribed, arriving, udpBuffer, author, icao, updates>>
    BY <1>3 DEF UDP!Test
  <2>2. op = "stream" /\ at' = "release" => dataSocket = "closed"
    BY <1>0, <2>1 DEF UDP!Streaming, FlowInv
  <2> QED BY <1>0, <2>1, <2>2 DEF UDPInv, NetworkInv, CharsInv, TextInv, FlowInv
<1>4. CASE UDP!Receive
  <2> DEFINE s == UDP!SocketOf(op)
  <2>1. /\ op \notin UDP!Ended /\ at = "receive" /\ at' = "loop"
        /\ UNCHANGED <<op, result, dataSocket, udpSubscribed, author, icao>>
    BY <1>4 DEF UDP!Receive
  <2>2. PICK packet \in arriving[s] :
          /\ arriving' = [arriving EXCEPT ![s] = @ \ {packet}]
          /\ UDP!Callback(packet)
    BY <1>4 DEF UDP!Receive
  <2>3. s \in UDP!Sockets /\ packet \subseteq Asked(s)
    <3>1. s \in UDP!Sockets
      BY DEF UDP!SocketOf, UDP!Sockets
    <3> QED BY <1>0, <2>2, <3>1 DEF NetworkInv
  <2>4. updates' \subseteq UDP!Requests("stream")
    <3>1. CASE op = "stream"
      BY <2>2, <2>3, <3>1 DEF UDP!Callback, UDP!SocketOf, Asked, UDP!Strings
    <3>2. CASE op # "stream"
      BY <1>0, <1>going, <2>1, <2>2, <3>2 DEF UDP!Callback, NetworkInv
    <3> QED BY <3>1, <3>2
  <2>5. NetworkInv'
    BY <1>0, <2>1, <2>2, <2>3, <2>4 DEF NetworkInv
  <2>6. CharsInv'
    <3>1. CASE op \in UDP!Strings
      <4>1. UDP!StringCallback(packet) /\ packet \subseteq ReadRequests
        BY <2>2, <2>3, <3>1 DEF UDP!Callback, UDP!SocketOf, Asked, UDP!Strings
      <4> QED BY <1>0, <3>1, <4>1, CallbackFills DEF CharsInv
    <3>2. CASE op \notin UDP!Strings
      BY <2>1, <3>2 DEF CharsInv
    <3> QED BY <3>1, <3>2
  <2>7. TextInv' /\ FlowInv'
    BY <1>0, <2>1 DEF TextInv, FlowInv
  <2> QED BY <2>5, <2>6, <2>7 DEF UDPInv
<1>5. CASE UDP!NoPacket
  <2>1. /\ at = "receive" /\ at' = "release" /\ result' \in {"TIMEOUT", "FAIL"}
        /\ op \notin UDP!Ended
        /\ UNCHANGED <<op, dataSocket, udpSubscribed, arriving, udpBuffer, author, icao, updates>>
    BY <1>5 DEF UDP!NoPacket
  <2> QED BY <1>0, <2>1 DEF UDPInv, NetworkInv, CharsInv, TextInv, FlowInv, UDP!Ended
<1>6. CASE UDP!Release
  <2>1. /\ op \notin UDP!Ended /\ at = "release" /\ UNCHANGED <<dataSocket, arriving, unnamed, updates>>
        /\ UDP!SendRREF(UDP!Requests(op), 0) /\ UDP!Return(result)
    BY <1>6 DEF UDP!Release
  <2>2. NetworkInv'
    BY <1>0, <1>going, <2>1, Sending
  <2>3. result \in {"SUCCESS", "TIMEOUT", "FAIL"}
    BY <1>0 DEF FlowInv
  <2>4. /\ CharsInv' /\ TextInv'
        /\ op' \in {"version", "stream"} \cup UDP!Strings \cup UDP!Ended
        /\ op' \notin UDP!Ended => at' \in {"open", "request"}
        /\ result' \in {result, "SUCCESS", "FAIL"}
        /\ op' = "done" => op = "stream" /\ result' = result
    BY <1>0, <1>going, <2>1, <2>3, Returning
  <2>5. dataSocket' # "none"
    BY <1>0, <2>1 DEF FlowInv, UDP!Ended
  <2> QED BY <1>0, <2>1, <2>2, <2>3, <2>4, <2>5 DEF UDPInv, FlowInv, UDP!Ended
<1>7. CASE UDP!Send
  <2>1. PICK s \in UDP!Sockets : \E packet \in SUBSET udpSubscribed[s] :
          arriving' = [arriving EXCEPT ![s] = @ \cup {packet}]
    BY <1>7 DEF UDP!Send
  <2>2. UNCHANGED <<op, at, result, dataSocket, udpSubscribed, udpBuffer, author, icao, updates>>
    BY <1>7 DEF UDP!Send
  <2>3. NetworkInv'
    BY <1>0, <2>1, <2>2 DEF NetworkInv
  <2> QED BY <1>0, <2>2, <2>3 DEF UDPInv, CharsInv, TextInv, FlowInv
<1>8. CASE UDP!Lose
  <2>1. PICK s \in UDP!Sockets : \E packet \in arriving[s] :
          arriving' = [arriving EXCEPT ![s] = @ \ {packet}]
    BY <1>8 DEF UDP!Lose
  <2>2. UNCHANGED <<op, at, result, dataSocket, udpSubscribed, udpBuffer, author, icao, updates>>
    BY <1>8 DEF UDP!Lose
  <2>3. NetworkInv'
    BY <1>0, <2>1, <2>2 DEF NetworkInv
  <2> QED BY <1>0, <2>2, <2>3 DEF UDPInv, CharsInv, TextInv, FlowInv
<1>9. CASE UDP!Disconnect
  BY <1>0, <1>9 DEF UDP!Disconnect, UDPInv, NetworkInv, CharsInv, TextInv, FlowInv
<1>10. CASE UNCHANGED udpVars
  BY <1>0, <1>10 DEF udpVars, UDPInv, NetworkInv, CharsInv, TextInv, FlowInv
<1> QED BY <1>1, <1>2, <1>3, <1>4, <1>5, <1>6, <1>7, <1>8, <1>9, <1>10
    DEF UDP!Next, UDP!Client

LEMMA UDPProjection == [MCNext]_everything => [UDP!Next]_udpVars
<1>1. UDPNext => UDP!Next
  BY Zenon DEF UDPNext, UDPStep
<1>2. WebSocketNext \/ UNCHANGED everything => UNCHANGED udpVars
  BY DEF WebSocketNext, WebSocketStep, everything
<1> QED BY <1>1, <1>2 DEF MCNext

LEMMA UDPInvariance == MCSpec => []UDPInv
<1>1. MCInit => UDPInv
  BY UDPStart DEF MCInit
<1>2. UDPInv /\ [MCNext]_everything => UDPInv'
  BY UDPKeeps, UDPProjection
<1> QED BY <1>1, <1>2, PTL DEF MCSpec

(* Whatever UDP loses, delays or reorders, update() is only given values of *)
(* the mapping, a text is read from characters of a string at their places, *)
(* and the stream reports success only when it was disconnected.            *)
THEOREM AnswersKeptApart == MCSpec => []AnswersReachTheirRequests
<1>1. UDPInv => AnswersReachTheirRequests
  BY DEF UDPInv, NetworkInv, TextInv, FlowInv, InPlace, AnswersReachTheirRequests,
         UDP!UpdatesAreOfTheMapping, UDP!TextIsNotGarbled, UDP!SuccessIsStopped
<1> QED BY <1>1, UDPInvariance, PTL
=============================================================================
