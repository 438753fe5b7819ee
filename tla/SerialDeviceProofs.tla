-------------------------- MODULE SerialDeviceProofs --------------------------
(***************************************************************************)
(* Proofs about SerialDevice, for any definition files, switches, values,   *)
(* tries and tokens: the types, that the bytes of the panel are read once   *)
(* (ReadOnce), that a port has one reader (OneReader), and that the commands *)
(* sent are those of the changes among the inputs (CommandsAreChanges).     *)
(***************************************************************************)
EXTENDS SerialDevice, SequenceTheorems, WellFoundedInduction, TLAPS

(* A scan goes on while the port has no device, and tries no more lines     *)
(* than detect() reads.                                                     *)
ScanInv ==
  scan # None => device = None /\ attempt < MaxAttempts

(* The history of the port is one of tokens. *)
HistoryOK ==
  delivered \in Seq(Tokens) /\ lines \in Seq(Tokens) /\ detected \in Nat

IInv == TypeOK /\ HistoryOK /\ ScanInv /\ ReadOnce /\ OneReader

-----------------------------------------------------------------------------
(* Bytes that hold a line hold a first one.                                 *)

LEMMA LineFits ==
  ASSUME NEW bytes \in Seq(Tokens), HasLine(bytes)
  PROVE  LineLength(bytes) \in 1..Len(bytes)
<1> DEFINE Ends == {i \in DOMAIN bytes : EndsLine(bytes[i])}
<1>1. Ends \subseteq Nat /\ Ends # {}
  BY DEF HasLine
<1>2. \E x \in Ends : \A y \in Ends : <<y, x>> \notin OpToRel(<, Nat)
  <2> HIDE DEF Ends
  <2> QED BY <1>1, WFMin, NatLessThanWellFounded
<1>3. PICK x \in Ends : \A y \in Ends : <<y, x>> \notin OpToRel(<, Nat)
  BY <1>2
<1>4. \A y \in Ends : ~(y < x)
  BY <1>1, <1>3 DEF OpToRel
<1>5. \A j \in 1..x - 1 : ~EndsLine(bytes[j])
  BY <1>1, <1>4
<1>6. x \in DOMAIN bytes /\ EndsLine(bytes[x])
  OBVIOUS
<1>7. LineLength(bytes) \in DOMAIN bytes
  BY <1>5, <1>6 DEF LineLength
<1> QED BY <1>7

(* Cutting a line off loses nothing. *)
LEMMA CutAndKeep ==
  ASSUME NEW bytes \in Seq(Tokens), NEW n \in 1..Len(bytes)
  PROVE  /\ SubSeq(bytes, 1, n) \in Seq(Tokens)
         /\ SubSeq(bytes, n + 1, Len(bytes)) \in Seq(Tokens)
         /\ SubSeq(bytes, 1, n) \o SubSeq(bytes, n + 1, Len(bytes)) = bytes
<1> DEFINE first == SubSeq(bytes, 1, n)
           rest  == SubSeq(bytes, n + 1, Len(bytes))
<1>1. Len(bytes) \in Nat /\ n \in Nat /\ n <= Len(bytes)
  OBVIOUS
<1>2. first \in Seq(Tokens) /\ Len(first) = n /\ \A i \in 1..n : first[i] = bytes[i]
  BY <1>1
<1>3. /\ rest \in Seq(Tokens) /\ Len(rest) = Len(bytes) - n
      /\ \A i \in 1..Len(bytes) - n : rest[i] = bytes[n + i]
  BY <1>1
<1> HIDE DEF first, rest
<1>a. /\ first \o rest \in Seq(Tokens)
      /\ Len(first \o rest) = Len(first) + Len(rest)
      /\ \A i \in 1..Len(first) + Len(rest) :
           (first \o rest)[i] = IF i <= Len(first) THEN first[i] ELSE rest[i - Len(first)]
  BY <1>2, <1>3, ConcatProperties
<1>4. first \o rest \in Seq(Tokens) /\ Len(first \o rest) = Len(bytes)
  BY <1>1, <1>2, <1>3, <1>a
<1>5. \A i \in 1..Len(bytes) : (first \o rest)[i] = bytes[i]
  <2> SUFFICES ASSUME NEW i \in 1..Len(bytes) PROVE (first \o rest)[i] = bytes[i]
    OBVIOUS
  <2>1. i \in 1..Len(first) + Len(rest)
    BY <1>1, <1>2, <1>3
  <2>2. CASE i <= n
    <3>1. (first \o rest)[i] = first[i]
      BY <1>1, <1>2, <1>a, <2>1, <2>2
    <3>2. i \in 1..n
      BY <1>1, <2>2
    <3> QED BY <1>2, <3>1, <3>2
  <2>3. CASE ~(i <= n)
    <3>1. (first \o rest)[i] = rest[i - n]
      BY <1>1, <1>2, <1>a, <2>1, <2>3
    <3>2. i - n \in 1..Len(bytes) - n /\ n + (i - n) = i
      BY <1>1, <2>3
    <3>3. rest[i - n] = bytes[n + (i - n)]
      BY <1>3, <3>2
    <3> QED BY <3>1, <3>2, <3>3
  <2> QED BY <2>2, <2>3
<1>6. first \o rest = bytes
  BY <1>4, <1>5, SeqEqual
<1> QED BY <1>2, <1>3, <1>6 DEF first, rest

(* What a token names. *)
LEMMA TokenKinds ==
  ASSUME NEW t \in Tokens
  PROVE  /\ t.kind = "switch" => t.of \in Names
         /\ t.kind = "state" => t.of \in Positions
<1>1. CASE t \in {Hello(d) : d \in Definitions}
  <2>1. t.kind = "hello"
    BY <1>1 DEF Hello
  <2> QED BY <2>1
<1>2. CASE t \in {Switch(n) : n \in Names}
  <2>1. t.kind = "switch" /\ t.of \in Names
    BY <1>2 DEF Switch
  <2> QED BY <2>1
<1>3. CASE t \in {State(v) : v \in Positions}
  <2>1. t.kind = "state" /\ t.of \in Positions
    BY <1>3 DEF State
  <2> QED BY <2>1
<1> QED BY <1>1, <1>2, <1>3 DEF Tokens

LEMMA ConcatAssociates ==
  \A a, b, c \in Seq(Tokens) : (a \o b) \o c = a \o (b \o c)
BY ConcatAssociative

(* readLine() keeps what it reads and returns what it cuts off. *)
LEMMA ReadLineStep ==
  ASSUME TypeOK, HistoryOK, ReadOnce, NEW d, ReadLine(d)
  PROVE  /\ buffer' \in Seq(Tokens) /\ port' \in Seq(Tokens)
         /\ delivered' \in Seq(Tokens) /\ lines' \in Seq(Tokens)
         /\ ReadOnce'
         /\ Line(d) \in Seq(Tokens)
<1> DEFINE read  == IF IsOpen(d) /\ Plugged THEN port ELSE << >>
           bytes == buffer \o read
<1>1. /\ buffer \in Seq(Tokens) /\ port \in Seq(Tokens) /\ << >> \in Seq(Tokens)
      /\ delivered \in Seq(Tokens) /\ lines \in Seq(Tokens)
  BY DEF TypeOK, HistoryOK
<1>2. read \in Seq(Tokens)
  BY <1>1
<1>3. /\ port' = IF read = << >> THEN port ELSE << >>
      /\ delivered' = delivered \o read
      /\ IF IsOpen(d) /\ HasLine(bytes) THEN Consumed(bytes)
         ELSE buffer' = bytes /\ UNCHANGED lines
  BY DEF ReadLine
<1>4. Line(d) \in Seq(Tokens)
  <2> DEFINE seen == IF Plugged THEN buffer \o port ELSE buffer
  <2>1. seen \in Seq(Tokens)
    BY <1>1
  <2>2. Line(d) = IF IsOpen(d) /\ HasLine(seen) THEN SubSeq(seen, 1, LineLength(seen))
                  ELSE << >>
    BY DEF Line
  <2> HIDE DEF seen
  <2>3. HasLine(seen) => SubSeq(seen, 1, LineLength(seen)) \in Seq(Tokens)
    BY <2>1, LineFits, CutAndKeep
  <2> QED BY <1>1, <2>2, <2>3
<1> HIDE DEF read
<1>5. /\ bytes \in Seq(Tokens) /\ delivered' \in Seq(Tokens) /\ port' \in Seq(Tokens)
      /\ delivered' = lines \o bytes
  <2>1. delivered' = (lines \o buffer) \o read
    BY <1>3 DEF ReadOnce
  <2>2. bytes \in Seq(Tokens) /\ delivered' \in Seq(Tokens)
    BY <1>1, <1>2, <1>3
  <2>3. port' \in Seq(Tokens)
    BY <1>1, <1>3
  <2>4. (lines \o buffer) \o read = lines \o (buffer \o read)
    BY <1>1, <1>2, ConcatAssociates
  <2> QED BY <2>1, <2>2, <2>3, <2>4
<1> HIDE DEF bytes
<1>6. CASE IsOpen(d) /\ HasLine(bytes)
  <2> DEFINE n == LineLength(bytes)
  <2>1. n \in 1..Len(bytes)
    BY <1>5, <1>6, LineFits
  <2>2. /\ buffer' = SubSeq(bytes, n + 1, Len(bytes))
        /\ lines' = lines \o SubSeq(bytes, 1, n)
    BY <1>3, <1>6 DEF Consumed
  <2> HIDE DEF n
  <2>3. /\ SubSeq(bytes, 1, n) \in Seq(Tokens) /\ buffer' \in Seq(Tokens)
        /\ SubSeq(bytes, 1, n) \o buffer' = bytes
    BY <1>5, <2>1, <2>2, CutAndKeep
  <2>4. lines' \in Seq(Tokens)
    BY <1>1, <2>2, <2>3
  <2>5. (lines \o SubSeq(bytes, 1, n)) \o buffer' = lines \o (SubSeq(bytes, 1, n) \o buffer')
    BY <1>1, <2>3, ConcatAssociates
  <2> QED BY <1>4, <1>5, <2>2, <2>3, <2>4, <2>5 DEF ReadOnce
<1>7. CASE ~(IsOpen(d) /\ HasLine(bytes))
  BY <1>1, <1>3, <1>4, <1>5, <1>7 DEF ReadOnce
<1> QED BY <1>6, <1>7

-----------------------------------------------------------------------------
LEMMA InvInit == Init => IInv
<1> SUFFICES ASSUME Init PROVE IInv
  OBVIOUS
<1> USE SerialAssumption
<1>1. << >> \in Seq(Tokens) /\ << >> \in Seq(Matches) /\ << >> = << >> \o << >>
  OBVIOUS
<1>2. TypeOK /\ HistoryOK /\ ReadOnce
  BY <1>1 DEF Init, TypeOK, HistoryOK, ReadOnce
<1>3. ScanInv /\ OneReader
  BY DEF Init, ScanInv, OneReader, IsOpen
<1> QED BY <1>2, <1>3 DEF IInv

(* Where a port is closed, or opened for the scan, it has one reader still. *)
LEMMA CloseStep ==
  ASSUME IInv, NEW d \in Definitions, Close(d)
  PROVE  /\ fd' \in [Definitions -> {"none", "open", "closed"}]
         /\ \A e \in Definitions : IsOpen(e)' => IsOpen(e) /\ e # d
<1>1. fd \in [Definitions -> {"none", "open", "closed"}]
  BY DEF IInv, TypeOK
<1> QED BY <1>1 DEF Close, IsOpen

LEMMA DetectStep == IInv /\ Detect => IInv'
<1> SUFFICES ASSUME IInv, Detect PROVE IInv'
  OBVIOUS
<1> USE SerialAssumption
<1>1. TypeOK /\ HistoryOK /\ ReadOnce /\ scan \in Definitions /\ device = None
  BY DEF IInv, Detect, ScanInv, TypeOK
<1>2. /\ buffer' \in Seq(Tokens) /\ port' \in Seq(Tokens)
      /\ delivered' \in Seq(Tokens) /\ lines' \in Seq(Tokens)
      /\ ReadOnce'
  BY <1>1, ReadLineStep DEF Detect
<1>3. attempt' = attempt + 1 /\ attempt \in Nat /\ attempt < MaxAttempts
  BY <1>1 DEF Detect, IInv, ScanInv, TypeOK
<1>4. UNCHANGED <<todo, threadVars, running, panelVars>> /\ detected' = Len(lines')
  BY DEF Detect
<1>5. \/ Accept
      \/ attempt' = MaxAttempts /\ Reject /\ UNCHANGED device
      \/ attempt' # MaxAttempts /\ UNCHANGED <<scan, fd, device>>
  BY DEF Detect
<1>6. HistoryOK'
  BY <1>2, <1>4 DEF HistoryOK
<1>7. CASE Accept
  <2>1. scan' = None /\ device' = scan /\ fd' = fd
    BY <1>7 DEF Accept
  <2>2. TypeOK'
    BY <1>1, <1>2, <1>3, <1>4, <2>1 DEF TypeOK, threadVars, panelVars
  <2>3. ScanInv' /\ OneReader'
    BY <1>1, <2>1 DEF ScanInv, OneReader, IInv, IsOpen
  <2> QED BY <1>2, <1>6, <2>2, <2>3 DEF IInv
<1>8. CASE attempt' = MaxAttempts /\ Reject /\ UNCHANGED device
  <2>1. scan' = None /\ Close(scan) /\ device' = device
    BY <1>8 DEF Reject
  <2>2. /\ fd' \in [Definitions -> {"none", "open", "closed"}]
        /\ \A e \in Definitions : IsOpen(e)' => IsOpen(e) /\ e # scan
    BY <1>1, <2>1, CloseStep
  <2>3. TypeOK'
    BY <1>1, <1>2, <1>3, <1>4, <2>1, <2>2 DEF TypeOK, threadVars, panelVars
  <2>4. ScanInv' /\ OneReader'
    BY <1>1, <2>1, <2>2 DEF ScanInv, OneReader, IInv
  <2> QED BY <1>2, <1>6, <2>3, <2>4 DEF IInv
<1>9. CASE attempt' # MaxAttempts /\ UNCHANGED <<scan, fd, device>>
  <2>1. TypeOK'
    BY <1>1, <1>2, <1>3, <1>4, <1>9 DEF TypeOK, threadVars, panelVars
  <2>2. ScanInv' /\ OneReader'
    BY <1>1, <1>3, <1>9 DEF ScanInv, OneReader, IInv, IsOpen
  <2> QED BY <1>2, <1>6, <2>1, <2>2 DEF IInv
<1> QED BY <1>5, <1>7, <1>8, <1>9

(* An input names a switch and a value of its. *)
LEMMA ReadStep == IInv /\ Read => IInv'
<1> SUFFICES ASSUME IInv, Read PROVE IInv'
  OBVIOUS
<1>1. TypeOK /\ HistoryOK /\ ReadOnce
  BY DEF IInv
<1>2. /\ buffer' \in Seq(Tokens) /\ port' \in Seq(Tokens)
      /\ delivered' \in Seq(Tokens) /\ lines' \in Seq(Tokens)
      /\ ReadOnce' /\ Line(device) \in Seq(Tokens)
  BY <1>1, ReadLineStep DEF Read
<1>3. UNCHANGED <<fd, scanVars, device, running, panelVars, detected>> /\ at' = "available"
  BY DEF Read, restVars
<1>4. /\ values' \in [Names -> Positions \cup {None}]
      /\ commands' \in Seq(Matches)
  <2> DEFINE line == Line(device)
  <2>0. values \in [Names -> Positions \cup {None}] /\ commands \in Seq(Matches)
    BY <1>1 DEF TypeOK
  <2>1. CASE IsInput(line)
    <3>1. PICK name, value : name = line[Len(line) - 1].of /\ value = Last(line).of
      OBVIOUS
    <3>2. HandleInput(name, value)
      BY <2>1, <3>1 DEF Read
    <3>3. /\ Len(line) \in Nat /\ Len(line) >= 2
          /\ line[Len(line) - 1] \in Tokens /\ line[Len(line)] \in Tokens
          /\ line[Len(line) - 1].kind = "switch" /\ line[Len(line)].kind = "state"
      BY <1>2, <2>1 DEF IsInput
    <3>4. name \in Names
      BY <3>1, <3>3, TokenKinds
    <3>5. value \in Positions
      BY <3>1, <3>3, TokenKinds DEF Last
    <3>6. values' \in [Names -> Positions \cup {None}]
      BY <2>0, <3>2, <3>5 DEF HandleInput
    <3>7. commands' \in Seq(Matches)
      <4>1. CASE <<name, value>> \in Matches /\ values[name] # value
        BY <2>0, <3>2, <4>1 DEF HandleInput
      <4>2. CASE ~(<<name, value>> \in Matches /\ values[name] # value)
        BY <2>0, <3>2, <4>2 DEF HandleInput
      <4> QED BY <4>1, <4>2
    <3> QED BY <3>6, <3>7
  <2>2. CASE ~IsInput(line)
    BY <2>0, <2>2 DEF Read
  <2> QED BY <2>1, <2>2
<1>5. TypeOK'
  BY <1>1, <1>2, <1>3, <1>4 DEF TypeOK, scanVars, panelVars
<1>6. HistoryOK' /\ ScanInv' /\ OneReader'
  BY <1>1, <1>2, <1>3 DEF IInv, HistoryOK, ScanInv, OneReader, IsOpen, scanVars
<1> QED BY <1>2, <1>5, <1>6 DEF IInv

(* The panel's tokens arrive. *)
LEMMA SendStep == IInv /\ Send => IInv'
<1> SUFFICES ASSUME IInv, Send PROVE IInv'
  OBVIOUS
<1> USE SerialAssumption
<1>1. /\ UNCHANGED <<fd, buffer, scanVars, device, threadVars, running, panel,
                    historyVars>>
      /\ sent < MaxTokens /\ sent' = sent + 1 /\ panel # None
  BY DEF Send, Plugged
<1>2. TypeOK
  BY DEF IInv
<1>3. port' \in Seq(Tokens) /\ half' \in Names \cup {None}
  <2>1. port \in Seq(Tokens) /\ half \in Names \cup {None} /\ panel \in Definitions
    BY <1>1, <1>2 DEF TypeOK
  <2>2. CASE port' = Append(port, Hello(panel)) /\ UNCHANGED half
    <3>1. Hello(panel) \in Tokens
      BY <2>1 DEF Tokens
    <3> QED BY <2>1, <2>2, <3>1
  <2>3. CASE \E n \in Names : port' = Append(port, Switch(n)) /\ half' = n
    <3>1. \A n \in Names : Switch(n) \in Tokens
      BY DEF Tokens
    <3> QED BY <2>1, <2>3, <3>1
  <2>4. CASE \E v \in Positions : port' = Append(port, State(v)) /\ half' = None
    <3>1. \A v \in Positions : State(v) \in Tokens
      BY DEF Tokens
    <3> QED BY <2>1, <2>4, <3>1
  <2> QED BY <2>2, <2>3, <2>4 DEF Send
<1>4. TypeOK'
  BY <1>1, <1>2, <1>3 DEF TypeOK, scanVars, threadVars
<1>5. HistoryOK' /\ ScanInv' /\ ReadOnce' /\ OneReader'
  BY <1>1 DEF IInv, HistoryOK, ScanInv, ReadOnce, OneReader, IsOpen, scanVars, historyVars
<1> QED BY <1>4, <1>5 DEF IInv

(* Every step keeps the inductive invariant. *)
LEMMA InvStep == IInv /\ [Next]_vars => IInv'
<1> SUFFICES ASSUME IInv, [Next]_vars PROVE IInv'
  OBVIOUS
<1> USE SerialAssumption DEF scanVars, threadVars, panelVars, historyVars
<1>typed. TypeOK /\ HistoryOK
  BY DEF IInv
<1>1. CASE Scan
  BY <1>1 DEF Scan, IInv, TypeOK, HistoryOK, ScanInv, ReadOnce, OneReader, IsOpen
<1>2. CASE SkipDevice
  BY <1>2 DEF SkipDevice, IInv, TypeOK, HistoryOK, ScanInv, ReadOnce, OneReader, IsOpen
<1>3. CASE CheckDevice
  <2>1. PICK d \in todo :
          /\ CanCheck(d) /\ scan' = d /\ todo' = todo \ {d}
          /\ fd' \in {[fd EXCEPT ![d] = "open"], [fd EXCEPT ![d] = "none"]}
    BY <1>3 DEF CheckDevice
  <2>2. /\ scan = None /\ attempt' = 0 /\ device = None
        /\ buffer' = << >> /\ delivered' = << >> /\ lines' = << >> /\ detected' = 0
        /\ UNCHANGED <<device, at, values, commands, running, port, half, panel, sent>>
    BY <1>3, <2>1 DEF CheckDevice, CanCheck
  <2>3. d \in Definitions /\ fd \in [Definitions -> {"none", "open", "closed"}]
    BY <1>typed DEF TypeOK
  <2>4. << >> \in Seq(Tokens) /\ << >> = << >> \o << >>
    OBVIOUS
  <2>5. TypeOK'
    <3>1. fd' \in [Definitions -> {"none", "open", "closed"}]
      BY <2>1, <2>3
    <3>2. port \in Seq(Tokens) /\ commands \in Seq(Matches)
      BY <1>typed DEF TypeOK
    <3>3. buffer' \in Seq(Tokens)
      BY <2>2, <2>4
    <3> QED BY <1>typed, <2>1, <2>2, <2>3, <3>1, <3>2, <3>3 DEF TypeOK
  <2>8. HistoryOK' /\ ReadOnce'
    BY <2>2, <2>4 DEF HistoryOK, ReadOnce
  <2>6. \A e \in Definitions : IsOpen(e)' => e = d
    BY <2>1, <2>2, <2>3 DEF IInv, OneReader, IsOpen
  <2>7. ScanInv' /\ OneReader'
    BY <2>1, <2>2, <2>6 DEF ScanInv, OneReader
  <2> QED BY <2>5, <2>7, <2>8 DEF IInv
<1>4. CASE Detect
  BY <1>4, DetectStep
<1>5. CASE Read
  BY <1>5, ReadStep
<1>6. CASE Wake \/ Test \/ Output \/ Finish
  <2>1. /\ UNCHANGED <<fd, buffer, scan, todo, attempt, device, values, commands,
                       running, half, panel, sent, delivered, lines, detected>>
        /\ at' \in {"pause", "available", "read", "output", "ended"}
    BY <1>6 DEF Wake, Test, Output, Finish, restVars
  <2>2. port' = port \/ port' = << >>
    BY <1>6 DEF Wake, Test, Output, Finish
  <2>3. port' \in Seq(Tokens)
    <3>1. port \in Seq(Tokens) /\ << >> \in Seq(Tokens)
      BY <1>typed DEF TypeOK
    <3> QED BY <2>2, <3>1
  <2> QED BY <2>1, <2>3 DEF IInv, TypeOK, HistoryOK, ScanInv, ReadOnce, OneReader, IsOpen
<1>7. CASE Send
  BY <1>7, SendStep
<1>8. CASE Unplug
  <2>1. << >> \in Seq(Tokens)
    OBVIOUS
  <2> QED BY <1>8, <2>1 DEF Unplug, IInv, TypeOK, HistoryOK, ScanInv, ReadOnce,
            OneReader, IsOpen
<1>9. CASE CloseDevice
  <2>1. device \in Definitions /\ Close(device)
    BY <1>9, <1>typed DEF CloseDevice, TypeOK
  <2>2. /\ fd' \in [Definitions -> {"none", "open", "closed"}]
        /\ \A e \in Definitions : IsOpen(e)' => IsOpen(e) /\ e # device
    BY <2>1, CloseStep
  <2>3. UNCHANGED <<buffer, scan, todo, attempt, device, at, values, commands, running,
                    port, half, panel, sent, delivered, lines, detected>>
    BY <1>9 DEF CloseDevice
  <2> QED BY <2>2, <2>3 DEF IInv, TypeOK, HistoryOK, ScanInv, ReadOnce, OneReader
<1>10. CASE ClearRunning
  BY <1>10 DEF ClearRunning, IInv, TypeOK, HistoryOK, ScanInv, ReadOnce, OneReader, IsOpen
<1>11. CASE UNCHANGED vars
  BY <1>11 DEF vars, IInv, TypeOK, HistoryOK, ScanInv, ReadOnce, OneReader, IsOpen
<1> QED BY <1>1, <1>2, <1>3, <1>4, <1>5, <1>6, <1>7, <1>8, <1>9, <1>10, <1>11
      DEF Next, Scanning, DeviceThread

(* The inductive invariant holds in every reachable state. *)
THEOREM Invariance == Spec => []IInv
<1>1. Init => IInv
  BY InvInit
<1>2. IInv /\ [Next]_vars => IInv'
  BY InvStep
<1> QED BY <1>1, <1>2, PTL DEF Spec

(* Every variable stays in its domain. *)
THEOREM TypeCorrect == Spec => []TypeOK
<1>1. IInv => TypeOK
  BY DEF IInv
<1> QED BY <1>1, Invariance, PTL

(* SerialPort::readLine() returns every byte it has read once and in order, *)
(* or has it in m_buffer, however the bytes are cut into reads.             *)
THEOREM EachByteOnce == Spec => []ReadOnce
<1>1. IInv => ReadOnce
  BY DEF IInv
<1> QED BY <1>1, Invariance, PTL

(* SerialConfigManager opens a port for nobody but the definition that is   *)
(* being detected, and for that one only while the port has no device.      *)
THEOREM PortHasOneReader == Spec => []OneReader
<1>1. IInv => OneReader
  BY DEF IInv
<1> QED BY <1>1, Invariance, PTL

-----------------------------------------------------------------------------
(* Commands and changes.  Without a device no line has been update()'s.     *)
ThreadInv ==
  /\ device = None =>
       /\ at \in {"pause", "ended"} /\ commands = << >>
       /\ values = [n \in Names |-> None] /\ detected = Len(lines)
  /\ detected <= Len(lines)
  /\ Len(lines) > 0 => EndsLine(lines[Len(lines)])

(* m_values holds the value of the last input that was read of a switch.    *)
IsLatest(i, n) ==
  /\ i \in Inputs(lines) /\ lines[i - 1] = Switch(n) /\ lines[i] = State(values[n])
  /\ \A k \in Inputs(lines) : i < k => lines[k - 1] # Switch(n)

ValuesInv ==
  \A n \in Names :
    \/ values[n] = None /\ \A i \in Inputs(lines) : lines[i - 1] # Switch(n)
    \/ values[n] # None /\ \E i \in Inputs(lines) : IsLatest(i, n)

SentInv == ThreadInv /\ ValuesInv /\ CommandsAreChanges

(* A line: its last token ends it, and no other. *)
OneLine(line) ==
  /\ line \in Seq(Tokens) /\ Len(line) > 0 /\ EndsLine(line[Len(line)])
  /\ \A j \in 1..Len(line) - 1 : ~EndsLine(line[j])

LEMMA FirstLine ==
  ASSUME NEW bytes \in Seq(Tokens), HasLine(bytes)
  PROVE  OneLine(SubSeq(bytes, 1, LineLength(bytes)))
<1> DEFINE n == LineLength(bytes)
           P(i) == /\ i \in DOMAIN bytes /\ EndsLine(bytes[i])
                   /\ \A j \in 1..i - 1 : ~EndsLine(bytes[j])
<1>1. n \in 1..Len(bytes)
  BY LineFits
<1>2. \E i : P(i)
  <2> DEFINE Ends == {i \in DOMAIN bytes : EndsLine(bytes[i])}
  <2>1. Ends \subseteq Nat /\ Ends # {}
    BY DEF HasLine
  <2>2. \E x \in Ends : \A y \in Ends : <<y, x>> \notin OpToRel(<, Nat)
    <3> HIDE DEF Ends
    <3> QED BY <2>1, WFMin, NatLessThanWellFounded
  <2>3. PICK x \in Ends : \A y \in Ends : <<y, x>> \notin OpToRel(<, Nat)
    BY <2>2
  <2>4. \A y \in Ends : ~(y < x)
    BY <2>1, <2>3 DEF OpToRel
  <2>5. \A j \in 1..x - 1 : ~EndsLine(bytes[j])
    BY <2>1, <2>4
  <2> QED BY <2>5
<1>3. n = CHOOSE i \in DOMAIN bytes :
            EndsLine(bytes[i]) /\ \A j \in 1..i - 1 : ~EndsLine(bytes[j])
  BY DEF LineLength
<1>4. P(n)
  BY <1>2, <1>3
<1> HIDE DEF n
<1>5. /\ SubSeq(bytes, 1, n) \in Seq(Tokens) /\ Len(SubSeq(bytes, 1, n)) = n
      /\ \A i \in 1..n : SubSeq(bytes, 1, n)[i] = bytes[i]
  BY <1>1
<1> QED BY <1>1, <1>4, <1>5 DEF OneLine, n

(* What readLine() returns is the next line. *)
LEMMA ReadsOneLine ==
  ASSUME TypeOK, HistoryOK, NEW d, ReadLine(d)
  PROVE  \/ Line(d) = << >> /\ lines' = lines
         \/ OneLine(Line(d)) /\ lines' = lines \o Line(d)
<1> DEFINE bytes == buffer \o IF IsOpen(d) /\ Plugged THEN port ELSE << >>
<1>1. buffer \in Seq(Tokens) /\ port \in Seq(Tokens) /\ bytes \in Seq(Tokens)
  BY DEF TypeOK
<1>2. CASE IsOpen(d) /\ HasLine(bytes)
  <2>1. buffer \o << >> = buffer
    BY <1>1
  <2>2. (IF Plugged THEN buffer \o port ELSE buffer) = bytes
    BY <1>2, <2>1
  <2>3. Line(d) = SubSeq(bytes, 1, LineLength(bytes))
    BY <1>2, <2>2, Zenon DEF Line
  <2>4. lines' = lines \o SubSeq(bytes, 1, LineLength(bytes))
    BY <1>2 DEF ReadLine, Consumed
  <2> QED BY <1>1, <1>2, <2>3, <2>4, FirstLine
<1>3. CASE ~(IsOpen(d) /\ HasLine(bytes))
  <2>1. lines' = lines
    BY <1>3 DEF ReadLine
  <2>2. buffer \o << >> = buffer
    BY <1>1
  <2>3. IsOpen(d) => (IF Plugged THEN buffer \o port ELSE buffer) = bytes
    BY <2>2
  <2>4. Line(d) = << >>
    BY <1>3, <2>3, Zenon DEF Line
  <2> QED BY <2>1, <2>4
<1> QED BY <1>2, <1>3

(* A line adds at most one input, at its end. *)
Grown(old, line, new) ==
  /\ new \in Seq(Tokens) /\ Len(new) = Len(old) + Len(line)
  /\ Len(old) \in Nat /\ Len(line) \in Nat /\ Len(line) > 0
  /\ \A i \in 1..Len(old) : new[i] = old[i]
  /\ \A i \in 1..Len(line) : new[Len(old) + i] = line[i]
  /\ Inputs(new) = Inputs(old) \cup IF IsInput(line) THEN {Len(new)} ELSE {}

LEMMA InputsGrow ==
  ASSUME NEW old \in Seq(Tokens), NEW line, OneLine(line), detected \in Nat,
         detected <= Len(old), Len(old) > 0 => EndsLine(old[Len(old)])
  PROVE  Grown(old, line, old \o line)
<1> DEFINE new == old \o line
<1>1. /\ line \in Seq(Tokens) /\ Len(line) \in Nat /\ Len(old) \in Nat /\ Len(line) > 0
      /\ EndsLine(line[Len(line)]) /\ \A j \in 1..Len(line) - 1 : ~EndsLine(line[j])
  BY DEF OneLine
<1>2. new \in Seq(Tokens) /\ Len(new) = Len(old) + Len(line)
  BY <1>1
<1>3. \A i \in 1..Len(old) : new[i] = old[i]
  BY <1>1
<1>4. \A i \in 1..Len(line) : new[Len(old) + i] = line[i]
  BY <1>1
<1>5. ASSUME NEW i \in Inputs(old) PROVE i \in Inputs(new)
  BY <1>1, <1>2, <1>3 DEF Inputs
<1>6. ASSUME IsInput(line) PROVE Len(new) \in Inputs(new)
  <2>1. /\ new[Len(new)] = line[Len(line)] /\ new[Len(new) - 1] = line[Len(line) - 1]
        /\ Len(line) >= 2
    BY <1>1, <1>2, <1>4, <1>6 DEF IsInput
  <2> QED BY <1>1, <1>2, <1>6, <2>1 DEF Inputs, IsInput
<1>7. ASSUME NEW i \in Inputs(new), i \notin Inputs(old)
      PROVE  IsInput(line) /\ i = Len(new)
  <2>1. /\ i \in Nat /\ detected + 2 <= i /\ i <= Len(new)
        /\ new[i - 1].kind = "switch" /\ new[i].kind = "state"
    <3>1. Len(new) \in Nat
      BY <1>2
    <3> QED BY <3>1 DEF Inputs
  <2>2. i > Len(old)
    BY <1>1, <1>3, <1>7, <2>1 DEF Inputs
  <2>3. i # Len(old) + 1
    <3> SUFFICES ASSUME i = Len(old) + 1 PROVE FALSE
      OBVIOUS
    <3>1. new[i - 1] = old[Len(old)] /\ Len(old) > 0
      BY <1>1, <1>3, <2>1
    <3> QED BY <2>1, <3>1 DEF EndsLine
  <2>4. PICK j \in 2..Len(line) : i = Len(old) + j
    <3>1. i - Len(old) \in 2..Len(line) /\ i = Len(old) + (i - Len(old))
      BY <1>1, <1>2, <2>1, <2>2, <2>3
    <3> QED BY <3>1
  <2>5. new[i] = line[j] /\ new[i - 1] = line[j - 1]
    <3>1. j - 1 \in 1..Len(line) /\ i - 1 = Len(old) + (j - 1)
      BY <1>1, <2>4
    <3> QED BY <1>1, <1>4, <2>4, <3>1
  <2>6. j = Len(line)
    <3>1. EndsLine(line[j])
      BY <2>1, <2>5 DEF EndsLine
    <3> QED BY <1>1, <3>1
  <2> QED BY <1>1, <1>2, <2>1, <2>4, <2>5, <2>6 DEF IsInput
<1>8. Inputs(new) = Inputs(old) \cup IF IsInput(line) THEN {Len(new)} ELSE {}
  BY <1>5, <1>6, <1>7
<1> QED BY <1>1, <1>2, <1>3, <1>4, <1>8 DEF Grown

(* Whether an input is a change depends on those before it only. *)
LEMMA ChangesGrow ==
  ASSUME NEW old \in Seq(Tokens), NEW new \in Seq(Tokens), Len(old) <= Len(new),
         detected \in Nat, 
         \A i \in 1..Len(old) : new[i] = old[i],
         \A i \in Inputs(new) : i <= Len(old) => i \in Inputs(old),
         Inputs(old) \subseteq Inputs(new),
         NEW i \in Inputs(old)
  PROVE  /\ i \in Nat /\ i <= Len(old) /\ 2 <= i
         /\ new[i] = old[i] /\ new[i - 1] = old[i - 1]
         /\ i \in Changes(new) <=> i \in Changes(old)
<1>1. ASSUME NEW j \in Inputs(old)
      PROVE  j \in Nat /\ 2 <= j /\ j <= Len(old) /\ new[j] = old[j] /\ new[j - 1] = old[j - 1]
  <2>1. j \in Nat /\ 2 <= j /\ j <= Len(old) /\ Len(old) \in Nat
    BY DEF Inputs
  <2> QED BY <2>1
<1>2. \A j \in Inputs(new) : j <= i => j \in Inputs(old)
  <2>1. \A j \in Inputs(new) : j \in Nat
    BY DEF Inputs
  <2>2. Len(old) \in Nat
    OBVIOUS
  <2> QED BY <1>1, <2>1, <2>2
<1>3. \A j \in Inputs(new) : j \in Nat
  BY DEF Inputs
<1> DEFINE Same(s, j) ==
             /\ j < i /\ s[j - 1] = s[i - 1]
             /\ \A k \in Inputs(s) : j < k /\ k < i => s[k - 1] # s[i - 1]
<1>4. i \in Inputs(new)
  OBVIOUS
<1>5. ASSUME NEW s PROVE
        i \in Inputs(s) => (i \in Changes(s) <=>
          \A j \in Inputs(s) : Same(s, j) => s[j] # s[i])
  BY DEF Changes
<1>6. ASSUME NEW j \in Inputs(old) PROVE Same(new, j) <=> Same(old, j)
  <2>1. new[j - 1] = old[j - 1] /\ new[i - 1] = old[i - 1]
    BY <1>1
  <2>2. ASSUME NEW k \in Inputs(new), k < i PROVE k \in Inputs(old) /\ new[k - 1] = old[k - 1]
    BY <1>1, <1>2, <1>3, <2>2
  <2>3. ASSUME NEW k \in Inputs(old) PROVE k \in Inputs(new) /\ new[k - 1] = old[k - 1]
    BY <1>1
  <2> QED BY <2>1, <2>2, <2>3
<1>7. \A j \in Inputs(new) : Same(new, j) => j \in Inputs(old)
  BY <1>1, <1>2, <1>3
<1>8. \A j \in Inputs(old) : new[j] = old[j] /\ j \in Inputs(new)
  BY <1>1
<1> HIDE DEF Same
<1> QED BY <1>1, <1>4, <1>5, <1>6, <1>7, <1>8

LEMMA SentStart == Init => SentInv
<1> SUFFICES ASSUME Init PROVE SentInv
  OBVIOUS
<1>1. Inputs(lines) = {} /\ Len(lines) = 0 /\ commands = << >> /\ detected = 0
  BY DEF Init, Inputs
<1>2. ThreadInv /\ ValuesInv
  BY <1>1 DEF Init, ThreadInv, ValuesInv
<1>3. Sending(lines) = {} /\ DOMAIN commands = {}
  BY <1>1 DEF Sending, Changes
<1>4. CommandsAreChanges
  BY <1>3, << >> \in [{} -> {}] DEF CommandsAreChanges
<1> QED BY <1>2, <1>4 DEF SentInv

(* Nothing was sent when nothing is looked at. *)
LEMMA NothingSent ==
  ASSUME Inputs(lines)' = {}, commands' = << >>, \A n \in Names : values'[n] = None
  PROVE  ValuesInv' /\ CommandsAreChanges'
<1>1. Sending(lines)' = {} /\ DOMAIN commands' = {}
  BY DEF Sending, Changes
<1>2. CommandsAreChanges'
  BY <1>1, << >> \in [{} -> {}] DEF CommandsAreChanges
<1> QED BY <1>2 DEF ValuesInv

LEMMA TokenIs ==
  ASSUME NEW t \in Tokens
  PROVE  /\ t.kind = "switch" => t = Switch(t.of) /\ t.of \in Names
         /\ t.kind = "state" => t = State(t.of) /\ t.of \in Positions
BY DEF Tokens, Switch, State, Hello

(* What a line does to the inputs and their changes. *)
Carried(i, new) ==
  /\ i \in Nat /\ i <= Len(lines) /\ i \in Inputs(new)
  /\ new[i] = lines[i] /\ new[i - 1] = lines[i - 1]
  /\ i \in Changes(new) <=> i \in Changes(lines)

LEMMA LineGrows ==
  ASSUME HistoryOK, ThreadInv, NEW line, OneLine(line), NEW new, new = lines \o line
  PROVE  /\ new \in Seq(Tokens) /\ Len(new) \in Nat /\ Len(lines) < Len(new)
         /\ Inputs(new) = Inputs(lines) \cup (IF IsInput(line) THEN {Len(new)} ELSE {})
         /\ \A i \in Inputs(lines) : Carried(i, new)
         /\ IsInput(line) =>
              /\ new[Len(new) - 1] = line[Len(line) - 1]
              /\ new[Len(new)] = line[Len(line)]
<1>0. /\ lines \in Seq(Tokens) /\ detected \in Nat /\ detected <= Len(lines)
      /\ Len(lines) > 0 => EndsLine(lines[Len(lines)])
  BY DEF HistoryOK, ThreadInv
<1>1. /\ new \in Seq(Tokens) /\ Len(new) = Len(lines) + Len(line)
      /\ Len(lines) \in Nat /\ Len(line) \in Nat /\ Len(line) > 0
      /\ \A i \in 1..Len(lines) : new[i] = lines[i]
      /\ \A i \in 1..Len(line) : new[Len(lines) + i] = line[i]
      /\ Inputs(new) = Inputs(lines) \cup (IF IsInput(line) THEN {Len(new)} ELSE {})
  <2>1. Grown(lines, line, new)
    BY <1>0, InputsGrow
  <2> QED BY <2>1 DEF Grown
<1>2. Len(lines) < Len(new) /\ Len(new) \in Nat
  BY <1>1
<1>3. \A i \in Inputs(new) : i <= Len(lines) => i \in Inputs(lines)
  BY <1>1, <1>2
<1>4. ASSUME NEW i \in Inputs(lines) PROVE Carried(i, new)
  <2>1. Len(lines) <= Len(new) /\ Inputs(lines) \subseteq Inputs(new)
    BY <1>1
  <2> QED BY <1>0, <1>1, <1>3, <2>1, ChangesGrow DEF Carried
<1>5. ASSUME IsInput(line)
      PROVE  new[Len(new) - 1] = line[Len(line) - 1] /\ new[Len(new)] = line[Len(line)]
  <2>1. Len(line) - 1 \in 1..Len(line) /\ Len(new) - 1 = Len(lines) + (Len(line) - 1)
    BY <1>1, <1>5 DEF IsInput
  <2> QED BY <1>1, <2>1
<1> QED BY <1>1, <1>2, <1>4, <1>5

IsChange(n, v, new) ==
  /\ n \in Names /\ v \in Positions
  /\ new[Len(new) - 1] = Switch(n) /\ new[Len(new)] = State(v)
  /\ Len(new) \in Inputs(new) /\ Len(new) \notin Inputs(lines)
  /\ Len(new) \in Changes(new) <=> values[n] # v

(* An input is a change when its value is not the one that m_values has.    *)
LEMMA InputIsChange ==
  ASSUME HistoryOK, ThreadInv, ValuesInv,
         NEW line, OneLine(line), IsInput(line), NEW new, new = lines \o line,
         NEW n, n = line[Len(line) - 1].of, NEW v, v = line[Len(line)].of
  PROVE  IsChange(n, v, new)
<1> DEFINE e == Len(new)
<1>1. /\ new \in Seq(Tokens) /\ e \in Nat /\ Len(lines) < e
      /\ Inputs(new) = Inputs(lines) \cup {e}
      /\ \A i \in Inputs(lines) : Carried(i, new)
      /\ new[e - 1] = line[Len(line) - 1] /\ new[e] = line[Len(line)]
  BY LineGrows
<1>2. /\ e \in Inputs(new) /\ e \notin Inputs(lines)
      /\ \A i \in Inputs(lines) : i \in Nat /\ i < e
  BY <1>1 DEF Carried, HistoryOK
<1>3. /\ n \in Names /\ v \in Positions
      /\ new[e - 1] = Switch(n) /\ new[e] = State(v)
  <2>1. /\ line \in Seq(Tokens) /\ Len(line) - 1 \in 1..Len(line) /\ Len(line) \in 1..Len(line)
        /\ line[Len(line) - 1].kind = "switch" /\ line[Len(line)].kind = "state"
    BY DEF OneLine, IsInput
  <2>2. line[Len(line) - 1] \in Tokens /\ line[Len(line)] \in Tokens
    BY <2>1
  <2> QED BY <1>1, <2>1, <2>2, TokenIs
<1>4. e \in Changes(new) <=>
        \A j \in Inputs(lines) :
          /\ lines[j - 1] = Switch(n)
          /\ \A k \in Inputs(lines) : j < k => lines[k - 1] # Switch(n)
          => lines[j] # State(v)
  <2> DEFINE Same(j) == /\ j < e /\ new[j - 1] = new[e - 1]
                        /\ \A k \in Inputs(new) : j < k /\ k < e => new[k - 1] # new[e - 1]
             Was(j) == /\ lines[j - 1] = Switch(n)
                       /\ \A k \in Inputs(lines) : j < k => lines[k - 1] # Switch(n)
  <2>1. e \in Changes(new) <=> \A j \in Inputs(new) : Same(j) => new[j] # new[e]
    BY <1>2 DEF Changes
  <2>2. ~Same(e)
    BY <1>1
  <2>3. ASSUME NEW j \in Inputs(lines)
        PROVE  new[j] = lines[j] /\ (Same(j) <=> Was(j))
    <3>1. j < e /\ new[j] = lines[j] /\ new[j - 1] = lines[j - 1]
      BY <1>1, <1>2 DEF Carried
    <3>2. (\A k \in Inputs(new) : j < k /\ k < e => new[k - 1] # new[e - 1])
            <=> \A k \in Inputs(lines) : j < k => lines[k - 1] # Switch(n)
      <4>1. \A k \in Inputs(new) : k < e => k \in Inputs(lines)
        BY <1>1
      <4>2. \A k \in Inputs(lines) : k < e /\ k \in Inputs(new) /\ new[k - 1] = lines[k - 1]
        BY <1>1, <1>2 DEF Carried
      <4> QED BY <1>3, <4>1, <4>2
    <3> QED BY <1>3, <3>1, <3>2
  <2> HIDE DEF Same, Was
  <2>4. e \in Changes(new) <=> \A j \in Inputs(lines) : Was(j) => lines[j] # State(v)
    BY <1>1, <1>3, <2>1, <2>2, <2>3
  <2> QED BY <2>4 DEF Was
<1>5. e \in Changes(new) <=> values[n] # v
  <2>1. CASE values[n] = None
    <3>1. \A i \in Inputs(lines) : lines[i - 1] # Switch(n)
      BY <1>3, <2>1 DEF ValuesInv
    <3> QED BY <1>3, <1>4, <2>1, <3>1, SerialAssumption
  <2>2. CASE values[n] # None
    <3>1. PICK i \in Inputs(lines) : IsLatest(i, n)
      BY <1>3, <2>2 DEF ValuesInv
    <3>2. /\ lines[i - 1] = Switch(n) /\ lines[i] = State(values[n])
          /\ \A k \in Inputs(lines) : i < k => lines[k - 1] # Switch(n)
      BY <3>1 DEF IsLatest
    <3>3. ASSUME NEW j \in Inputs(lines), lines[j - 1] = Switch(n),
                 \A k \in Inputs(lines) : j < k => lines[k - 1] # Switch(n)
          PROVE  j = i
      BY <1>2, <3>2, <3>3
    <3>4. (State(values[n]) = State(v)) <=> (values[n] = v)
      BY DEF State
    <3> QED BY <1>4, <3>2, <3>3, <3>4
  <2> QED BY <2>1, <2>2
<1> QED BY <1>2, <1>3, <1>5 DEF IsChange

(* The order in which the tokens of a set have sent their commands.         *)
Pair(tokens, i) == <<tokens[i - 1].of, tokens[i].of>>

InOrder(order, cs, S, tokens) ==
  /\ order \in [DOMAIN cs -> S]
  /\ \A k, l \in DOMAIN cs : k < l => order[k] < order[l]
  /\ \A i \in S : \E k \in DOMAIN cs : order[k] = i
  /\ \A k \in DOMAIN cs : cs[k] = Pair(tokens, order[k])

LEMMA AnOrder ==
  CommandsAreChanges <=> \E order : InOrder(order, commands, Sending(lines), lines)
BY Zenon DEF CommandsAreChanges, InOrder, Pair

LEMMA OrderStays ==
  ASSUME NEW order, NEW cs, NEW S, NEW old, NEW new,
         InOrder(order, cs, S, old), \A i \in S : Pair(new, i) = Pair(old, i)
  PROVE  InOrder(order, cs, S, new)
<1>1. \A k \in DOMAIN cs : order[k] \in S
  BY DEF InOrder
<1> QED BY <1>1, Zenon DEF InOrder

(* One more command, of a token behind the others, is the last one. *)
LEMMA OrderGrows ==
  ASSUME NEW cs \in Seq(Matches), NEW S, NEW old, NEW new, NEW order,
         InOrder(order, cs, S, old), \A i \in S : Pair(new, i) = Pair(old, i),
         NEW e \in Nat, \A i \in S : i \in Nat /\ i < e,
         NEW m \in Matches, m = Pair(new, e)
  PROVE  \E o : InOrder(o, Append(cs, m), S \cup {e}, new)
<1> PICK c \in Nat : c = Len(cs) + 1
  OBVIOUS
<1> DEFINE o  == [k \in 1..c |-> IF k = c THEN e ELSE order[k]]
           ds == Append(cs, m)
           T  == S \cup {e}
<1>1. /\ DOMAIN ds = 1..c /\ DOMAIN cs = 1..c - 1 /\ c > 0
      /\ ds[c] = m /\ \A k \in 1..c - 1 : ds[k] = cs[k]
  OBVIOUS
<1>2. /\ order \in [1..c - 1 -> S]
      /\ \A k, l \in 1..c - 1 : k < l => order[k] < order[l]
      /\ \A i \in S : \E k \in 1..c - 1 : order[k] = i
      /\ \A k \in 1..c - 1 : cs[k] = Pair(old, order[k])
  BY <1>1 DEF InOrder
<1>3. /\ o[c] = e /\ \A k \in 1..c - 1 : o[k] = order[k] /\ o[k] \in S
  BY <1>1, <1>2
<1>4. \A k \in 1..c : k = c \/ k \in 1..c - 1
  BY <1>1
<1>5. o \in [1..c -> T]
  BY <1>2
<1> HIDE DEF o, ds, T
<1>6. ASSUME NEW k \in 1..c, NEW l \in 1..c, k < l PROVE o[k] < o[l]
  <2>1. k \in 1..c - 1
    BY <1>6
  <2>2. CASE l = c
    BY <1>3, <2>1, <2>2
  <2>3. CASE l \in 1..c - 1
    <3>1. order[k] < order[l]
      BY <1>2, <1>6, <2>1, <2>3
    <3> QED BY <1>3, <2>1, <2>3, <3>1
  <2> QED BY <1>4, <2>2, <2>3
<1>7. ASSUME NEW i \in T PROVE \E k \in 1..c : o[k] = i
  <2>1. CASE i = e
    <3>1. c \in 1..c
      BY <1>1
    <3> QED BY <1>3, <2>1, <3>1
  <2>2. CASE i \in S
    <3>1. PICK k \in 1..c - 1 : order[k] = i
      BY <1>2, <2>2
    <3>2. k \in 1..c
      OBVIOUS
    <3> QED BY <1>3, <3>1, <3>2
  <2> QED BY <2>1, <2>2 DEF T
<1>8. ASSUME NEW k \in 1..c PROVE ds[k] = Pair(new, o[k])
  <2>1. CASE k = c
    BY <1>1, <1>3, <2>1
  <2>2. CASE k \in 1..c - 1
    <3>1. ds[k] = cs[k] /\ cs[k] = Pair(old, order[k]) /\ o[k] = order[k] /\ o[k] \in S
      BY <1>1, <1>2, <1>3, <2>2
    <3>2. Pair(new, o[k]) = Pair(old, o[k])
      BY <3>1
    <3> QED BY <3>1, <3>2
  <2> QED BY <1>4, <2>1, <2>2
<1>9. InOrder(o, ds, T, new)
  BY <1>1, <1>5, <1>6, <1>7, <1>8 DEF InOrder
<1> QED BY <1>9 DEF ds, T

(* A line of update() keeps what was sent equal to the changes.             *)
LEMMA ValueKept ==
  ASSUME NEW m \in Names, ValuesInv, HistoryOK,
         values'[m] = values[m], UNCHANGED detected,
         \A i \in Inputs(lines) : Carried(i, lines'), Inputs(lines) \subseteq Inputs(lines'),
         \A i \in Inputs(lines') : i \notin Inputs(lines) => lines'[i - 1] # Switch(m)
  PROVE  \/ values'[m] = None /\ \A i \in Inputs(lines') : lines'[i - 1] # Switch(m)
         \/ values'[m] # None /\ \E i \in Inputs(lines') : IsLatest(i, m)'
<1>1. \A i \in Inputs(lines) : lines'[i] = lines[i] /\ lines'[i - 1] = lines[i - 1]
  BY DEF Carried
<1>2. CASE values[m] = None /\ \A i \in Inputs(lines) : lines[i - 1] # Switch(m)
  BY <1>1, <1>2
<1>3. CASE values[m] # None /\ \E i \in Inputs(lines) : IsLatest(i, m)
  <2>1. PICK i \in Inputs(lines) : IsLatest(i, m)
    BY <1>3
  <2>2. /\ lines[i - 1] = Switch(m) /\ lines[i] = State(values[m])
        /\ \A k \in Inputs(lines) : i < k => lines[k - 1] # Switch(m)
    BY <2>1 DEF IsLatest
  <2>3. Inputs(lines)' = Inputs(lines')
    BY DEF Inputs
  <2>4. /\ i \in Inputs(lines') /\ lines'[i - 1] = Switch(m) /\ lines'[i] = State(values'[m])
        /\ \A k \in Inputs(lines') : i < k => lines'[k - 1] # Switch(m)
    BY <1>1, <2>2
  <2>5. IsLatest(i, m)'
    BY <2>3, <2>4 DEF IsLatest
  <2> QED BY <1>3, <2>4, <2>5
<1> QED BY <1>2, <1>3 DEF ValuesInv

LEMMA LineSends ==
  ASSUME IInv, SentInv, NEW line, OneLine(line), lines' = lines \o line,
         UNCHANGED detected,
         IF IsInput(line) THEN HandleInput(line[Len(line) - 1].of, line[Len(line)].of)
         ELSE UNCHANGED <<values, commands>>
  PROVE  ValuesInv' /\ CommandsAreChanges'
<1> DEFINE n == line[Len(line) - 1].of
           v == line[Len(line)].of
           e == Len(lines')
<1>0. /\ HistoryOK /\ ThreadInv /\ ValuesInv /\ CommandsAreChanges
      /\ values \in [Names -> Positions \cup {None}] /\ commands \in Seq(Matches)
  BY DEF IInv, TypeOK, SentInv
<1>1. /\ lines' \in Seq(Tokens) /\ e \in Nat /\ Len(lines) < e
      /\ Inputs(lines') = Inputs(lines) \cup (IF IsInput(line) THEN {e} ELSE {})
      /\ \A i \in Inputs(lines) : Carried(i, lines')
  BY <1>0, LineGrows
<1>2. Inputs(lines)' = Inputs(lines')
  BY DEF Inputs
<1>3. Changes(lines)' = Changes(lines')
  <2>1. \A tokens : Inputs(tokens)' = {i \in detected' + 2..Len(tokens') :
                       tokens'[i - 1].kind = "switch" /\ tokens'[i].kind = "state"}
    BY DEF Inputs
  <2> QED BY <1>2 DEF Changes
<1>4. Sending(lines)' = Sending(lines')
  BY <1>3 DEF Sending
<1>5. /\ Sending(lines) \subseteq Inputs(lines) /\ Sending(lines') \subseteq Inputs(lines')
      /\ Inputs(lines) \subseteq Inputs(lines') /\ \A i \in Inputs(lines) : i \in Nat /\ i < e
  <2>1. \A i \in Inputs(lines) : i \in Nat /\ i <= Len(lines)
    BY <1>1 DEF Carried
  <2>2. Len(lines) \in Nat
    BY <1>0 DEF HistoryOK
  <2> QED BY <1>1, <2>1, <2>2 DEF Sending, Changes
<1>6. ASSUME NEW i \in Inputs(lines)
      PROVE  /\ Pair(lines', i) = Pair(lines, i)
             /\ i \in Sending(lines') <=> i \in Sending(lines)
  <2>1. /\ lines'[i] = lines[i] /\ lines'[i - 1] = lines[i - 1]
        /\ i \in Changes(lines') <=> i \in Changes(lines)
    BY <1>1 DEF Carried
  <2> QED BY <2>1 DEF Sending, Pair
<1>7. PICK order : InOrder(order, commands, Sending(lines), lines)
  BY <1>0, AnOrder
<1>8. ASSUME NEW o, InOrder(o, commands', Sending(lines'), lines')
      PROVE  CommandsAreChanges'
  BY <1>4, <1>8, Zenon DEF CommandsAreChanges, InOrder, Pair
<1>9. ASSUME Sending(lines') = Sending(lines), commands' = commands
      PROVE  CommandsAreChanges'
  <2>1. \A i \in Sending(lines) : Pair(lines', i) = Pair(lines, i)
    BY <1>5, <1>6
  <2>2. InOrder(order, commands, Sending(lines), lines')
    BY <1>7, <2>1, OrderStays
  <2> QED BY <1>8, <1>9, <2>2
<1>10. CASE ~IsInput(line)
  <2>1. Inputs(lines') = Inputs(lines) /\ UNCHANGED <<values, commands>>
    BY <1>1, <1>10
  <2>2. Sending(lines') = Sending(lines)
    BY <1>5, <1>6, <2>1
  <2>3. ValuesInv'
    <3> SUFFICES ASSUME NEW m \in Names
                 PROVE  \/ values'[m] = None /\ \A i \in Inputs(lines') : lines'[i - 1] # Switch(m)
                        \/ values'[m] # None /\ \E i \in Inputs(lines') : IsLatest(i, m)'
      BY <1>2 DEF ValuesInv
    <3> QED BY <1>0, <1>1, <1>5, <2>1, ValueKept
  <2> QED BY <1>9, <2>1, <2>2, <2>3
<1>11. CASE IsInput(line)
  <2>1. /\ values' = [values EXCEPT ![n] = v]
        /\ commands' = IF values[n] # v /\ <<n, v>> \in Matches
                       THEN Append(commands, <<n, v>>) ELSE commands
    BY <1>11 DEF HandleInput
  <2>2. IsChange(n, v, lines')
    BY <1>0, <1>11, InputIsChange
  <2>3. /\ n \in Names /\ v \in Positions
        /\ lines'[e - 1] = Switch(n) /\ lines'[e] = State(v)
        /\ e \in Inputs(lines') /\ e \notin Inputs(lines)
        /\ e \in Changes(lines') <=> values[n] # v
    BY <2>2 DEF IsChange
  <2>4. Inputs(lines') = Inputs(lines) \cup {e}
    BY <1>1, <1>11
  <2> HIDE DEF n, v, e
  <2>5. ValuesInv'
    <3>1. ASSUME NEW m \in Names, m # n
          PROVE  \/ values'[m] = None /\ \A i \in Inputs(lines') : lines'[i - 1] # Switch(m)
                 \/ values'[m] # None /\ \E i \in Inputs(lines') : IsLatest(i, m)'
      <4>1. values'[m] = values[m] /\ Switch(m) # Switch(n)
        BY <1>0, <2>1, <3>1 DEF Switch
      <4> QED BY <1>0, <1>1, <1>5, <2>3, <2>4, <4>1, ValueKept
    <3>2. values'[n] = v /\ v # None
      BY <1>0, <2>1, <2>3, SerialAssumption
    <3>3. \A k \in Inputs(lines') : ~(e < k)
      BY <1>1, <1>5, <2>4 DEF e
    <3>4. ASSUME NEW k \in Inputs(lines'), k = e PROVE IsLatest(k, n)'
      BY <1>2, <2>3, <3>2, <3>3, <3>4 DEF IsLatest, n
    <3>5. \A m \in Names :
            \/ values'[m] = None /\ \A i \in Inputs(lines') : lines'[i - 1] # Switch(m)
            \/ values'[m] # None /\ \E i \in Inputs(lines') : IsLatest(i, m)'
      <4>1. \E i \in Inputs(lines') : IsLatest(i, n)'
        BY <2>3, <3>4
      <4> QED BY <3>1, <3>2, <4>1 DEF n
    <3> QED BY <1>2, <3>5 DEF ValuesInv
  <2>6. Pair(lines', e) = <<n, v>>
    BY <2>3 DEF Switch, State, Pair
  <2>7. e \in Sending(lines') <=> (values[n] # v /\ <<n, v>> \in Matches)
    BY <2>3, <2>6 DEF Sending, Pair
  <2>8. \A i \in Sending(lines') : i = e \/ i \in Sending(lines)
    BY <1>5, <1>6, <2>4
  <2>9. \A i \in Sending(lines) : i \in Sending(lines')
    BY <1>5, <1>6
  <2>10. CASE ~(values[n] # v /\ <<n, v>> \in Matches)
    <3>1. Sending(lines') = Sending(lines) /\ commands' = commands
      BY <2>1, <2>7, <2>8, <2>9, <2>10
    <3> QED BY <1>9, <2>5, <3>1
  <2>11. CASE values[n] # v /\ <<n, v>> \in Matches
    <3>1. commands' = Append(commands, <<n, v>>) /\ <<n, v>> \in Matches
      BY <2>1, <2>11
    <3>2. Sending(lines') = Sending(lines) \cup {e}
      BY <2>7, <2>8, <2>9, <2>11
    <3>3. \A i \in Sending(lines) : /\ Pair(lines', i) = Pair(lines, i)
                                    /\ i \in Nat /\ i < e
      BY <1>5, <1>6 DEF e
    <3>4. \E o : InOrder(o, commands', Sending(lines'), lines')
      <4>1. \E o : InOrder(o, Append(commands, <<n, v>>), Sending(lines) \cup {e}, lines')
        BY <1>0, <1>1, <1>7, <2>6, <3>1, <3>3, OrderGrows DEF e
      <4> QED BY <3>1, <3>2, <4>1
    <3> QED BY <1>8, <2>5, <3>4
  <2> QED BY <2>10, <2>11
<1> QED BY <1>10, <1>11

LEMMA SentKeeps == IInv /\ SentInv /\ [Next]_vars => SentInv'
<1> SUFFICES ASSUME IInv, SentInv, [Next]_vars PROVE SentInv'
  OBVIOUS
<1> USE DEF scanVars, threadVars, panelVars, historyVars
<1>0. /\ TypeOK /\ HistoryOK /\ ScanInv /\ ThreadInv /\ ValuesInv /\ CommandsAreChanges
  BY DEF IInv, SentInv
<1>1. ASSUME UNCHANGED <<values, commands, lines, detected, device>>,
             device = None => at' \in {"pause", "ended"}
      PROVE  SentInv'
  <2>1. ThreadInv'
    BY <1>0, <1>1 DEF ThreadInv
  <2>2. Inputs(lines)' = Inputs(lines)
    BY <1>1 DEF Inputs
  <2>3. ValuesInv'
    BY <1>0, <1>1, <2>2 DEF ValuesInv, IsLatest
  <2>4. Changes(lines)' = Changes(lines)
    BY <1>1, <2>2 DEF Changes
  <2>5. Sending(lines)' = Sending(lines)
    BY <1>1, <2>4 DEF Sending
  <2>6. CommandsAreChanges'
    BY <1>0, <1>1, <2>5 DEF CommandsAreChanges
  <2> QED BY <2>1, <2>3, <2>6 DEF SentInv
<1>2. CASE Scan \/ SkipDevice \/ Send \/ Unplug \/ CloseDevice \/ ClearRunning
             \/ UNCHANGED vars
  <2>1. UNCHANGED <<values, commands, lines, detected, device, at>>
    BY <1>2 DEF Scan, SkipDevice, Send, Unplug, CloseDevice, ClearRunning, vars
  <2> QED BY <1>0, <1>1, <2>1 DEF ThreadInv
<1>3. CASE Wake \/ Test \/ Output \/ Finish
  <2>1. UNCHANGED <<values, commands, lines, detected, device>>
    BY <1>3 DEF Wake, Test, Output, Finish, restVars
  <2>2. device = None => at' \in {"pause", "ended"}
    BY <1>0, <1>3 DEF Wake, Test, Output, Finish, ThreadInv
  <2> QED BY <1>1, <2>1, <2>2
<1>4. CASE CheckDevice
  <2>1. /\ device = None /\ UNCHANGED <<device, at, values, commands>>
        /\ lines' = << >> /\ detected' = 0
    BY <1>4 DEF CheckDevice, CanCheck
  <2>2. Len(lines') = 0 /\ Inputs(lines)' = {}
    BY <2>1 DEF Inputs
  <2>3. ThreadInv'
    BY <1>0, <2>1, <2>2 DEF ThreadInv
  <2>4. commands' = << >> /\ \A n \in Names : values'[n] = None
    BY <1>0, <2>1 DEF ThreadInv
  <2>5. ValuesInv' /\ CommandsAreChanges'
    BY <2>2, <2>4, NothingSent
  <2> QED BY <2>3, <2>5 DEF SentInv
<1>5. CASE Detect
  <2>1. /\ device = None /\ UNCHANGED <<at, values, commands>>
        /\ ReadLine(scan) /\ detected' = Len(lines')
    BY <1>0, <1>5 DEF Detect, ScanInv
  <2>2. lines' \in Seq(Tokens) /\ Len(lines') \in Nat
    <3>1. HistoryOK'
      BY <1>5, InvStep DEF Next, Scanning, IInv
    <3> QED BY <3>1 DEF HistoryOK
  <2>3. Inputs(lines)' = {}
    BY <2>1, <2>2 DEF Inputs
  <2>4. commands' = << >> /\ values' = [n \in Names |-> None] /\ at' \in {"pause", "ended"}
    BY <1>0, <2>1 DEF ThreadInv
  <2>5. Len(lines') > 0 => EndsLine(lines'[Len(lines')])
    <3>1. CASE lines' = lines
      BY <1>0, <3>1 DEF ThreadInv
    <3>2. CASE OneLine(Line(scan)) /\ lines' = lines \o Line(scan)
      BY <1>0, <3>2 DEF OneLine, HistoryOK
    <3> QED BY <1>0, <2>1, <3>1, <3>2, ReadsOneLine
  <2>6. ThreadInv'
    BY <2>1, <2>2, <2>4, <2>5 DEF ThreadInv
  <2>7. ValuesInv' /\ CommandsAreChanges'
    BY <2>3, <2>4, NothingSent
  <2> QED BY <2>6, <2>7 DEF SentInv
<1>6. CASE Read
  <2> DEFINE line == Line(device)
  <2>1. /\ device # None /\ UNCHANGED <<detected, device>> /\ ReadLine(device)
        /\ IF IsInput(line) THEN HandleInput(line[Len(line) - 1].of, Last(line).of)
           ELSE UNCHANGED <<values, commands>>
    BY <1>0, <1>6 DEF Read, restVars, ThreadInv
  <2>2. IF IsInput(line) THEN HandleInput(line[Len(line) - 1].of, line[Len(line)].of)
        ELSE UNCHANGED <<values, commands>>
    BY <2>1 DEF Last
  <2> HIDE DEF line
  <2>3. CASE line = << >> /\ lines' = lines
    <3>1. ~IsInput(line)
      BY <2>3 DEF IsInput
    <3> QED BY <1>1, <2>1, <2>2, <2>3, <3>1
  <2>4. CASE OneLine(line) /\ lines' = lines \o line
    <3>1. ThreadInv'
      BY <1>0, <2>1, <2>4 DEF ThreadInv, OneLine, HistoryOK
    <3>2. ValuesInv' /\ CommandsAreChanges'
      BY <2>1, <2>2, <2>4, LineSends
    <3> QED BY <3>1, <3>2 DEF SentInv
  <2> QED BY <1>0, <2>1, <2>3, <2>4, ReadsOneLine DEF line
<1> QED BY <1>2, <1>3, <1>4, <1>5, <1>6 DEF Next, Scanning, DeviceThread

(* What the commands of a panel come to, in every reachable state. *)
THEOREM SentInvariance == Spec => []SentInv
<1>1. Init => SentInv
  BY SentStart
<1>2. IInv /\ SentInv /\ [Next]_vars => SentInv'
  BY SentKeeps
<1> QED BY <1>1, <1>2, Invariance, PTL DEF Spec

(* The commands that were sent are those of the changes among the inputs,   *)
(* once each and in their order, however the bytes arrive.                  *)
THEOREM CommandsOfChanges == Spec => []CommandsAreChanges
<1>1. SentInv => CommandsAreChanges
  BY DEF SentInv
<1> QED BY <1>1, SentInvariance, PTL
=============================================================================
