----------------------------- MODULE SerialDevice -----------------------------
(***************************************************************************)
(* A panel on a serial port: SerialConfigManager::scan() tries every        *)
(* definition with the port's USB ids on it (further ports with the same    *)
(* ids are never looked at), the device thread updates the device it finds, *)
(* stop() closes it.                                                        *)
(*                                                                          *)
(* The panel sends lines.  What matters of its bytes is where a line can be *)
(* cut: a line that names a switch and its value comes in two tokens, and   *)
(* read() returns whatever tokens have arrived.                             *)
(***************************************************************************)
EXTENDS Naturals, Sequences, SequencesExt

CONSTANTS
  Definitions,  \* definition files with the ids of the port
  Names,        \* the switches of the panel
  Positions,    \* their values
  Matches,      \* the <<name, value>> pairs that have commands
  MaxAttempts,  \* lines detect() reads
  MaxTokens,    \* bound: tokens the panel sends
  None

ASSUME SerialAssumption ==
  /\ MaxAttempts \in Nat \ {0} /\ MaxTokens \in Nat
  /\ Matches \subseteq Names \X Positions
  /\ None \notin Definitions \cup Names \cup Positions

VARIABLES
  fd,           \* each definition's SerialPort: "none", "open", "closed"
  buffer,       \* SerialPort::m_buffer, of the SerialPort opened last
  scan,         \* the definition being detected, None: no scan
  todo,         \* definitions the scan has still to check
  attempt,      \* lines it has read
  device,       \* the device on the port, in both lists of devices
  at,           \* where the device thread is
  values,       \* m_values, None: not known yet
  commands,     \* the <<name, value>> pairs whose commands were sent
  running,      \* m_running
  port,         \* tokens that have arrived and have not been read
  half,         \* the switch the panel is in the middle of sending
  panel,        \* the definition of the panel that is plugged in
  sent,         \* tokens it has sent
  delivered,    \* history: the tokens read from the device
  lines,        \* history: those of them that were returned in lines
  detected      \* history: the number of those detect() has read

scanVars    == <<scan, todo, attempt>>
threadVars  == <<at, values, commands>>
panelVars   == <<half, panel, sent>>
historyVars == <<delivered, lines, detected>>
vars == <<fd, buffer, scanVars, device, threadVars, running, port, panelVars,
          historyVars>>

Hello(d)  == [kind |-> "hello", of |-> d]
Switch(n) == [kind |-> "switch", of |-> n]
State(v)  == [kind |-> "state", of |-> v]
Tokens == {Hello(d) : d \in Definitions} \cup {Switch(n) : n \in Names}
            \cup {State(v) : v \in Positions}

EndsLine(token) == token.kind # "switch"
HasLine(bytes)  == \E i \in DOMAIN bytes : EndsLine(bytes[i])
LineLength(bytes) ==
  CHOOSE i \in DOMAIN bytes :
    EndsLine(bytes[i]) /\ \A j \in 1..i - 1 : ~EndsLine(bytes[j])

Init ==
  /\ fd = [d \in Definitions |-> "none"] /\ buffer = << >>
  /\ scan = None /\ todo = {} /\ attempt = 0
  /\ device = None
  /\ at = "pause" /\ values = [n \in Names |-> None] /\ commands = << >>
  /\ running = TRUE
  /\ port = << >> /\ half = None /\ panel \in Definitions /\ sent = 0
  /\ delivered = << >> /\ lines = << >> /\ detected = 0

Plugged == panel # None
IsOpen(d) == fd[d] = "open"

-----------------------------------------------------------------------------
(* SerialPort                                                               *)

(* The bug of keeping nothing but the line that is returned. *)
Consumed_All(bytes) ==
  /\ buffer' = << >>
  /\ lines' = lines \o SubSeq(bytes, 1, LineLength(bytes))

(* The first line is cut off the buffer. *)
Consumed(bytes) ==
  /\ buffer' = SubSeq(bytes, LineLength(bytes) + 1, Len(bytes))
  /\ lines' = lines \o SubSeq(bytes, 1, LineLength(bytes))

(* What readLine() returns, and what it leaves: read() waits half a second  *)
(* for input, and takes all of it.  It fails on a closed port; of a device  *)
(* that was pulled out it returns nothing.                                  *)
Line(d) ==
  LET bytes == IF Plugged THEN buffer \o port ELSE buffer
  IN  IF IsOpen(d) /\ HasLine(bytes) THEN SubSeq(bytes, 1, LineLength(bytes))
      ELSE << >>

ReadLine(d) ==
  LET read  == IF IsOpen(d) /\ Plugged THEN port ELSE << >>
      bytes == buffer \o read
  IN  /\ port' = IF read = << >> THEN port ELSE << >>
      /\ delivered' = delivered \o read
      /\ IF IsOpen(d) /\ HasLine(bytes) THEN Consumed(bytes)
         ELSE buffer' = bytes /\ UNCHANGED lines

(* The bug of taking a failing ioctl() for input. *)
Available_Failing(d) == HasLine(buffer) \/ ~IsOpen(d) \/ ~Plugged \/ port # << >>

Available(d) == HasLine(buffer) \/ (IsOpen(d) /\ Plugged /\ port # << >>)

Close(d) == fd' = [fd EXCEPT ![d] = IF @ = "open" THEN "closed" ELSE @]

-----------------------------------------------------------------------------
(* SerialConfigManager, on the thread that starts and stops the connector   *)

Stopping == ~running \/ (device # None /\ ~IsOpen(device))

Scan ==
  /\ scan = None /\ todo = {} /\ ~Stopping
  /\ todo' = Definitions
  /\ UNCHANGED <<fd, buffer, scan, attempt, device, threadVars, running, port,
                 panelVars, historyVars>>

(* The bug of not looking at the port's device. *)
CanCheck_Always(d) == TRUE

CanCheck(d) == device = None

(* The port is missing, or has a device. *)
SkipDevice ==
  /\ scan = None
  /\ \E d \in todo : (~Plugged \/ ~CanCheck(d)) /\ todo' = todo \ {d}
  /\ UNCHANGED <<fd, buffer, scan, attempt, device, threadVars, running, port,
                 panelVars, historyVars>>

(* detect() opens the port.  It goes on when that fails. *)
CheckDevice ==
  /\ scan = None
  /\ \E d \in todo :
       /\ Plugged /\ CanCheck(d)
       /\ scan' = d /\ todo' = todo \ {d}
       /\ fd' \in {[fd EXCEPT ![d] = "open"], [fd EXCEPT ![d] = "none"]}
  /\ attempt' = 0
  /\ buffer' = << >> /\ delivered' = << >> /\ lines' = << >> /\ detected' = 0
  /\ UNCHANGED <<device, threadVars, running, port, panelVars>>

(* detect() gives up and closes the port. *)
Reject == scan' = None /\ Close(scan)

(* The device that answered is initialised and added. *)
Accept == scan' = None /\ device' = scan /\ UNCHANGED fd

Detect ==
  /\ scan # None
  /\ attempt' = attempt + 1
  /\ ReadLine(scan)
  /\ detected' = Len(lines')
  /\ IF Line(scan) = <<Hello(scan)>> THEN Accept
     ELSE /\ IF attempt' = MaxAttempts THEN Reject ELSE UNCHANGED <<scan, fd>>
          /\ UNCHANGED device
  /\ UNCHANGED <<todo, threadVars, running, panelVars>>

Scanning == SkipDevice \/ CheckDevice \/ Detect

-----------------------------------------------------------------------------
(* The device thread                                                        *)

(* regex_search() finds a switch and its value, wherever the line starts. *)
IsInput(line) ==
  /\ Len(line) >= 2
  /\ line[Len(line) - 1].kind = "switch" /\ line[Len(line)].kind = "state"

(* The bug of not keeping the value of a switch heard of for the first time. *)
HandleInput_NotKept(name, value) ==
  /\ values' = IF values[name] = None THEN values
               ELSE [values EXCEPT ![name] = value]
  /\ commands' = IF values[name] # value /\ <<name, value>> \in Matches
                 THEN Append(commands, <<name, value>>) ELSE commands

(* A value that is new or has changed sends the commands that match. *)
HandleInput(name, value) ==
  /\ values' = [values EXCEPT ![name] = value]
  /\ commands' = IF values[name] # value /\ <<name, value>> \in Matches
                 THEN Append(commands, <<name, value>>) ELSE commands

restVars == <<fd, scanVars, device, running, panelVars>>

Wake ==
  /\ at = "pause" /\ running /\ device # None
  /\ at' = "available"
  /\ UNCHANGED <<restVars, buffer, values, commands, port, historyVars>>

Test ==
  /\ at = "available"
  /\ at' = IF Available(device) THEN "read" ELSE "output"
  /\ UNCHANGED <<restVars, buffer, values, commands, port, historyVars>>

Read ==
  /\ at = "read" /\ at' = "available"
  /\ ReadLine(device)
  /\ LET line == Line(device)
     IN  IF IsInput(line) THEN HandleInput(line[Len(line) - 1].of, Last(line).of)
         ELSE UNCHANGED <<values, commands>>
  /\ UNCHANGED <<restVars, detected>>

(* The outputs are written, and flush() discards the input that has arrived *)
(* since: a line may lose its end, another its start.                       *)
Output ==
  /\ at = "output" /\ at' = "pause"
  /\ port' = IF IsOpen(device) /\ Plugged THEN << >> ELSE port
  /\ UNCHANGED <<restVars, buffer, values, commands, historyVars>>

Finish ==
  /\ at = "pause" /\ ~running
  /\ at' = "ended"
  /\ UNCHANGED <<restVars, buffer, values, commands, port, historyVars>>

DeviceThread == Wake \/ Test \/ Read \/ Output \/ Finish

-----------------------------------------------------------------------------
(* The panel sends to an open port, and may be pulled out. *)
Send ==
  /\ Plugged /\ (\E d \in Definitions : IsOpen(d)) /\ sent < MaxTokens
  /\ sent' = sent + 1
  /\ IF half = None
     THEN \/ port' = Append(port, Hello(panel)) /\ UNCHANGED half
          \/ \E n \in Names : port' = Append(port, Switch(n)) /\ half' = n
     ELSE \E v \in Positions : port' = Append(port, State(v)) /\ half' = None
  /\ UNCHANGED <<fd, buffer, scanVars, device, threadVars, running, panel,
                 historyVars>>

Unplug ==
  /\ Plugged /\ panel' = None /\ half' = None /\ port' = << >>
  /\ UNCHANGED <<fd, buffer, scanVars, device, threadVars, running, sent,
                 historyVars>>

(* FlightConnector::stop(): the device is closed, then the thread is told;  *)
(* it is joined until it has ended.                                         *)
CloseDevice ==
  /\ scan = None /\ todo = {} /\ running /\ device # None /\ IsOpen(device)
  /\ Close(device)
  /\ UNCHANGED <<buffer, scanVars, device, threadVars, running, port, panelVars,
                 historyVars>>

ClearRunning ==
  /\ scan = None /\ todo = {} /\ running
  /\ device # None => ~IsOpen(device)
  /\ running' = FALSE
  /\ UNCHANGED <<fd, buffer, scanVars, device, threadVars, port, panelVars,
                 historyVars>>

Next ==
  \/ Scan \/ Scanning
  \/ DeviceThread
  \/ Send \/ Unplug
  \/ CloseDevice \/ ClearRunning

Spec == Init /\ [][Next]_vars

(* Threads run: a read waits half a second at most.  A stop() that has      *)
(* closed the device goes on.                                               *)
Fairness ==
  /\ WF_vars(Scanning)
  /\ WF_vars(DeviceThread)
  /\ WF_vars(device # None /\ ClearRunning)

FairSpec == Spec /\ Fairness

-----------------------------------------------------------------------------
(* Every variable stays in its domain. *)
TypeOK ==
  /\ fd \in [Definitions -> {"none", "open", "closed"}]
  /\ buffer \in Seq(Tokens)
  /\ scan \in Definitions \cup {None} /\ todo \subseteq Definitions
  /\ attempt \in 0..MaxAttempts
  /\ device \in Definitions \cup {None}
  /\ at \in {"pause", "available", "read", "output", "ended"}
  /\ values \in [Names -> Positions \cup {None}]
  /\ commands \in Seq(Matches)
  /\ running \in BOOLEAN
  /\ port \in Seq(Tokens)
  /\ half \in Names \cup {None} /\ panel \in Definitions \cup {None}
  /\ sent \in 0..MaxTokens

(* However the bytes of the panel are cut into reads, readLine() returns    *)
(* each of them once, in order, or still has it in its buffer: lines sent   *)
(* together with the panel's greeting included.                             *)
ReadOnce == delivered = lines \o buffer

(* One reader: however often the ports are scanned, while the device thread *)
(* runs or not, a port is open for its device or for the definition being   *)
(* detected, and for nobody else.                                           *)
OneReader ==
  \A d \in Definitions : IsOpen(d) => d = IF device = None THEN scan ELSE device

(* The inputs among the tokens of update()'s lines, and those that are no    *)
(* repetition.                                                              *)
Inputs(tokens) ==
  {i \in detected + 2..Len(tokens) : tokens[i - 1].kind = "switch" /\ tokens[i].kind = "state"}

Changes(tokens) ==
  {i \in Inputs(tokens) :
     \A j \in Inputs(tokens) :
       /\ j < i /\ tokens[j - 1] = tokens[i - 1]
       /\ \A k \in Inputs(tokens) : j < k /\ k < i => tokens[k - 1] # tokens[i - 1]
       => tokens[j] # tokens[i]}

Sending(tokens) ==
  {i \in Changes(tokens) : <<tokens[i - 1].of, tokens[i].of>> \in Matches}

(* A panel repeats itself, but the commands of a switch, most of which      *)
(* toggle something, are sent once for each change, and in order.           *)
CommandsAreChanges ==
  \E order \in [DOMAIN commands -> Sending(lines)] :
    /\ \A k, l \in DOMAIN commands : k < l => order[k] < order[l]
    /\ \A i \in Sending(lines) : \E k \in DOMAIN commands : order[k] = i
    /\ \A k \in DOMAIN commands :
         commands[k] = <<lines[order[k] - 1].of, lines[order[k]].of>>

(* stop() ends the device thread when the device has been closed and no     *)
(* line is waiting in its buffer.                                           *)
StopEndsIdleDevice ==
  (device # None /\ ~IsOpen(device) /\ ~HasLine(buffer)) ~> (at = "ended")

(* stop() ends the device thread. *)
StopEndsDevice == ~running ~> (at = "ended")
=============================================================================
