----------------------------- MODULE USBHIDDevice -----------------------------
(***************************************************************************)
(* USB HID panels: USBHIDConfigManager::scan() opens a panel, the device    *)
(* thread decodes its reports and draws its display, stop() closes it.      *)
(*                                                                          *)
(* Every scan that opens the panel makes a Device object; one whose panel   *)
(* was pulled out stays in the list for good, and can read no more than     *)
(* hidapi has queued.  Both hidapi libraries of the build, libusb's and     *)
(* macOS's, let one handle at a time have the panel.                        *)
(*                                                                          *)
(* Two flows of control work on the objects: the device thread, and main,   *)
(* which scans and stops.  Main updates an object with an aircraft without  *)
(* values, when it initialises and when it closes it, and so reads on the   *)
(* way what has been pressed.  What the device thread does with a handle    *)
(* that is closed under it is undefined: it goes no further here.           *)
(*                                                                          *)
(* Reports have the length and the id of the panel's input descriptor.      *)
(***************************************************************************)
EXTENDS BitBuffer, SequencesExt

CONSTANTS
  Buttons,      \* the input descriptor: its buttons, in order
  Mapped,       \* the buttons that have a command
  ReportId,     \* the output descriptor: its report id, None if it has none
  Outputs,      \* and its fields
  Numbers,      \* what the display may show
  Digit,        \* getDigit(): Digit[n][i] is digit i of n, from the right
  NoDigits,     \* the digits shown for no number
  Pattern,      \* formatDigit()
  MaxObjects,   \* bound: times the panel is opened
  QueueSize,    \* the reports hidapi keeps
  MaxReports,   \* bound: reports the panel sends
  None

(* The lengths parseDescriptor() gives to the fields. *)
Parsed(fld) ==
  /\ fld.length \in Nat
  /\ \/ fld.type = "bit"    /\ fld.length = 1
     \/ fld.type = "byte"   /\ fld.length = 8
     \/ fld.type = "uint16" /\ fld.length = 16
     \/ fld.type = "uint32" /\ fld.length = 32
     \/ /\ fld.type = "data" /\ fld.source.of = "value"
        /\ Len(fld.source.value) \in Nat
        /\ fld.length = 8 * Len(fld.source.value)
     \/ fld.type \in {"bits", "digit", "padding"}

ASSUME USBAssumption ==
  /\ {MaxObjects, QueueSize, MaxReports} \subseteq Nat
  /\ Len(Buttons) \in Nat /\ DOMAIN Buttons = 1..Len(Buttons)
  /\ \A i, j \in DOMAIN Buttons : Buttons[i] = Buttons[j] => i = j
  /\ Mapped \subseteq ToSet(Buttons)
  /\ None \notin Numbers /\ Numbers \subseteq DOMAIN Digit
  /\ Len(Outputs) \in Nat /\ DOMAIN Outputs = 1..Len(Outputs)
  /\ \A i \in DOMAIN Outputs :
       /\ Outputs[i].source.of \in {"value", "digit", "data", "!data"}
       /\ Parsed(Outputs[i])
       /\ Outputs[i].type = "padding" => i = Len(Outputs)

Objects == 1..MaxObjects
Flows   == {"device", "main"}
Reports == SUBSET ToSet(Buttons)

VARIABLES
  plugged,      \* the panel is plugged in
  sent,         \* reports it has sent
  handle,       \* m_device of each object: "none", "open", "lost", "closed"
  queue,        \* the reports hidapi has for it
  list,         \* m_devices
  connected,    \* getDataSource() # nullptr
  running,      \* m_running
  pass,         \* objects updateDevices() has still to update
  toClose,      \* objects stop() has still to close
  pc,           \* where each flow is
  on,           \* the object it works on
  field,        \* the field it is at, of a report or of the output
  report,       \* the report it decodes
  digits,       \* displayValues
  buffer,       \* the BitBuffer it fills
  values,       \* history: the values it has put there
  previous,     \* buttons whose previousState is set, of each object
  commands,     \* the commands sent for each object
  received      \* history: the reports read from each object

panelVars  == <<plugged, sent, handle, queue>>
listVars   == <<list, connected, running, pass, toClose>>
inputVars  == <<report, previous, commands, received>>
outputVars == <<digits, buffer, values>>
vars == <<panelVars, listVars, pc, on, field, inputVars, outputVars>>

Init ==
  /\ plugged = FALSE /\ sent = 0
  /\ handle = [o \in Objects |-> "none"] /\ queue = [o \in Objects |-> << >>]
  /\ list = {} /\ connected \in BOOLEAN /\ running = FALSE
  /\ pass = {} /\ toClose = {}
  /\ pc = [f \in Flows |-> "idle"] /\ on = [f \in Flows |-> None]
  /\ field = [f \in Flows |-> 1] /\ report = [f \in Flows |-> {}]
  /\ previous = [o \in Objects |-> {}]
  /\ commands = [o \in Objects |-> << >>] /\ received = [o \in Objects |-> << >>]
  /\ digits = [f \in Flows |-> << >>] /\ buffer = [f \in Flows |-> << >>]
  /\ values = [f \in Flows |-> << >>]

Goto(f, from, to) == pc[f] = from /\ pc' = [pc EXCEPT ![f] = to]

-----------------------------------------------------------------------------
(* updateInput(): one hid_read() after the other, as long as there are      *)
(* reports.                                                                 *)

(* update() returns at once without a data source. *)
BeginUpdate(f, o) ==
  /\ pc' = [pc EXCEPT ![f] = IF connected THEN "read" ELSE "updated"]
  /\ on' = [on EXCEPT ![f] = o]

HidRead(f) ==
  LET o == on[f]
  IN  /\ pc[f] = "read" /\ handle[o] # "closed"
      /\ IF queue[o] = << >>
         THEN /\ pc' = [pc EXCEPT ![f] = "display"]
              /\ UNCHANGED <<queue, field, report, received>>
         ELSE /\ pc' = [pc EXCEPT ![f] = "test"]
              /\ queue' = [queue EXCEPT ![o] = Tail(@)]
              /\ field' = [field EXCEPT ![f] = 1]
              /\ report' = [report EXCEPT ![f] = Head(queue[o])]
              /\ received' = [received EXCEPT ![o] = Append(@, Head(queue[o]))]
  /\ UNCHANGED <<plugged, sent, handle, listVars, on, previous, commands,
                 outputVars>>

(* The bug of not comparing with the report before. *)
Changed_Level(f, b) == b \in report[f]

Changed(f, b) == (b \in report[f]) # (b \in previous[on[f]])

(* A button that has been pressed sends its command. *)
TestField(f) ==
  /\ pc[f] = "test"
  /\ IF field[f] > Len(Buttons)
     THEN pc' = [pc EXCEPT ![f] = "read"] /\ UNCHANGED <<field, commands>>
     ELSE LET b == Buttons[field[f]]
          IN  /\ IF Changed(f, b)
                 THEN pc' = [pc EXCEPT ![f] = "store"] /\ UNCHANGED field
                 ELSE field' = [field EXCEPT ![f] = @ + 1] /\ UNCHANGED pc
              /\ commands' = IF Changed(f, b) /\ b \in report[f] \cap Mapped
                             THEN [commands EXCEPT ![on[f]] = Append(@, b)]
                             ELSE commands
  /\ UNCHANGED <<panelVars, listVars, on, report, previous, received,
                 outputVars>>

StoreField(f) ==
  /\ Goto(f, "store", "test")
  /\ LET b == Buttons[field[f]]
     IN  previous' = [previous EXCEPT ![on[f]] =
                        IF b \in report[f] THEN @ \cup {b} ELSE @ \ {b}]
  /\ field' = [field EXCEPT ![f] = @ + 1]
  /\ UNCHANGED <<panelVars, listVars, on, report, commands, received,
                 outputVars>>

-----------------------------------------------------------------------------
(* updateOutput(): the fields, one after the other, from the aircraft state *)
(* that main has none of.                                                   *)

(* What the state holds when it is looked at; main's holds nothing. *)
NumbersOf(f)  == IF f = "device" THEN Numbers ELSE {None}
SwitchesOf(f) == IF f = "device" THEN {0, 1} ELSE {0}

Digits(n) == IF n = None THEN NoDigits ELSE Digit[n]

(* createDisplayValues() splits the number into its digits. *)
CreateDisplayValues(f) ==
  /\ Goto(f, "display", "output")
  /\ \E n \in NumbersOf(f) : digits' = [digits EXCEPT ![f] = Digits(n)]
  /\ buffer' = [buffer EXCEPT ![f] =
       IF ReportId = None THEN << >> ELSE AppendByte(<< >>, ReportId)]
  /\ values' = [values EXCEPT ![f] = << >>]
  /\ field' = [field EXCEPT ![f] = 1]
  /\ UNCHANGED <<panelVars, listVars, on, inputVars>>

(* The bug of taking each digit from the number there is by then. *)
DisplayValue_Now(f, i) == {Digits(n)[i] : n \in NumbersOf(f)}

DisplayValue(f, i) == {digits[f][i]}

GetValue(f, source) ==
  CASE source.of = "value" -> {source.value}
    [] source.of = "digit" -> DisplayValue(f, source.value)
    [] source.of = "data"  -> SwitchesOf(f)
    [] source.of = "!data" -> {1 - v : v \in SwitchesOf(f)}

(* The bits of a list of bytes. *)
DataBits(bytes) ==
  [j \in 1..8 * Len(bytes) |-> Bit(bytes[1 + (j - 1) \div 8], (j - 1) % 8)]

(* The bytes of a "data" field stand for its value.  What is added bit by   *)
(* bit is a uint8_t.                                                        *)
AppendField(bits, fld, value) ==
  CASE fld.type = "bit"     -> AppendBit(bits, Bit(value, 0))
    [] fld.type = "bits"    -> AppendBits(bits, value % 256, fld.length)
    [] fld.type = "digit"   -> AppendBits(bits, Pattern[value], fld.length)
    [] fld.type = "data"    -> AppendBytes(bits, DataBits(value))
    [] fld.type = "byte"    -> AppendByte(bits, value)
    [] fld.type = "uint16"  -> AppendBytes(bits, ValueBits(value, 16))
    [] fld.type = "uint32"  -> AppendBytes(bits, ValueBits(value, 32))
    [] fld.type = "padding" ->
         LET flushed == FlushBits(bits)
         IN  IF Len(flushed) < fld.length
             THEN flushed \o Zeros(fld.length - Len(flushed)) ELSE flushed

UpdateOutput(f) ==
  /\ pc[f] = "output" /\ field[f] <= Len(Outputs)
  /\ LET fld == Outputs[field[f]]
     IN  \E value \in GetValue(f, fld.source) :
           /\ buffer' = [buffer EXCEPT ![f] = AppendField(@, fld, value)]
           /\ values' = [values EXCEPT ![f] = Append(@, value)]
  /\ field' = [field EXCEPT ![f] = @ + 1]
  /\ UNCHANGED <<panelVars, listVars, pc, on, inputVars, digits>>

HidWrite(f) ==
  /\ field[f] > Len(Outputs) /\ handle[on[f]] # "closed"
  /\ Goto(f, "output", "updated")
  /\ digits' = [digits EXCEPT ![f] = << >>]
  /\ buffer' = [buffer EXCEPT ![f] = << >>]
  /\ values' = [values EXCEPT ![f] = << >>]
  /\ field' = [field EXCEPT ![f] = 1] /\ report' = [report EXCEPT ![f] = {}]
  /\ UNCHANGED <<panelVars, listVars, on, previous, commands, received>>

Update(f) ==
  HidRead(f) \/ TestField(f) \/ StoreField(f) \/ CreateDisplayValues(f)
    \/ UpdateOutput(f) \/ HidWrite(f)

restVars == <<field, inputVars, outputVars>>

-----------------------------------------------------------------------------
(* The device thread: updateDevices() holds m_devicesMutex for the whole    *)
(* pass over m_devices, the oldest first.                                   *)

UpdateDevice ==
  /\ pc["device"] = "idle" /\ (running \/ pass # {})
  /\ \E todo \in {IF pass = {} THEN list ELSE pass} :
       /\ todo # {}
       /\ BeginUpdate("device", Min(todo))
       /\ pass' = todo \ {Min(todo)}
  /\ UNCHANGED <<panelVars, list, connected, running, toClose, restVars>>

Updated ==
  /\ Goto("device", "updated", "idle")
  /\ UNCHANGED <<panelVars, listVars, on, restVars>>

-----------------------------------------------------------------------------
(* Main                                                                     *)

(* scan(): checkDevice() opens the panel, which fails while a handle has    *)
(* it, and init() opens it again and clears the display.                    *)
Scan ==
  /\ pc["main"] = "idle"
  /\ plugged /\ \A o \in Objects : handle[o] # "open"
  /\ \E o \in Objects :
       /\ \A p \in Objects : p < o <=> handle[p] # "none"
       /\ handle' = [handle EXCEPT ![o] = "open"]
       /\ BeginUpdate("main", o)
  /\ UNCHANGED <<plugged, sent, queue, listVars, restVars>>

(* addDevice() waits for m_devicesMutex. *)
AddDevice ==
  /\ on["main"] \notin list /\ pc["device"] = "idle" /\ pass = {}
  /\ Goto("main", "updated", "idle")
  /\ list' = list \cup {on["main"]}
  /\ UNCHANGED <<panelVars, connected, running, pass, toClose, on, restVars>>

(* The threads are started when there is a data source: in ufctool that is  *)
(* after the first scan, in the plugin before.                              *)
Start ==
  /\ pc["main"] = "idle" /\ ~running /\ connected' = TRUE /\ running' = TRUE
  /\ UNCHANGED <<panelVars, list, pass, toClose, pc, on, restVars>>

Stop ==
  /\ running /\ Goto("main", "idle", "stop")
  /\ toClose' = list
  /\ UNCHANGED <<panelVars, list, connected, running, pass, on, restVars>>

(* close(): the display is cleared, the handle is closed. *)
Close ==
  /\ pc["main"] = "stop"
  /\ toClose # {} /\ BeginUpdate("main", Min(toClose))
  /\ UNCHANGED <<panelVars, listVars, restVars>>

HidClose ==
  /\ on["main"] \in list
  /\ Goto("main", "updated", "stop")
  /\ handle' = [handle EXCEPT ![on["main"]] = "closed"]
  /\ toClose' = toClose \ {on["main"]}
  /\ UNCHANGED <<plugged, sent, queue, list, connected, running, pass, on,
                 restVars>>

ClearRunning ==
  /\ toClose = {} /\ Goto("main", "stop", "stopped") /\ running' = FALSE
  /\ UNCHANGED <<panelVars, list, connected, pass, toClose, on, restVars>>

Main == Scan \/ AddDevice \/ Start \/ Stop \/ Close \/ HidClose \/ ClearRunning

-----------------------------------------------------------------------------
(* The panel                                                                *)

Plug ==
  /\ ~plugged /\ plugged' = TRUE
  /\ UNCHANGED <<sent, handle, queue, listVars, pc, on, restVars>>

Unplug ==
  /\ plugged /\ plugged' = FALSE
  /\ handle' = [o \in Objects |-> IF handle[o] = "open" THEN "lost" ELSE handle[o]]
  /\ UNCHANGED <<sent, queue, listVars, pc, on, restVars>>

(* hidapi keeps the newest reports. *)
SendReport ==
  /\ sent < MaxReports /\ sent' = sent + 1
  /\ \E o \in Objects, r \in Reports :
       /\ handle[o] = "open"
       /\ LET all == Append(queue[o], r)
          IN  queue' = [queue EXCEPT ![o] =
                          IF Len(all) > QueueSize THEN Tail(all) ELSE all]
  /\ UNCHANGED <<plugged, handle, listVars, pc, on, restVars>>

Next ==
  \/ \E f \in Flows : Update(f)
  \/ UpdateDevice \/ Updated
  \/ Main
  \/ Plug \/ Unplug \/ SendReport

Spec == Init /\ [][Next]_vars

-----------------------------------------------------------------------------
(* The presses in a sequence of reports: <<k, i>> if button i is in the     *)
(* k-th report and was not in the one before.                               *)
Presses(reports) ==
  {p \in (DOMAIN reports) \X (DOMAIN Buttons) :
     /\ Buttons[p[2]] \in reports[p[1]] \cap Mapped
     /\ p[1] = 1 \/ Buttons[p[2]] \notin reports[p[1] - 1]}

Before(p, q) == p[1] < q[1] \/ (p[1] = q[1] /\ p[2] < q[2])

(* The commands are one for each of the presses, in their order.            *)
OneForEach(cmds, presses) ==
  \E order \in [DOMAIN cmds -> presses] :
    /\ \A m, n \in DOMAIN cmds : m < n => Before(order[m], order[n])
    /\ \A p \in presses : \E n \in DOMAIN cmds : order[n] = p
    /\ \A n \in DOMAIN cmds : cmds[n] = Buttons[order[n][2]]

(* Until stop() closes the panels. *)
Serving == toClose = {} /\ pc["main"] \notin {"stop", "stopped"}

Decoding(f, o) == on[f] = o /\ pc[f] \in {"test", "store"}

(* A panel sends its state, again and again; each press sends its command   *)
(* once, in the order of the presses, whichever flow reads the report: init *)
(* or the device thread, on this object or on the one before the panel was  *)
(* pulled out.                                                              *)
PressesSentOnce ==
  \A o \in Objects :
    Serving /\ (\A f \in Flows : ~Decoding(f, o)) =>
      OneForEach(commands[o], Presses(received[o]))

(* The report a flow is about to write, and the values in it. *)
Writes(f)  == pc[f] = "output" /\ field[f] > Len(Outputs)
Written(f) == FlushBits(buffer[f])

(* Where a field starts: behind the report's id and the fields before it. *)
Offset[i \in 1..Len(Outputs) + 1] ==
  IF i = 1 THEN IF ReportId = None THEN 0 ELSE 8
  ELSE Offset[i - 1] + Outputs[i - 1].length

(* Bit i of what a field shows, the lowest bit of the lowest byte first. *)
FieldBit(fld, value, i) ==
  CASE fld.type = "data"  -> Bit(value[1 + i \div 8], i % 8)
    [] fld.type = "digit" -> Bit(Pattern[value], i)
    [] fld.type = "bits"  -> Bit(value % 256, i)
    [] OTHER              -> Bit(value, i)

(* Bits and digits lie anywhere; bytes where a byte starts.  Padding is the *)
(* last field.                                                              *)
Aligned(fld, from) ==
  fld.type \in {"data", "byte", "uint16", "uint32"} => from % 8 = 0

IsAt(bits, fld, from, value) ==
  IF fld.type = "padding" THEN Len(bits) >= fld.length
  ELSE Aligned(fld, from) =>
         \A j \in 1..fld.length : bits[from + j] = FieldBit(fld, value, j - 1)

(* The panel finds each value where the descriptor says. *)
FieldsAtOffsets ==
  \A f \in Flows : Writes(f) =>
    \A i \in DOMAIN Outputs :
      IsAt(Written(f), Outputs[i], Offset[i], values[f][i])

(* The digits on the display are those of one number, never the tens of one *)
(* and the units of the next, though the number changes while the report is *)
(* put together.                                                            *)
DigitsOfOneNumber ==
  \A f \in Flows : Writes(f) =>
    \E n \in Numbers \cup {None} : \A i \in DOMAIN Outputs :
      LET source == Outputs[i].source
      IN  source.of = "digit" => values[f][i] = Digits(n)[source.value]
=============================================================================
