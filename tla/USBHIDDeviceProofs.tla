-------------------------- MODULE USBHIDDeviceProofs --------------------------
(***************************************************************************)
(* Proofs about USBHIDDevice, for any descriptor, numbers, digits, reports  *)
(* and objects: the digits of a display are those of one number             *)
(* (DigitsOfOneNumber), whatever the aircraft state does meanwhile; each    *)
(* press of a button sends its command once (PressesSentOnce); the panel    *)
(* finds each value at its offset (FieldsAtOffsets).                        *)
(***************************************************************************)
EXTENDS USBHIDDevice, SequenceTheorems, WellFoundedInduction, TLAPS

(* What a field of the output may show. *)
Shown ==
  {Outputs[i].source.value : i \in DOMAIN Outputs}
    \cup {Digits(n)[Outputs[i].source.value] :
            n \in Numbers \cup {None}, i \in DOMAIN Outputs}
    \cup {0, 1}

FlowsOK ==
  /\ pc \in [Flows -> {"idle", "read", "test", "store", "display", "output",
                       "updated", "stop", "stopped"}]
  /\ field \in [Flows -> Nat \ {0}]
  /\ values \in [Flows -> Seq(Shown)]
  /\ digits = [f \in Flows |-> digits[f]]

(* The fields drawn so far show the digits of the number n. *)
Drawn(f, n) ==
  /\ digits[f] = Digits(n)
  /\ Len(values[f]) = field[f] - 1
  /\ \A i \in DOMAIN Outputs :
       i < field[f] /\ Outputs[i].source.of = "digit" =>
         values[f][i] = Digits(n)[Outputs[i].source.value]

DrawInv ==
  \A f \in Flows : pc[f] = "output" => \E n \in Numbers \cup {None} : Drawn(f, n)

IInv == FlowsOK /\ DrawInv

-----------------------------------------------------------------------------
LEMMA InvInit == Init => IInv
<1> SUFFICES ASSUME Init PROVE IInv
  OBVIOUS
<1>1. << >> \in Seq(Shown)
  OBVIOUS
<1> QED BY <1>1 DEF Init, IInv, FlowsOK, DrawInv

(* What is drawn stays drawn while the flow's own output is left alone. *)
LEMMA OthersStep ==
  ASSUME IInv, FlowsOK', NEW f \in Flows, pc'[f] = "output" => pc[f] = "output",
         digits'[f] = digits[f], values'[f] = values[f],
         pc[f] = "output" => field'[f] = field[f]
  PROVE  pc'[f] = "output" => \E n \in Numbers \cup {None} : Drawn(f, n)'
BY DEF IInv, DrawInv, Drawn

(* The steps that read reports, and those of other flows, draw nothing. *)
LEMMA InputStep ==
  ASSUME IInv, NEW f \in Flows, HidRead(f) \/ TestField(f) \/ StoreField(f)
  PROVE  IInv'
<1>1. UNCHANGED outputVars /\ pc[f] \in {"read", "test", "store"}
  BY DEF HidRead, TestField, StoreField, Goto
<1>2. FlowsOK
  BY DEF IInv
<1>3. \E to \in {"read", "test", "store", "display"} : pc' = [pc EXCEPT ![f] = to]
  BY <1>2 DEF HidRead, TestField, StoreField, Goto, FlowsOK
<1>4. \E k \in Nat \ {0} : field' = [field EXCEPT ![f] = k]
  <2>1. field[f] \in Nat \ {0} /\ field[f] + 1 \in Nat \ {0}
    BY <1>2 DEF FlowsOK
  <2>2. field = [field EXCEPT ![f] = field[f]]
    BY <1>2 DEF FlowsOK
  <2>3. \/ field' = field
        \/ field' = [field EXCEPT ![f] = 1]
        \/ field' = [field EXCEPT ![f] = field[f] + 1]
    <3>1. CASE HidRead(f)
      BY <3>1 DEF HidRead
    <3>2. CASE TestField(f)
      <4>1. PICK b : b = Buttons[field[f]]
        OBVIOUS
      <4> QED BY <3>2, <4>1 DEF TestField
    <3>3. CASE StoreField(f)
      BY <3>3 DEF StoreField
    <3> QED BY <3>1, <3>2, <3>3
  <2> QED BY <2>1, <2>2, <2>3
<1>5. FlowsOK'
  BY <1>1, <1>2, <1>3, <1>4 DEF FlowsOK, outputVars
<1>6. DrawInv'
  <2> SUFFICES ASSUME NEW g \in Flows
               PROVE  pc'[g] = "output" => \E n \in Numbers \cup {None} : Drawn(g, n)'
    BY DEF DrawInv
  <2>1. pc'[g] = "output" => pc[g] = "output" /\ field'[g] = field[g]
    BY <1>1, <1>2, <1>3, <1>4 DEF FlowsOK
  <2>2. digits' = digits /\ values' = values
    BY <1>1 DEF outputVars
  <2>3. CASE pc'[g] = "output"
    BY <1>5, <2>1, <2>2, <2>3, OthersStep
  <2> QED BY <2>3
<1> QED BY <1>5, <1>6 DEF IInv

LEMMA DisplayStep ==
  ASSUME IInv, NEW f \in Flows, CreateDisplayValues(f)
  PROVE  IInv'
<1>1. FlowsOK
  BY DEF IInv
<1>2. PICK n \in NumbersOf(f) : digits' = [digits EXCEPT ![f] = Digits(n)]
  BY DEF CreateDisplayValues
<1>3. n \in Numbers \cup {None}
  BY DEF NumbersOf
<1>4. /\ pc' = [pc EXCEPT ![f] = "output"]
      /\ values' = [values EXCEPT ![f] = << >>]
      /\ field' = [field EXCEPT ![f] = 1]
  BY DEF CreateDisplayValues, Goto
<1>5. << >> \in Seq(Shown) /\ Len(<< >>) = 0
  OBVIOUS
<1>6. FlowsOK'
  <2>1. digits' = [g \in Flows |-> digits'[g]]
    BY <1>1, <1>2 DEF FlowsOK
  <2>2. values' \in [Flows -> Seq(Shown)]
    BY <1>1, <1>4, <1>5 DEF FlowsOK
  <2>3. pc' \in [Flows -> {"idle", "read", "test", "store", "display", "output",
                          "updated", "stop", "stopped"}]
        /\ field' \in [Flows -> Nat \ {0}]
    BY <1>1, <1>4 DEF FlowsOK
  <2> QED BY <2>1, <2>2, <2>3 DEF FlowsOK
<1>7. Drawn(f, n)'
  BY <1>1, <1>2, <1>4, <1>5, USBAssumption DEF Drawn, FlowsOK, Digits
<1>8. ASSUME NEW g \in Flows, g # f, pc'[g] = "output"
      PROVE  \E m \in Numbers \cup {None} : Drawn(g, m)'
  <2>1. /\ pc[g] = pc'[g] /\ digits'[g] = digits[g] /\ values'[g] = values[g]
        /\ field'[g] = field[g]
    BY <1>1, <1>2, <1>4, <1>8 DEF FlowsOK
  <2> QED BY <1>6, <1>8, <2>1, OthersStep
<1> QED BY <1>3, <1>6, <1>7, <1>8 DEF IInv, DrawInv

LEMMA OutputStep ==
  ASSUME IInv, NEW f \in Flows, UpdateOutput(f)
  PROVE  IInv'
<1> USE USBAssumption
<1>1. FlowsOK /\ pc[f] = "output"
  BY DEF IInv, UpdateOutput
<1>2. PICK k : k = field[f]
  OBVIOUS
<1>3. k \in DOMAIN Outputs
  BY <1>1, <1>2 DEF FlowsOK, UpdateOutput
<1>4. PICK value \in GetValue(f, Outputs[k].source) :
        values' = [values EXCEPT ![f] = Append(@, value)]
  BY <1>2 DEF UpdateOutput
<1>5. field' = [field EXCEPT ![f] = k + 1] /\ UNCHANGED <<pc, digits>>
  BY <1>1, <1>2 DEF UpdateOutput, FlowsOK
<1>6. PICK n \in Numbers \cup {None} : Drawn(f, n)
  BY <1>1 DEF IInv, DrawInv
<1>7. Outputs[k].source.of = "digit" => value = Digits(n)[Outputs[k].source.value]
  BY <1>4, <1>6 DEF GetValue, DisplayValue, Drawn
<1>8. value \in Shown
  <2>1. CASE Outputs[k].source.of = "value"
    BY <1>3, <1>4, <2>1 DEF GetValue, Shown
  <2>2. CASE Outputs[k].source.of = "digit"
    BY <1>3, <1>7, <2>2 DEF Shown
  <2>3. CASE Outputs[k].source.of \in {"data", "!data"}
    BY <1>4, <2>3 DEF GetValue, Shown, SwitchesOf
  <2> QED BY <1>3, <2>1, <2>2, <2>3
<1>9. /\ values[f] \in Seq(Shown) /\ Len(values[f]) = k - 1 /\ k \in Nat \ {0}
      /\ values'[f] = Append(values[f], value) /\ field'[f] = k + 1
  BY <1>1, <1>2, <1>4, <1>5, <1>6 DEF FlowsOK, Drawn
<1>10. /\ values'[f] \in Seq(Shown) /\ Len(values'[f]) = k
       /\ values'[f][k] = value
       /\ \A i \in 1..k - 1 : values'[f][i] = values[f][i]
  BY <1>8, <1>9
<1>11. FlowsOK'
  BY <1>1, <1>4, <1>5, <1>9, <1>10 DEF FlowsOK
<1>12. Drawn(f, n)'
  <2>1. digits'[f] = Digits(n) /\ Len(values'[f]) = field'[f] - 1
    BY <1>5, <1>6, <1>9, <1>10 DEF Drawn
  <2>2. ASSUME NEW i \in DOMAIN Outputs, i < field'[f], Outputs[i].source.of = "digit"
        PROVE  values'[f][i] = Digits(n)[Outputs[i].source.value]
    <3>1. CASE i = k
      BY <1>7, <1>10, <2>2, <3>1
    <3>2. CASE i # k
      <4>0. i \in Nat \ {0} /\ i < k + 1 /\ k \in Nat
        <5>1. field'[f] = k + 1 /\ k \in Nat
          BY <1>9
        <5>2. i \in 1..Len(Outputs) /\ Len(Outputs) \in Nat
          OBVIOUS
        <5> QED BY <2>2, <5>1, <5>2
      <4>1. i \in 1..k - 1 /\ i < field[f]
        BY <1>2, <3>2, <4>0
      <4>2. values[f][i] = Digits(n)[Outputs[i].source.value]
        BY <1>6, <2>2, <4>1 DEF Drawn
      <4> QED BY <1>10, <4>1, <4>2
    <3> QED BY <3>1, <3>2
  <2> QED BY <2>1, <2>2 DEF Drawn, Digits
<1>13. ASSUME NEW g \in Flows, g # f, pc'[g] = "output"
       PROVE  \E m \in Numbers \cup {None} : Drawn(g, m)'
  <2>1. /\ pc[g] = pc'[g] /\ digits'[g] = digits[g] /\ values'[g] = values[g]
        /\ field'[g] = field[g]
    BY <1>1, <1>4, <1>5, <1>13 DEF FlowsOK
  <2> QED BY <1>11, <1>13, <2>1, OthersStep
<1> QED BY <1>11, <1>12, <1>13 DEF IInv, DrawInv

LEMMA WriteStep ==
  ASSUME IInv, NEW f \in Flows, HidWrite(f)
  PROVE  IInv'
<1>1. FlowsOK
  BY DEF IInv
<1>2. /\ pc' = [pc EXCEPT ![f] = "updated"]
      /\ digits' = [digits EXCEPT ![f] = << >>]
      /\ values' = [values EXCEPT ![f] = << >>]
      /\ field' = [field EXCEPT ![f] = 1]
  BY DEF HidWrite, Goto
<1>3. << >> \in Seq(Shown)
  OBVIOUS
<1>4. FlowsOK'
  <2>1. digits' = [g \in Flows |-> digits'[g]]
    BY <1>1, <1>2 DEF FlowsOK
  <2>2. values' \in [Flows -> Seq(Shown)]
    BY <1>1, <1>2, <1>3 DEF FlowsOK
  <2>3. pc' \in [Flows -> {"idle", "read", "test", "store", "display", "output",
                          "updated", "stop", "stopped"}]
        /\ field' \in [Flows -> Nat \ {0}]
    BY <1>1, <1>2 DEF FlowsOK
  <2> QED BY <2>1, <2>2, <2>3 DEF FlowsOK
<1>5. ASSUME NEW g \in Flows, pc'[g] = "output"
      PROVE  \E m \in Numbers \cup {None} : Drawn(g, m)'
  <2>1. /\ g # f /\ pc[g] = pc'[g] /\ digits'[g] = digits[g]
        /\ values'[g] = values[g] /\ field'[g] = field[g]
    BY <1>1, <1>2, <1>5 DEF FlowsOK
  <2> QED BY <1>4, <1>5, <2>1, OthersStep
<1> QED BY <1>4, <1>5 DEF IInv, DrawInv

(* The device thread between two devices, main and the panel only move a    *)
(* flow to where it draws nothing.                                          *)
LEMMA RestStep ==
  ASSUME IInv, UpdateDevice \/ Updated \/ Main \/ Plug \/ Unplug \/ SendReport
                 \/ UNCHANGED vars
  PROVE  IInv'
<1> USE DEF restVars, outputVars, inputVars
<1>1. FlowsOK
  BY DEF IInv
<1>2. UNCHANGED <<field, digits, values>>
  BY DEF UpdateDevice, Updated, Main, Scan, AddDevice, Start, Stop, Close, HidClose,
         ClearRunning, Plug, Unplug, SendReport, vars
<1>3. \/ UNCHANGED pc
      \/ \E f \in Flows, to \in {"idle", "read", "updated", "stop", "stopped"} :
           pc' = [pc EXCEPT ![f] = to]
  <2>1. \A f, o : BeginUpdate(f, o) =>
           \E to \in {"read", "updated"} : pc' = [pc EXCEPT ![f] = to]
    BY DEF BeginUpdate
  <2>2. CASE UpdateDevice
    BY <2>1, <2>2 DEF UpdateDevice, Flows
  <2>3. CASE Updated
    BY <2>3 DEF Updated, Goto, Flows
  <2>4. CASE Main
    BY <2>1, <2>4 DEF Main, Scan, AddDevice, Start, Stop, Close, HidClose, ClearRunning,
         Goto, Flows
  <2>5. CASE Plug \/ Unplug \/ SendReport \/ UNCHANGED vars
    BY <2>5 DEF Plug, Unplug, SendReport, vars
  <2> QED BY <2>2, <2>3, <2>4, <2>5
<1>4. FlowsOK'
  BY <1>1, <1>2, <1>3 DEF FlowsOK
<1>5. ASSUME NEW g \in Flows, pc'[g] = "output"
      PROVE  \E m \in Numbers \cup {None} : Drawn(g, m)'
  <2>1. pc[g] = "output"
    BY <1>1, <1>3, <1>5 DEF FlowsOK
  <2> QED BY <1>2, <1>4, <1>5, <2>1, OthersStep
<1> QED BY <1>4, <1>5 DEF IInv, DrawInv

(* Every step keeps the inductive invariant. *)
LEMMA InvStep == IInv /\ [Next]_vars => IInv'
BY InputStep, DisplayStep, OutputStep, WriteStep, RestStep DEF Next, Update

(* The inductive invariant holds in every reachable state. *)
THEOREM Invariance == Spec => []IInv
<1>1. Init => IInv
  BY InvInit
<1>2. IInv /\ [Next]_vars => IInv'
  BY InvStep
<1> QED BY <1>1, <1>2, PTL DEF Spec

(* updateOutput() writes the digits of one number: those that               *)
(* createDisplayValues() split, however the number changes in between.      *)
THEOREM OneNumber == Spec => []DigitsOfOneNumber
<1>1. IInv => DigitsOfOneNumber
  <2> SUFFICES ASSUME IInv, NEW f \in Flows, Writes(f)
               PROVE  \E n \in Numbers \cup {None} : \A i \in DOMAIN Outputs :
                        Outputs[i].source.of = "digit" =>
                          values[f][i] = Digits(n)[Outputs[i].source.value]
    BY DEF DigitsOfOneNumber
  <2>1. PICK n \in Numbers \cup {None} : Drawn(f, n)
    BY DEF IInv, DrawInv, Writes
  <2>2. \A i \in DOMAIN Outputs : i < field[f]
    BY USBAssumption DEF IInv, FlowsOK, Writes
  <2> QED BY <2>1, <2>2 DEF Drawn
<1> QED BY <1>1, Invariance, PTL

-----------------------------------------------------------------------------
(* Presses and commands.                                                    *)
PressTypes ==
  /\ queue \in [Objects -> Seq(Reports)] /\ report \in [Flows -> Reports]
  /\ previous \in [Objects -> Reports]
  /\ received \in [Objects -> Seq(Reports)]
  /\ commands \in [Objects -> Seq(ToSet(Buttons))]
  /\ on = [f \in Flows |-> on[f]]

(* The device thread works on the objects of the list; main on one that is  *)
(* not in it yet, and on those of the list when it closes them.             *)
Opened == {o \in Objects : handle[o] # "none"}

ListInv ==
  /\ list \subseteq Opened /\ pass \subseteq list /\ toClose \subseteq list
  /\ handle = [o \in Objects |-> handle[o]]
  /\ pc["device"] # "idle" => on["device"] \in list
  /\ pc["main"] = "idle" => Serving
  /\ \/ pc["main"] \in {"idle", "stop", "stopped"}
     \/ on["main"] \in IF Serving THEN Opened \ list ELSE list

(* The presses of all reports but the last, and of the first fields of that.*)
Upto(reports, u) ==
  {p \in Presses(reports) : p[1] < Len(reports) \/ p[2] < u}

Sent(o, u) == OneForEach(commands[o], Upto(received[o], u))

(* previousState is that of the last report for the fields before u, and    *)
(* that of the report before for the others.                                *)
Held(o, u) ==
  \A i \in DOMAIN Buttons :
    Buttons[i] \in previous[o] <=>
      LET k == IF i < u THEN Len(received[o]) ELSE Len(received[o]) - 1
      IN  k > 0 /\ Buttons[i] \in received[o][k]

All == Len(Buttons) + 1

At(f, o) ==
  /\ Len(received[o]) > 0 /\ report[f] = received[o][Len(received[o])]
  /\ Held(o, field[f])
  /\ pc[f] = "test" => Sent(o, field[f])
  /\ pc[f] = "store" => field[f] \in DOMAIN Buttons /\ Sent(o, field[f] + 1)

ObjectInv(o) ==
  /\ (\A f \in Flows : ~Decoding(f, o)) => Sent(o, All) /\ Held(o, All)
  /\ \A f \in Flows : Decoding(f, o) => At(f, o)

DecodeInv == Serving => \A o \in Objects : ObjectInv(o)

PressInv == PressTypes /\ ListInv /\ DecodeInv

(* ----- The presses in a sequence of reports *)
LEMMA ButtonsAre ==
  /\ DOMAIN Buttons = 1..Len(Buttons) /\ Len(Buttons) \in Nat
  /\ \A i, j \in DOMAIN Buttons : Buttons[i] = Buttons[j] => i = j
  /\ \A i \in DOMAIN Buttons : Buttons[i] \in ToSet(Buttons)
BY USBAssumption DEF ToSet

LEMMA PressIs ==
  ASSUME NEW reports \in Seq(Reports), NEW p \in Presses(reports)
  PROVE  /\ p[1] \in 1..Len(reports) /\ p[2] \in DOMAIN Buttons
         /\ p = <<p[1], p[2]>>
BY DEF Presses

LEMMA IsPress ==
  ASSUME NEW reports \in Seq(Reports), NEW k \in DOMAIN reports,
         NEW i \in DOMAIN Buttons
  PROVE  <<k, i>> \in Presses(reports) <=>
           /\ Buttons[i] \in reports[k] \cap Mapped
           /\ k = 1 \/ Buttons[i] \notin reports[k - 1]
BY DEF Presses

LEMMA UptoEnd ==
  ASSUME NEW reports \in Seq(Reports), NEW u \in Nat, u > Len(Buttons)
  PROVE  Upto(reports, u) = Presses(reports)
BY ButtonsAre, PressIs DEF Upto

(* A report that is read has no press yet among its fields before the first.*)
LEMMA UptoAppend ==
  ASSUME NEW reports \in Seq(Reports), NEW r \in Reports
  PROVE  Upto(Append(reports, r), 1) = Upto(reports, All)
<1> DEFINE more == Append(reports, r)
<1>1. /\ more \in Seq(Reports) /\ Len(more) = Len(reports) + 1
      /\ \A k \in 1..Len(reports) : more[k] = reports[k]
  OBVIOUS
<1>2. Upto(reports, All) = Presses(reports)
  BY UptoEnd, ButtonsAre DEF All
<1>3. ASSUME NEW p \in Upto(more, 1)
      PROVE  p \in Presses(reports)
  <2>1. p \in Presses(more) /\ p[1] \in 1..Len(more) /\ p[2] \in DOMAIN Buttons
        /\ p = <<p[1], p[2]>>
    BY <1>1, <1>3, PressIs DEF Upto
  <2>2. p[1] < Len(more) \/ p[2] < 1
    BY <1>3 DEF Upto
  <2>3. p[1] \in 1..Len(reports)
    BY <1>1, <2>1, <2>2, ButtonsAre
  <2>4. p[1] # 1 => p[1] - 1 \in 1..Len(reports)
    BY <2>3
  <2>5. /\ Buttons[p[2]] \in more[p[1]] \cap Mapped
        /\ p[1] = 1 \/ Buttons[p[2]] \notin more[p[1] - 1]
    BY <2>1 DEF Presses
  <2>6. more[p[1]] = reports[p[1]] /\ (p[1] # 1 => more[p[1] - 1] = reports[p[1] - 1])
    BY <1>1, <2>3, <2>4
  <2>7. p[1] \in DOMAIN reports
    BY <2>3
  <2> HIDE DEF more
  <2> QED BY <2>1, <2>5, <2>6, <2>7, IsPress
<1>4. ASSUME NEW p \in Presses(reports)
      PROVE  p \in Upto(more, 1)
  <2>1. p[1] \in 1..Len(reports) /\ p[2] \in DOMAIN Buttons /\ p = <<p[1], p[2]>>
    BY <1>4, PressIs
  <2>2. p[1] \in DOMAIN more /\ p[1] < Len(more)
    BY <1>1, <2>1
  <2>3. p[1] # 1 => p[1] - 1 \in 1..Len(reports)
    BY <2>1
  <2>4. /\ Buttons[p[2]] \in reports[p[1]] \cap Mapped
        /\ p[1] = 1 \/ Buttons[p[2]] \notin reports[p[1] - 1]
    BY <1>4 DEF Presses
  <2>5. more[p[1]] = reports[p[1]] /\ (p[1] # 1 => more[p[1] - 1] = reports[p[1] - 1])
    BY <1>1, <2>1, <2>3
  <2> HIDE DEF more
  <2>6. p \in Presses(more)
    <3>1. /\ Buttons[p[2]] \in more[p[1]] \cap Mapped
          /\ p[1] = 1 \/ Buttons[p[2]] \notin more[p[1] - 1]
      BY <2>4, <2>5, Zenon
    <3>2. <<p[1], p[2]>> \in Presses(more)
      BY <1>1, <2>1, <2>2, <3>1, IsPress, Zenon
    <3> QED BY <2>1, <3>2, Zenon
  <2> QED BY <2>2, <2>6 DEF Upto
<1> QED BY <1>2, <1>3, <1>4 DEF Upto

(* The field after the ones looked at: a press of the last report or none.  *)
LEMMA UptoNext ==
  ASSUME NEW reports \in Seq(Reports), Len(reports) > 0, NEW i \in DOMAIN Buttons
  PROVE  LET q == <<Len(reports), i>>
         IN  /\ q \notin Presses(reports) => Upto(reports, i + 1) = Upto(reports, i)
             /\ q \in Presses(reports) =>
                  /\ Upto(reports, i + 1) = Upto(reports, i) \cup {q}
                  /\ \A p \in Upto(reports, i) : Before(p, q)
<1> DEFINE n == Len(reports)
           q == <<n, i>>
<1>1. n \in Nat /\ i \in Nat
  BY ButtonsAre
<1>2. \A p \in Presses(reports) :
        /\ p[1] \in 1..n /\ p[2] \in Nat /\ p = <<p[1], p[2]>>
  BY PressIs, ButtonsAre
<1>3. \A p \in Presses(reports) :
        p[1] < n \/ p[2] < i + 1 <=> p[1] < n \/ p[2] < i \/ p = q
  <2> SUFFICES ASSUME NEW p \in Presses(reports)
               PROVE  p[1] < n \/ p[2] < i + 1 <=> p[1] < n \/ p[2] < i \/ p = q
    OBVIOUS
  <2>1. PICK k \in 1..n, j \in Nat : p = <<k, j>>
    BY <1>2
  <2> QED BY <1>1, <2>1
<1>4. \A p \in Presses(reports) : p[1] < n \/ p[2] < i => Before(p, q)
  BY <1>1, <1>2 DEF Before
<1> QED BY <1>3, <1>4 DEF Upto

(* One more command for one more press, behind all the others.              *)
LEMMA OneMore ==
  ASSUME NEW cmds \in Seq(ToSet(Buttons)), NEW presses, NEW q,
         OneForEach(cmds, presses), \A p \in presses : Before(p, q)
  PROVE  OneForEach(Append(cmds, Buttons[q[2]]), presses \cup {q})
<1> DEFINE b == Buttons[q[2]]
           n == Len(cmds)
           more == Append(cmds, b)
<1>1. PICK order \in [DOMAIN cmds -> presses] :
        /\ \A k, l \in DOMAIN cmds : k < l => Before(order[k], order[l])
        /\ \A p \in presses : \E k \in DOMAIN cmds : order[k] = p
        /\ \A k \in DOMAIN cmds : cmds[k] = Buttons[order[k][2]]
  BY DEF OneForEach
<1>2. n \in Nat /\ DOMAIN cmds = 1..n /\ DOMAIN more = 1..n + 1
  <2>1. cmds \in Seq(ToSet(Buttons) \cup {b}) /\ b \in ToSet(Buttons) \cup {b}
    OBVIOUS
  <2> HIDE DEF b
  <2> QED BY <2>1
<1>3. /\ \A k \in 1..n : more[k] = cmds[k]
      /\ more[n + 1] = b
  <2>1. cmds \in Seq(ToSet(Buttons) \cup {b}) /\ b \in ToSet(Buttons) \cup {b}
    OBVIOUS
  <2> HIDE DEF b
  <2> QED BY <2>1
<1> DEFINE D == DOMAIN more
           after == [k \in D |-> IF k = n + 1 THEN q ELSE order[k]]
<1>4. D = 1..n + 1 /\ \A k \in D : k = n + 1 \/ k \in 1..n
  BY <1>2
<1>5. /\ after \in [D -> presses \cup {q}] /\ after[n + 1] = q
      /\ \A k \in 1..n : after[k] = order[k] /\ after[k] \in presses
  BY <1>1, <1>2, <1>4
<1> HIDE DEF D, after, more, n
<1>6. \A k, l \in D : k < l => Before(after[k], after[l])
  <2> SUFFICES ASSUME NEW k \in D, NEW l \in D, k < l
               PROVE  Before(after[k], after[l])
    OBVIOUS
  <2>1. k \in 1..n
    BY <1>2, <1>4
  <2>2. CASE l = n + 1
    BY <1>5, <2>1, <2>2
  <2>3. CASE l \in 1..n
    BY <1>1, <1>2, <1>5, <2>1, <2>3
  <2> QED BY <1>4, <2>2, <2>3
<1>7. \A p \in presses \cup {q} : \E k \in D : after[k] = p
  <2>1. n + 1 \in D /\ \A k \in 1..n : k \in D
    BY <1>2, <1>4
  <2> QED BY <1>1, <1>2, <1>5, <2>1
<1>8. \A k \in D : more[k] = Buttons[after[k][2]]
  BY <1>1, <1>2, <1>3, <1>4, <1>5
<1>9. \E to \in [D -> presses \cup {q}] :
        /\ \A k, l \in D : k < l => Before(to[k], to[l])
        /\ \A p \in presses \cup {q} : \E k \in D : to[k] = p
        /\ \A k \in D : more[k] = Buttons[to[k][2]]
  BY <1>5, <1>6, <1>7, <1>8, Zenon
<1>10. OneForEach(more, presses \cup {q})
  BY <1>9, Zenon DEF OneForEach, D
<1> QED BY <1>10, Zenon DEF more, b

(* ----- Steps *)
(* Once stop() has begun it goes on to the end.                             *)
LEMMA ServingEnds ==
  ASSUME FlowsOK, [Next]_vars, Serving'
  PROVE  Serving
<1>2. CASE \E f \in Flows : Update(f)
  <2>1. PICK f \in Flows : Update(f)
    BY <1>2
  <2>2. toClose' = toClose
    BY <2>1 DEF Update, HidRead, TestField, StoreField, CreateDisplayValues,
      UpdateOutput, HidWrite, listVars
  <2>3. pc[f] \notin {"stop", "stopped"}
    BY <2>1 DEF Update, HidRead, TestField, StoreField, CreateDisplayValues,
      UpdateOutput, HidWrite, Goto
  <2>4. \A g \in Flows : g # f => pc'[g] = pc[g]
    BY <2>1 DEF Update, HidRead, TestField, StoreField, CreateDisplayValues,
      UpdateOutput, HidWrite, Goto, FlowsOK
  <2> QED BY <2>2, <2>3, <2>4 DEF Serving, Flows
<1>3. CASE UpdateDevice
  BY <1>3 DEF UpdateDevice, BeginUpdate, Serving, FlowsOK, Flows
<1>4. CASE Updated
  BY <1>4 DEF Updated, Goto, Serving, listVars, FlowsOK, Flows
<1>5. CASE Scan \/ AddDevice \/ Start
  BY <1>5 DEF Scan, AddDevice, Start, BeginUpdate, Goto, Serving, listVars, FlowsOK, Flows
<1>6. CASE Stop \/ Close \/ HidClose \/ ClearRunning
  BY <1>6 DEF Stop, Close, HidClose, ClearRunning, BeginUpdate, Goto, Serving,
    listVars, FlowsOK, Flows
<1>7. CASE Plug \/ Unplug \/ SendReport \/ UNCHANGED vars
  BY <1>7 DEF Plug, Unplug, SendReport, vars, listVars, Serving
<1> QED BY <1>2, <1>3, <1>4, <1>5, <1>6, <1>7 DEF Next, Main

LEMMA FirstOf ==
  ASSUME NEW S, S # {}, S \subseteq Nat
  PROVE  \E x \in S : \A y \in S : x <= y
<1>1. PICK x \in S : \A y \in S : <<y, x>> \notin OpToRel(<, Nat)
  BY WFMin, NatLessThanWellFounded
<1>2. \A y \in S : x <= y
  <2> SUFFICES ASSUME NEW y \in S PROVE x <= y
    OBVIOUS
  <2>1. x \in Nat /\ y \in Nat
    OBVIOUS
  <2>2. ~(y < x)
    BY <1>1, <2>1 DEF OpToRel
  <2> QED BY <2>1, <2>2
<1> QED BY <1>2

LEMMA LeastOf ==
  ASSUME NEW S, S # {}, S \subseteq Nat
  PROVE  Min(S) \in S
<1>1. \E x \in S : \A y \in S : x <= y
  BY FirstOf
<1> QED BY <1>1, Zenon DEF Min

LEMMA ListStep ==
  ASSUME FlowsOK, PressTypes, ListInv, [Next]_vars
  PROVE  ListInv'
<1>0. Serving' => Serving
  BY ServingEnds
<1>1. CASE \E f \in Flows : Update(f)
  <2>1. PICK f \in Flows : Update(f)
    BY <1>1
  <2>2. /\ UNCHANGED <<handle, list, pass, toClose, on>>
        /\ pc[f] \notin {"idle", "stop", "stopped"}
        /\ pc'[f] \notin {"idle", "stop", "stopped"}
        /\ \A g \in Flows : g # f => pc'[g] = pc[g]
    BY <2>1 DEF Update, HidRead, TestField, StoreField, CreateDisplayValues,
      UpdateOutput, HidWrite, listVars, panelVars, Goto, FlowsOK
  <2>3. Serving' = Serving
    BY <2>2 DEF Serving, Flows
  <2> QED BY <2>2, <2>3 DEF ListInv, Flows, Opened
<1>2. CASE UpdateDevice
  <2>1. PICK todo \in {IF pass = {} THEN list ELSE pass} :
          /\ todo # {}
          /\ BeginUpdate("device", Min(todo))
          /\ pass' = todo \ {Min(todo)}
    BY <1>2 DEF UpdateDevice
  <2>2. todo \subseteq list /\ list \subseteq Nat
    BY <2>1 DEF ListInv, Objects, Opened
  <2>3. Min(todo) \in todo
    BY <2>1, <2>2, LeastOf
  <2>4. /\ on' = [on EXCEPT !["device"] = Min(todo)]
        /\ UNCHANGED <<handle, list, toClose>>
        /\ pc'["main"] = pc["main"]
    BY <1>2, <2>1 DEF UpdateDevice, BeginUpdate, panelVars, FlowsOK, Flows
  <2>5. on'["device"] = Min(todo) /\ on'["main"] = on["main"]
    BY <2>4 DEF PressTypes, Flows
  <2>6. Serving' = Serving /\ Opened' = Opened
    BY <2>4 DEF Serving, Opened
  <2> QED BY <2>1, <2>2, <2>3, <2>4, <2>5, <2>6 DEF ListInv
<1>3. CASE Updated \/ Start \/ Plug \/ SendReport \/ UNCHANGED vars
  <2>1. UNCHANGED <<handle, list, pass, toClose, on>> /\ pc'["main"] = pc["main"]
    BY <1>3 DEF Updated, Start, Plug, SendReport, vars, panelVars, listVars, Goto,
      FlowsOK, Flows
  <2>2. pc'["device"] # "idle" => pc["device"] # "idle"
    BY <1>3 DEF Updated, Start, Plug, SendReport, vars, Goto, FlowsOK, Flows
  <2>3. Serving' = Serving /\ Opened' = Opened
    BY <2>1 DEF Serving, Opened
  <2> QED BY <2>1, <2>2, <2>3 DEF ListInv
<1>4. CASE Scan
  <2>1. PICK o \in Objects : /\ \A p \in Objects : p < o <=> handle[p] # "none"
                             /\ handle' = [handle EXCEPT ![o] = "open"]
                             /\ BeginUpdate("main", o)
    BY <1>4 DEF Scan
  <2>2. ~(o < o)
    BY DEF Objects
  <2>3. handle[o] = "none"
    BY <2>1, <2>2
  <2>4. /\ on' = [on EXCEPT !["main"] = o] /\ UNCHANGED <<list, pass, toClose>>
        /\ pc'["device"] = pc["device"] /\ pc'["main"] \in {"read", "updated"}
        /\ Serving
    BY <1>4, <2>1 DEF Scan, BeginUpdate, listVars, FlowsOK, Flows, ListInv
  <2>5. on'["main"] = o /\ on'["device"] = on["device"]
    BY <2>4 DEF PressTypes, Flows
  <2>6. /\ Opened \subseteq Opened' /\ o \notin list /\ o \in Opened'
        /\ handle' = [p \in Objects |-> handle'[p]]
    BY <2>1, <2>3 DEF ListInv, Opened
  <2>7. Serving'
    BY <2>4 DEF Serving
  <2> QED BY <2>4, <2>5, <2>6, <2>7 DEF ListInv
<1>5. CASE AddDevice
  <2>1. /\ pc'["main"] = "idle" /\ pc["main"] = "updated"
        /\ pc'["device"] = pc["device"]
        /\ list' = list \cup {on["main"]} /\ on["main"] \notin list
        /\ UNCHANGED <<handle, pass, toClose, on>>
    BY <1>5 DEF AddDevice, Goto, panelVars, FlowsOK, Flows
  <2>2. Serving /\ on["main"] \in Opened /\ Opened' = Opened
    BY <2>1 DEF ListInv, Opened
  <2>3. Serving'
    BY <2>1, <2>2 DEF Serving
  <2> QED BY <2>1, <2>2, <2>3 DEF ListInv
<1>6. CASE Stop
  <2>1. /\ pc'["main"] = "stop" /\ pc'["device"] = pc["device"] /\ toClose' = list
        /\ UNCHANGED <<handle, list, pass, on>>
    BY <1>6 DEF Stop, Goto, panelVars, FlowsOK, Flows
  <2> QED BY <2>1 DEF ListInv, Opened
<1>7. CASE Close
  <2>1. toClose # {} /\ BeginUpdate("main", Min(toClose))
    BY <1>7 DEF Close
  <2>2. toClose \subseteq Nat
    BY DEF ListInv, Opened, Objects
  <2>3. Min(toClose) \in toClose
    BY <2>1, <2>2, LeastOf
  <2>4. /\ on' = [on EXCEPT !["main"] = Min(toClose)]
        /\ UNCHANGED <<handle, list, pass, toClose>>
        /\ pc'["device"] = pc["device"] /\ pc'["main"] \in {"read", "updated"}
    BY <1>7, <2>1 DEF Close, BeginUpdate, panelVars, listVars, FlowsOK, Flows
  <2>5. on'["main"] = Min(toClose) /\ on'["device"] = on["device"]
    BY <2>4 DEF PressTypes, Flows
  <2>6. ~Serving' /\ Opened' = Opened
    BY <2>1, <2>4 DEF Serving, Opened
  <2> QED BY <2>3, <2>4, <2>5, <2>6 DEF ListInv
<1>8. CASE HidClose
  <2>1. /\ pc'["main"] = "stop" /\ pc'["device"] = pc["device"]
        /\ toClose' \subseteq toClose /\ UNCHANGED <<list, pass, on>>
        /\ handle' = [handle EXCEPT ![on["main"]] = "closed"]
    BY <1>8 DEF HidClose, Goto, FlowsOK, Flows
  <2>2. Opened \subseteq Opened' /\ handle' = [o \in Objects |-> handle'[o]]
    BY <2>1 DEF Opened, ListInv
  <2> QED BY <2>1, <2>2 DEF ListInv
<1>9. CASE ClearRunning
  <2>1. /\ pc'["main"] = "stopped" /\ pc'["device"] = pc["device"]
        /\ UNCHANGED <<handle, list, pass, toClose, on>>
    BY <1>9 DEF ClearRunning, Goto, panelVars, FlowsOK, Flows
  <2> QED BY <2>1 DEF ListInv, Opened
<1>10. CASE Unplug
  <2>1. UNCHANGED <<list, pass, toClose, on, pc>>
    BY <1>10 DEF Unplug, listVars
  <2>2. handle' = [o \in Objects |-> IF handle[o] = "open" THEN "lost" ELSE handle[o]]
    BY <1>10 DEF Unplug
  <2>3. Opened \subseteq Opened' /\ handle' = [o \in Objects |-> handle'[o]]
    BY <2>2 DEF Opened
  <2>4. Opened' \subseteq Opened
    BY <2>2 DEF Opened
  <2>5. Serving' = Serving
    BY <2>1 DEF Serving
  <2> QED BY <2>1, <2>3, <2>4, <2>5 DEF ListInv
<1> QED BY <1>1, <1>2, <1>3, <1>4, <1>5, <1>6, <1>7, <1>8, <1>9, <1>10 DEF Next, Main

LEMMA OnObject ==
  ASSUME ListInv, NEW f \in Flows, pc[f] \notin {"idle", "stop", "stopped"}
  PROVE  on[f] \in Objects
BY DEF ListInv, Flows, Opened

(* Until stop(), two flows never work on one object.                        *)
LEMMA OneFlow ==
  ASSUME ListInv, Serving, NEW f \in Flows, NEW g \in Flows, f # g,
         pc[f] \notin {"idle", "stop", "stopped"},
         pc[g] \notin {"idle", "stop", "stopped"}
  PROVE  on[f] # on[g]
BY DEF ListInv, Flows, Opened

(* An object stays as it is in a step that neither reads for it nor changes *)
(* what is being decoded of it.                                             *)
LEMMA Kept ==
  ASSUME NEW o, ObjectInv(o), received'[o] = received[o],
         commands'[o] = commands[o], previous'[o] = previous[o],
         \A f \in Flows :
           /\ Decoding(f, o)' <=> Decoding(f, o)
           /\ Decoding(f, o) => pc'[f] = pc[f] /\ field'[f] = field[f]
                                  /\ report'[f] = report[f]
  PROVE  ObjectInv(o)'
<1>1. \A u : (Sent(o, u)' <=> Sent(o, u)) /\ (Held(o, u)' <=> Held(o, u))
  BY DEF Sent, Held
<1>2. All' = All
  BY DEF All
<1>3. ASSUME NEW f \in Flows, Decoding(f, o)' PROVE At(f, o)'
  <2>1. Decoding(f, o) /\ pc'[f] = pc[f] /\ field'[f] = field[f] /\ report'[f] = report[f]
    BY <1>3
  <2>2. At(f, o)
    BY <2>1 DEF ObjectInv
  <2>3. Held(o, field[f])' /\ (pc[f] = "test" => Sent(o, field[f])')
          /\ (pc[f] = "store" => Sent(o, field[f] + 1)')
    BY <2>1, <2>2, <1>1 DEF At
  <2> QED BY <2>1, <2>2, <2>3 DEF At
<1>4. ASSUME \A f \in Flows : ~Decoding(f, o)'
      PROVE  Sent(o, All)' /\ Held(o, All)'
  <2>1. Sent(o, All) /\ Held(o, All)
    BY <1>4 DEF ObjectInv
  <2> QED BY <1>1, <1>2, <2>1
<1> QED BY <1>3, <1>4 DEF ObjectInv

(* A step that neither reads a report nor looks at a field.                 *)
LEMMA QuietStep ==
  ASSUME PressTypes, FlowsOK, DecodeInv, Serving' => Serving,
         UNCHANGED <<received, commands, previous>>,
         \A f \in Flows :
           /\ pc[f] \in {"test", "store"} \/ pc'[f] \in {"test", "store"} =>
                pc'[f] = pc[f] /\ on'[f] = on[f] /\ field'[f] = field[f]
                /\ report'[f] = report[f]
  PROVE  DecodeInv'
<1> SUFFICES ASSUME Serving', NEW o \in Objects
             PROVE  ObjectInv(o)'
  BY DEF DecodeInv, Objects
<1>1. ObjectInv(o)
  BY DEF DecodeInv
<1>2. \A f \in Flows :
        /\ Decoding(f, o)' <=> Decoding(f, o)
        /\ Decoding(f, o) => pc'[f] = pc[f] /\ field'[f] = field[f]
                               /\ report'[f] = report[f]
  BY DEF Decoding
<1> QED BY <1>1, <1>2, Kept

(* The flow f has an object o to itself, so that the others stay.           *)
LEMMA OwnObject ==
  ASSUME PressTypes, FlowsOK, ListInv, DecodeInv, Serving' => Serving,
         NEW f \in Flows, NEW o \in Objects, o = on[f],
         pc[f] \notin {"idle", "stop", "stopped"}, on' = on,
         \A g \in Flows \ {f} :
           pc'[g] = pc[g] /\ field'[g] = field[g] /\ report'[g] = report[g],
         \A p \in Objects \ {o} :
           received'[p] = received[p] /\ commands'[p] = commands[p]
           /\ previous'[p] = previous[p],
         Serving =>
           IF pc'[f] \in {"test", "store"} THEN At(f, o)'
           ELSE Sent(o, All)' /\ Held(o, All)'
  PROVE  DecodeInv'
<1> SUFFICES ASSUME Serving', NEW p \in Objects
             PROVE  ObjectInv(p)'
  BY DEF DecodeInv, Objects
<1>1. Serving /\ ObjectInv(p)
  BY DEF DecodeInv
<1>2. CASE p # o
  <2>1. \A g \in Flows :
          /\ Decoding(g, p)' <=> Decoding(g, p)
          /\ Decoding(g, p) => pc'[g] = pc[g] /\ field'[g] = field[g]
                                 /\ report'[g] = report[g]
    BY <1>2 DEF Decoding
  <2> QED BY <1>1, <1>2, <2>1, Kept
<1>3. CASE p = o
  <2>1. \A g \in Flows \ {f} : ~Decoding(g, o)'
    <3> SUFFICES ASSUME NEW g \in Flows \ {f}, pc'[g] \in {"test", "store"}
                 PROVE  on[g] # o
      BY DEF Decoding
    <3>1. pc[g] \notin {"idle", "stop", "stopped"}
      OBVIOUS
    <3> QED BY <1>1, <3>1, OneFlow
  <2>2. Decoding(f, o)' <=> pc'[f] \in {"test", "store"}
    BY DEF Decoding
  <2> QED BY <1>1, <1>3, <2>1, <2>2 DEF ObjectInv
<1> QED BY <1>2, <1>3

LEMMA ReadStep ==
  ASSUME PressTypes, FlowsOK, ListInv, DecodeInv, Serving' => Serving,
         NEW f \in Flows, HidRead(f)
  PROVE  PressTypes' /\ DecodeInv'
<1>0. PICK o : o = on[f]
  OBVIOUS
<1>1. pc[f] = "read" /\ o \in Objects
  BY <1>0, OnObject DEF HidRead
<1>2. UNCHANGED <<on, previous, commands>>
  BY DEF HidRead
<1>3. CASE queue[o] = << >>
  <2>1. pc' = [pc EXCEPT ![f] = "display"] /\ UNCHANGED <<queue, field, report, received>>
    BY <1>0, <1>3 DEF HidRead
  <2>2. PressTypes'
    BY <1>2, <2>1 DEF PressTypes
  <2>3. \A g \in Flows :
          pc[g] \in {"test", "store"} \/ pc'[g] \in {"test", "store"} => pc'[g] = pc[g]
    BY <1>1, <2>1 DEF FlowsOK
  <2> QED BY <1>2, <2>1, <2>2, <2>3, QuietStep
<1>4. CASE queue[o] # << >>
  <2>1. PICK r : r = Head(queue[o])
    OBVIOUS
  <2>2. /\ pc' = [pc EXCEPT ![f] = "test"]
        /\ queue' = [queue EXCEPT ![o] = Tail(@)]
        /\ field' = [field EXCEPT ![f] = 1]
        /\ report' = [report EXCEPT ![f] = r]
        /\ received' = [received EXCEPT ![o] = Append(@, r)]
    BY <1>0, <1>4, <2>1 DEF HidRead
  <2>3. PICK past \in Seq(Reports) : past = received[o]
    BY <1>1 DEF PressTypes
  <2>4. queue[o] \in Seq(Reports)
    BY <1>1 DEF PressTypes
  <2>5. r \in Reports /\ Tail(queue[o]) \in Seq(Reports)
    BY <1>4, <2>1, <2>4
  <2>6. Append(past, r) \in Seq(Reports) /\ Len(Append(past, r)) = Len(past) + 1
        /\ Append(past, r)[Len(past) + 1] = r /\ Len(past) \in Nat
        /\ \A k \in 1..Len(past) : Append(past, r)[k] = past[k]
    BY <2>3, <2>5
  <2>7. PressTypes'
    BY <1>1, <1>2, <2>2, <2>3, <2>5, <2>6 DEF PressTypes
  <2>8. received'[o] = Append(past, r) /\ field'[f] = 1 /\ pc'[f] = "test"
        /\ report'[f] = r
    BY <1>1, <2>2, <2>3 DEF PressTypes, FlowsOK
  <2>9. ASSUME Serving PROVE At(f, o)'
    <3>1. Sent(o, All) /\ Held(o, All)
      <4>1. \A g \in Flows : ~Decoding(g, o)
        <5> SUFFICES ASSUME NEW g \in Flows, pc[g] \in {"test", "store"}
                     PROVE  on[g] # o
          BY DEF Decoding
        <5>1. g # f /\ pc[g] \notin {"idle", "stop", "stopped"}
                /\ pc[f] \notin {"idle", "stop", "stopped"}
          BY <1>1
        <5> QED BY <1>0, <2>9, <5>1, OneFlow
      <4>2. ObjectInv(o)
        BY <1>1, <2>9 DEF DecodeInv
      <4> QED BY <4>1, <4>2 DEF ObjectInv
    <3>2. Sent(o, 1)'
      <4>1. Upto(Append(past, r), 1) = Upto(past, All)
        BY <2>3, <2>5, UptoAppend
      <4>2. OneForEach(commands[o], Upto(past, All))
        BY <3>1, <2>3 DEF Sent
      <4> QED BY <1>2, <2>8, <4>1, <4>2 DEF Sent
    <3>3. Held(o, 1)'
      <4> SUFFICES ASSUME NEW i \in DOMAIN Buttons
                   PROVE  Buttons[i] \in previous'[o] <=>
                            Len(past) > 0 /\ Buttons[i] \in Append(past, r)[Len(past)]
        <5>1. \A i \in DOMAIN Buttons : ~(i < 1)
          BY ButtonsAre
        <5>2. Len(received'[o]) - 1 = Len(past)
          BY <2>6, <2>8
        <5> QED BY <2>8, <5>1, <5>2 DEF Held
      <4>1. i < All /\ i \in Nat
        BY ButtonsAre DEF All
      <4>2. Buttons[i] \in previous[o] <=>
              Len(past) > 0 /\ Buttons[i] \in past[Len(past)]
        BY <3>1, <4>1, <2>3 DEF Held
      <4>3. Len(past) > 0 => Append(past, r)[Len(past)] = past[Len(past)]
        BY <2>6
      <4> QED BY <1>2, <4>2, <4>3
    <3> QED BY <2>6, <2>8, <3>2, <3>3 DEF At
  <2>10. \A g \in Flows \ {f} :
           pc'[g] = pc[g] /\ field'[g] = field[g] /\ report'[g] = report[g]
    BY <2>2 DEF FlowsOK, PressTypes
  <2>11. \A p \in Objects \ {o} :
           received'[p] = received[p] /\ commands'[p] = commands[p]
           /\ previous'[p] = previous[p]
    BY <1>2, <2>2 DEF PressTypes
  <2>12. DecodeInv'
    BY <1>0, <1>1, <1>2, <2>8, <2>9, <2>10, <2>11, OwnObject
  <2> QED BY <2>7, <2>12
<1> QED BY <1>3, <1>4

(* The report before the one that is decoded tells what is in previousState *)
(* of the fields not yet looked at.                                         *)
LEMMA ChangedIsPress ==
  ASSUME PressTypes, FlowsOK, NEW f \in Flows, NEW o \in Objects, o = on[f],
         At(f, o), field[f] \in DOMAIN Buttons
  PROVE  Changed(f, Buttons[field[f]]) /\ Buttons[field[f]] \in report[f] \cap Mapped
           <=> <<Len(received[o]), field[f]>> \in Presses(received[o])
<1> DEFINE i == field[f]
           n == Len(received[o])
<1>1. received[o] \in Seq(Reports) /\ n \in Nat /\ n > 0 /\ n \in DOMAIN received[o]
  <2>1. received[o] \in Seq(Reports)
    BY DEF PressTypes
  <2>2. n > 0
    BY DEF At
  <2> QED BY <2>1, <2>2
<1>2. i \in Nat /\ ~(i < i)
  BY ButtonsAre
<1>3. Held(o, i) /\ report[f] = received[o][n]
  BY DEF At
<1>4. Buttons[i] \in previous[o] <=> n - 1 > 0 /\ Buttons[i] \in received[o][n - 1]
  BY <1>2, <1>3 DEF Held
<1>5. n - 1 > 0 <=> n # 1
  <2> HIDE DEF n
  <2> QED BY <1>1
<1>6. <<n, i>> \in Presses(received[o]) <=>
        /\ Buttons[i] \in received[o][n] \cap Mapped
        /\ n = 1 \/ Buttons[i] \notin received[o][n - 1]
  <2> HIDE DEF i, n
  <2> QED BY <1>1, IsPress DEF i
<1> QED BY <1>3, <1>4, <1>5, <1>6 DEF Changed

LEMMA TestStep ==
  ASSUME PressTypes, FlowsOK, ListInv, DecodeInv, Serving' => Serving,
         NEW f \in Flows, TestField(f)
  PROVE  PressTypes' /\ DecodeInv'
<1>0. PICK o : o = on[f]
  OBVIOUS
<1>1. pc[f] = "test" /\ o \in Objects
  BY <1>0, OnObject DEF TestField
<1>2. UNCHANGED <<queue, on, report, previous, received>>
  BY DEF TestField, panelVars
<1>3. PICK i \in Nat \ {0} : i = field[f]
  BY DEF FlowsOK
<1>4. PICK past \in Seq(Reports) : past = received[o]
  BY <1>1 DEF PressTypes
<1>5. Serving => At(f, o)
  BY <1>0, <1>1 DEF DecodeInv, ObjectInv, Decoding
<1>6. Serving => Len(past) > 0 /\ Held(o, i) /\ Sent(o, i)
                   /\ report[f] = past[Len(past)]
  BY <1>1, <1>3, <1>4, <1>5 DEF At
<1>7. commands[o] \in Seq(ToSet(Buttons))
  BY <1>1 DEF PressTypes
<1>8. CASE i > Len(Buttons)
  <2>1. pc' = [pc EXCEPT ![f] = "read"] /\ UNCHANGED <<field, commands>>
    BY <1>3, <1>8 DEF TestField
  <2>2. PressTypes'
    BY <1>2, <2>1 DEF PressTypes
  <2>3. ASSUME Serving PROVE Sent(o, All)' /\ Held(o, All)'
    <3>1. Upto(past, i) = Upto(past, All)
      BY <1>8, UptoEnd, ButtonsAre DEF All
    <3>2. Sent(o, All)
      BY <1>4, <1>6, <2>3, <3>1 DEF Sent
    <3>3. \A j \in DOMAIN Buttons : j < i /\ j < All
      BY <1>8, ButtonsAre DEF All
    <3>4. Held(o, All)
      BY <1>6, <2>3, <3>3 DEF Held
    <3> QED BY <1>2, <2>1, <3>2, <3>4 DEF Sent, Held, All
  <2>4. pc'[f] = "read"
    BY <2>1 DEF FlowsOK
  <2>5. \A g \in Flows \ {f} :
          pc'[g] = pc[g] /\ field'[g] = field[g] /\ report'[g] = report[g]
    BY <1>2, <2>1 DEF FlowsOK
  <2>6. \A p \in Objects \ {o} :
          received'[p] = received[p] /\ commands'[p] = commands[p]
          /\ previous'[p] = previous[p]
    BY <1>2, <2>1
  <2>7. DecodeInv'
    BY <1>0, <1>1, <1>2, <2>3, <2>4, <2>5, <2>6, OwnObject
  <2> QED BY <2>2, <2>7
<1>9. CASE ~(i > Len(Buttons))
  <2>1. i \in DOMAIN Buttons
    BY <1>9, ButtonsAre
  <2>2. PICK b \in ToSet(Buttons) : b = Buttons[i]
    BY <2>1, ButtonsAre
  <2> DEFINE press == Changed(f, b) /\ b \in report[f] \cap Mapped
  <2>3. /\ IF Changed(f, b)
           THEN pc' = [pc EXCEPT ![f] = "store"] /\ field' = field
           ELSE field' = [field EXCEPT ![f] = i + 1] /\ pc' = pc
        /\ commands' = IF press THEN [commands EXCEPT ![o] = Append(@, b)]
                       ELSE commands
    BY <1>0, <1>3, <1>9, <2>2 DEF TestField
  <2>4. commands'[o] = (IF press THEN Append(commands[o], b) ELSE commands[o])
        /\ \A p \in Objects \ {o} : commands'[p] = commands[p]
    BY <1>1, <2>3 DEF PressTypes
  <2>5. Append(commands[o], b) \in Seq(ToSet(Buttons))
    BY <1>7
  <2>6. commands' \in [Objects -> Seq(ToSet(Buttons))]
    BY <1>1, <2>3, <2>5 DEF PressTypes
  <2>7. PressTypes'
    BY <1>2, <2>6 DEF PressTypes
  <2>8. ASSUME Serving
        PROVE  OneForEach(commands'[o], Upto(past, i + 1))
    <3>1. press <=> <<Len(past), i>> \in Presses(past)
      <4>1. At(f, o) /\ field[f] \in DOMAIN Buttons
        BY <1>3, <1>5, <2>1, <2>8
      <4>2. Changed(f, Buttons[field[f]])
              /\ Buttons[field[f]] \in report[f] \cap Mapped
              <=> <<Len(received[o]), field[f]>> \in Presses(received[o])
        BY <1>0, <1>1, <4>1, ChangedIsPress
      <4> QED BY <1>3, <1>4, <2>2, <4>2, Zenon
    <3>2. OneForEach(commands[o], Upto(past, i)) /\ Len(past) > 0
      BY <1>4, <1>6, <2>8 DEF Sent
    <3> HIDE DEF press
    <3>3. CASE ~press
      <4>1. Upto(past, i + 1) = Upto(past, i)
        BY <2>1, <3>1, <3>2, <3>3, UptoNext
      <4> QED BY <2>4, <3>2, <3>3, <4>1
    <3>4. CASE press
      <4>0. PICK q : q = <<Len(past), i>>
        OBVIOUS
      <4>1. q = <<Len(past), i>> /\ q[2] = i
        BY <4>0
      <4>2. /\ Upto(past, i + 1) = Upto(past, i) \cup {q}
            /\ \A p \in Upto(past, i) : Before(p, q)
        BY <2>1, <3>1, <3>2, <3>4, <4>1, UptoNext
      <4>3. OneForEach(Append(commands[o], Buttons[q[2]]), Upto(past, i) \cup {q})
        BY <1>7, <3>2, <4>2, OneMore
      <4>4. commands'[o] = Append(commands[o], Buttons[q[2]])
        BY <2>2, <2>4, <3>4, <4>1
      <4> QED BY <4>2, <4>3, <4>4
    <3> QED BY <3>3, <3>4
  <2>9. /\ pc'[f] = IF Changed(f, b) THEN "store" ELSE "test"
        /\ field'[f] = IF Changed(f, b) THEN i ELSE i + 1
        /\ \A g \in Flows \ {f} : pc'[g] = pc[g] /\ field'[g] = field[g]
    BY <1>1, <1>3, <2>3 DEF FlowsOK
  <2>10. ASSUME Serving PROVE At(f, o)'
    <3>1. Sent(o, i + 1)'
      BY <1>2, <1>4, <2>8, <2>10 DEF Sent
    <3>2. Held(o, i)'
      BY <1>2, <1>6, <2>10 DEF Held
    <3>3. CASE Changed(f, b)
      BY <1>2, <1>4, <1>6, <2>1, <2>9, <2>10, <3>1, <3>2, <3>3 DEF At
    <3>4. CASE ~Changed(f, b)
      <4>1. b \in report[f] <=> b \in previous[o]
        BY <1>0, <3>4 DEF Changed
      <4>2. Held(o, i + 1)
        <5> SUFFICES ASSUME NEW j \in DOMAIN Buttons
                     PROVE  Buttons[j] \in previous[o] <=>
                       LET k == IF j < i + 1 THEN Len(past) ELSE Len(past) - 1
                       IN  k > 0 /\ Buttons[j] \in past[k]
          BY <1>4 DEF Held
        <5>1. Buttons[j] \in previous[o] <=>
                LET k == IF j < i THEN Len(past) ELSE Len(past) - 1
                IN  k > 0 /\ Buttons[j] \in past[k]
          BY <1>4, <1>6, <2>10 DEF Held
        <5>2. CASE j = i
          <6>1. j < i + 1
            BY <5>2
          <6> QED BY <1>6, <2>2, <2>10, <4>1, <5>2, <6>1
        <5>3. CASE j # i
          <6>1. j < i + 1 <=> j < i
            BY <5>3, ButtonsAre
          <6> QED BY <5>1, <6>1
        <5> QED BY <5>2, <5>3
      <4>3. Held(o, i + 1)'
        BY <1>2, <4>2 DEF Held
      <4> QED BY <1>2, <1>4, <1>6, <2>9, <2>10, <3>1, <3>4, <4>3 DEF At
    <3> QED BY <3>3, <3>4
  <2>11. \A g \in Flows \ {f} :
           pc'[g] = pc[g] /\ field'[g] = field[g] /\ report'[g] = report[g]
    BY <1>2, <2>9
  <2>12. \A p \in Objects \ {o} :
           received'[p] = received[p] /\ commands'[p] = commands[p]
           /\ previous'[p] = previous[p]
    BY <1>2, <2>4
  <2>13. pc'[f] \in {"test", "store"} /\ pc[f] \notin {"idle", "stop", "stopped"}
    BY <1>1, <2>9
  <2>14. DecodeInv'
    BY <1>0, <1>1, <1>2, <2>10, <2>11, <2>12, <2>13, OwnObject
  <2> QED BY <2>7, <2>14
<1> QED BY <1>8, <1>9

LEMMA StoreStep ==
  ASSUME PressTypes, FlowsOK, ListInv, DecodeInv, Serving' => Serving,
         NEW f \in Flows, StoreField(f)
  PROVE  PressTypes' /\ DecodeInv'
<1>0. PICK o : o = on[f]
  OBVIOUS
<1>1. pc[f] = "store" /\ o \in Objects
  BY <1>0, OnObject DEF StoreField, Goto
<1>2. UNCHANGED <<queue, on, report, commands, received>>
  BY DEF StoreField, panelVars
<1>3. PICK i \in Nat \ {0} : i = field[f]
  BY DEF FlowsOK
<1>4. PICK past \in Seq(Reports) : past = received[o]
  BY <1>1 DEF PressTypes
<1>5. Serving => At(f, o)
  BY <1>0, <1>1 DEF DecodeInv, ObjectInv, Decoding
<1>6. Serving => /\ Len(past) > 0 /\ Held(o, i) /\ Sent(o, i + 1)
                 /\ report[f] = past[Len(past)] /\ i \in DOMAIN Buttons
  BY <1>1, <1>3, <1>4, <1>5 DEF At
<1>7. PICK b : b = Buttons[i]
  OBVIOUS
<1>8. /\ previous' = [previous EXCEPT ![o] =
                        IF b \in report[f] THEN @ \cup {b} ELSE @ \ {b}]
      /\ pc' = [pc EXCEPT ![f] = "test"] /\ field' = [field EXCEPT ![f] = i + 1]
  BY <1>0, <1>3, <1>7 DEF StoreField, Goto
<1>9. /\ pc'[f] = "test" /\ field'[f] = i + 1
      /\ \A g \in Flows \ {f} : pc'[g] = pc[g] /\ field'[g] = field[g]
  BY <1>8 DEF FlowsOK
<1>10. /\ previous'[o] = IF b \in report[f] THEN previous[o] \cup {b}
                         ELSE previous[o] \ {b}
       /\ \A p \in Objects \ {o} : previous'[p] = previous[p]
  BY <1>1, <1>8 DEF PressTypes
<1>11. report[f] \subseteq ToSet(Buttons) /\ previous[o] \subseteq ToSet(Buttons)
  BY <1>1 DEF PressTypes, Reports
<1>12. previous' \in [Objects -> Reports]
  <2>1. (IF b \in report[f] THEN previous[o] \cup {b} ELSE previous[o] \ {b}) \in Reports
    BY <1>11 DEF Reports
  <2> QED BY <1>1, <1>8, <2>1 DEF PressTypes
<1>13. PressTypes'
  BY <1>2, <1>12 DEF PressTypes
<1>14. ASSUME Serving PROVE At(f, o)'
  <2>1. Sent(o, i + 1)'
    BY <1>2, <1>6, <1>14 DEF Sent
  <2>2. Held(o, i + 1)'
    <3> SUFFICES ASSUME NEW j \in DOMAIN Buttons
                 PROVE  Buttons[j] \in previous'[o] <=>
                   LET k == IF j < i + 1 THEN Len(past) ELSE Len(past) - 1
                   IN  k > 0 /\ Buttons[j] \in past[k]
      BY <1>2, <1>4 DEF Held
    <3>1. Buttons[j] \in previous[o] <=>
            LET k == IF j < i THEN Len(past) ELSE Len(past) - 1
            IN  k > 0 /\ Buttons[j] \in past[k]
      BY <1>4, <1>6, <1>14 DEF Held
    <3>2. CASE j = i
      <4>1. j < i + 1
        BY <3>2
      <4>2. Buttons[j] \in previous'[o] <=> Buttons[j] \in report[f]
        BY <1>7, <1>10, <3>2
      <4> QED BY <1>6, <1>14, <4>1, <4>2
    <3>3. CASE j # i
      <4>1. j < i + 1 <=> j < i
        BY <3>3, ButtonsAre
      <4>2. Buttons[j] # b
        BY <1>6, <1>7, <1>14, <3>3, ButtonsAre
      <4>3. Buttons[j] \in previous'[o] <=> Buttons[j] \in previous[o]
        BY <1>10, <4>2
      <4> QED BY <3>1, <4>1, <4>3
    <3> QED BY <3>2, <3>3
  <2> QED BY <1>2, <1>4, <1>6, <1>9, <1>14, <2>1, <2>2 DEF At
<1>15. \A g \in Flows \ {f} :
         pc'[g] = pc[g] /\ field'[g] = field[g] /\ report'[g] = report[g]
  BY <1>2, <1>9
<1>16. \A p \in Objects \ {o} :
         received'[p] = received[p] /\ commands'[p] = commands[p]
         /\ previous'[p] = previous[p]
  BY <1>2, <1>10
<1>17. DecodeInv'
  BY <1>0, <1>1, <1>2, <1>9, <1>14, <1>15, <1>16, OwnObject
<1> QED BY <1>13, <1>17

LEMMA PressStep ==
  ASSUME IInv, PressInv, [Next]_vars
  PROVE  PressInv'
<1>1. FlowsOK /\ PressTypes /\ ListInv /\ DecodeInv /\ (Serving' => Serving)
  BY ServingEnds DEF IInv, PressInv
<1>2. ListInv'
  BY <1>1, ListStep
<1>3. ASSUME UNCHANGED <<queue, received, commands, previous>>,
             on' = [f \in Flows |-> on'[f]], report' \in [Flows -> Reports],
             \A f \in Flows :
               pc[f] \in {"test", "store"} \/ pc'[f] \in {"test", "store"} =>
                 pc'[f] = pc[f] /\ on'[f] = on[f] /\ field'[f] = field[f]
                 /\ report'[f] = report[f]
      PROVE  PressInv'
  <2>1. PressTypes'
    BY <1>1, <1>3 DEF PressTypes
  <2>2. DecodeInv'
    BY <1>1, <1>3, QuietStep
  <2> QED BY <1>2, <2>1, <2>2 DEF PressInv
<1>4. ASSUME NEW f \in Flows, Update(f) PROVE PressInv'
  <2>1. CASE HidRead(f)
    BY <1>1, <1>2, <2>1, ReadStep DEF PressInv
  <2>2. CASE TestField(f)
    BY <1>1, <1>2, <2>2, TestStep DEF PressInv
  <2>3. CASE StoreField(f)
    BY <1>1, <1>2, <2>3, StoreStep DEF PressInv
  <2>4. CASE CreateDisplayValues(f) \/ UpdateOutput(f) \/ HidWrite(f)
    <3>1. UNCHANGED <<queue, received, commands, previous, on>>
      BY <2>4 DEF CreateDisplayValues, UpdateOutput, HidWrite, panelVars, inputVars
    <3>2. /\ pc[f] \in {"display", "output"} /\ pc'[f] \in {"output", "updated"}
          /\ \A g \in Flows \ {f} : pc'[g] = pc[g] /\ field'[g] = field[g]
      BY <1>1, <2>4 DEF CreateDisplayValues, UpdateOutput, HidWrite, Goto, FlowsOK
    <3>3. /\ report' \in [Flows -> Reports]
          /\ \A g \in Flows \ {f} : report'[g] = report[g]
      BY <1>1, <2>4 DEF CreateDisplayValues, UpdateOutput, HidWrite, inputVars,
        PressTypes, Reports
    <3>4. on' = [g \in Flows |-> on'[g]]
      BY <1>1, <3>1 DEF PressTypes
    <3>5. ASSUME NEW g \in Flows, pc[g] \in {"test", "store"} \/ pc'[g] \in {"test", "store"}
          PROVE  pc'[g] = pc[g] /\ on'[g] = on[g] /\ field'[g] = field[g]
                 /\ report'[g] = report[g]
      BY <3>1, <3>2, <3>3, <3>5
    <3> QED BY <1>3, <3>1, <3>3, <3>4, <3>5
  <2> QED BY <1>4, <2>1, <2>2, <2>3, <2>4 DEF Update
<1>5. CASE UpdateDevice \/ Updated \/ Main \/ Plug \/ Unplug \/ UNCHANGED vars
  <2>1. UNCHANGED <<queue, received, commands, previous, report, field>>
    BY <1>5 DEF UpdateDevice, Updated, Main, Scan, AddDevice, Start, Stop, Close,
      HidClose, ClearRunning, Plug, Unplug, vars, restVars, panelVars, inputVars
  <2>2. \/ UNCHANGED <<pc, on>>
        \/ \E f \in Flows, to \in {"idle", "read", "updated", "stop", "stopped"} :
             /\ pc' = [pc EXCEPT ![f] = to] /\ pc[f] \in {"idle", "updated", "stop"}
             /\ on' = on \/ \E o : on' = [on EXCEPT ![f] = o]
    <3>1. \A f, o : BeginUpdate(f, o) =>
            /\ \E to \in {"read", "updated"} : pc' = [pc EXCEPT ![f] = to]
            /\ \E p : on' = [on EXCEPT ![f] = p]
      BY DEF BeginUpdate
    <3>2. CASE UpdateDevice
      BY <3>1, <3>2 DEF UpdateDevice, Flows
    <3>3. CASE Scan \/ Close
      BY <3>1, <3>3 DEF Scan, Close, Flows
    <3>4. CASE Updated \/ AddDevice \/ Start \/ Stop \/ HidClose \/ ClearRunning
      BY <3>4 DEF Updated, AddDevice, Start, Stop, HidClose, ClearRunning, Goto, Flows
    <3>5. CASE Plug \/ Unplug \/ UNCHANGED vars
      BY <3>5 DEF Plug, Unplug, vars
    <3> QED BY <1>5, <3>2, <3>3, <3>4, <3>5 DEF Main
  <2>3. /\ on' = [f \in Flows |-> on'[f]]
        /\ \A f \in Flows :
             pc[f] \in {"test", "store"} \/ pc'[f] \in {"test", "store"} =>
               pc'[f] = pc[f] /\ on'[f] = on[f]
    BY <1>1, <2>2 DEF PressTypes, FlowsOK
  <2>4. report' \in [Flows -> Reports]
    BY <1>1, <2>1 DEF PressTypes
  <2> QED BY <1>3, <2>1, <2>3, <2>4
<1>6. CASE SendReport
  <2>1. UNCHANGED <<received, commands, previous, report, field, pc, on>>
    BY <1>6 DEF SendReport, restVars, inputVars
  <2>2. queue' \in [Objects -> Seq(Reports)]
    <3>1. PICK o \in Objects, r \in Reports :
            queue' = [queue EXCEPT ![o] =
                        IF Len(Append(queue[o], r)) > QueueSize
                        THEN Tail(Append(queue[o], r)) ELSE Append(queue[o], r)]
      BY <1>6 DEF SendReport
    <3>2. queue[o] \in Seq(Reports)
      BY <1>1 DEF PressTypes
    <3>3. Append(queue[o], r) \in Seq(Reports) /\ Append(queue[o], r) # << >>
      <4>1. /\ Append(queue[o], r) \in Seq(Reports) /\ Len(queue[o]) \in Nat
            /\ Len(Append(queue[o], r)) = Len(queue[o]) + 1
        BY <3>2
      <4>2. Len(<< >>) = 0
        OBVIOUS
      <4> QED BY <4>1, <4>2
    <3>4. Tail(Append(queue[o], r)) \in Seq(Reports)
      BY <3>3
    <3> QED BY <1>1, <3>1, <3>3, <3>4 DEF PressTypes
  <2>3. PressTypes'
    BY <1>1, <2>1, <2>2 DEF PressTypes
  <2>4. DecodeInv'
    BY <1>1, <2>1, QuietStep
  <2> QED BY <1>2, <2>3, <2>4 DEF PressInv
<1> QED BY <1>4, <1>5, <1>6 DEF Next

LEMMA PressInit == Init => PressInv
<1> SUFFICES ASSUME Init PROVE PressInv
  OBVIOUS
<1>1. << >> \in Seq(Reports) /\ << >> \in Seq(ToSet(Buttons)) /\ {} \in Reports
  BY DEF Reports
<1>2. PressTypes /\ ListInv
  BY <1>1 DEF Init, PressTypes, ListInv, Serving, Flows
<1>3. ASSUME NEW o \in Objects PROVE ObjectInv(o)
  <2>1. /\ received[o] = << >> /\ commands[o] = << >> /\ previous[o] = {}
        /\ \A f \in Flows : ~Decoding(f, o)
    BY <1>3 DEF Init, Decoding
  <2>2. Presses(<< >>) = {}
    BY DEF Presses
  <2>3. Upto(<< >>, All) = {}
    BY <2>2 DEF Upto
  <2>4. OneForEach(<< >>, {})
    <3>1. DOMAIN << >> = {}
      OBVIOUS
    <3>2. [k \in {} |-> k] \in [{} -> {}]
      OBVIOUS
    <3> QED BY <3>1, <3>2, Zenon DEF OneForEach
  <2>5. Held(o, All)
    <3>1. \A i \in DOMAIN Buttons : i < All
      BY ButtonsAre DEF All
    <3> QED BY <2>1, <3>1 DEF Held
  <2>6. Sent(o, All)
    BY <2>1, <2>3, <2>4 DEF Sent
  <2> QED BY <2>1, <2>5, <2>6 DEF ObjectInv
<1> QED BY <1>2, <1>3 DEF PressInv, DecodeInv

(* The invariant that tells the presses already sent from those to come     *)
(* holds in every reachable state.                                          *)
THEOREM PressInvariance == Spec => [](IInv /\ PressInv)
<1>1. Init => IInv /\ PressInv
  BY InvInit, PressInit
<1>2. IInv /\ PressInv /\ [Next]_vars => (IInv /\ PressInv)'
  BY InvStep, PressStep
<1> QED BY <1>1, <1>2, PTL DEF Spec

(* updateInput() sends the command of each press once and in order, though  *)
(* reports are read by two flows, field by field, and by several objects of *)
(* one panel: a press is neither missed between two reports nor sent again. *)
THEOREM PressesOnce == Spec => []PressesSentOnce
<1>1. IInv /\ PressInv => PressesSentOnce
  <2> SUFFICES ASSUME PressInv, NEW o \in Objects, Serving,
                      \A f \in Flows : ~Decoding(f, o)
               PROVE  OneForEach(commands[o], Presses(received[o]))
    BY DEF PressesSentOnce
  <2>1. Sent(o, All)
    BY DEF PressInv, DecodeInv, ObjectInv
  <2>2. received[o] \in Seq(Reports)
    BY DEF PressInv, PressTypes
  <2>3. Upto(received[o], All) = Presses(received[o])
    BY <2>2, UptoEnd, ButtonsAre DEF All
  <2> QED BY <2>1, <2>3 DEF Sent
<1> QED BY <1>1, PressInvariance, PTL

-----------------------------------------------------------------------------
(* Where the fields of the output lie.                                      *)
Start0 == IF ReportId = None THEN 0 ELSE 8

(* The offsets of the first n fields. *)
Offsets(g, n) ==
  g = [i \in 1..n |-> IF i = 1 THEN Start0 ELSE g[i - 1] + Outputs[i - 1].length]

LEMMA OffsetsExist == \A n \in Nat : \E g : Offsets(g, n)
<1> DEFINE Bad == {n \in Nat : ~\E g : Offsets(g, n)}
<1> SUFFICES ASSUME Bad # {} PROVE FALSE
  OBVIOUS
<1>1. PICK m \in Bad : \A n \in Bad : m <= n
  BY FirstOf
<1>2. m # 0
  <2>1. Offsets([i \in 1..0 |-> 0], 0)
    BY DEF Offsets
  <2> QED BY <1>1, <2>1
<1>3. m \in Nat /\ m - 1 \in Nat /\ ~(m <= m - 1)
  BY <1>1, <1>2
<1>4. PICK g : Offsets(g, m - 1)
  BY <1>1, <1>3
<1> DEFINE h == [i \in 1..m |->
                   IF i # m THEN g[i]
                   ELSE IF i = 1 THEN Start0 ELSE g[i - 1] + Outputs[i - 1].length]
<1>5. \A i \in 1..m :
        h[i] = IF i = 1 THEN Start0 ELSE h[i - 1] + Outputs[i - 1].length
  <2> SUFFICES ASSUME NEW i \in 1..m
               PROVE  h[i] = IF i = 1 THEN Start0 ELSE h[i - 1] + Outputs[i - 1].length
    OBVIOUS
  <2>1. i # 1 => i - 1 \in 1..m /\ i - 1 # m
    BY <1>3
  <2>2. i # 1 => h[i - 1] = g[i - 1]
    BY <2>1
  <2>3. CASE i = m
    BY <2>2, <2>3
  <2>4. CASE i # m
    <3>1. i \in 1..m - 1
      BY <1>3, <2>4
    <3>2. g[i] = IF i = 1 THEN Start0 ELSE g[i - 1] + Outputs[i - 1].length
      BY <1>4, <3>1 DEF Offsets
    <3> QED BY <2>2, <2>4, <3>2
  <2> QED BY <2>3, <2>4
<1>6. Offsets(h, m)
  <2>1. h = [i \in 1..m |-> h[i]]
    OBVIOUS
  <2> HIDE DEF h
  <2> QED BY <1>5, <2>1 DEF Offsets
<1> QED BY <1>1, <1>6

LEMMA OffsetIs ==
  /\ Offset[1] = Start0
  /\ \A i \in DOMAIN Outputs : Offset[i + 1] = Offset[i] + Outputs[i].length
  /\ \A i \in 1..Len(Outputs) + 1 : Offset[i] \in Nat
<1> DEFINE N == Len(Outputs) + 1
<1>1. N \in Nat /\ N >= 1 /\ DOMAIN Outputs = 1..N - 1
      /\ \A i \in DOMAIN Outputs : Outputs[i].length \in Nat
  BY USBAssumption DEF Parsed
<1>2. \E g : g = [i \in 1..N |-> IF i = 1 THEN Start0
                                 ELSE g[i - 1] + Outputs[i - 1].length]
  BY <1>1, OffsetsExist DEF Offsets
<1>3. Offset = [i \in 1..N |-> IF i = 1 THEN Start0
                               ELSE Offset[i - 1] + Outputs[i - 1].length]
  BY <1>2 DEF Offset, Start0
<1> HIDE DEF N
<1>4. Offset[1] = Start0
  BY <1>1, <1>3
<1>5. ASSUME NEW i \in DOMAIN Outputs
      PROVE  Offset[i + 1] = Offset[i] + Outputs[i].length
  <2>1. i + 1 \in 1..N /\ i + 1 # 1 /\ (i + 1) - 1 = i
    BY <1>1
  <2> QED BY <1>3, <2>1
<1>6. \A i \in 1..N : Offset[i] \in Nat
  <2> DEFINE Bad == {i \in 1..N : Offset[i] \notin Nat}
  <2> SUFFICES ASSUME Bad # {} PROVE FALSE
    OBVIOUS
  <2>0. Bad \subseteq Nat
    BY <1>1
  <2>1. PICK m \in Bad : \A n \in Bad : m <= n
    <3> HIDE DEF Bad
    <3> QED BY <2>0, FirstOf
  <2>2. m # 1
    BY <1>4, <2>1 DEF Start0
  <2>3. m - 1 \in 1..N - 1 /\ m - 1 \in 1..N /\ ~(m <= m - 1)
    BY <1>1, <2>1, <2>2
  <2>4. Offset[m - 1] \in Nat /\ Outputs[m - 1].length \in Nat
    BY <1>1, <2>1, <2>3
  <2>5. Offset[m] = Offset[m - 1] + Outputs[m - 1].length
    BY <1>3, <2>1, <2>2
  <2> QED BY <2>1, <2>4, <2>5
<1> QED BY <1>4, <1>5, <1>6 DEF N

(* A buffer that has grown by n bits. *)
Grown(bits, more, n) ==
  /\ \E S : more \in Seq(S)
  /\ Len(more) = Len(bits) + n
  /\ \A i \in 1..Len(bits) : more[i] = bits[i]

LEMMA Grows ==
  ASSUME NEW S, NEW bits \in Seq(S), NEW n \in Nat, NEW g,
         g = [i \in 1..n |-> g[i]]
  PROVE  /\ Grown(bits, bits \o g, n)
         /\ \A j \in 1..n : (bits \o g)[Len(bits) + j] = g[j]
<1> DEFINE T == S \cup {g[i] : i \in 1..n}
<1>1. g \in Seq(T) /\ Len(g) = n /\ bits \in Seq(T)
  <2>1. \A i \in 1..n : g[i] \in T
    OBVIOUS
  <2>2. [i \in 1..n |-> g[i]] \in Seq(T)
    BY <2>1, IsASeq
  <2>3. \A i \in 1..Len(bits) : bits[i] \in T
    OBVIOUS
  <2>4. bits \in Seq(T)
    BY <2>3
  <2>5. DOMAIN g = 1..n
    OBVIOUS
  <2> HIDE DEF T
  <2>6. g \in Seq(T)
    BY <2>2
  <2>7. Len(g) = n
    BY <2>5, <2>6
  <2> QED BY <2>4, <2>6, <2>7
<1> HIDE DEF T
<1>2. /\ bits \o g \in Seq(T) /\ Len(bits \o g) = Len(bits) + n
      /\ \A i \in 1..Len(bits) : (bits \o g)[i] = bits[i]
      /\ \A j \in 1..n : (bits \o g)[Len(bits) + j] = g[j]
  BY <1>1
<1> QED BY <1>2 DEF Grown

(* What is added to a buffer by whole bytes.                                *)
LEMMA BytesGrow ==
  ASSUME NEW S, NEW bits \in Seq(S), NEW n \in Nat, NEW g,
         g = [i \in 1..n |-> g[i]]
  PROVE  /\ Grown(bits, AppendBytes(bits, g), n)
         /\ Len(bits) % 8 = 0 =>
              \A j \in 1..n : AppendBytes(bits, g)[Len(bits) + j] = g[j]
<1>1. CASE NextBit(bits) = 0
  <2>1. AppendBytes(bits, g) = bits \o g
    BY <1>1 DEF AppendBytes
  <2>2. /\ Grown(bits, bits \o g, n)
        /\ \A j \in 1..n : (bits \o g)[Len(bits) + j] = g[j]
    BY Grows
  <2> QED BY <2>1, <2>2, Zenon
<1>2. CASE NextBit(bits) # 0
  <2>0. g \in Seq({g[i] : i \in 1..n}) /\ Len(g) = n
    <3>1. [i \in 1..n |-> g[i]] \in Seq({g[i] : i \in 1..n})
      BY IsASeq
    <3>2. g \in Seq({g[i] : i \in 1..n})
      BY <3>1
    <3>3. DOMAIN g = 1..n
      OBVIOUS
    <3> QED BY <3>2, <3>3
  <2>1. PICK h : h = [i \in 1..n |-> g[8 * ((i - 1) \div 8) + 8 - ((i - 1) % 8)]]
    OBVIOUS
  <2>2. AppendBytes(bits, g) = bits \o h
    BY <1>2, <2>0, <2>1 DEF AppendBytes
  <2>3. h = [i \in 1..n |-> h[i]]
    BY <2>1
  <2>4. Grown(bits, bits \o h, n)
    BY <2>3, Grows
  <2> QED BY <1>2, <2>2, <2>4 DEF NextBit
<1> QED BY <1>1, <1>2

(* Bytes one after the other.                                               *)
WholeBytes(bits) == \E q \in Nat : Len(bits) = 8 * q

LEMMA Joined ==
  ASSUME NEW U
  PROVE  \A a \in Seq(U) : \A b \in Seq(U) :
         /\ a \o b \in Seq(U) /\ Len(a \o b) = Len(a) + Len(b)
         /\ \A i \in 1..Len(a) : (a \o b)[i] = a[i]
         /\ \A i \in 1..Len(b) : (a \o b)[Len(a) + i] = b[i]
OBVIOUS

(* Where the i-th bit comes from if each byte is added highest bit first.   *)
Turned(i) == 8 * ((i - 1) \div 8) + 8 - ((i - 1) % 8)

Reversed(bits) == [i \in 1..Len(bits) |-> bits[Turned(i)]]

LEMMA TurnedIs ==
  ASSUME NEW n \in Nat, \E q \in Nat : n = 8 * q, NEW m \in Nat, \E q \in Nat : m = 8 * q
  PROVE  /\ \A i \in 1..n : Turned(i) \in 1..n
         /\ \A i \in 1..m : Turned(n + i) = n + Turned(i)
BY DEF Turned

LEMMA TurnedElement ==
  ASSUME NEW U, NEW a \in Seq(U), WholeBytes(a)
  PROVE  \A i \in 1..Len(a) : a[Turned(i)] \in U
<1>1. PICK n \in Nat : n = Len(a)
  OBVIOUS
<1>2. \A i \in 1..n : Turned(i) \in 1..n
  BY <1>1, TurnedIs DEF WholeBytes
<1>3. \A i \in 1..Len(a) : a[i] \in U
  OBVIOUS
<1> QED BY <1>1, <1>2, <1>3, Zenon

LEMMA TurnedJoined ==
  ASSUME NEW U, NEW a \in Seq(U), WholeBytes(a), NEW b \in Seq(U), WholeBytes(b)
  PROVE  Reversed(a \o b) = Reversed(a) \o Reversed(b)
<1>1. PICK n \in Nat : n = Len(a)
  OBVIOUS
<1>2. PICK m \in Nat : m = Len(b)
  OBVIOUS
<1>3. PICK ab \in Seq(U) :
        /\ ab = a \o b /\ Len(ab) = n + m
        /\ \A i \in 1..n : ab[i] = a[i]
        /\ \A i \in 1..m : ab[n + i] = b[i]
  <2>1. /\ a \o b \in Seq(U) /\ Len(a \o b) = Len(a) + Len(b)
        /\ \A i \in 1..Len(a) : (a \o b)[i] = a[i]
        /\ \A i \in 1..Len(b) : (a \o b)[Len(a) + i] = b[i]
    BY Joined
  <2> QED BY <1>1, <1>2, <2>1, Zenon
<1>4. /\ \A i \in 1..n : Turned(i) \in 1..n
      /\ \A i \in 1..m : Turned(i) \in 1..m
      /\ \A i \in 1..m : Turned(n + i) = n + Turned(i)
  BY <1>1, <1>2, TurnedIs DEF WholeBytes
<1>5. PICK c : c = [i \in 1..n |-> a[Turned(i)]]
  OBVIOUS
<1>6. PICK d : d = [i \in 1..m |-> b[Turned(i)]]
  OBVIOUS
<1>7. PICK w : w = [i \in 1..n + m |-> ab[Turned(i)]]
  OBVIOUS
<1>8. c \in Seq(U) /\ Len(c) = n
  <2>1. \A i \in 1..n : a[Turned(i)] \in U
    BY <1>1, <1>4
  <2>2. [i \in 1..n |-> a[Turned(i)]] \in Seq(U)
    BY <2>1, IsASeq
  <2>3. c \in Seq(U) /\ DOMAIN c = 1..n
    BY <1>5, <2>2
  <2> QED BY <2>3
<1>9. d \in Seq(U) /\ Len(d) = m
  <2>1. \A i \in 1..m : b[Turned(i)] \in U
    BY <1>2, <1>4
  <2>2. [i \in 1..m |-> b[Turned(i)]] \in Seq(U)
    BY <2>1, IsASeq
  <2>3. d \in Seq(U) /\ DOMAIN d = 1..m
    BY <1>6, <2>2
  <2> QED BY <2>3
<1>10. PICK cd \in Seq(U) :
         /\ cd = c \o d /\ Len(cd) = n + m
         /\ \A i \in 1..n : cd[i] = c[i]
         /\ \A i \in 1..m : cd[n + i] = d[i]
  <2>1. /\ c \o d \in Seq(U) /\ Len(c \o d) = Len(c) + Len(d)
        /\ \A i \in 1..Len(c) : (c \o d)[i] = c[i]
        /\ \A i \in 1..Len(d) : (c \o d)[Len(c) + i] = d[i]
    <3>1. c \in Seq(U) /\ d \in Seq(U)
      BY <1>8, <1>9
    <3> QED BY <3>1, Joined, SMTT(30)
  <2> QED BY <1>8, <1>9, <2>1, Zenon
<1>11. \A i \in 1..n : i \in 1..n + m /\ w[i] = cd[i]
  BY <1>3, <1>4, <1>5, <1>7, <1>10
<1>12. \A i \in 1..m : n + i \in 1..n + m /\ w[n + i] = cd[n + i]
  <2> SUFFICES ASSUME NEW i \in 1..m
               PROVE  n + i \in 1..n + m /\ w[n + i] = cd[n + i]
    OBVIOUS
  <2>1. n + i \in 1..n + m
    OBVIOUS
  <2>2. w[n + i] = ab[n + Turned(i)]
    BY <1>4, <1>7, <2>1, Zenon
  <2>3. ab[n + Turned(i)] = b[Turned(i)]
    BY <1>3, <1>4, Zenon
  <2>4. cd[n + i] = b[Turned(i)]
    BY <1>6, <1>10, Zenon
  <2> QED BY <2>1, <2>2, <2>3, <2>4
<1>13. \A i \in 1..n + m : i \in 1..n \/ (i - n \in 1..m /\ n + (i - n) = i)
  OBVIOUS
<1>14. \A i \in 1..n + m : w[i] = cd[i]
  BY <1>11, <1>12, <1>13
<1>15. w = cd
  <2>1. w = [i \in 1..n + m |-> w[i]]
    BY <1>7
  <2>2. cd = [i \in 1..n + m |-> cd[i]]
    <3>1. cd = [i \in 1..Len(cd) |-> cd[i]]
      OBVIOUS
    <3> QED BY <1>10, <3>1, Zenon
  <2> QED BY <1>14, <2>1, <2>2
<1> QED BY <1>1, <1>2, <1>3, <1>5, <1>6, <1>7, <1>10, <1>15, Zenon DEF Reversed

(* appendByte(), one byte after the other, is AppendBytes() of them all.    *)
LEMMA ByteByByte ==
  ASSUME NEW U, NEW bits \in Seq(U), NEW a \in Seq(U), WholeBytes(a),
         NEW b \in Seq(U), WholeBytes(b)
  PROVE  AppendBytes(AppendBytes(bits, a), b) = AppendBytes(bits, a \o b)
<1>1. PICK c \in Seq(U) :
        c = IF NextBit(bits) = 0 THEN a ELSE [i \in 1..Len(a) |-> a[Turned(i)]]
  <2>1. \A i \in 1..Len(a) : a[Turned(i)] \in U
    BY TurnedElement
  <2>2. [i \in 1..Len(a) |-> a[Turned(i)]] \in Seq(U)
    BY <2>1, IsASeq
  <2> QED BY <2>2
<1>2. PICK d \in Seq(U) :
        d = IF NextBit(bits) = 0 THEN b ELSE [i \in 1..Len(b) |-> b[Turned(i)]]
  <2>1. \A i \in 1..Len(b) : b[Turned(i)] \in U
    BY TurnedElement
  <2>2. [i \in 1..Len(b) |-> b[Turned(i)]] \in Seq(U)
    BY <2>1, IsASeq
  <2> QED BY <2>2
<1>3. AppendBytes(bits, a) = bits \o c
  BY <1>1 DEF AppendBytes, Turned
<1>4. Len(c) = Len(a)
  <2>1. CASE NextBit(bits) = 0
    BY <1>1, <2>1
  <2>2. CASE NextBit(bits) # 0
    <3>1. DOMAIN c = 1..Len(a)
      BY <1>1, <2>2
    <3>2. Len(a) \in Nat
      OBVIOUS
    <3> QED BY <3>1, <3>2
  <2> QED BY <2>1, <2>2
<1>5. NextBit(bits \o c) = NextBit(bits)
  <2>0. Len(bits) \in Nat
    OBVIOUS
  <2>1. Len(bits \o c) = Len(bits) + Len(a) /\ Len(bits) \in Nat
    <3>1. Len(bits \o c) = Len(bits) + Len(c)
      BY Joined, <1>1, Zenon
    <3> QED BY <1>4, <2>0, <3>1, Zenon
  <2>2. PICK q \in Nat : Len(a) = 8 * q
    BY DEF WholeBytes
  <2> QED BY <2>1, <2>2 DEF NextBit
<1>6. AppendBytes(bits \o c, b) = (bits \o c) \o d
  BY <1>2, <1>5 DEF AppendBytes, Turned
<1>7. (bits \o c) \o d = bits \o (c \o d)
  OBVIOUS
<1>8. AppendBytes(bits, a \o b) = bits \o (c \o d)
  <2>1. CASE NextBit(bits) = 0
    BY <1>1, <1>2, <2>1 DEF AppendBytes
  <2>2. CASE NextBit(bits) # 0
    <3>1. AppendBytes(bits, a \o b) = bits \o Reversed(a \o b)
      BY <2>2 DEF AppendBytes, Turned, Reversed
    <3>2. c = Reversed(a) /\ d = Reversed(b)
      BY <1>1, <1>2, <2>2, Zenon DEF Reversed
    <3>3. Reversed(a \o b) = Reversed(a) \o Reversed(b)
      BY TurnedJoined
    <3> QED BY <3>1, <3>2, <3>3, Zenon
  <2> QED BY <2>1, <2>2
<1> QED BY <1>3, <1>6, <1>7, <1>8

LEMMA Flushed ==
  ASSUME NEW S, NEW bits \in Seq(S)
  PROVE  \E n \in Nat : Grown(bits, FlushBits(bits), n)
<1>1. CASE NextBit(bits) = 0
  BY <1>1 DEF FlushBits, Grown
<1>2. CASE NextBit(bits) # 0
  <2>1. PICK k \in Nat : k = 8 - NextBit(bits)
    BY DEF NextBit
  <2>2. FlushBits(bits) = bits \o Zeros(k)
    BY <1>2, <2>1 DEF FlushBits
  <2>3. PICK g : g = Zeros(k)
    OBVIOUS
  <2>4. g = [i \in 1..k |-> g[i]]
    BY <2>3 DEF Zeros
  <2> QED BY <2>2, <2>3, <2>4, Grows
<1> QED BY <1>1, <1>2

(* A field lies behind what was in the buffer.                              *)
LEMMA FieldIsAt ==
  ASSUME NEW S, NEW bits \in Seq(S), NEW fld, Parsed(fld), NEW value,
         fld.type = "data" => value = fld.source.value
  PROVE  \E n \in Nat :
           /\ Grown(bits, AppendField(bits, fld, value), n)
           /\ fld.type # "padding" => n = fld.length
           /\ IsAt(AppendField(bits, fld, value), fld, Len(bits), value)
<1> DEFINE more == AppendField(bits, fld, value)
<1>0. PICK l \in Nat : l = fld.length
  BY DEF Parsed
<1>1. ASSUME NEW g, g = [j \in 1..l |-> g[j]], more = bits \o g
      PROVE  /\ Grown(bits, more, l)
             /\ \A j \in 1..l : more[Len(bits) + j] = g[j]
  BY <1>1, Grows
<1>2. ASSUME NEW g, g = [j \in 1..l |-> g[j]], more = AppendBytes(bits, g)
      PROVE  /\ Grown(bits, more, l)
             /\ Len(bits) % 8 = 0 => \A j \in 1..l : more[Len(bits) + j] = g[j]
  BY <1>2, BytesGrow
<1>3. ASSUME NEW x
      PROVE  /\ ValueBits(x, l) = [j \in 1..l |-> ValueBits(x, l)[j]]
             /\ \A j \in 1..l : ValueBits(x, l)[j] = Bit(x, j - 1)
  BY DEF ValueBits
<1>4. CASE fld.type = "bit"
  <2>1. PICK b : b = Bit(value, 0)
    OBVIOUS
  <2>2. more = Append(bits, b) /\ l = 1
    BY <1>0, <1>4, <2>1 DEF AppendField, AppendBit, Parsed
  <2>3. bits \in Seq(S \cup {b}) /\ b \in S \cup {b}
    OBVIOUS
  <2>4. /\ Append(bits, b) \in Seq(S \cup {b}) /\ Len(Append(bits, b)) = Len(bits) + 1
        /\ \A i \in 1..Len(bits) : Append(bits, b)[i] = bits[i]
        /\ Append(bits, b)[Len(bits) + 1] = b
    BY <2>3
  <2> HIDE DEF more
  <2>5. Grown(bits, more, 1) /\ more[Len(bits) + 1] = b
    BY <2>2, <2>4 DEF Grown
  <2>6. \A j \in 1..1 : j = 1 /\ j - 1 = 0
    OBVIOUS
  <2>7. \A j \in 1..fld.length : more[Len(bits) + j] = Bit(value, j - 1)
    BY <1>0, <2>1, <2>2, <2>5, <2>6
  <2>8. IsAt(more, fld, Len(bits), value)
    BY <1>4, <2>7, Zenon DEF IsAt, FieldBit
  <2> QED BY <1>0, <2>2, <2>5, <2>8 DEF more
<1>5. CASE fld.type = "bits"
  <2>1. PICK x : x = value % 256
    OBVIOUS
  <2>2. more = bits \o ValueBits(x, l)
    BY <1>0, <1>5, <2>1 DEF AppendField, AppendBits
  <2>3. /\ Grown(bits, more, l)
        /\ \A j \in 1..l : more[Len(bits) + j] = Bit(x, j - 1)
    BY <1>1, <1>3, <2>2
  <2> HIDE DEF more
  <2>4. IsAt(more, fld, Len(bits), value)
    BY <1>0, <1>5, <2>1, <2>3, Zenon DEF IsAt, FieldBit
  <2> QED BY <1>0, <2>3, <2>4 DEF more
<1>6. CASE fld.type = "digit"
  <2>1. PICK x : x = Pattern[value]
    OBVIOUS
  <2>2. more = bits \o ValueBits(x, l)
    BY <1>0, <1>6, <2>1 DEF AppendField, AppendBits
  <2>3. /\ Grown(bits, more, l)
        /\ \A j \in 1..l : more[Len(bits) + j] = Bit(x, j - 1)
    BY <1>1, <1>3, <2>2
  <2> HIDE DEF more
  <2>4. IsAt(more, fld, Len(bits), value)
    BY <1>0, <1>6, <2>1, <2>3, Zenon DEF IsAt, FieldBit
  <2> QED BY <1>0, <2>3, <2>4 DEF more
<1>7. CASE fld.type = "data"
  <2>1. l = 8 * Len(value) /\ Len(value) \in Nat
    BY <1>0, <1>7 DEF Parsed
  <2>2. PICK g : g = DataBits(value)
    OBVIOUS
  <2>3. more = AppendBytes(bits, g)
    BY <1>7, <2>2 DEF AppendField
  <2>4. /\ g = [j \in 1..l |-> g[j]]
        /\ \A j \in 1..l : g[j] = Bit(value[1 + (j - 1) \div 8], (j - 1) % 8)
    BY <2>1, <2>2 DEF DataBits
  <2>5. Grown(bits, more, l)
    BY <1>2, <2>3, <2>4
  <2>6. Len(bits) % 8 = 0 => \A j \in 1..l : more[Len(bits) + j] = g[j]
    BY <1>2, <2>3, <2>4
  <2> HIDE DEF more
  <2>7. IsAt(more, fld, Len(bits), value)
    <3>1. Aligned(fld, Len(bits)) => Len(bits) % 8 = 0
      BY <1>7 DEF Aligned
    <3>2. \A j \in 1..fld.length :
            FieldBit(fld, value, j - 1) = Bit(value[1 + (j - 1) \div 8], (j - 1) % 8)
      BY <1>7, Zenon DEF FieldBit
    <3>3. Len(bits) % 8 = 0 =>
            \A j \in 1..fld.length :
              more[Len(bits) + j] = Bit(value[1 + (j - 1) \div 8], (j - 1) % 8)
      BY <1>0, <2>4, <2>6, Zenon
    <3> QED BY <1>7, <3>1, <3>2, <3>3, Zenon DEF IsAt
  <2> QED BY <1>0, <2>5, <2>7 DEF more
<1>8. CASE fld.type \in {"byte", "uint16", "uint32"}
  <2>1. PICK g : g = ValueBits(value, l)
    OBVIOUS
  <2>2. more = AppendBytes(bits, g)
    BY <1>0, <1>8, <2>1 DEF AppendField, AppendByte, Parsed
  <2>3. g = [j \in 1..l |-> g[j]] /\ \A j \in 1..l : g[j] = Bit(value, j - 1)
    BY <1>3, <2>1
  <2>4. Grown(bits, more, l)
    BY <1>2, <2>2, <2>3
  <2>5. Len(bits) % 8 = 0 => \A j \in 1..l : more[Len(bits) + j] = g[j]
    BY <1>2, <2>2, <2>3
  <2> HIDE DEF more
  <2>6. IsAt(more, fld, Len(bits), value)
    <3>1. Aligned(fld, Len(bits)) => Len(bits) % 8 = 0
      BY <1>8 DEF Aligned
    <3>2. /\ fld.type # "padding" /\ fld.type # "data"
          /\ fld.type # "digit" /\ fld.type # "bits"
      BY <1>8
    <3>3. \A j \in 1..fld.length : FieldBit(fld, value, j - 1) = Bit(value, j - 1)
      BY <3>2, Zenon DEF FieldBit
    <3>4. Len(bits) % 8 = 0 =>
            \A j \in 1..fld.length : more[Len(bits) + j] = Bit(value, j - 1)
      BY <1>0, <2>3, <2>5, Zenon
    <3> QED BY <3>1, <3>2, <3>3, <3>4, Zenon DEF IsAt
  <2> QED BY <1>0, <1>8, <2>4, <2>6 DEF more
<1>9. CASE fld.type = "padding"
  <2>1. ASSUME NEW n \in Nat
        PROVE  /\ Zeros(n) = [i \in 1..n |-> Zeros(n)[i]]
    BY DEF Zeros
  <2>2. PICK m \in Nat : Grown(bits, FlushBits(bits), m)
    BY Flushed
  <2>3. PICK flushed : flushed = FlushBits(bits)
    OBVIOUS
  <2>4. PICK T : flushed \in Seq(T)
    BY <2>2, <2>3 DEF Grown
  <2>5. CASE Len(flushed) < l
    <3>1. PICK k \in Nat : k = l - Len(flushed)
      BY <2>4, <2>5
    <3>2. more = flushed \o Zeros(k)
      BY <1>0, <1>9, <2>3, <2>5, <3>1 DEF AppendField
    <3> HIDE DEF more
    <3>3. Grown(flushed, more, k)
      BY <2>1, <2>4, <3>2, Grows
    <3>4. Len(more) = l
      BY <2>4, <3>1, <3>3 DEF Grown
    <3>5. Grown(bits, more, m + k)
      BY <2>2, <2>3, <3>3 DEF Grown
    <3>6. IsAt(more, fld, Len(bits), value)
      BY <1>0, <1>9, <3>4 DEF IsAt
    <3> QED BY <1>9, <3>5, <3>6 DEF more
  <2>6. CASE ~(Len(flushed) < l)
    <3>1. more = flushed
      BY <1>0, <1>9, <2>3, <2>6 DEF AppendField
    <3> HIDE DEF more
    <3>2. Len(more) >= fld.length
      BY <1>0, <2>4, <2>6, <3>1
    <3>3. IsAt(more, fld, Len(bits), value)
      BY <1>9, <3>2 DEF IsAt
    <3> QED BY <1>9, <2>2, <2>3, <3>1, <3>3 DEF more
  <2> QED BY <2>5, <2>6
<1> QED BY <1>4, <1>5, <1>6, <1>7, <1>8, <1>9 DEF Parsed

(* And stays there when the buffer grows.                                   *)
LEMMA StaysAt ==
  ASSUME NEW S, NEW bits \in Seq(S), NEW more, NEW n \in Nat, Grown(bits, more, n),
         NEW fld, Parsed(fld), NEW value, NEW from \in Nat,
         fld.type # "padding" => from + fld.length <= Len(bits),
         IsAt(bits, fld, from, value)
  PROVE  IsAt(more, fld, from, value)
<1>1. CASE fld.type = "padding"
  <2>1. Len(bits) >= fld.length
    BY <1>1 DEF IsAt
  <2>2. Len(more) = Len(bits) + n /\ fld.length \in Nat
    BY DEF Grown, Parsed
  <2>3. Len(more) >= fld.length
    BY <2>1, <2>2
  <2> QED BY <1>1, <2>3 DEF IsAt
<1>2. CASE fld.type # "padding"
  <2>1. PICK l \in Nat : l = fld.length
    BY DEF Parsed
  <2>2. \A j \in 1..l : from + j \in 1..Len(bits)
    BY <1>2, <2>1
  <2>3. \A j \in 1..l : more[from + j] = bits[from + j]
    BY <2>2 DEF Grown
  <2> QED BY <1>2, <2>1, <2>3 DEF IsAt
<1> QED BY <1>1, <1>2

(* The fields drawn so far are where the descriptor says, and the next one  *)
(* will be.                                                                 *)
Placed(f) ==
  /\ \E S : buffer[f] \in Seq(S)
  /\ field[f] \in DOMAIN Outputs => Len(buffer[f]) = Offset[field[f]]
  /\ \A i \in DOMAIN Outputs :
       i < field[f] =>
         /\ Outputs[i].type # "padding" => Offset[i + 1] <= Len(buffer[f])
         /\ IsAt(buffer[f], Outputs[i], Offset[i], values[f][i])

PlaceInv ==
  /\ buffer = [f \in Flows |-> buffer[f]]
  /\ \A f \in Flows : pc[f] = "output" => Placed(f)

LEMMA OutputsAre ==
  /\ Len(Outputs) \in Nat /\ DOMAIN Outputs = 1..Len(Outputs)
  /\ \A i \in DOMAIN Outputs :
       /\ Parsed(Outputs[i]) /\ Outputs[i].length \in Nat
       /\ Outputs[i].type = "padding" => i = Len(Outputs)
       /\ Outputs[i].source.of \in {"value", "digit", "data", "!data"}
       /\ Outputs[i].type = "data" => Outputs[i].source.of = "value"
       /\ Offset[i] \in Nat /\ Offset[i + 1] = Offset[i] + Outputs[i].length
BY USBAssumption, OffsetIs DEF Parsed

(* What is in its place stays there while the buffer grows.                 *)
LEMMA PlacesStay ==
  ASSUME NEW S, NEW bits \in Seq(S), NEW more, NEW n \in Nat, Grown(bits, more, n),
         NEW i \in DOMAIN Outputs, NEW value,
         Outputs[i].type # "padding" => Offset[i + 1] <= Len(bits),
         IsAt(bits, Outputs[i], Offset[i], value)
  PROVE  /\ Outputs[i].type # "padding" => Offset[i + 1] <= Len(more)
         /\ IsAt(more, Outputs[i], Offset[i], value)
<1>1. PICK fld : fld = Outputs[i]
  OBVIOUS
<1>2. PICK from \in Nat : from = Offset[i]
  BY OutputsAre
<1>3. Parsed(fld) /\ Offset[i + 1] = from + fld.length /\ fld.length \in Nat
  BY <1>1, <1>2, OutputsAre
<1>4. fld.type # "padding" => from + fld.length <= Len(bits)
  BY <1>1, <1>3
<1>5. IsAt(bits, fld, from, value)
  BY <1>1, <1>2
<1>6. IsAt(more, fld, from, value)
  BY <1>3, <1>4, <1>5, StaysAt
<1>7. Len(bits) \in Nat /\ Len(more) = Len(bits) + n
  BY DEF Grown
<1>8. fld.type # "padding" => Offset[i + 1] <= Len(more)
  BY <1>3, <1>4, <1>7
<1> QED BY <1>1, <1>2, <1>6, <1>8

LEMMA PlaceInit == Init => PlaceInv
BY DEF Init, PlaceInv

LEMMA PlaceQuiet ==
  ASSUME PlaceInv, buffer' = [f \in Flows |-> buffer'[f]],
         NEW f \in Flows, pc'[f] = "output",
         pc[f] = "output" /\ buffer'[f] = buffer[f] /\ values'[f] = values[f]
           /\ field'[f] = field[f]
  PROVE  Placed(f)'
BY DEF PlaceInv, Placed

LEMMA PlaceDisplay ==
  ASSUME IInv, PlaceInv, NEW f \in Flows, CreateDisplayValues(f)
  PROVE  PlaceInv'
<1>0. FlowsOK
  BY DEF IInv
<1>1. PICK start : start = IF ReportId = None THEN << >> ELSE AppendByte(<< >>, ReportId)
  OBVIOUS
<1>2. /\ pc' = [pc EXCEPT ![f] = "output"] /\ field' = [field EXCEPT ![f] = 1]
      /\ values' = [values EXCEPT ![f] = << >>]
      /\ buffer' = [buffer EXCEPT ![f] = start]
  BY <1>1 DEF CreateDisplayValues, Goto
<1>3. buffer' = [g \in Flows |-> buffer'[g]] /\ buffer'[f] = start
  BY <1>2 DEF PlaceInv
<1>4. (\E S : start \in Seq(S)) /\ Len(start) = Offset[1]
  <2>1. CASE ReportId = None
    <3>1. start = << >> /\ Offset[1] = 0
      BY <1>1, <2>1, OffsetIs DEF Start0
    <3> QED BY <3>1
  <2>2. CASE ReportId # None
    <3>1. << >> \in Seq({}) /\ Len(<< >>) = 0
      OBVIOUS
    <3>2. PICK none : none = << >>
      OBVIOUS
    <3>3. PICK g : g = ValueBits(ReportId, 8)
      OBVIOUS
    <3>4. g = [j \in 1..8 |-> g[j]]
      BY <3>3 DEF ValueBits
    <3>5. Grown(none, AppendBytes(none, g), 8)
      BY <3>1, <3>2, <3>4, BytesGrow
    <3>6. start = AppendBytes(none, g) /\ Offset[1] = 8
      BY <1>1, <2>2, <3>2, <3>3, OffsetIs DEF Start0, AppendByte
    <3> QED BY <3>1, <3>2, <3>5, <3>6 DEF Grown
  <2> QED BY <2>1, <2>2
<1>5. field'[f] = 1
  BY <1>0, <1>2 DEF FlowsOK
<1>6. \A i \in DOMAIN Outputs : ~(i < 1)
  BY OutputsAre
<1>7. Placed(f)'
  BY <1>3, <1>4, <1>5, <1>6 DEF Placed
<1>8. ASSUME NEW g \in Flows, g # f, pc'[g] = "output"
      PROVE  Placed(g)'
  <2>1. pc[g] = "output" /\ buffer'[g] = buffer[g] /\ values'[g] = values[g]
        /\ field'[g] = field[g]
    BY <1>0, <1>2, <1>8 DEF FlowsOK, PlaceInv
  <2> QED BY <1>3, <1>8, <2>1, PlaceQuiet
<1> QED BY <1>3, <1>7, <1>8 DEF PlaceInv

LEMMA PlaceOutput ==
  ASSUME IInv, PlaceInv, NEW f \in Flows, UpdateOutput(f)
  PROVE  PlaceInv'
<1>0. FlowsOK /\ pc[f] = "output"
  BY DEF IInv, UpdateOutput
<1>1. PICK k \in Nat \ {0} : k = field[f]
  BY <1>0 DEF FlowsOK
<1>2. k \in DOMAIN Outputs
  BY <1>1, OutputsAre DEF UpdateOutput
<1>3. PICK fld : fld = Outputs[k]
  OBVIOUS
<1>4. PICK value \in GetValue(f, fld.source) :
        /\ buffer' = [buffer EXCEPT ![f] = AppendField(@, fld, value)]
        /\ values' = [values EXCEPT ![f] = Append(@, value)]
  BY <1>1, <1>3 DEF UpdateOutput
<1>5. UNCHANGED pc /\ field' = [field EXCEPT ![f] = k + 1]
  BY <1>0, <1>1 DEF UpdateOutput, FlowsOK
<1>6. PICK bits : bits = buffer[f]
  OBVIOUS
<1>7. PICK S : bits \in Seq(S)
  BY <1>0, <1>6 DEF PlaceInv, Placed
<1>8. Len(bits) = Offset[k] /\ Offset[k] \in Nat /\ Parsed(fld)
      /\ Offset[k + 1] = Offset[k] + fld.length
  BY <1>0, <1>1, <1>2, <1>3, <1>6, OutputsAre DEF PlaceInv, Placed
<1>9. fld.type = "data" => value = fld.source.value
  <2>1. ASSUME fld.type = "data" PROVE value = fld.source.value
    <3>1. fld.source.of = "value"
      BY <1>2, <1>3, <2>1, OutputsAre
    <3> QED BY <1>4, <3>1 DEF GetValue
  <2> QED BY <2>1
<1>10. PICK more : more = AppendField(bits, fld, value)
  OBVIOUS
<1>11. PICK n \in Nat : /\ Grown(bits, more, n)
                        /\ fld.type # "padding" => n = fld.length
                        /\ IsAt(more, fld, Len(bits), value)
  BY <1>7, <1>8, <1>9, <1>10, FieldIsAt
<1>12. /\ buffer' = [g \in Flows |-> buffer'[g]] /\ buffer'[f] = more
       /\ \A g \in Flows \ {f} : buffer'[g] = buffer[g]
  BY <1>4, <1>6, <1>10 DEF PlaceInv
<1>13. values[f] \in Seq(Shown) /\ Len(values[f]) = k - 1
  BY <1>0, <1>1 DEF IInv, FlowsOK, DrawInv, Drawn
<1>14. /\ values'[f] = Append(values[f], value) /\ field'[f] = k + 1
       /\ \A g \in Flows \ {f} : values'[g] = values[g] /\ field'[g] = field[g]
  BY <1>0, <1>4, <1>5 DEF FlowsOK
<1>15. /\ values'[f][k] = value
       /\ \A i \in 1..k - 1 : values'[f][i] = values[f][i]
  <2>1. values[f] \in Seq(Shown \cup {value}) /\ value \in Shown \cup {value}
    BY <1>13
  <2> QED BY <1>1, <1>13, <1>14, <2>1
<1>16. \E T : more \in Seq(T)
  BY <1>11 DEF Grown
<1>17. k + 1 \in DOMAIN Outputs => Len(more) = Offset[k + 1]
  <2>1. ASSUME k + 1 \in DOMAIN Outputs PROVE Len(more) = Offset[k + 1]
    <3>1. k # Len(Outputs)
      BY <1>1, <2>1, OutputsAre
    <3>2. fld.type # "padding"
      BY <1>2, <1>3, <3>1, OutputsAre
    <3>3. Len(more) = Len(bits) + fld.length
      BY <1>11, <3>2 DEF Grown
    <3> QED BY <1>8, <3>3
  <2> QED BY <2>1
<1>18. ASSUME NEW i \in DOMAIN Outputs, i < k + 1
       PROVE  /\ Outputs[i].type # "padding" => Offset[i + 1] <= Len(more)
              /\ IsAt(more, Outputs[i], Offset[i], values'[f][i])
  <2>1. CASE i = k
    <3>1. fld.type # "padding" => Offset[k + 1] <= Len(more)
      <4>1. fld.type # "padding" => Len(more) = Offset[k] + fld.length
        BY <1>8, <1>11 DEF Grown
      <4>2. fld.length \in Nat
        BY <1>8 DEF Parsed
      <4> QED BY <1>8, <4>1, <4>2
    <3> QED BY <1>3, <1>8, <1>11, <1>15, <2>1, <3>1
  <2>2. CASE i # k
    <3>1. i \in 1..k - 1 /\ i < field[f]
      BY <1>1, <1>18, <2>2, OutputsAre
    <3>2. /\ Outputs[i].type # "padding" => Offset[i + 1] <= Len(bits)
          /\ IsAt(bits, Outputs[i], Offset[i], values[f][i])
      BY <1>0, <1>6, <3>1 DEF PlaceInv, Placed
    <3>3. PICK shown : shown = values[f][i]
      OBVIOUS
    <3>4. /\ Outputs[i].type # "padding" => Offset[i + 1] <= Len(more)
          /\ IsAt(more, Outputs[i], Offset[i], shown)
      BY <1>7, <1>11, <3>2, <3>3, PlacesStay
    <3> QED BY <1>15, <3>1, <3>3, <3>4
  <2> QED BY <2>1, <2>2
<1>19. Placed(f)'
  BY <1>12, <1>14, <1>16, <1>17, <1>18 DEF Placed
<1>20. ASSUME NEW g \in Flows, g # f, pc'[g] = "output"
       PROVE  Placed(g)'
  <2>1. pc[g] = "output" /\ buffer'[g] = buffer[g] /\ values'[g] = values[g]
        /\ field'[g] = field[g]
    BY <1>5, <1>12, <1>14, <1>20
  <2> QED BY <1>12, <1>20, <2>1, PlaceQuiet
<1> QED BY <1>12, <1>19, <1>20 DEF PlaceInv

(* The other steps begin no output and leave the one that is drawn alone.   *)
LEMMA PlaceRest ==
  ASSUME IInv, PlaceInv, [Next]_vars,
         ~\E f \in Flows : CreateDisplayValues(f) \/ UpdateOutput(f)
  PROVE  PlaceInv'
<1>0. FlowsOK
  BY DEF IInv
<1>1. CASE \E f \in Flows : Update(f)
  <2>1. PICK f \in Flows : HidRead(f) \/ TestField(f) \/ StoreField(f) \/ HidWrite(f)
    BY <1>1 DEF Update
  <2>2. /\ pc'[f] # "output"
        /\ \A g \in Flows \ {f} : pc'[g] = pc[g] /\ field'[g] = field[g]
    BY <1>0, <2>1 DEF HidRead, TestField, StoreField, HidWrite, Goto, FlowsOK
  <2>3. /\ buffer' = [g \in Flows |-> buffer'[g]]
        /\ \A g \in Flows \ {f} : buffer'[g] = buffer[g] /\ values'[g] = values[g]
    BY <1>0, <2>1 DEF HidRead, TestField, StoreField, HidWrite, outputVars, FlowsOK, PlaceInv
  <2>4. ASSUME NEW g \in Flows, pc'[g] = "output" PROVE Placed(g)'
    <3>1. g # f
      BY <2>2, <2>4
    <3>2. pc[g] = "output" /\ buffer'[g] = buffer[g] /\ values'[g] = values[g]
          /\ field'[g] = field[g]
      BY <2>2, <2>3, <2>4, <3>1
    <3> QED BY <2>3, <2>4, <3>2, PlaceQuiet
  <2> QED BY <2>3, <2>4 DEF PlaceInv
<1>2. CASE ~\E f \in Flows : Update(f)
  <2>1. UpdateDevice \/ Updated \/ Main \/ Plug \/ Unplug \/ SendReport \/ UNCHANGED vars
    BY <1>2 DEF Next
  <2>2. UNCHANGED <<field, buffer, values>>
    BY <2>1 DEF UpdateDevice, Updated, Main, Scan, AddDevice, Start, Stop, Close,
      HidClose, ClearRunning, Plug, Unplug, SendReport, vars, restVars, outputVars
  <2>3. \A f \in Flows : pc'[f] = "output" => pc[f] = "output"
    BY <1>0, <2>1 DEF UpdateDevice, Updated, Main, Scan, AddDevice, Start, Stop, Close,
      HidClose, ClearRunning, Plug, Unplug, SendReport, vars, BeginUpdate, Goto, FlowsOK
  <2>4. buffer' = [f \in Flows |-> buffer'[f]]
    BY <2>2 DEF PlaceInv
  <2>5. ASSUME NEW g \in Flows, pc'[g] = "output" PROVE Placed(g)'
    <3>1. pc[g] = "output"
      BY <2>3, <2>5
    <3> QED BY <2>2, <2>4, <2>5, <3>1, PlaceQuiet
  <2> QED BY <2>4, <2>5 DEF PlaceInv
<1> QED BY <1>1, <1>2

(* PlaceInv holds in every reachable state.                                 *)
THEOREM PlaceInvariance == Spec => []PlaceInv
<1>1. IInv /\ PlaceInv /\ [Next]_vars => PlaceInv'
  BY PlaceDisplay, PlaceOutput, PlaceRest
<1> QED BY <1>1, PlaceInit, Invariance, PTL DEF Spec

(* A report that is written has each value at the bits the descriptor gives *)
(* it, whatever was added before and behind it.                             *)
THEOREM FieldsPlaced == Spec => []FieldsAtOffsets
<1>1. IInv /\ PlaceInv => FieldsAtOffsets
  <2> SUFFICES ASSUME IInv, PlaceInv, NEW f \in Flows, Writes(f),
                      NEW i \in DOMAIN Outputs
               PROVE  IsAt(Written(f), Outputs[i], Offset[i], values[f][i])
    BY DEF FieldsAtOffsets
  <2>1. Placed(f) /\ i < field[f]
    BY OutputsAre DEF PlaceInv, Writes, IInv, FlowsOK
  <2>2. PICK bits : bits = buffer[f]
    OBVIOUS
  <2>3. PICK S : bits \in Seq(S)
    BY <2>1, <2>2 DEF Placed
  <2>4. PICK value : value = values[f][i]
    OBVIOUS
  <2>5. /\ Outputs[i].type # "padding" => Offset[i + 1] <= Len(bits)
        /\ IsAt(bits, Outputs[i], Offset[i], value)
    BY <2>1, <2>2, <2>4 DEF Placed
  <2>6. PICK more : more = FlushBits(bits)
    OBVIOUS
  <2>7. PICK n \in Nat : Grown(bits, more, n)
    BY <2>3, <2>6, Flushed
  <2>8. IsAt(more, Outputs[i], Offset[i], value)
    BY <2>3, <2>5, <2>7, PlacesStay
  <2> QED BY <2>2, <2>4, <2>6, <2>8 DEF Written
<1> QED BY <1>1, Invariance, PlaceInvariance, PTL
=============================================================================
