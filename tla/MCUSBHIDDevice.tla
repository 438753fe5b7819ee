---------------------------- MODULE MCUSBHIDDevice ----------------------------
EXTENDS USBHIDDevice

CONSTANTS mach, ap1

MCButtons == <<mach, ap1>>

(* 9 and 10 share no digit, and the digits of neither make another of them. *)
MCDigit    == 9 :> <<9, 0>> @@ 10 :> <<0, 1>>
MCNoDigits == <<45, 45>>   \* dashes

(* The winwing2 patterns of the digits used. *)
MCPattern == 0 :> 125 @@ 1 :> 96 @@ 9 :> 123 @@ 45 :> 2

Value(v) == [of |-> "value", value |-> v]
Nth(i)   == [of |-> "digit", value |-> i]
State(s) == [of |-> s, value |-> 0]
Field(type, length, source) == [type |-> type, length |-> length, source |-> source]

(* As the displays of data/usbhid/winwing_fcu.yaml, and shorter. *)
MCOutputs ==
  <<Field("data", 16, Value(<<1, 29>>)), Field("bits", 1, Value(3)),
    Field("digit", 7, Nth(2)), Field("digit", 7, Nth(1)),
    Field("bit", 1, State("!data")), Field("padding", 56, Value(0))>>
=============================================================================
