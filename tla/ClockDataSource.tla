--------------------------- MODULE ClockDataSource ---------------------------
(***************************************************************************)
(* ClockDataSource: the data source that shows the time of day on an        *)
(* autopilot panel.                                                         *)
(*                                                                          *)
(* update() samples the clock ten times a second on the data source thread  *)
(* and publishes what the settings make of the sample; command() changes    *)
(* the settings on the device thread, with no lock.  The year is shown for  *)
(* a while after a press, and update() itself ends that.                    *)
(*                                                                          *)
(* A time of day is the number of seconds since midnight; the date is left  *)
(* out but for the choice between showing the day and showing the year.     *)
(***************************************************************************)
EXTENDS Naturals

CONSTANTS
  Midnight,    \* the seconds since midnight when the program starts
  Step,        \* the seconds by which the clock moves on
  MaxTime,     \* bound: seconds the program runs
  MaxPresses   \* bound: commands

Day == 24 * 60 * 60

(* How long the year stays on the panel, in seconds. *)
YearShown == 5

ClockConstants ==
  /\ Midnight \in 0..(Day - 1)
  /\ Step \in Nat \ {0} /\ MaxTime \in Nat /\ MaxPresses \in Nat

VARIABLES
  running,       \* DataSource::m_running
  source,        \* where update() is
  now,           \* time(nullptr): the seconds since the program was started
  timestamp,     \* what update() read of it
  hour,          \* update()'s hour, as it will be shown
  hour24,        \* m_24Hour
  showSeconds,   \* m_showSeconds
  showYear,      \* m_showYear
  showYearTime,  \* m_showYearTime
  pressing,      \* command() has set m_showYear and not yet m_showYearTime
  presses,       \* how many commands there have been
  face           \* the values published

settingVars == <<hour24, showSeconds, showYear, showYearTime>>
pressVars   == <<pressing, presses>>
updateVars  == <<source, timestamp, hour>>
vars == <<running, now, updateVars, settingVars, pressVars, face>>

(* localtime_r() of the sample. *)
SecondOfDay(t) == (Midnight + t) % Day
Hour(t)   == SecondOfDay(t) \div 3600
Minute(t) == (SecondOfDay(t) % 3600) \div 60
Second(t) == SecondOfDay(t) % 60

Init ==
  /\ running = TRUE
  /\ source = "new"
  /\ now = 0 /\ timestamp = 0 /\ hour = 0
  /\ hour24 = TRUE /\ showSeconds = FALSE
  /\ showYear = FALSE /\ showYearTime = 0
  /\ pressing = FALSE /\ presses = 0
  /\ face = [speedManaged |-> FALSE, speed |-> 0, heading |-> 0,
             altitude |-> "nothing", com1Hz |-> 0, inHg |-> 0]

Tick ==
  /\ now + Step <= MaxTime
  /\ now' = now + Step
  /\ UNCHANGED <<running, updateVars, settingVars, pressVars, face>>

Connect ==
  /\ source = "new"
  /\ running' = TRUE
  /\ source' = "loop"
  /\ UNCHANGED <<now, timestamp, hour, settingVars, pressVars, face>>

Disconnect ==
  /\ source # "new"
  /\ running' = FALSE
  /\ UNCHANGED <<now, updateVars, settingVars, pressVars, face>>

-----------------------------------------------------------------------------
(* One round of update().                                                   *)

Sample ==
  /\ source = "loop" /\ running
  /\ source' = "hour"
  /\ timestamp' = now
  /\ UNCHANGED <<running, now, hour, settingVars, pressVars, face>>

End ==
  /\ source = "loop" /\ ~running
  /\ source' = "ended"
  /\ UNCHANGED <<running, now, timestamp, hour, settingVars, pressVars, face>>

(* The bug of leaving the managed light on when the hour is shown in full.  *)
PublishManaged_Sticky ==
  LET h == Hour(timestamp)
      afternoon == ~hour24 /\ h > 12
  IN  /\ source = "hour"
      /\ source' = "digits"
      /\ hour' = IF afternoon THEN h - 12 ELSE h
      /\ face' = [face EXCEPT !.speedManaged = @ \/ afternoon]
      /\ UNCHANGED <<running, now, timestamp, settingVars, pressVars>>

(* The managed light stands for the twelve hours taken off.                 *)
PublishManaged ==
  LET h == Hour(timestamp)
      afternoon == ~hour24 /\ h > 12
  IN  /\ source = "hour"
      /\ source' = "digits"
      /\ hour' = IF afternoon THEN h - 12 ELSE h
      /\ face' = [face EXCEPT !.speedManaged = afternoon]
      /\ UNCHANGED <<running, now, timestamp, settingVars, pressVars>>

(* With the seconds, the last digit of the minutes moves to the heading.    *)
PublishDigits ==
  LET m == Minute(timestamp)
      s == Second(timestamp)
  IN  /\ source = "digits"
      /\ source' = "altitude"
      /\ \/ /\ showSeconds
            /\ face' = [face EXCEPT !.speed = hour * 10 + m \div 10,
                                    !.heading = (m % 10) * 100 + s]
         \/ /\ ~showSeconds
            /\ face' = [face EXCEPT !.speed = hour, !.heading = m]
      /\ UNCHANGED <<running, now, timestamp, hour, settingVars, pressVars>>

PublishAltitude ==
  /\ source = "altitude"
  /\ face' = [face EXCEPT !.altitude = IF showYear THEN "year" ELSE "day"]
  /\ source' = IF showYear THEN "expire" ELSE "clock"
  /\ UNCHANGED <<running, now, timestamp, hour, settingVars, pressVars>>

(* `diff' of a press after the sample is negative, and not five seconds.    *)
ExpireYear ==
  /\ source = "expire"
  /\ source' = IF timestamp >= showYearTime + YearShown THEN "clear" ELSE "clock"
  /\ UNCHANGED <<running, now, timestamp, hour, settingVars, pressVars, face>>

(* The bug of forgetting to end it. *)
ClearYear_Dropped ==
  /\ source = "clear"
  /\ source' = "clock"
  /\ UNCHANGED <<running, now, timestamp, hour, settingVars, pressVars, face>>

ClearYear ==
  /\ source = "clear"
  /\ source' = "clock"
  /\ showYear' = FALSE
  /\ UNCHANGED <<running, now, timestamp, hour, hour24, showSeconds,
                 showYearTime, pressVars, face>>

PublishClock ==
  LET m == Minute(timestamp)
  IN  /\ source = "clock"
      /\ source' = "loop"
      /\ face' = [face EXCEPT
           !.com1Hz = hour * 10000 + m * 100 + Second(timestamp),
           !.inHg = hour * 100 + m]
      /\ UNCHANGED <<running, now, timestamp, hour, settingVars, pressVars>>

Update == Sample \/ End \/ PublishManaged \/ PublishDigits \/ PublishAltitude
            \/ ExpireYear \/ ClearYear \/ PublishClock

-----------------------------------------------------------------------------
(* command(), on the device thread, which starts after connect().           *)

CanPress == source # "new" /\ ~pressing /\ presses < MaxPresses

PressAltitude ==
  /\ CanPress
  /\ presses' = presses + 1
  /\ showYear' = TRUE
  /\ pressing' = TRUE
  /\ UNCHANGED <<running, now, updateVars, hour24, showSeconds, showYearTime, face>>

StampYear ==
  /\ pressing
  /\ pressing' = FALSE
  /\ showYearTime' = now
  /\ UNCHANGED <<running, now, updateVars, hour24, showSeconds, showYear,
                 presses, face>>

PressHeading ==
  /\ CanPress
  /\ presses' = presses + 1
  /\ showSeconds' = ~showSeconds
  /\ UNCHANGED <<running, now, updateVars, hour24, showYear, showYearTime,
                 pressing, face>>

PressSpeed ==
  /\ CanPress
  /\ presses' = presses + 1
  /\ hour24' = ~hour24
  /\ UNCHANGED <<running, now, updateVars, showSeconds, showYear, showYearTime,
                 pressing, face>>

Next ==
  \/ Tick \/ Connect \/ Disconnect \/ Update
  \/ PressAltitude \/ StampYear \/ PressHeading \/ PressSpeed

Fairness == WF_vars(Update)

Spec == Init /\ [][Next]_vars /\ Fairness

-----------------------------------------------------------------------------
(* The last second of the day, as the clock shows it. *)
LastClock == 235959

Faces == [speedManaged : BOOLEAN, speed : 0..239, heading : 0..959,
          altitude : {"nothing", "day", "year"}, com1Hz : 0..LastClock,
          inHg : 0..2359]

(* Every variable stays in its domain.                                      *)
TypeOK ==
  /\ running \in BOOLEAN
  /\ source \in {"new", "loop", "hour", "digits", "altitude", "expire", "clear",
                 "clock", "ended"}
  /\ now \in 0..MaxTime /\ timestamp \in 0..now /\ showYearTime \in 0..now
  /\ hour \in 0..23
  /\ hour24 \in BOOLEAN /\ showSeconds \in BOOLEAN /\ showYear \in BOOLEAN
  /\ pressing \in BOOLEAN /\ presses \in 0..MaxPresses
  /\ face \in Faces

(* The minutes on the panel, whether or not the seconds are shown with them. *)
MinutesShown(seconds) ==
  IF seconds THEN (face.speed % 10) * 10 + face.heading \div 100
             ELSE face.heading
HoursShown(seconds) == IF seconds THEN face.speed \div 10 ELSE face.speed

(* After a full round the panel shows the time it sampled: the hour, with   *)
(* twelve added when the managed light is on, and the minutes, read the way *)
(* the seconds' setting says, or the way it said when a press came during   *)
(* the round.  Noon and midnight included, in both settings of the hours.   *)
FaceShowsTime ==
  source = "clock" =>
    \E seconds \in {showSeconds} \cup (IF presses > 0 THEN BOOLEAN ELSE {}) :
      /\ HoursShown(seconds) + (IF face.speedManaged THEN 12 ELSE 0)
           = Hour(timestamp)
      /\ MinutesShown(seconds) = Minute(timestamp)

(* A year that has been shown for its five seconds goes away, unless it is  *)
(* asked for again or update() has ended.                                   *)
YearGoesAway ==
  (showYear /\ ~pressing /\ now >= showYearTime + YearShown)
    ~> (~showYear \/ pressing \/ now < showYearTime + YearShown \/ ~running)
=============================================================================
