------------------------- MODULE SimulatorDataSource -------------------------
(***************************************************************************)
(* SimulatorDataSource: the aircraft UFC flies when no simulator is there.  *)
(*                                                                          *)
(* command() runs on the device thread, and on the main thread while a USB  *)
(* panel is opened or closed; update() publishes the members from the data  *)
(* source thread.  No lock is held: every command copies m_autopilot, edits *)
(* the copy or another member, and stores the whole copy back.              *)
(*                                                                          *)
(* Values are whole numbers: degrees, knots, feet, kHz, hundredths of inHg, *)
(* and 0 or 1 for a switch, which is also what a getter gives for a name    *)
(* nobody has set.  The free-running attitude, airspeed and altitude, which *)
(* no command touches, are left out.                                        *)
(***************************************************************************)
EXTENDS Integers, Sequences

CONSTANTS
  Issues,       \* the commands each caller may issue
  MaxCommands   \* bound: commands issued

(* The threads that call command(). *)
Callers == {"device", "main"}

AutopilotCommands ==
  {"headingUp", "headingDown", "speedUp", "speedDown", "altitudeUp",
   "altitudeDown", "altitudeStep100", "altitudeStep1000", "ap1Toggle",
   "ap2Toggle"}
TuningCommands == {"coarseUp", "coarseDown", "fineUp", "fineDown"}
PanelCommands ==
  {"apuMasterToggle", "apuStarterToggle", "baroUp", "baroDown", "baroStd",
   "baroInHg", "baroHpa", "baroPush", "flightDirectorToggle", "lsToggle"}
Commands == AutopilotCommands \cup TuningCommands \cup PanelCommands
              \cup {"swap", "unknown"}

SimulatorConstants ==
  /\ Issues \in [Callers -> SUBSET Commands]
  /\ MaxCommands \in Nat

AutopilotFields == {"heading", "speed", "altitude", "altitudeStep1000",
                    "ap1Mode", "ap2Mode"}
PanelFields == {"masterOn", "starterOn", "baro", "baroStd", "baroMode",
                "flightDirector", "ls"}
MemberFields == PanelFields \cup {"com1Hz", "com1StandbyHz"}

VARIABLES
  running,     \* DataSource::m_running
  source,      \* where update() is
  position,    \* the next entry of Round, within a round
  autopilot,   \* m_autopilot
  member,      \* m_communication, m_apu, m_baro... and the switches
  published,   \* the values published in the aircraft state
  caller,      \* what each caller of command() is doing
  issued,      \* how many commands have been issued
  alone,       \* the members, had every command run alone
  overlapped   \* two commands, or a command and the start, have overlapped

sourceVars == <<source, position>>
ownVars    == <<autopilot, member>>
callVars   == <<caller, issued>>
ghostVars  == <<alone, overlapped>>
vars == <<running, sourceVars, ownVars, published, callVars, ghostVars>>

NoCall == [at |-> "idle"]
Busy   == {c \in Callers : caller[c] # NoCall}

InitialCom1    == 118900
InitialStandby == 136125

(* What update() publishes in one round, in the order it reads the members; *)
(* those no property tells apart are read in one step, and the second look  *)
(* at the frequencies is left to the next round.                            *)
Round ==
  <<{"heading", "speed", "altitude", "ap1Mode", "ap2Mode"},
    {"com1Hz"}, {"com1StandbyHz"},
    {"masterOn", "starterOn", "baro", "baroStd", "baroMode",
     "flightDirector", "ls"}>>

Published == UNION {Round[i] : i \in DOMAIN Round}

Members == [autopilot |-> autopilot, member |-> member]

Shown(m, f) == IF f \in AutopilotFields THEN m.autopilot[f] ELSE m.member[f]

-----------------------------------------------------------------------------
(* What a command makes of the members.                                     *)

(* `f % 1000' of a frequency.  Frequencies are uint32_t and held here as    *)
(* the int they are published as: one below zero stands for 2^32 more.      *)
KHz(f) == IF f >= 0 THEN f % 1000 ELSE (296 + f) % 1000

Toggled(v) == 1 - v

(* The copy of m_autopilot after a command; `step1000' is m_autopilot's own *)
(* altitudeStep1000, which the altitude commands look at.                   *)
Turned(a, cmd, step1000) ==
  LET up   == a.heading + 1
      down == a.heading - 1
      step == IF step1000 = 1 THEN 1000 ELSE 100
  IN  CASE cmd = "headingUp" ->
             [a EXCEPT !.heading = IF up >= 360 THEN 1 ELSE up]
        [] cmd = "headingDown" ->
             [a EXCEPT !.heading = IF down <= 1 THEN 365 ELSE down]
        [] cmd = "speedUp" ->
             [a EXCEPT !.speed = IF @ <= 400 THEN @ + 1 ELSE @]
        [] cmd = "speedDown" ->
             [a EXCEPT !.speed = IF @ > 100 THEN @ - 1 ELSE @]
        [] cmd = "altitudeUp"    -> [a EXCEPT !.altitude = @ + step]
        [] cmd = "altitudeDown"  -> [a EXCEPT !.altitude = @ - step]
        [] cmd = "altitudeStep100"  -> [a EXCEPT !.altitudeStep1000 = 0]
        [] cmd = "altitudeStep1000" -> [a EXCEPT !.altitudeStep1000 = 1]
        [] cmd = "ap1Toggle"     -> [a EXCEPT !.ap1Mode = Toggled(@)]
        [] cmd = "ap2Toggle"     -> [a EXCEPT !.ap2Mode = Toggled(@)]
        [] OTHER -> a

Switched(m, cmd) ==
  CASE cmd = "apuMasterToggle"  -> [m EXCEPT !.masterOn = Toggled(@)]
    [] cmd = "apuStarterToggle" -> [m EXCEPT !.starterOn = Toggled(@)]
    [] cmd = "baroUp"   -> [m EXCEPT !["baro"] = @ + 1, !["baroStd"] = 0]
    [] cmd = "baroDown" -> [m EXCEPT !["baro"] = @ - 1, !["baroStd"] = 0]
    [] cmd = "baroStd" /\ m.baroStd = 1 -> [m EXCEPT !.baroStd = 0]
    [] cmd = "baroStd" /\ m.baroStd = 0 ->
         [m EXCEPT !["baro"] = 2992, !["baroStd"] = 1]
    [] cmd = "baroInHg" -> [m EXCEPT !.baroMode = 0]
    [] cmd = "baroHpa"  -> [m EXCEPT !.baroMode = 1]
    [] cmd = "baroPush" -> [m EXCEPT !.baroStd = 0]
    [] cmd = "flightDirectorToggle" ->
         [m EXCEPT !.flightDirector = Toggled(@)]
    [] cmd = "lsToggle" -> [m EXCEPT !.ls = Toggled(@)]
    [] OTHER -> m

(* The frequencies a pilot expects of a command, in terms of MHz and kHz.   *)
Tuned(m, cmd) ==
  LET khz == KHz(m.com1StandbyHz)
      mhz == m.com1StandbyHz - khz
  IN  CASE cmd = "coarseUp"   -> [m EXCEPT !.com1StandbyHz = @ + 1000]
        [] cmd = "coarseDown" -> [m EXCEPT !.com1StandbyHz = @ - 1000]
        [] cmd = "fineUp"     ->
             [m EXCEPT !.com1StandbyHz = mhz + ((khz + 25) % 1000)]
        [] cmd = "fineDown"   ->
             [m EXCEPT !.com1StandbyHz = mhz + ((khz + 975) % 1000)]
        [] cmd = "swap" ->
             [m EXCEPT !["com1Hz"] = m.com1StandbyHz, !["com1StandbyHz"] = m.com1Hz]
        [] OTHER -> m

(* A command that runs alone.                                               *)
Alone(m, cmd) ==
  [autopilot |-> Turned(m.autopilot, cmd, m.autopilot.altitudeStep1000),
   member    |-> Tuned(Switched(m.member, cmd), cmd)]

(* The bug of letting the kHz run over into the MHz.                        *)
FineKHz_NotWrapped(khz, cmd) == IF cmd = "fineUp" THEN khz + 25 ELSE khz - 25

(* The kHz after a fine command, wrapped within the MHz.                    *)
FineKHz(khz, cmd) ==
  IF cmd = "fineUp" THEN IF khz + 25 >= 1000 THEN khz + 25 - 1000 ELSE khz + 25
                    ELSE IF khz - 25 < 0 THEN khz - 25 + 1000 ELSE khz - 25

-----------------------------------------------------------------------------
Init ==
  /\ running = TRUE
  /\ source = "new" /\ position = 1
  /\ autopilot = [f \in AutopilotFields |-> 0]
  /\ member = [f \in MemberFields |-> IF f = "baro" THEN 2992 ELSE 0]
  /\ published = [f \in Published |-> 0]
  /\ caller = [c \in Callers |-> NoCall]
  /\ issued = 0
  /\ alone = Members
  /\ overlapped = FALSE

Connect ==
  /\ source = "new"
  /\ running' = TRUE
  /\ source' = "connected"
  /\ UNCHANGED <<position, ownVars, published, callVars, ghostVars>>

Disconnect ==
  /\ source # "new"
  /\ running' = FALSE
  /\ UNCHANGED <<sourceVars, ownVars, published, callVars, ghostVars>>

(* update() first publishes values of its own...                            *)
BeginUpdate ==
  /\ source = "connected"
  /\ source' = "com1Hz"
  /\ published' = [published EXCEPT !["flightDirector"] = member.flightDirector,
                            !["com1Hz"] = InitialCom1,
                            !["com1StandbyHz"] = InitialStandby,
                            !["speed"] = 50, !["altitude"] = 1000, !["heading"] = 90]
  /\ UNCHANGED <<running, position, ownVars, callVars, ghostVars>>

(* ...and stores the frequencies, whatever was tuned in the meantime.       *)
SetCom1 ==
  /\ source = "com1Hz"
  /\ source' = "com1StandbyHz"
  /\ member' = [member EXCEPT !.com1Hz = InitialCom1]
  /\ alone' = [alone EXCEPT !.member =
                 [@ EXCEPT !["com1Hz"] = InitialCom1,
                           !["com1StandbyHz"] = InitialStandby]]
  /\ overlapped' = (overlapped \/ Busy # {})
  /\ UNCHANGED <<running, position, autopilot, published, callVars>>

SetStandby ==
  /\ source = "com1StandbyHz"
  /\ source' = "loop"
  /\ member' = [member EXCEPT !.com1StandbyHz = InitialStandby]
  /\ UNCHANGED <<running, position, autopilot, published, callVars, ghostVars>>

TestRunning ==
  /\ source = "loop"
  /\ source' = IF running THEN "publish" ELSE "ended"
  /\ UNCHANGED <<running, position, ownVars, published, callVars, ghostVars>>

(* The bug of publishing each member once only, as initialised.             *)
Publish_Once ==
  /\ source = "publish"
  /\ published' = [f \in Published |->
                 IF f \in Round[position] /\ published[f] = 0
                 THEN Shown(Members, f) ELSE published[f]]
  /\ position' = IF position = Len(Round) THEN 1 ELSE position + 1
  /\ source' = IF position = Len(Round) THEN "loop" ELSE source
  /\ UNCHANGED <<running, ownVars, callVars, ghostVars>>

Publish ==
  /\ source = "publish"
  /\ published' = [f \in Published |->
                 IF f \in Round[position] THEN Shown(Members, f) ELSE published[f]]
  /\ position' = IF position = Len(Round) THEN 1 ELSE position + 1
  /\ source' = IF position = Len(Round) THEN "loop" ELSE source
  /\ UNCHANGED <<running, ownVars, callVars, ghostVars>>

Update == BeginUpdate \/ SetCom1 \/ SetStandby \/ TestRunning \/ Publish

-----------------------------------------------------------------------------
(* command(), one access of the members at a time.                          *)

(* `kept' and `next' are the locals: hz or tmp, and the value to store.     *)
Call(at, cmd, copy, kept, next) ==
  [at |-> at, cmd |-> cmd, copy |-> copy, kept |-> kept, next |-> next]

Begin(c) ==
  /\ caller[c] = NoCall /\ issued < MaxCommands
  /\ c = "device" => source # "new"
  /\ issued' = issued + 1
  /\ \E cmd \in Issues[c] :
       /\ caller' = [caller EXCEPT ![c] = Call("edit", cmd, autopilot, 0, 0)]
       /\ alone' = Alone(alone, cmd)
  /\ overlapped' = (overlapped \/ Busy # {} \/ source = "com1StandbyHz")
  /\ UNCHANGED <<running, sourceVars, ownVars, published>>

At(c, at, cmds) == caller[c].at = at /\ caller[c].cmd \in cmds

(* The call goes on to `at' with its locals changed.                        *)
Goes(c, at, kept, next) ==
  caller' = [caller EXCEPT ![c] = Call(at, @.cmd, @.copy, kept, next)]

Others == UNCHANGED <<running, sourceVars, published, issued, ghostVars>>

EditCopy(c) ==
  /\ At(c, "edit", AutopilotCommands)
  /\ caller' = [caller EXCEPT ![c] =
       Call("store", @.cmd, Turned(@.copy, @.cmd, autopilot.altitudeStep1000), 0, 0)]
  /\ UNCHANGED ownVars /\ Others

EditPanel(c) ==
  /\ At(c, "edit", PanelCommands \cup {"unknown"})
  /\ member' = Switched(member, caller[c].cmd)
  /\ Goes(c, "store", 0, 0)
  /\ UNCHANGED autopilot /\ Others

ReadKHz(c) ==
  /\ At(c, "edit", {"fineUp", "fineDown"})
  /\ Goes(c, "readMHz", KHz(member.com1StandbyHz), 0)
  /\ UNCHANGED ownVars /\ Others

ReadMHz(c) ==
  /\ At(c, "readMHz", TuningCommands)
  /\ Goes(c, "writeMHz", caller[c].kept, member.com1StandbyHz - caller[c].kept)
  /\ UNCHANGED ownVars /\ Others

WriteMHz(c) ==
  /\ At(c, "writeMHz", TuningCommands)
  /\ member' = [member EXCEPT !.com1StandbyHz = caller[c].next]
  /\ Goes(c, "readStandby", caller[c].kept, 0)
  /\ UNCHANGED autopilot /\ Others

ReadStandby(c) ==
  LET cmd == caller[c].cmd
      standby == member.com1StandbyHz
  IN  /\ \/ /\ At(c, "edit", {"coarseUp"})
            /\ Goes(c, "write", 0, standby + 1000)
         \/ /\ At(c, "edit", {"coarseDown"})
            /\ Goes(c, "write", 0, standby - 1000)
         \/ /\ At(c, "readStandby", {"fineUp", "fineDown"})
            /\ Goes(c, "write", 0, standby + FineKHz(caller[c].kept, cmd))
      /\ UNCHANGED ownVars /\ Others

ReadCom1(c) ==
  /\ At(c, "edit", {"swap"})
  /\ Goes(c, "readStandby", member.com1Hz, 0)
  /\ UNCHANGED ownVars /\ Others

ReadSwapped(c) ==
  /\ At(c, "readStandby", {"swap"})
  /\ Goes(c, "writeCom1", caller[c].kept, member.com1StandbyHz)
  /\ UNCHANGED ownVars /\ Others

WriteCom1(c) ==
  /\ At(c, "writeCom1", {"swap"})
  /\ member' = [member EXCEPT !.com1Hz = caller[c].next]
  /\ Goes(c, "write", 0, caller[c].kept)
  /\ UNCHANGED autopilot /\ Others

WriteStandby(c) ==
  /\ At(c, "write", TuningCommands \cup {"swap"})
  /\ member' = [member EXCEPT !.com1StandbyHz = caller[c].next]
  /\ Goes(c, "store", 0, 0)
  /\ UNCHANGED autopilot /\ Others

(* Every command ends by storing its copy of m_autopilot. *)
Store(c) ==
  /\ At(c, "store", Commands)
  /\ autopilot' = caller[c].copy
  /\ caller' = [caller EXCEPT ![c] = NoCall]
  /\ UNCHANGED member /\ Others

Proceed(c) ==
  \/ EditCopy(c) \/ EditPanel(c) \/ ReadKHz(c) \/ ReadMHz(c) \/ WriteMHz(c)
  \/ ReadStandby(c) \/ ReadCom1(c) \/ ReadSwapped(c) \/ WriteCom1(c)
  \/ WriteStandby(c) \/ Store(c)

Next ==
  \/ Connect \/ Disconnect \/ Update
  \/ \E c \in Callers : Begin(c) \/ Proceed(c)

(* The data source thread and a command that has begun go on.               *)
Fairness ==
  /\ WF_vars(Update)
  /\ \A c \in Callers : WF_vars(Proceed(c))

Spec == Init /\ [][Next]_vars /\ Fairness

-----------------------------------------------------------------------------
Places == {"edit", "readMHz", "writeMHz", "readStandby", "writeCom1", "write",
           "store"}

(* Every variable stays in its domain.                                      *)
TypeOK ==
  /\ running \in BOOLEAN
  /\ source \in {"new", "connected", "com1Hz", "com1StandbyHz", "loop",
                 "publish", "ended"}
  /\ position \in DOMAIN Round
  /\ autopilot \in [AutopilotFields -> Int]
  /\ member \in [MemberFields -> Int]
  /\ published \in [Published -> Int]
  /\ caller \in [Callers -> {NoCall} \cup
       [at : Places, cmd : Commands, copy : [AutopilotFields -> Int],
        kept : Int, next : Int]]
  /\ issued \in 0..MaxCommands
  /\ alone \in [autopilot : [AutopilotFields -> Int],
                member : [MemberFields -> Int]]
  /\ overlapped \in BOOLEAN

(* When no command is under way, and no two of them have overlapped each    *)
(* other or the start of update(), the members are what the commands make   *)
(* one by one: no frequency is lost in a swap, the kHz wrap within their    *)
(* MHz, and storing back the whole of m_autopilot undoes nothing.           *)
AloneAsOrdered ==
  ~overlapped /\ Busy = {} /\ source # "com1StandbyHz" => Members = alone

(* What the last commands made of the members is published, unless update() *)
(* has ended: no later round shows an older value.                          *)
CommandsShown ==
  \/ <>[](source \in {"new", "ended"})
  \/ <>[](\A f \in Published : published[f] = Shown(Members, f))
=============================================================================
