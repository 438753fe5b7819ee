--------------------------- MODULE UFCPluginProofs ---------------------------
(***************************************************************************)
(* What is proved of the X-Plane plugin for any devices, plugged in at any  *)
(* time, and any order of callbacks, detections and stops.                  *)
(***************************************************************************)
EXTENDS UFCPlugin, TLAPS

-----------------------------------------------------------------------------
(* The inductive invariant.                                                 *)

StartPCs  == {"start", "spawnDevice", "spawnSource", "started"}
MainPCs   == {"initDevices", "scan", "idle", "close", "disconnect",
              "joinDevice", "joiningDevice", "joinSource", "joiningSource",
              "waited"} \cup StartPCs
WorkerPCs == {"unborn", "loop", "lock", "update", "updating", "publish",
              "ended"}

(* Each thread stays in the code it executes.                               *)
PhaseInv ==
  /\ pc["main"] \in MainPCs
  /\ \A w \in Workers : pc[w] \in WorkerPCs
  /\ pc["main"] = "initDevices" => pc["device"] = "unborn" /\ call = "start"
  /\ pc["main"] \in StartPCs => call = "init"
  /\ ~loaded => pc["main"] = "idle"

(* A std::thread tells what its thread has done, and only the main thread   *)
(* waits for one.                                                           *)
HandleInv ==
  \A w \in Workers :
    /\ (handle[w] = "none") <=> (pc[w] = "unborn")
    /\ handle[w] = "joined" => pc[w] = "ended"
    /\ handle[w] = "joinable" /\ joiner[w] # None => pc["main"] = JoiningAt(w)
    /\ pc["main"] = JoiningAt(w) => handle[w] = "joinable"

Idle(w) == handle[w] # "joinable"

(* While the connector is stopped and the main thread outside stop(), no    *)
(* std::thread is joinable.                                                 *)
IdleInv ==
  /\ pc["main"] \in {"start", "spawnDevice", "waited"} \/ ~loaded =>
       \A w \in Workers : Idle(w)
  /\ pc["main"] \in {"idle", "initDevices", "scan"} /\ ~running =>
       \A w \in Workers : Idle(w)
  /\ pc["main"] = "spawnSource" => Idle("source")
  /\ pc["main"] \in {"joinSource", "joiningSource"} => Idle("device")

(* The callback that starts the connector is only registered while it does  *)
(* not run, and nothing else starts it in between.                          *)
PendingInv ==
  /\ pc["main"] \in StartPCs \ {"start"} => running
  /\ initPending \/ (call = "init" /\ pc["main"] \in {"scan", "start"}) => ~running
  /\ call = "init" => ~initPending

LockInv ==
  mutex = IF pc["device"] \in {"update", "updating"} THEN "device" ELSE None

IInv ==
  /\ TypeOK /\ PhaseInv /\ HandleInv /\ IdleInv /\ PendingInv /\ LockInv
  /\ MenuMatchesState

-----------------------------------------------------------------------------
(* Every step keeps every variable in its domain. *)
LEMMA TypeStep == TypeOK /\ [Next]_allVars => TypeOK'
<1> SUFFICES ASSUME TypeOK, [Next]_allVars PROVE TypeOK'
  OBVIOUS
<1> USE ContextAssumption, NoHandlerAssumption
    DEF TypeOK, ConnectorTypeOK, Threads, Workers, Contexts, PCs,
        deviceVars, updateVars, joinVars, frameVars, pluginVars, restVars,
        vars, Goto
<1>1. CASE InitDevices
  <2>1. CASE \E d \in plugged : InitDevice("main", d)
    <3>1. PICK d \in Devices : InitDevice("main", d)
      BY <2>1
    <3> QED BY <1>1, <3>1 DEF InitDevices, InitDevice, NewDevice
  <2>2. CASE RegistryDone("main")
    BY <1>1, <2>2 DEF InitDevices, RegistryDone
  <2> QED BY <1>1, <2>1, <2>2 DEF InitDevices
<1>2. CASE Scan
  BY <1>2 DEF Scan, AddDevice, NewDevice
<1>3. CASE ScanDone
  BY <1>3 DEF ScanDone, BuildMenu, StartFlightConnector
<1>4. CASE InitScanned
  BY <1>4 DEF InitScanned
<1>5. CASE InitReturns
  BY <1>5 DEF InitReturns, BuildMenu
<1>6. CASE MenuStopReturns
  BY <1>6 DEF MenuStopReturns, BuildMenu
<1>7. CASE XPluginStopReturns
  BY <1>7 DEF XPluginStopReturns
<1>8. CASE Start("main") /\ UNCHANGED pluginVars
  <2>1. CASE SetRunning("main")
    BY <1>8, <2>1 DEF SetRunning
  <2>2. CASE SpawnDevice("main")
    BY <1>8, <2>2 DEF SpawnDevice, Spawn
  <2>3. CASE SpawnSource("main")
    BY <1>8, <2>3 DEF SpawnSource, Spawn
  <2> QED BY <1>8, <2>1, <2>2, <2>3 DEF Start
<1>9. CASE Stop("main") /\ UNCHANGED pluginVars
  <2>1. CASE CloseDevice("main")
    BY <1>9, <2>1 DEF CloseDevice
  <2>2. CASE ClearRunning("main")
    <3>1. running' = FALSE /\ running' \in BOOLEAN
      BY <2>2 DEF ClearRunning
    <3> QED BY <1>9, <2>2, <3>1 DEF ClearRunning
  <2>3. CASE Disconnect("main")
    <3>1. source' \in {"none", "created", "connected", "disconnected"}
      BY <2>3 DEF Disconnect
    <3> QED BY <1>9, <2>3, <3>1 DEF Disconnect
  <2> QED BY <1>9, <2>1, <2>2, <2>3 DEF Stop
<1>10. CASE Wait("main") /\ UNCHANGED pluginVars
  <2>1. PICK w \in Workers : \/ JoinSkip("main", w) \/ JoinThrows("main", w)
                             \/ JoinBegins("main", w) \/ JoinEnds("main", w)
    BY <1>10 DEF Wait
  <2>2. JoinNext(w) \in PCs /\ JoiningAt(w) \in PCs
    BY DEF JoinNext, JoiningAt
  <2>3. CASE JoinSkip("main", w)
    BY <1>10, <2>2, <2>3 DEF JoinSkip
  <2>6. CASE JoinThrows("main", w)
    BY <1>10, <2>2, <2>6 DEF JoinThrows
  <2>4. CASE JoinBegins("main", w)
    BY <1>10, <2>2, <2>4 DEF JoinBegins, ThreadOf
  <2>5. CASE JoinEnds("main", w)
    BY <1>10, <2>2, <2>5 DEF JoinEnds
  <2> QED BY <2>1, <2>3, <2>4, <2>5, <2>6
<1>11. CASE InitCallback
  BY <1>11 DEF InitCallback, Enter
<1>12. CASE MenuDetect
  BY <1>12 DEF MenuDetect, Enter
<1>13. CASE MenuStop \/ XPluginStop
  <2>1. PICK name \in {"stop", "unload"} : StopCall(name)
    BY <1>13 DEF MenuStop, XPluginStop
  <2> QED BY <2>1 DEF StopCall, CallStop
<1>14. CASE Workers_Step
  <2>1. CASE LoopTest
    BY <1>14, <2>1 DEF Workers_Step, LoopTest
  <2>2. CASE LockDevices
    BY <1>14, <2>2 DEF Workers_Step, LockDevices
  <2>3. CASE BeginUpdate
    BY <1>14, <2>3 DEF Workers_Step, BeginUpdate
  <2>4. CASE EndUpdate
    BY <1>14, <2>4 DEF Workers_Step, EndUpdate
  <2>5. CASE UnlockDevices
    BY <1>14, <2>5 DEF Workers_Step, UnlockDevices
  <2>6. CASE SourceDisconnected
    BY <1>14, <2>6 DEF Workers_Step, SourceDisconnected
  <2> QED BY <1>14, <2>1, <2>2, <2>3, <2>4, <2>5, <2>6
          DEF Workers_Step, DeviceThread
<1>15. CASE Plug
  BY <1>15 DEF Plug
<1>16. CASE UNCHANGED allVars
  BY <1>16 DEF allVars
<1> QED
  BY <1>1, <1>2, <1>3, <1>4, <1>5, <1>6, <1>7, <1>8, <1>9, <1>10, <1>11,
     <1>12, <1>13, <1>14, <1>15, <1>16 DEF Next, EntryPoint

(* Every reachable state of the plugin is well typed. *)
THEOREM TypeCorrect == Spec => []TypeOK
<1>1. ASSUME Init PROVE TypeOK
  <2>1. pc \in [Contexts -> PCs]
    BY <1>1 DEF Init, PCs
  <2> QED BY <1>1, <2>1, ContextAssumption, NoHandlerAssumption
          DEF Init, ConnectorInit, TypeOK, ConnectorTypeOK, Contexts, Threads,
              Workers
<1> QED BY <1>1, TypeStep, PTL DEF Spec

-----------------------------------------------------------------------------
(* A step of the main thread between two places of its code.                *)
LEMMA MainGoto ==
  ASSUME TypeOK, NEW from, NEW to, Goto("main", from, to)
  PROVE  /\ pc["main"] = from /\ pc'["main"] = to
         /\ \A w \in Workers : pc'[w] = pc[w]
BY DEF Goto, TypeOK, ConnectorTypeOK, Contexts, Threads, Workers

(* A step of the main thread through code in which no thread is created,    *)
(* joined or judged.                                                        *)
LEMMA QuietStep ==
  ASSUME IInv, TypeOK', NEW to,
         UNCHANGED <<running, handle, joiner, mutex>>,
         \A w \in Workers : pc'[w] = pc[w],
         pc'["main"] = to,
         pc["main"] \notin {"joiningDevice", "joiningSource"},
         to \notin {"joiningDevice", "joiningSource"},
         PhaseInv', IdleInv', PendingInv', MenuMatchesState'
  PROVE  IInv'
<1>1. HandleInv'
  BY DEF IInv, HandleInv, JoiningAt
<1>2. LockInv'
  BY DEF IInv, LockInv, Workers
<1> QED BY <1>1, <1>2 DEF IInv

(* Every step keeps the inductive invariant. *)
LEMMA InvStep == IInv /\ [Next]_allVars => IInv'
<1> SUFFICES ASSUME IInv, [Next]_allVars PROVE IInv'
  OBVIOUS
<1> USE ContextAssumption, NoHandlerAssumption
<1>ok. TypeOK /\ TypeOK'
  BY TypeStep DEF IInv
<1>types. /\ pc \in [Contexts -> PCs]
          /\ handle \in [Workers -> {"none", "joinable", "joined"}]
          /\ joiner \in [Workers -> Threads \cup {None}]
  BY <1>ok DEF TypeOK, ConnectorTypeOK
(* Quiet steps that leave the connector alone. *)
<1>quiet. ASSUME NEW from, NEW to, Goto("main", from, to),
                 UNCHANGED restVars,
                 from \notin {"joiningDevice", "joiningSource"},
                 to \notin {"joiningDevice", "joiningSource"},
                 PhaseInv', IdleInv', PendingInv', MenuMatchesState'
          PROVE  IInv'
  <2>1. UNCHANGED <<running, handle, joiner, mutex>>
    BY <1>quiet DEF restVars, joinVars, updateVars
  <2> QED BY <2>1, <1>quiet, <1>ok, MainGoto, QuietStep
<1>1. CASE InitDevices
  <2>1. CASE \E d \in plugged : InitDevice("main", d)
    <3>1. /\ UNCHANGED <<running, pc, mutex, handle, joiner>> /\ UNCHANGED pluginVars
      BY <1>1, <2>1 DEF InitDevices, InitDevice, NewDevice, updateVars, joinVars, pluginVars, RegistryDone
    <3> QED BY <3>1, <1>ok
            DEF IInv, PhaseInv, HandleInv, IdleInv, Idle, PendingInv, LockInv,
                MenuMatchesState, pluginVars, JoiningAt
  <2>2. CASE RegistryDone("main")
    <3>1. /\ Goto("main", "initDevices", "scan") /\ UNCHANGED restVars
          /\ UNCHANGED pluginVars
      BY <1>1, <2>2 DEF InitDevices, RegistryDone, restVars
    <3>2. PhaseInv' /\ IdleInv' /\ PendingInv' /\ MenuMatchesState'
      BY <3>1, <1>ok, MainGoto
         DEF IInv, PhaseInv, IdleInv, Idle, PendingInv, MenuMatchesState, restVars,
             joinVars, pluginVars, MainPCs, StartPCs, Workers
    <3> QED BY <3>1, <3>2, <1>quiet
  <2> QED BY <1>1, <2>1, <2>2 DEF InitDevices
<1>2. CASE Scan
  <2>1. /\ UNCHANGED <<running, pc, mutex, handle, joiner>> /\ UNCHANGED pluginVars
    BY <1>2 DEF Scan, AddDevice, NewDevice, updateVars, joinVars
  <2> QED BY <2>1, <1>ok
          DEF IInv, PhaseInv, HandleInv, IdleInv, Idle, PendingInv, LockInv,
              MenuMatchesState, pluginVars, JoiningAt
<1>3. CASE ScanDone
  <2>1. /\ Goto("main", "scan", "idle") /\ UNCHANGED restVars
        /\ UNCHANGED loaded /\ call' = "none"
    BY <1>3 DEF ScanDone
  <2>2. UNCHANGED <<running, handle>>
    BY <2>1 DEF restVars, joinVars
  <2>3. PhaseInv' /\ IdleInv'
    BY <2>1, <2>2, <1>ok, MainGoto
       DEF IInv, PhaseInv, IdleInv, Idle, MainPCs, StartPCs, Workers
  <2>4. initPending' => initPending \/ ~running
    BY <1>3, Zenon DEF ScanDone, StartFlightConnector
  <2>5. PendingInv'
    BY <2>1, <2>2, <2>4, <1>ok, MainGoto DEF IInv, PendingInv, StartPCs
  <2>6. MenuMatchesState'
    BY <1>3, <2>2 DEF ScanDone, BuildMenu, MenuMatchesState
  <2> QED BY <2>1, <2>3, <2>5, <2>6, <1>quiet
<1>4. CASE InitScanned
  <2>1. /\ Goto("main", "scan", "start") /\ UNCHANGED restVars
        /\ UNCHANGED pluginVars /\ call = "init"
    BY <1>4 DEF InitScanned
  <2>2. UNCHANGED <<running, handle>>
    BY <2>1 DEF restVars, joinVars
  <2>3. PhaseInv' /\ IdleInv' /\ PendingInv' /\ MenuMatchesState'
    BY <2>1, <2>2, <1>ok, MainGoto
       DEF IInv, PhaseInv, IdleInv, Idle, PendingInv, MenuMatchesState, MainPCs,
           StartPCs, Workers, pluginVars
  <2> QED BY <2>1, <2>3, <1>quiet
(* The three calls that end idle, with a menu that shows what m_running is. *)
<1>5. CASE InitReturns
  <2>1. /\ Goto("main", "started", "idle") /\ UNCHANGED restVars
        /\ UNCHANGED <<initPending, loaded>> /\ call' = "none"
    BY <1>5 DEF InitReturns
  <2>2. UNCHANGED <<running, handle>>
    BY <2>1 DEF restVars, joinVars
  <2>3. PhaseInv' /\ IdleInv' /\ PendingInv'
    BY <2>1, <2>2, <1>ok, MainGoto
       DEF IInv, PhaseInv, IdleInv, Idle, PendingInv, MainPCs, StartPCs, Workers
  <2>4. MenuMatchesState'
    BY <1>5, <2>2 DEF InitReturns, BuildMenu, MenuMatchesState
  <2> QED BY <2>1, <2>3, <2>4, <1>quiet
<1>6. CASE MenuStopReturns
  <2>1. /\ Goto("main", "waited", "idle") /\ UNCHANGED restVars
        /\ UNCHANGED <<initPending, loaded>> /\ call' = "none"
    BY <1>6 DEF MenuStopReturns
  <2>2. UNCHANGED <<running, handle>>
    BY <2>1 DEF restVars, joinVars
  <2>3. PhaseInv' /\ IdleInv' /\ PendingInv'
    BY <2>1, <2>2, <1>ok, MainGoto
       DEF IInv, PhaseInv, IdleInv, Idle, PendingInv, MainPCs, StartPCs, Workers
  <2>4. MenuMatchesState'
    BY <1>6, <2>2 DEF MenuStopReturns, BuildMenu, MenuMatchesState
  <2> QED BY <2>1, <2>3, <2>4, <1>quiet
<1>7. CASE XPluginStopReturns
  <2>1. /\ Goto("main", "waited", "idle") /\ UNCHANGED restVars
        /\ UNCHANGED initPending /\ loaded' = FALSE /\ call' = "none"
    BY <1>7 DEF XPluginStopReturns
  <2>2. UNCHANGED <<running, handle>>
    BY <2>1 DEF restVars, joinVars
  <2>3. PhaseInv' /\ IdleInv' /\ PendingInv' /\ MenuMatchesState'
    BY <2>1, <2>2, <1>ok, MainGoto
       DEF IInv, PhaseInv, IdleInv, Idle, PendingInv, MenuMatchesState, MainPCs,
           StartPCs, Workers
  <2> QED BY <2>1, <2>3, <1>quiet
<1>8. CASE Start("main") /\ UNCHANGED pluginVars
  <2>1. CASE SetRunning("main")
    <3>1. /\ Goto("main", "start", "spawnDevice") /\ running' = TRUE
          /\ UNCHANGED <<mutex, handle, joiner>> /\ UNCHANGED pluginVars
      BY <1>8, <2>1 DEF SetRunning, updateVars, joinVars
    <3>2. /\ pc["main"] = "start" /\ pc'["main"] = "spawnDevice"
          /\ \A w \in Workers : pc'[w] = pc[w]
      BY <3>1, <1>ok, MainGoto
    <3>3. PhaseInv' /\ IdleInv' /\ MenuMatchesState'
      BY <3>1, <3>2 DEF IInv, PhaseInv, IdleInv, Idle, MenuMatchesState, MainPCs,
                        StartPCs, pluginVars, Workers
    <3>4. PendingInv'
      BY <3>1, <3>2 DEF IInv, PhaseInv, PendingInv, StartPCs, pluginVars
    <3>5. HandleInv' /\ LockInv'
      BY <3>1, <3>2 DEF IInv, HandleInv, LockInv, JoiningAt, Workers
    <3> QED BY <3>3, <3>4, <3>5, <1>ok DEF IInv
  <2>2. ASSUME NEW w \in Workers, NEW from, NEW to, NEW entry,
               Spawn("main", w, from, to, entry), Idle(w),
               \/ /\ w = "device" /\ from = "spawnDevice"
                  /\ to = "spawnSource" /\ entry = "loop"
               \/ /\ w = "source" /\ from = "spawnSource"
                  /\ to = "started" /\ entry = "publish"
        PROVE  IInv'
    <3>1. /\ pc["main"] = from
          /\ pc' = [pc EXCEPT !["main"] = to, ![w] = entry]
          /\ handle' = [handle EXCEPT ![w] = "joinable"]
          /\ joiner' = [joiner EXCEPT ![w] = None]
          /\ UNCHANGED <<running, mutex>>
      BY <2>2 DEF Spawn, updateVars
    <3>2. "main" \in Contexts /\ w \in Contexts /\ "main" \notin Workers
      BY DEF Contexts, Threads, Workers
    <3>3. /\ pc'["main"] = to /\ pc'[w] = entry
          /\ \A v \in Workers : v # w => pc'[v] = pc[v]
      BY <3>1, <3>2, <1>types DEF Contexts, Threads
    <3>4. /\ handle'[w] = "joinable" /\ joiner'[w] = None
          /\ \A v \in Workers : v # w => handle'[v] = handle[v] /\ joiner'[v] = joiner[v]
      BY <3>1, <1>types
    <3>5. UNCHANGED <<call, loaded, initPending>>
      BY <1>8 DEF pluginVars
    <3>6. pc[w] \in {"unborn", "ended"}
      BY <2>2, <1>types DEF IInv, HandleInv, Idle
    <3>7. PhaseInv'
      BY <2>2, <3>1, <3>3, <3>5
         DEF IInv, PhaseInv, MainPCs, StartPCs, WorkerPCs, Workers
    <3>8. HandleInv'
      <4> SUFFICES ASSUME NEW v \in Workers
                   PROVE  /\ (handle'[v] = "none") <=> (pc'[v] = "unborn")
                          /\ handle'[v] = "joined" => pc'[v] = "ended"
                          /\ handle'[v] = "joinable" /\ joiner'[v] # None =>
                               pc'["main"] = JoiningAt(v)
                          /\ pc'["main"] = JoiningAt(v) => handle'[v] = "joinable"
        BY DEF HandleInv, JoiningAt
      <4>1. pc["main"] # JoiningAt(v) /\ pc'["main"] # JoiningAt(v)
        BY <2>2, <3>1, <3>3 DEF JoiningAt
      <4>2. CASE v = w
        BY <2>2, <3>3, <3>4, <4>1, <4>2
      <4>3. CASE v # w
        BY <3>3, <3>4, <4>1, <4>3 DEF IInv, HandleInv
      <4> QED BY <4>2, <4>3
    <3>9. IdleInv'
      BY <2>2, <3>1, <3>3, <3>4, <3>5
         DEF IInv, PhaseInv, IdleInv, Idle, Workers
    <3>10. PendingInv' /\ MenuMatchesState'
      BY <2>2, <3>1, <3>3, <3>5
         DEF IInv, PendingInv, MenuMatchesState, StartPCs
    <3>11. LockInv'
      BY <2>2, <3>1, <3>3, <3>6 DEF IInv, LockInv, Workers
    <3> QED BY <3>7, <3>8, <3>9, <3>10, <3>11, <1>ok DEF IInv
  <2>3. CASE SpawnDevice("main")
    <3>1. Idle("device")
      BY <2>3 DEF SpawnDevice, Spawn, IInv, IdleInv, Workers
    <3> QED BY <2>2, <2>3, <3>1 DEF SpawnDevice, Workers
  <2>4. CASE SpawnSource("main")
    <3>1. Idle("source")
      BY <2>4 DEF SpawnSource, Spawn, IInv, IdleInv
    <3> QED BY <2>2, <2>4, <3>1 DEF SpawnSource, Workers
  <2> QED BY <1>8, <2>1, <2>3, <2>4 DEF Start
<1>9. CASE Stop("main") /\ UNCHANGED pluginVars
  <2>1. CASE CloseDevice("main")
    <3>1. UNCHANGED <<running, pc, mutex, handle, joiner>>
      BY <2>1 DEF CloseDevice, updateVars, joinVars
    <3> QED BY <3>1, <1>ok, <1>9
            DEF IInv, PhaseInv, HandleInv, IdleInv, Idle, PendingInv, LockInv,
                MenuMatchesState, pluginVars, JoiningAt
  <2>2. CASE ClearRunning("main")
    <3>1. /\ Goto("main", "close", "disconnect") /\ running' = FALSE
          /\ UNCHANGED <<mutex, handle, joiner>>
      BY <2>2 DEF ClearRunning, updateVars, joinVars
    <3>2. /\ pc["main"] = "close" /\ pc'["main"] = "disconnect"
          /\ \A w \in Workers : pc'[w] = pc[w]
      BY <3>1, <1>ok, MainGoto
    <3>3. PhaseInv' /\ IdleInv' /\ MenuMatchesState'
      BY <3>1, <3>2, <1>9
         DEF IInv, PhaseInv, IdleInv, Idle, MenuMatchesState, MainPCs, StartPCs,
             pluginVars, Workers
    <3>4. PendingInv'
      BY <3>1, <3>2, <1>9 DEF IInv, PendingInv, StartPCs, pluginVars
    <3>5. HandleInv' /\ LockInv'
      BY <3>1, <3>2 DEF IInv, HandleInv, LockInv, JoiningAt, Workers
    <3> QED BY <3>3, <3>4, <3>5, <1>ok DEF IInv
  <2>3. CASE Disconnect("main")
    <3>1. /\ Goto("main", "disconnect", "joinDevice")
          /\ UNCHANGED <<running, mutex, handle, joiner>>
      BY <2>3 DEF Disconnect, updateVars, joinVars
    <3>2. PhaseInv' /\ IdleInv' /\ PendingInv' /\ MenuMatchesState'
      BY <3>1, <1>ok, <1>9, MainGoto
         DEF IInv, PhaseInv, IdleInv, Idle, PendingInv, MenuMatchesState,
             MainPCs, StartPCs, pluginVars, Workers
    <3> QED BY <3>1, <3>2, <1>ok, MainGoto, QuietStep
  <2> QED BY <1>9, <2>1, <2>2, <2>3 DEF Stop
<1>10. CASE Wait("main") /\ UNCHANGED pluginVars
  <2>0. PICK w \in Workers : \/ JoinSkip("main", w) \/ JoinThrows("main", w)
                             \/ JoinBegins("main", w) \/ JoinEnds("main", w)
    BY <1>10 DEF Wait
  <2>1. CASE JoinSkip("main", w)
    <3>1. /\ Goto("main", JoinAt(w), JoinNext(w)) /\ handle[w] # "joinable"
          /\ UNCHANGED <<running, mutex, handle, joiner>>
      BY <2>1 DEF JoinSkip, updateVars, joinVars
    <3>2. /\ pc["main"] = JoinAt(w) /\ pc'["main"] = JoinNext(w)
          /\ \A v \in Workers : pc'[v] = pc[v]
      BY <3>1, <1>ok, MainGoto
    <3>3. PhaseInv' /\ IdleInv' /\ PendingInv' /\ MenuMatchesState'
      BY <3>1, <3>2, <1>10
         DEF IInv, PhaseInv, IdleInv, Idle, PendingInv, MenuMatchesState,
             MainPCs, StartPCs, pluginVars, Workers, JoinAt, JoinNext
    <3>4. /\ pc["main"] \notin {"joiningDevice", "joiningSource"}
          /\ JoinNext(w) \notin {"joiningDevice", "joiningSource"}
      BY <3>2 DEF JoinAt, JoinNext
    <3> QED BY <3>1, <3>2, <3>3, <3>4, <1>ok, QuietStep
  <2>2. CASE JoinThrows("main", w)
    <3>1. handle[w] = "joinable" /\ JoinFails("main", w) /\ pc["main"] = JoinAt(w)
      BY <2>2 DEF JoinThrows, ThreadOf, Threads, Goto
    <3>2. joiner[w] # None
      BY <3>1 DEF JoinFails, Workers
    <3> QED BY <3>1, <3>2 DEF IInv, HandleInv, JoinAt, JoiningAt
  <2>3. CASE JoinBegins("main", w)
    <3>1. /\ Goto("main", JoinAt(w), JoiningAt(w)) /\ handle[w] = "joinable"
          /\ joiner' = [joiner EXCEPT ![w] = "main"]
          /\ UNCHANGED <<running, mutex, handle>>
      BY <2>3 DEF JoinBegins, updateVars, ThreadOf, Threads
    <3>2. /\ pc["main"] = JoinAt(w) /\ pc'["main"] = JoiningAt(w)
          /\ \A v \in Workers : pc'[v] = pc[v]
      BY <3>1, <1>ok, MainGoto
    <3>3. PhaseInv' /\ PendingInv' /\ MenuMatchesState'
      BY <3>1, <3>2, <1>10
         DEF IInv, PhaseInv, PendingInv, MenuMatchesState, MainPCs, StartPCs,
             pluginVars, Workers, JoinAt, JoiningAt
    <3>4. IdleInv'
      BY <3>1, <3>2, <1>10
         DEF IInv, PhaseInv, IdleInv, Idle, pluginVars, Workers, JoinAt, JoiningAt
    <3>5. HandleInv' /\ LockInv'
      BY <3>1, <3>2, <1>types
         DEF IInv, HandleInv, LockInv, JoinAt, JoiningAt, Workers
    <3> QED BY <3>3, <3>4, <3>5, <1>ok DEF IInv
  <2>4. CASE JoinEnds("main", w)
    <3>1. /\ Goto("main", JoiningAt(w), JoinNext(w)) /\ pc[w] = "ended"
          /\ handle' = [handle EXCEPT ![w] = "joined"]
          /\ UNCHANGED <<running, mutex, joiner>>
      BY <2>4 DEF JoinEnds, updateVars
    <3>2. /\ pc["main"] = JoiningAt(w) /\ pc'["main"] = JoinNext(w)
          /\ \A v \in Workers : pc'[v] = pc[v]
      BY <3>1, <1>ok, MainGoto
    <3>3. PhaseInv' /\ PendingInv' /\ MenuMatchesState'
      BY <3>1, <3>2, <1>10
         DEF IInv, PhaseInv, PendingInv, MenuMatchesState, MainPCs, StartPCs,
             pluginVars, Workers, JoinNext, JoiningAt
    <3>4. IdleInv'
      BY <3>1, <3>2, <1>10, <1>types
         DEF IInv, PhaseInv, IdleInv, Idle, pluginVars, Workers, JoinNext, JoiningAt
    <3>5. HandleInv' /\ LockInv'
      BY <3>1, <3>2, <1>types
         DEF IInv, HandleInv, LockInv, JoinNext, JoiningAt, Workers
    <3> QED BY <3>3, <3>4, <3>5, <1>ok DEF IInv
  <2> QED BY <2>0, <2>1, <2>2, <2>3, <2>4
<1>11. CASE InitCallback
  <2>1. /\ Goto("main", "idle", "scan") /\ UNCHANGED restVars
        /\ call' = "init" /\ initPending /\ initPending' = FALSE
        /\ UNCHANGED <<menu, loaded>> /\ loaded
    BY <1>11 DEF InitCallback, Enter, Goto
  <2>2. UNCHANGED <<running, handle>>
    BY <2>1 DEF restVars, joinVars
  <2>3. PhaseInv' /\ IdleInv' /\ PendingInv' /\ MenuMatchesState'
    BY <2>1, <2>2, <1>ok, MainGoto
       DEF IInv, PhaseInv, IdleInv, Idle, PendingInv, MenuMatchesState, MainPCs,
           StartPCs, Workers
  <2> QED BY <2>1, <2>3, <1>quiet
<1>12. CASE MenuDetect
  <2>1. /\ Goto("main", "idle", "scan") /\ UNCHANGED restVars
        /\ call' = "detect" /\ UNCHANGED <<menu, initPending, loaded>> /\ loaded
    BY <1>12 DEF MenuDetect, Enter, Goto
  <2>2. UNCHANGED <<running, handle>>
    BY <2>1 DEF restVars, joinVars
  <2>3. PhaseInv' /\ IdleInv' /\ PendingInv' /\ MenuMatchesState'
    BY <2>1, <2>2, <1>ok, MainGoto
       DEF IInv, PhaseInv, IdleInv, Idle, PendingInv, MenuMatchesState, MainPCs,
           StartPCs, Workers
  <2> QED BY <2>1, <2>3, <1>quiet
<1>13. CASE MenuStop \/ XPluginStop
  <2>1. PICK name \in {"stop", "unload"} : StopCall(name)
    BY <1>13 DEF MenuStop, XPluginStop
  <2>2. /\ Goto("main", "idle", "close") /\ call' = name
        /\ UNCHANGED <<running, mutex, handle, joiner>>
        /\ UNCHANGED <<menu, initPending, loaded>> /\ loaded
    BY <2>1 DEF StopCall, CallStop, Goto, updateVars, joinVars
  <2>3. PhaseInv' /\ IdleInv' /\ PendingInv' /\ MenuMatchesState'
    BY <2>2, <1>ok, MainGoto
       DEF IInv, PhaseInv, IdleInv, Idle, PendingInv, MenuMatchesState, MainPCs,
           StartPCs, Workers
  <2> QED BY <2>2, <2>3, <1>ok, MainGoto, QuietStep
<1>14. CASE Workers_Step
  <2>1. ASSUME NEW w \in Workers, NEW from, NEW to, Goto(w, from, to),
               UNCHANGED <<running, handle, joiner>>,
               from \in WorkerPCs \ {"unborn", "ended"},
               to \in WorkerPCs \ {"unborn"},
               w = "device" =>
                 mutex' = IF to \in {"update", "updating"} THEN "device" ELSE None,
               w = "source" => mutex' = mutex
        PROVE  IInv'
    <3>1. /\ pc[w] = from /\ pc'[w] = to
          /\ \A c \in Threads : c # w => pc'[c] = pc[c]
      BY <2>1, <1>types DEF Goto, Contexts, Threads
    <3>2. pc'["main"] = pc["main"] /\ UNCHANGED pluginVars
      BY <3>1, <1>14 DEF Threads, Workers, Workers_Step
    <3>3. PhaseInv'
      BY <2>1, <3>1, <3>2 DEF IInv, PhaseInv, pluginVars, Workers, Threads
    <3>4. HandleInv'
      BY <2>1, <3>1, <3>2 DEF IInv, HandleInv, JoiningAt, Threads
    <3>5. IdleInv' /\ PendingInv' /\ MenuMatchesState'
      BY <2>1, <3>2
         DEF IInv, IdleInv, Idle, PendingInv, MenuMatchesState, pluginVars
    <3>6. LockInv'
      BY <2>1, <3>1 DEF IInv, LockInv, Workers, Threads
    <3> QED BY <3>3, <3>4, <3>5, <3>6, <1>ok DEF IInv
  <2>2. UNCHANGED <<running, handle, joiner>>
    BY <1>14 DEF Workers_Step, DeviceThread, LoopTest, LockDevices, BeginUpdate,
                 EndUpdate, UnlockDevices, SourceDisconnected, joinVars
  <2>3. "device" \in Workers /\ "source" \in Workers
    BY DEF Workers
  <2>4. ASSUME Goto("device", "loop", "lock") \/ Goto("device", "loop", "ended"),
               mutex' = mutex
        PROVE  IInv'
    <3>1. mutex = None
      BY <2>4 DEF IInv, LockInv, Goto
    <3> QED BY <2>1, <2>2, <2>3, <2>4, <3>1 DEF WorkerPCs
  <2>5. CASE LoopTest
    <3>1. CASE running
      BY <2>4, <2>5, <3>1 DEF LoopTest, updateVars
    <3>2. CASE ~running
      BY <2>4, <2>5, <3>2 DEF LoopTest, updateVars
    <3> QED BY <3>1, <3>2
  <2>6. CASE LockDevices
    BY <2>1, <2>2, <2>3, <2>6 DEF LockDevices, WorkerPCs
  <2>7. CASE BeginUpdate
    <3>1. mutex = "device" /\ mutex' = mutex
      BY <2>7 DEF BeginUpdate, IInv, LockInv, Goto
    <3> QED BY <2>1, <2>2, <2>3, <2>7, <3>1 DEF BeginUpdate, WorkerPCs
  <2>8. CASE EndUpdate
    <3>1. mutex = "device" /\ mutex' = mutex
      BY <2>8 DEF EndUpdate, IInv, LockInv, Goto
    <3> QED BY <2>1, <2>2, <2>3, <2>8, <3>1 DEF EndUpdate, WorkerPCs
  <2>9. CASE UnlockDevices
    BY <2>1, <2>2, <2>3, <2>9 DEF UnlockDevices, WorkerPCs
  <2>10. CASE SourceDisconnected
    BY <2>1, <2>2, <2>3, <2>10 DEF SourceDisconnected, WorkerPCs, updateVars
  <2> QED BY <1>14, <2>5, <2>6, <2>7, <2>8, <2>9, <2>10
          DEF Workers_Step, DeviceThread
<1>15. CASE Plug
  <2>1. UNCHANGED <<running, pc, mutex, handle, joiner, call, menu, initPending, loaded>>
    BY <1>15 DEF Plug, vars, updateVars, joinVars
  <2> QED BY <2>1, <1>ok
          DEF IInv, PhaseInv, HandleInv, IdleInv, Idle, PendingInv, LockInv,
              MenuMatchesState, JoiningAt
<1>16. CASE UNCHANGED allVars
  <2>1. UNCHANGED <<running, pc, mutex, handle, joiner, call, menu, initPending, loaded>>
    BY <1>16 DEF allVars, pluginVars, vars, updateVars, joinVars
  <2> QED BY <2>1, <1>ok
          DEF IInv, PhaseInv, HandleInv, IdleInv, Idle, PendingInv, LockInv,
              MenuMatchesState, JoiningAt
<1> QED
  BY <1>1, <1>2, <1>3, <1>4, <1>5, <1>6, <1>7, <1>8, <1>9, <1>10, <1>11,
     <1>12, <1>13, <1>14, <1>15, <1>16 DEF Next, EntryPoint

(* The inductive invariant holds in every reachable state of the plugin.    *)
THEOREM Invariance == Spec => []IInv
<1>1. ASSUME Init PROVE IInv
  <2>1. /\ \A c \in Contexts : pc[c] = IF c = "main" THEN "initDevices" ELSE "unborn"
        /\ \A w \in Workers : handle[w] = "none" /\ joiner[w] = None
    BY <1>1 DEF Init, ConnectorInit
  <2>2. pc["main"] = "initDevices" /\ \A w \in Workers : pc[w] = "unborn"
    BY <2>1 DEF Contexts, Threads, Workers
  <2>3. TypeOK
    <3>1. pc \in [Contexts -> PCs]
      BY <1>1 DEF Init, PCs
    <3> QED BY <1>1, <3>1, ContextAssumption, NoHandlerAssumption
            DEF Init, ConnectorInit, TypeOK, ConnectorTypeOK, Contexts, Threads,
                Workers
  <2>4. PhaseInv
    BY <1>1, <2>2
       DEF Init, PhaseInv, MainPCs, StartPCs, WorkerPCs, Workers
  <2>5. HandleInv /\ IdleInv
    BY <1>1, <2>1, <2>2
       DEF Init, HandleInv, IdleInv, Idle, JoiningAt, Workers
  <2>6. PendingInv /\ LockInv /\ MenuMatchesState
    BY <1>1, <2>2
       DEF Init, ConnectorInit, PendingInv, LockInv, MenuMatchesState, StartPCs,
           Workers
  <2> QED BY <2>3, <2>4, <2>5, <2>6 DEF IInv
<1> QED BY <1>1, InvStep, PTL DEF Spec

(* The FlightConnector is deleted with both of its threads gone.            *)
THEOREM ThreadsGone == Spec => []NoThreadAfterDelete
<1>1. ASSUME IInv PROVE NoThreadAfterDelete
  BY <1>1 DEF IInv, HandleInv, IdleInv, Idle, NoThreadAfterDelete, TypeOK,
              ConnectorTypeOK
<1> QED BY <1>1, Invariance, PTL

(* No start() assigns to a joinable std::thread.                            *)
THEOREM NoThreadReplaced == Spec => []StartReplacesNoThread
<1>1. ASSUME IInv PROVE StartReplacesNoThread
  BY <1>1 DEF IInv, IdleInv, Idle, StartReplacesNoThread, Workers
<1> QED BY <1>1, Invariance, PTL

(* The menu offers what the connector's state allows.                       *)
THEOREM MenuCorrect == Spec => []MenuMatchesState
<1>1. IInv => MenuMatchesState
  BY DEF IInv
<1> QED BY <1>1, Invariance, PTL

(* No detection pushes on m_devices while the device thread walks it.       *)
THEOREM DevicesStable == Spec => DevicesStableDuringPass
<1>1. ASSUME IInv, [Next]_allVars,
             pc["device"] \in {"update", "updating"}
      PROVE  devices' = devices
  <2>1. mutex = "device" /\ pc["main"] # "initDevices"
    BY <1>1 DEF IInv, LockInv, PhaseInv
  <2>2. \A d : ~InitDevice("main", d) /\ ~AddDevice("main", d)
    BY <2>1, ContextAssumption DEF InitDevice, AddDevice, Contexts, Threads, Workers
  <2>3. ~Scan
    BY <2>2 DEF Scan
  <2>4. CASE InitDevices
    BY <2>2, <2>4 DEF InitDevices, RegistryDone, deviceVars
  <2>5. CASE EntryPoint /\ ~InitDevices
    BY <2>3, <2>5 DEF EntryPoint, ScanDone, InitScanned, InitReturns,
       MenuStopReturns, XPluginStopReturns, Start, SetRunning, SpawnDevice,
       SpawnSource, Spawn, Stop, CloseDevice, ClearRunning, Disconnect, Wait,
       JoinSkip, JoinThrows, JoinBegins, JoinEnds, deviceVars, restVars
  <2>6. CASE InitCallback \/ MenuDetect \/ MenuStop \/ XPluginStop
    BY <2>6 DEF InitCallback, MenuDetect, MenuStop, XPluginStop, StopCall,
                deviceVars, restVars
  <2>7. CASE Workers_Step
    BY <2>7 DEF Workers_Step, DeviceThread, LoopTest, LockDevices, BeginUpdate,
                EndUpdate, UnlockDevices, SourceDisconnected, deviceVars
  <2>8. CASE Plug \/ UNCHANGED allVars
    BY <2>8 DEF Plug, allVars, vars, deviceVars
  <2> QED BY <1>1, <2>4, <2>5, <2>6, <2>7, <2>8 DEF Next
<1>2. ASSUME IInv, [Next]_allVars
      PROVE  [pc["device"] \in {"update", "updating"} => devices' = devices]_allVars
  BY <1>1, <1>2
<1> QED BY <1>2, Invariance, PTL DEF Spec, DevicesStableDuringPass
=============================================================================
