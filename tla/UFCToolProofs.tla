---------------------------- MODULE UFCToolProofs ----------------------------
(***************************************************************************)
(* What is proved of ufctool for any number of devices and signals and any  *)
(* choice of the threads that signals interrupt.                            *)
(***************************************************************************)
EXTENDS UFCTool, TLAPS

-----------------------------------------------------------------------------
(* The inductive invariant behind the exit properties.                      *)

HandlerPCs == {"idle", "close", "disconnect", "signalling", "joinDevice", "joiningDevice",
               "joinSource", "joiningSource", "waited", "returned"}
EarlyPCs   == {"initDevices", "scan", "open", "connect", "readVersion", "start",
               "spawnDevice"}
MainPCs    == EarlyPCs \cup {"spawnSource", "started"}
                       \cup (HandlerPCs \ {"idle", "close", "disconnect", "signalling"})
WorkerPCs  == {"unborn", "loop", "lock", "update", "updating", "publish",
               "registering", "opening", "streaming", "erasing", "ended"}

(* Each flow of control stays in the code it executes. *)
PhaseInv ==
  /\ pc["main"] \in MainPCs
  /\ \A w \in Workers : pc[w] \in WorkerPCs
  /\ \A s \in Signals : pc[s] \in HandlerPCs

(* A std::thread tells what its thread has done. *)
HandleInv ==
  /\ \A w \in Workers :
       /\ (handle[w] = "none") <=> (pc[w] = "unborn")
       /\ handle[w] = "joined" => pc[w] = "ended"
  /\ pc["main"] \in EarlyPCs => handle["device"] = "none"
  /\ pc["main"] \in EarlyPCs \cup {"spawnSource"} => handle["source"] = "none"

(* A live handler suspends its thread, which therefore cannot end. *)
FrameInv ==
  \A s \in Signals :
    Live(s) => host[s] \in under[s] /\ pc[host[s]] \notin {"unborn", "ended"}

(* The recorded waiter of a joinable thread is exactly the one flow inside  *)
(* pthread_join, and no two threads wait for each other.                    *)
JoinerInv ==
  /\ \A w \in Workers :
       /\ joiner[w] # w
       /\ handle[w] = "joinable" /\ joiner[w] # None =>
            \E c \in Contexts : pc[c] = JoiningAt(w) /\ ThreadOf(c) = joiner[w]
       /\ \A c \in Contexts : pc[c] = JoiningAt(w) =>
            handle[w] = "joinable" /\ joiner[w] = ThreadOf(c)
       /\ \A b, c \in Contexts :
            pc[b] = JoiningAt(w) /\ pc[c] = JoiningAt(w) => b = c
  /\ ~(joiner["device"] = "source" /\ joiner["source"] = "device")

(* The main thread passes the device thread's join only when that thread is *)
(* gone or the data source thread is the one waiting for it, and the second *)
(* join only when both are gone.                                            *)
MainInv ==
  /\ pc["main"] \in {"joinSource", "joiningSource"} =>
       (handle["device"] = "joinable" => joiner["device"] = "source")
  /\ pc["main"] \in {"waited", "returned"} =>
       \A w \in Workers : handle[w] # "joinable"

IInv ==
  /\ TypeOK /\ PhaseInv /\ HandleInv /\ FrameInv /\ JoinerInv /\ MainInv

-----------------------------------------------------------------------------
(* A step of any flow of control or of the environment keeps every variable *)
(* in its domain.                                                           *)
LEMMA TypeStep == TypeOK /\ [Next]_vars => TypeOK'
<1> SUFFICES ASSUME TypeOK, [Next]_vars PROVE TypeOK'
  OBVIOUS
<1> USE ContextAssumption, HostAssumption
    DEF TypeOK, ConnectorTypeOK, Threads, Workers, Contexts, PCs,
        deviceVars, updateVars, joinVars, frameVars, mainVars, Goto, WebSocket
<1>host. \A c \in Contexts : ThreadOf(c) \in Threads
  BY DEF ThreadOf
<1>start. ASSUME NEW c \in Contexts, Start(c) PROVE TypeOK'
  <2>1. CASE SetRunning(c)
    BY <2>1 DEF SetRunning
  <2>2. CASE SpawnDevice(c)
    BY <2>2 DEF SpawnDevice, Spawn
  <2>3. CASE SpawnSource(c)
    BY <2>3 DEF SpawnSource, Spawn
  <2> QED BY <1>start, <2>1, <2>2, <2>3 DEF Start
<1>wait. ASSUME NEW c \in Contexts, Wait(c) PROVE TypeOK'
  <2>0. PICK w \in Workers : \/ JoinSkip(c, w) \/ JoinThrows(c, w)
                             \/ JoinBegins(c, w) \/ JoinEnds(c, w)
    BY <1>wait DEF Wait
  <2>1. CASE JoinSkip(c, w)
    BY <2>1 DEF JoinSkip, JoinAt, JoinNext
  <2>2. CASE JoinThrows(c, w)
    BY <2>2 DEF JoinThrows, JoinAt, JoinNext
  <2>3. CASE JoinBegins(c, w)
    BY <2>3, <1>host DEF JoinBegins, JoinAt, JoiningAt
  <2>4. CASE JoinEnds(c, w)
    BY <2>4 DEF JoinEnds, JoiningAt, JoinNext
  <2> QED BY <2>0, <2>1, <2>2, <2>3, <2>4
<1>stop. ASSUME NEW c \in Contexts, Stop(c) PROVE TypeOK'
  <2>1. CASE CloseDevice(c)
    BY <2>1 DEF CloseDevice
  <2>2. CASE ClearRunning(c)
    BY <2>2 DEF ClearRunning
  <2>3. CASE Disconnect(c)
    BY <2>3 DEF Disconnect
  <2> QED BY <1>stop, <2>1, <2>2, <2>3 DEF Stop
<1>plain. ASSUME NEW c \in Contexts, NEW from, NEW to \in PCs, Goto(c, from, to),
                 UNCHANGED mainVars,
                 source' \in {"none", "created", "connected", "disconnected"}
                                \cup WebSocket
          PROVE TypeOK'
  BY <1>plain
<1>stream. ASSUME NEW from, NEW to \in PCs, StreamStep(from, to) PROVE TypeOK'
  BY <1>stream, <1>plain DEF StreamStep
<1>1. CASE Main
  <2>1. CASE InitDevices
    <3>1. CASE \E d \in Devices \ devices : InitDevice("main", d) \/ AddDevice("main", d)
      BY <3>1 DEF InitDevice, AddDevice, NewDevice
    <3>2. CASE RegistryDone("main")
      BY <3>2 DEF RegistryDone
    <3>3. CASE Goto("main", "scan", "open") /\ UNCHANGED <<mainVars, source>>
      BY <3>3, <1>plain
    <3> QED BY <2>1, <3>1, <3>2, <3>3 DEF InitDevices
  <2>2. CASE OpenDataSource
    <3>1. CASE Goto("main", "open", "connect") /\ source' \in {"created", "webSocket"} /\ UNCHANGED mainVars
      BY <3>1, <1>plain
    <3>2. CASE Goto("main", "open", "returned") /\ UNCHANGED <<mainVars, source>>
      BY <3>2, <1>plain
    <3> QED BY <2>2, <3>1, <3>2 DEF OpenDataSource
  <2>3. CASE Connect
    BY <2>3, <1>plain DEF Connect
  <2>5. CASE CallWait
    BY <2>5, <1>plain DEF CallWait
  <2>6. CASE Return
    BY <2>6, <1>plain DEF Return
  <2> QED BY <1>1, <2>1, <2>2, <2>3, <2>5, <2>6, <1>start, <1>wait DEF Main
<1>2. CASE ReadVersion
  <2>1. CASE Goto("main", "readVersion", "start") /\ UNCHANGED <<mainVars, source>>
    BY <2>1, <1>plain
  <2>2. CASE Goto("main", "readVersion", "returned") /\ UNCHANGED <<mainVars, source>>
    BY <2>2, <1>plain
  <2> QED BY <1>2, <2>1, <2>2 DEF ReadVersion
<1>3. CASE DeviceThread
  <2>1. CASE LoopTest
    BY <2>1 DEF LoopTest
  <2>2. CASE LockDevices
    BY <2>2 DEF LockDevices
  <2>3. CASE BeginUpdate
    BY <2>3 DEF BeginUpdate
  <2>4. CASE EndUpdate \/ UnlockDevices
    BY <2>4 DEF EndUpdate, UnlockDevices
  <2> QED BY <1>3, <2>1, <2>2, <2>3, <2>4 DEF DeviceThread
<1>4. CASE SourceThread
  BY <1>4 DEF SourceThread, SourceDisconnected, SourceLost
<1>5. ASSUME NEW s \in Signals, Handler(s) PROVE TypeOK'
  <2>1. CASE HandlerReturns(s)
    BY <2>1 DEF HandlerReturns
  <2>2. CASE LockSockets(s)
    BY <2>2, <1>plain DEF LockSockets
  <2>3. CASE SignalSockets(s)
    BY <2>3, <1>plain DEF SignalSockets
  <2> QED BY <1>5, <2>1, <2>2, <2>3, <1>stop, <1>wait DEF Handler
<1>6. ASSUME NEW s \in Signals, NEW t \in SignalHosts, Signal(s, t)
      PROVE TypeOK'
  BY <1>6 DEF Signal, CallStop
<1>8. CASE Stream \/ StreamLost
  BY <1>8, <1>stream DEF Stream, StreamLost
<1>7. CASE UNCHANGED vars
  BY <1>7 DEF vars
<1> QED BY <1>1, <1>2, <1>3, <1>4, <1>5, <1>6, <1>7, <1>8 DEF Next

(* Every reachable state of ufctool is well typed. *)
THEOREM TypeCorrect == Spec => []TypeOK
<1>1. ASSUME Init PROVE TypeOK
  <2>1. pc \in [Contexts -> PCs]
    BY <1>1 DEF Init, PCs
  <2> QED BY <1>1, <2>1, ContextAssumption
          DEF Init, ConnectorInit, TypeOK, ConnectorTypeOK, Contexts, Threads,
              Workers
<1> QED BY <1>1, TypeStep, PTL DEF Spec

-----------------------------------------------------------------------------
(* Most steps only move one flow of control between two places outside      *)
(* pthread_join.                                                            *)
Joining == {"joiningDevice", "joiningSource"}

LEMMA PlainStep ==
  ASSUME IInv, TypeOK', NEW c \in Contexts, NEW b,
         Active(c),
         pc' = [pc EXCEPT ![c] = b],
         UNCHANGED <<joinVars, frameVars>>,
         pc[c] \notin Joining, b \notin Joining,
         c \in Signals => Live(c) /\ b \in HandlerPCs \ {"idle"},
         c \in Workers => /\ pc[c] \notin {"unborn", "ended"}
                          /\ b \in WorkerPCs \ {"unborn"},
         c = "main" =>
           /\ b \in MainPCs
           /\ b \in EarlyPCs => pc["main"] \in EarlyPCs
           /\ b # "spawnSource"
           /\ b = "joinSource" =>
                (handle["device"] = "joinable" => joiner["device"] = "source")
           /\ b \in {"waited", "returned"} =>
                \A w \in Workers : handle[w] # "joinable"
  PROVE  IInv'
<1> USE ContextAssumption
    DEF Contexts, Threads, Workers, joinVars, frameVars, Joining
<1>0. pc \in [Contexts -> PCs] /\ c \in Contexts
  BY DEF IInv, TypeOK, ConnectorTypeOK
<1>1. \A x \in Contexts : x # c => pc'[x] = pc[x]
  BY <1>0
<1>2. pc'[c] = b
  BY <1>0
<1>3. \A x \in Contexts : ThreadOf(x)' = ThreadOf(x)
  BY DEF ThreadOf
<1>4. PhaseInv'
  BY <1>1, <1>2 DEF IInv, PhaseInv
<1>5. HandleInv'
  BY <1>1, <1>2, <1>4 DEF IInv, HandleInv, PhaseInv, EarlyPCs, MainPCs
<1>6. FrameInv'
  <2> SUFFICES ASSUME NEW s \in Signals, Live(s)'
               PROVE  host[s] \in under[s] /\ pc'[host[s]] \notin {"unborn", "ended"}
    BY DEF FrameInv
  <2>1. Live(s)
    BY <1>1 DEF Live
  <2>2. host[s] \in under[s] /\ pc[host[s]] \notin {"unborn", "ended"}
    BY <2>1 DEF IInv, FrameInv
  <2>3. c # host[s]
    BY <2>1, <2>2 DEF Active
  <2>4. host[s] \in Contexts
    BY DEF IInv, TypeOK, ConnectorTypeOK
  <2> QED BY <2>2, <2>3, <2>4, <1>1
<1>7. JoinerInv'
  <2>1. ASSUME NEW w \in Workers, NEW x \in Contexts
        PROVE  (pc'[x] = JoiningAt(w)) <=> (pc[x] = JoiningAt(w))
    <3>1. CASE x = c
      BY <3>1, <1>2 DEF JoiningAt
    <3>2. CASE x # c
      BY <3>2, <1>1
    <3> QED BY <3>1, <3>2
  <2> QED BY <2>1, <1>3 DEF IInv, JoinerInv, JoiningAt
<1>8. MainInv'
  BY <1>1, <1>2 DEF IInv, MainInv
<1> QED BY <1>4, <1>5, <1>6, <1>7, <1>8 DEF IInv

(* The flow inside pthread_join on behalf of another thread is a handler,   *)
(* live on that thread.                                                     *)
LEMMA JoinerIsHandler ==
  ASSUME IInv, NEW v \in Workers, NEW t \in Threads,
         handle[v] = "joinable", joiner[v] = t, pc[t] # JoiningAt(v)
  PROVE  \E s \in Signals : Live(s) /\ host[s] = t
<1>1. PICK x \in Contexts : pc[x] = JoiningAt(v) /\ ThreadOf(x) = t
  BY ContextAssumption DEF IInv, JoinerInv, Contexts, Threads
<1>2. x \in Signals /\ host[x] = t
  BY <1>1, ContextAssumption DEF ThreadOf, Contexts
<1>3. Live(x)
  BY <1>1 DEF Live, JoiningAt
<1> QED BY <1>2, <1>3

(* When the main thread has passed the first join and the data source       *)
(* thread is gone, so is the device thread: the handler that was waiting    *)
(* for it ran on the data source thread.                                    *)
LEMMA DeviceGone ==
  ASSUME IInv, pc["main"] \in {"joinSource", "joiningSource"},
         pc["source"] \in {"unborn", "ended"}
  PROVE  handle["device"] # "joinable"
<1> SUFFICES ASSUME handle["device"] = "joinable" PROVE FALSE
  OBVIOUS
<1>1. joiner["device"] = "source"
  BY DEF IInv, MainInv
<1>2. PICK s \in Signals : Live(s) /\ host[s] = "source"
  BY <1>1, JoinerIsHandler DEF Workers, Threads, JoiningAt
<1> QED BY <1>2 DEF IInv, FrameInv

(* start() gives a thread that did not exist a handle nobody waits on. *)
LEMMA SpawnStep ==
  ASSUME IInv, TypeOK', SpawnDevice("main") \/ SpawnSource("main")
  PROVE  IInv'
<1> USE ContextAssumption
    DEF Contexts, Threads, Workers, joinVars, frameVars, IInv
<1> DEFINE w == IF pc["main"] = "spawnDevice" THEN "device" ELSE "source"
<1>0. /\ pc \in [Contexts -> PCs]
      /\ handle \in [Workers -> {"none", "joinable", "joined"}]
      /\ joiner \in [Workers -> Threads \cup {None}]
  BY DEF TypeOK, ConnectorTypeOK
<1>1. /\ Active("main")
      /\ UNCHANGED frameVars
      /\ handle' = [handle EXCEPT ![w] = "joinable"]
      /\ joiner' = [joiner EXCEPT ![w] = None]
  BY DEF SpawnDevice, SpawnSource, Spawn
<1>2. \/ /\ w = "device" /\ pc["main"] = "spawnDevice"
         /\ pc' = [pc EXCEPT !["main"] = "spawnSource", !["device"] = "loop"]
      \/ /\ w = "source" /\ pc["main"] = "spawnSource"
         /\ pc' = [pc EXCEPT !["main"] = "started", !["source"] = "publish"]
  BY DEF SpawnDevice, SpawnSource, Spawn
<1>3. handle[w] = "none" /\ pc[w] = "unborn"
  BY <1>2 DEF HandleInv, EarlyPCs
<1>4. \A x \in Contexts : x \notin {"main", w} => pc'[x] = pc[x]
  BY <1>0, <1>2
<1>5. \A x \in Contexts : ThreadOf(x)' = ThreadOf(x)
  BY <1>1 DEF ThreadOf
<1>6. PhaseInv'
  BY <1>0, <1>2, <1>4 DEF PhaseInv, MainPCs, WorkerPCs
<1>7. HandleInv'
  BY <1>0, <1>1, <1>2, <1>3, <1>4 DEF HandleInv, EarlyPCs
<1>8. FrameInv'
  <2> SUFFICES ASSUME NEW s \in Signals, Live(s)'
               PROVE  host[s] \in under[s] /\ pc'[host[s]] \notin {"unborn", "ended"}
    BY <1>1 DEF FrameInv
  <2>1. Live(s)
    BY <1>4 DEF Live
  <2> QED BY <2>1, <1>0, <1>2 DEF FrameInv, TypeOK, ConnectorTypeOK
<1>9. JoinerInv'
  <2>1. ASSUME NEW v \in Workers, NEW x \in Contexts
        PROVE  (pc'[x] = JoiningAt(v)) <=> (pc[x] = JoiningAt(v))
    BY <1>0, <1>2, <1>3, <1>4 DEF JoiningAt
  <2>2. \A x \in Contexts : pc[x] # JoiningAt(w)
    BY <1>3 DEF JoinerInv
  <2>3. ASSUME NEW v \in Workers
        PROVE  v # w => handle'[v] = handle[v] /\ joiner'[v] = joiner[v]
    BY <1>0, <1>1
  <2>4. handle'[w] = "joinable" /\ joiner'[w] = None
    BY <1>0, <1>1
  <2>5. None \notin {"device", "source"}
    OBVIOUS
  <2> QED BY <1>5, <2>1, <2>2, <2>3, <2>4, <2>5 DEF JoinerInv
<1>10. MainInv'
  BY <1>0, <1>2 DEF MainInv
<1> QED BY <1>6, <1>7, <1>8, <1>9, <1>10

(* A join that pthread_join accepts: nobody was waiting for the thread, and *)
(* it does not wait for the one that now waits for it.                      *)
LEMMA JoinBeginsStep ==
  ASSUME IInv, TypeOK', NEW c \in {"main"} \cup Signals, NEW w \in Workers,
         JoinBegins(c, w)
  PROVE  IInv'
<1> USE ContextAssumption
    DEF Contexts, Threads, Workers, joinVars, frameVars, IInv
<1>0. /\ pc \in [Contexts -> PCs] /\ c \in Contexts
      /\ handle \in [Workers -> {"none", "joinable", "joined"}]
      /\ joiner \in [Workers -> Threads \cup {None}]
  BY DEF TypeOK, ConnectorTypeOK
<1>1. /\ Active(c)
      /\ pc[c] = JoinAt(w)
      /\ pc' = [pc EXCEPT ![c] = JoiningAt(w)]
      /\ joiner' = [joiner EXCEPT ![w] = ThreadOf(c)]
      /\ handle[w] = "joinable"
      /\ ~JoinFails(ThreadOf(c), w)
      /\ UNCHANGED <<handle, under, host>>
  BY DEF JoinBegins, Goto
<1>2. \A x \in Contexts : x # c => pc'[x] = pc[x]
  BY <1>0, <1>1
<1>3. pc'[c] = JoiningAt(w) /\ joiner'[w] = ThreadOf(c)
  BY <1>0, <1>1
<1>4. \A x \in Contexts : ThreadOf(x)' = ThreadOf(x)
  BY <1>1 DEF ThreadOf
<1>5. PhaseInv'
  BY <1>1, <1>2, <1>3 DEF PhaseInv, MainPCs, HandlerPCs, JoiningAt
<1>6. HandleInv'
  BY <1>1, <1>2, <1>3 DEF HandleInv, EarlyPCs, JoiningAt
<1>7. FrameInv'
  <2> SUFFICES ASSUME NEW s \in Signals, Live(s)'
               PROVE  host[s] \in under[s] /\ pc'[host[s]] \notin {"unborn", "ended"}
    BY <1>1 DEF FrameInv
  <2>1. Live(s)
    BY <1>1, <1>2 DEF Live, JoinAt
  <2>2. host[s] \in Contexts
    BY DEF TypeOK, ConnectorTypeOK
  <2> QED BY <2>1, <2>2, <1>2, <1>3 DEF FrameInv, JoiningAt
<1>8. JoinerInv'
  <2>1. \A x \in Contexts : pc[x] # JoiningAt(w)
    <3>1. \A x \in Contexts : ThreadOf(x) \in Threads
      BY DEF TypeOK, ConnectorTypeOK, ThreadOf
    <3>2. joiner[w] = None
      BY <1>1 DEF JoinFails
    <3> QED BY <3>1, <3>2 DEF JoinerInv
  <2>2. ASSUME NEW v \in Workers, v # w, NEW x \in Contexts
        PROVE  /\ (pc'[x] = JoiningAt(v)) <=> (pc[x] = JoiningAt(v))
               /\ joiner'[v] = joiner[v]
    BY <1>0, <1>1, <1>2, <2>2 DEF JoinAt, JoiningAt
  <2>3. \A x \in Contexts : pc'[x] = JoiningAt(w) => x = c
    BY <1>2, <2>1
  <2>4. ThreadOf(c) # w
    BY <1>1 DEF JoinFails
  <2>5. ~(joiner'["device"] = "source" /\ joiner'["source"] = "device")
    BY <1>0, <1>1, <2>4 DEF JoinFails, JoinerInv
  <2>6. ASSUME NEW v \in Workers
        PROVE  /\ joiner'[v] # v
               /\ handle'[v] = "joinable" /\ joiner'[v] # None =>
                    \E x \in Contexts : pc'[x] = JoiningAt(v) /\ ThreadOf(x)' = joiner'[v]
               /\ \A x \in Contexts : pc'[x] = JoiningAt(v) =>
                    handle'[v] = "joinable" /\ joiner'[v] = ThreadOf(x)'
               /\ \A b, x \in Contexts :
                    pc'[b] = JoiningAt(v) /\ pc'[x] = JoiningAt(v) => b = x
    <3>1. CASE v = w
      BY <3>1, <1>0, <1>1, <1>3, <1>4, <2>3, <2>4
    <3>2. CASE v # w
      BY <3>2, <2>2, <1>1, <1>4 DEF JoinerInv
    <3> QED BY <3>1, <3>2
  <2> QED BY <2>5, <2>6 DEF JoinerInv, JoiningAt
<1>9. MainInv'
  <2>1. CASE c = "main"
    BY <2>1, <1>0, <1>1, <1>3 DEF MainInv, JoinAt, JoiningAt
  <2>2. CASE c # "main"
    <3>1. pc'["main"] = pc["main"]
      BY <2>2, <1>2
    <3>2. joiner["device"] = "source" /\ handle["device"] = "joinable"
            => w # "device"
      BY <1>1, ContextAssumption DEF JoinFails
    <3> QED BY <3>1, <3>2, <1>0, <1>1 DEF MainInv
  <2> QED BY <2>1, <2>2
<1> QED BY <1>5, <1>6, <1>7, <1>8, <1>9

(* The thread that is waited for is gone: its handle becomes joined. *)
LEMMA JoinEndsStep ==
  ASSUME IInv, TypeOK', NEW c \in {"main"} \cup Signals, NEW w \in Workers,
         JoinEnds(c, w)
  PROVE  IInv'
<1> USE ContextAssumption
    DEF Contexts, Threads, Workers, joinVars, frameVars, IInv
<1>0. /\ pc \in [Contexts -> PCs] /\ c \in Contexts
      /\ handle \in [Workers -> {"none", "joinable", "joined"}]
      /\ joiner \in [Workers -> Threads \cup {None}]
  BY DEF TypeOK, ConnectorTypeOK
<1>1. /\ Active(c)
      /\ pc[w] = "ended"
      /\ pc[c] = JoiningAt(w)
      /\ pc' = [pc EXCEPT ![c] = JoinNext(w)]
      /\ handle' = [handle EXCEPT ![w] = "joined"]
      /\ UNCHANGED <<joiner, under, host>>
  BY DEF JoinEnds, Goto
<1>2. \A x \in Contexts : x # c => pc'[x] = pc[x]
  BY <1>0, <1>1
<1>3. pc'[c] = JoinNext(w)
  BY <1>0, <1>1
<1>4. \A x \in Contexts : ThreadOf(x)' = ThreadOf(x)
  BY <1>1 DEF ThreadOf
<1>5. PhaseInv'
  BY <1>1, <1>2, <1>3 DEF PhaseInv, MainPCs, HandlerPCs, JoinNext
<1>6. HandleInv'
  BY <1>0, <1>1, <1>2, <1>3 DEF HandleInv, EarlyPCs, JoinNext, JoiningAt
<1>7. FrameInv'
  <2> SUFFICES ASSUME NEW s \in Signals, Live(s)'
               PROVE  host[s] \in under[s] /\ pc'[host[s]] \notin {"unborn", "ended"}
    BY <1>1 DEF FrameInv
  <2>1. Live(s)
    BY <1>1, <1>2 DEF Live, JoiningAt
  <2>2. host[s] \in Contexts
    BY DEF TypeOK, ConnectorTypeOK
  <2> QED BY <2>1, <2>2, <1>2, <1>3 DEF FrameInv, JoinNext
<1>8. JoinerInv'
  <2>1. \A x \in Contexts : pc[x] = JoiningAt(w) => x = c
    BY <1>1, <1>0 DEF JoinerInv
  <2>2. \A x \in Contexts : pc'[x] # JoiningAt(w)
    BY <2>1, <1>2, <1>3 DEF JoinNext, JoiningAt
  <2>3. ASSUME NEW v \in Workers, v # w, NEW x \in Contexts
        PROVE  /\ (pc'[x] = JoiningAt(v)) <=> (pc[x] = JoiningAt(v))
               /\ handle'[v] = handle[v]
    BY <1>0, <1>1, <1>2, <1>3, <2>3 DEF JoinNext, JoiningAt
  <2>4. handle'[w] = "joined"
    BY <1>0, <1>1
  <2>5. ASSUME NEW v \in Workers
        PROVE  /\ joiner'[v] # v
               /\ handle'[v] = "joinable" /\ joiner'[v] # None =>
                    \E x \in Contexts : pc'[x] = JoiningAt(v) /\ ThreadOf(x)' = joiner'[v]
               /\ \A x \in Contexts : pc'[x] = JoiningAt(v) =>
                    handle'[v] = "joinable" /\ joiner'[v] = ThreadOf(x)'
               /\ \A b, x \in Contexts :
                    pc'[b] = JoiningAt(v) /\ pc'[x] = JoiningAt(v) => b = x
    <3>1. CASE v = w
      BY <3>1, <1>1, <2>2, <2>4 DEF JoinerInv
    <3>2. CASE v # w
      BY <3>2, <2>3, <1>1, <1>4 DEF JoinerInv
    <3> QED BY <3>1, <3>2
  <2> QED BY <2>5, <1>1 DEF JoinerInv, JoiningAt
<1>9. MainInv'
  <2>1. CASE c = "main"
    <3>1. CASE w = "device"
      BY <3>1, <2>1, <1>0, <1>1, <1>3 DEF MainInv, JoinNext
    <3>2. CASE w = "source"
      <4>2. handle["device"] # "joinable"
        BY <3>2, <2>1, <1>1, DeviceGone DEF JoiningAt
      <4> QED BY <4>2, <3>2, <2>1, <1>0, <1>1, <1>3 DEF MainInv, JoinNext
    <3> QED BY <3>1, <3>2
  <2>2. CASE c # "main"
    BY <2>2, <1>0, <1>1, <1>2 DEF MainInv
  <2> QED BY <2>1, <2>2
<1> QED BY <1>5, <1>6, <1>7, <1>8, <1>9

(* A join that is skipped, or throws and is ignored. *)
LEMMA JoinPassedStep ==
  ASSUME IInv, TypeOK', NEW c \in {"main"} \cup Signals, NEW w \in Workers,
         JoinSkip(c, w) \/ JoinThrows(c, w)
  PROVE  IInv'
<1> USE ContextAssumption DEF Contexts, Threads, Workers
<1>1. /\ Active(c)
      /\ pc[c] = JoinAt(w)
      /\ pc' = [pc EXCEPT ![c] = JoinNext(w)]
      /\ UNCHANGED <<joinVars, frameVars>>
      /\ handle[w] # "joinable" \/ JoinFails(ThreadOf(c), w)
  BY DEF JoinSkip, JoinThrows, Goto
<1>2. CASE c # "main"
  <2>1. c \in Signals /\ c \notin Workers
    BY <1>2
  <2>2. pc[c] \notin Joining /\ JoinNext(w) \notin Joining /\ Live(c)
    BY <1>1 DEF Joining, JoinAt, JoinNext, Live
  <2>3. JoinNext(w) \in HandlerPCs \ {"idle"}
    BY DEF JoinNext, HandlerPCs
  <2> HIDE DEF Contexts, Threads, Workers
  <2> QED BY <2>1, <2>2, <2>3, <1>1, <1>2, PlainStep DEF Contexts
<1>3. CASE c = "main" /\ w = "device"
  <2>1. ASSUME handle["device"] = "joinable" PROVE joiner["device"] = "source"
    <3>1. joiner["device"] # None
      BY <1>1, <1>3, <2>1 DEF JoinFails, ThreadOf
    <3>2. joiner["device"] # "main"
      <4> SUFFICES ASSUME joiner["device"] = "main" PROVE FALSE
        OBVIOUS
      <4>1. PICK s \in Signals : Live(s) /\ host[s] = "main"
        BY <2>1, <1>1, <1>3, JoinerIsHandler DEF JoinAt, JoiningAt
      <4> QED BY <4>1, <1>1, <1>3 DEF IInv, FrameInv, Active
    <3>3. joiner["device"] # "device" /\ joiner["device"] \in Threads \cup {None}
      BY DEF IInv, JoinerInv, TypeOK, ConnectorTypeOK
    <3> QED BY <3>1, <3>2, <3>3
  <2>2. c \in Contexts /\ c \notin Signals /\ c \notin Workers
    BY <1>3
  <2>3. pc[c] \notin Joining /\ JoinNext(w) \notin Joining
    BY <1>1, <1>3 DEF Joining, JoinAt, JoinNext
  <2>4. /\ JoinNext(w) = "joinSource"
        /\ JoinNext(w) \in MainPCs /\ JoinNext(w) \notin EarlyPCs
    BY <1>3 DEF JoinNext, HandlerPCs, MainPCs, EarlyPCs
  <2> HIDE DEF Contexts, Threads, Workers
  <2> QED BY <2>1, <2>2, <2>3, <2>4, <1>1, PlainStep
<1>4. CASE c = "main" /\ w = "source"
  <2>1. handle["source"] # "joinable"
    <3> SUFFICES ASSUME handle["source"] = "joinable" PROVE FALSE
      OBVIOUS
    <3>1. joiner["source"] \in {"main", "device"}
      BY <1>1, <1>4 DEF JoinFails, ThreadOf, IInv, JoinerInv, TypeOK,
                        ConnectorTypeOK
    <3>2. pc["device"] # "joiningSource"
      BY DEF IInv, PhaseInv, WorkerPCs
    <3>3. PICK s \in Signals : Live(s) /\ host[s] = joiner["source"]
      BY <3>1, <3>2, <1>1, <1>4, JoinerIsHandler DEF JoinAt, JoiningAt
    <3>4. joiner["source"] = "device"
      BY <3>1, <3>3, <1>1, <1>4 DEF IInv, FrameInv, Active
    <3>5. pc["device"] \notin {"unborn", "ended"}
      BY <3>3, <3>4 DEF IInv, FrameInv
    <3>6. handle["device"] = "joinable"
      BY <3>5 DEF IInv, HandleInv, TypeOK, ConnectorTypeOK
    <3>7. joiner["device"] = "source"
      BY <3>6, <1>1, <1>4 DEF IInv, MainInv, JoinAt
    <3> QED BY <3>4, <3>7 DEF IInv, JoinerInv
  <2>2. pc["source"] \in {"unborn", "ended"}
    BY <2>1 DEF IInv, HandleInv, TypeOK, ConnectorTypeOK
  <2>3. handle["device"] # "joinable"
    BY <2>2, <1>1, <1>4, DeviceGone DEF JoinAt
  <2>4. c \in Contexts /\ c \notin Signals /\ c \notin Workers
    BY <1>4
  <2>5. pc[c] \notin Joining /\ JoinNext(w) \notin Joining
    BY <1>1, <1>4 DEF Joining, JoinAt, JoinNext
  <2>6. /\ JoinNext(w) = "waited"
        /\ JoinNext(w) \in MainPCs /\ JoinNext(w) \notin EarlyPCs
    BY <1>4 DEF JoinNext, HandlerPCs, MainPCs, EarlyPCs
  <2>7. \A v \in Workers : handle[v] # "joinable"
    BY <2>1, <2>3
  <2> HIDE DEF Contexts, Threads, Workers
  <2> QED BY <2>4, <2>5, <2>6, <2>7, <1>1, PlainStep
<1> QED BY <1>2, <1>3, <1>4

(* A signal is delivered to a thread that has not ended. *)
LEMMA SignalStep ==
  ASSUME IInv, TypeOK', NEW s \in Signals, NEW t \in SignalHosts, Signal(s, t)
  PROVE  IInv'
<1> USE ContextAssumption, HostAssumption
    DEF Contexts, Threads, Workers, joinVars, IInv
<1>0. /\ pc \in [Contexts -> PCs]
      /\ host \in [Signals -> Threads]
      /\ under \in [Signals -> SUBSET Contexts]
  BY DEF TypeOK, ConnectorTypeOK
<1>1. /\ pc[s] = "idle"
      /\ pc' = [pc EXCEPT ![s] = "close"]
      /\ host' = [host EXCEPT ![s] = t]
      /\ t \in under'[s]
      /\ \A r \in Signals \ {s} : under'[r] = under[r] /\ host'[r] = host[r]
      /\ pc[t] \notin {"unborn", "ended"}
      /\ UNCHANGED <<handle, joiner>>
  BY <1>0 DEF Signal, CallStop, CanHost
<1>2. \A x \in Contexts : x # s => pc'[x] = pc[x] /\ ThreadOf(x)' = ThreadOf(x)
  BY <1>0, <1>1 DEF ThreadOf
<1>3. pc'[s] = "close" /\ host'[s] = t
  BY <1>0, <1>1
<1>4. PhaseInv'
  BY <1>2, <1>3 DEF PhaseInv, HandlerPCs
<1>5. HandleInv'
  BY <1>1, <1>2 DEF HandleInv
<1>6. FrameInv'
  <2> SUFFICES ASSUME NEW r \in Signals, Live(r)'
               PROVE  host'[r] \in under'[r] /\ pc'[host'[r]] \notin {"unborn", "ended"}
    BY DEF FrameInv
  <2>1. CASE r = s
    BY <2>1, <1>1, <1>2, <1>3
  <2>2. CASE r # s
    <3>1. Live(r)
      BY <2>2, <1>2 DEF Live
    <3> QED BY <3>1, <2>2, <1>0, <1>1, <1>2 DEF FrameInv
  <2> QED BY <2>1, <2>2
<1>7. JoinerInv'
  <2>1. ASSUME NEW w \in Workers, NEW x \in Contexts
        PROVE  (pc'[x] = JoiningAt(w)) <=> (pc[x] = JoiningAt(w))
    <3>1. CASE x = s
      BY <3>1, <1>1, <1>3 DEF JoiningAt
    <3>2. CASE x # s
      BY <3>2, <1>2
    <3> QED BY <3>1, <3>2
  <2>2. \A w \in Workers : pc[s] # JoiningAt(w)
    BY <1>1 DEF JoiningAt
  <2>3. ASSUME NEW w \in Workers
        PROVE  /\ joiner'[w] # w
               /\ handle'[w] = "joinable" /\ joiner'[w] # None =>
                    \E x \in Contexts : pc'[x] = JoiningAt(w) /\ ThreadOf(x)' = joiner'[w]
               /\ \A x \in Contexts : pc'[x] = JoiningAt(w) =>
                    handle'[w] = "joinable" /\ joiner'[w] = ThreadOf(x)'
               /\ \A b, x \in Contexts :
                    pc'[b] = JoiningAt(w) /\ pc'[x] = JoiningAt(w) => b = x
    <3>1. \A x \in Contexts :
            pc[x] = JoiningAt(w) => ThreadOf(x)' = ThreadOf(x)
      BY <2>2, <1>2
    <3> QED BY <2>1, <3>1, <1>1 DEF JoinerInv
  <2> QED BY <2>3, <1>1 DEF JoinerInv, JoiningAt
<1>8. MainInv'
  BY <1>1, <1>2 DEF MainInv
<1> QED BY <1>4, <1>5, <1>6, <1>7, <1>8

(* Every step of ufctool keeps the inductive invariant. *)
LEMMA InvStep == IInv /\ [Next]_vars => IInv'
<1> SUFFICES ASSUME IInv, [Next]_vars PROVE IInv'
  OBVIOUS
<1> USE ContextAssumption
<1>type. TypeOK'
  BY TypeStep DEF IInv
<1>ctx. /\ "main" \in Contexts /\ "main" \notin Signals /\ "main" \notin Workers
        /\ \A s \in Signals : s \in Contexts /\ s \notin Workers /\ s # "main"
        /\ \A w \in Workers : w \in Contexts /\ w \notin Signals /\ w # "main"
  BY DEF Contexts, Threads, Workers
<1>wait. ASSUME NEW c \in {"main"} \cup Signals, Wait(c) PROVE IInv'
  BY <1>type, <1>wait, JoinPassedStep, JoinBeginsStep, JoinEndsStep DEF Wait
(* The main thread between two calls. *)
<1>main. ASSUME NEW from, NEW to, Goto("main", from, to),
                UNCHANGED <<joinVars, frameVars>>,
                from \notin Joining, to \notin Joining \cup {"spawnSource", "joinSource"},
                to \in MainPCs, to \in EarlyPCs => from \in EarlyPCs,
                to \in {"waited", "returned"} =>
                  \A w \in Workers : handle[w] # "joinable"
         PROVE  IInv'
  <2>1. /\ Active("main") /\ pc["main"] = from
        /\ pc' = [pc EXCEPT !["main"] = to]
    BY <1>main DEF Goto
  <2> QED BY <2>1, <1>main, <1>type, <1>ctx, PlainStep
<1>early. pc["main"] \in EarlyPCs => \A w \in Workers : handle[w] # "joinable"
  BY DEF IInv, HandleInv, Workers
<1>1. CASE Main
  <2>1. CASE InitDevices
    <3>1. CASE \E d \in Devices \ devices : InitDevice("main", d) \/ AddDevice("main", d)
      <4>1. UNCHANGED <<pc, handle, joiner, under, host>>
        BY <3>1 DEF InitDevice, AddDevice, NewDevice, joinVars, frameVars
      <4> QED BY <4>1, <1>type
              DEF IInv, PhaseInv, HandleInv, FrameInv, JoinerInv, MainInv,
                  Live, ThreadOf, JoiningAt
    <3>2. CASE RegistryDone("main")
      BY <3>2, <1>main
         DEF RegistryDone, Joining, MainPCs, EarlyPCs, HandlerPCs
    <3>3. CASE Goto("main", "scan", "open") /\ UNCHANGED <<mainVars, source>>
      BY <3>3, <1>main DEF mainVars, Joining, MainPCs, EarlyPCs, HandlerPCs
    <3> QED BY <2>1, <3>1, <3>2, <3>3 DEF InitDevices
  <2>2. CASE OpenDataSource
    <3>1. CASE Goto("main", "open", "connect") /\ UNCHANGED mainVars
      BY <3>1, <1>main DEF mainVars, Joining, MainPCs, EarlyPCs, HandlerPCs
    <3>2. CASE Goto("main", "open", "returned") /\ UNCHANGED <<mainVars, source>>
      <4>1. \A w \in Workers : handle[w] # "joinable"
        BY <3>2, <1>early DEF Goto, EarlyPCs
      <4> QED BY <3>2, <4>1, <1>main
              DEF mainVars, Joining, MainPCs, EarlyPCs, HandlerPCs
    <3> QED BY <2>2, <3>1, <3>2 DEF OpenDataSource
  <2>3. CASE Connect
    BY <2>3, <1>main DEF Connect, mainVars, Joining, MainPCs, EarlyPCs, HandlerPCs
  <2>5. CASE CallWait
    BY <2>5, <1>main DEF CallWait, mainVars, Joining, MainPCs, EarlyPCs, HandlerPCs
  <2>6. CASE Return
    <3>1. \A w \in Workers : handle[w] # "joinable"
      BY <2>6 DEF Return, Goto, IInv, MainInv
    <3> QED BY <2>6, <3>1, <1>main
            DEF Return, mainVars, Joining, MainPCs, EarlyPCs, HandlerPCs
  <2>7. CASE SetRunning("main")
    BY <2>7, <1>main DEF SetRunning, Joining, MainPCs, EarlyPCs, HandlerPCs
  <2>8. CASE SpawnDevice("main") \/ SpawnSource("main")
    BY <2>8, <1>type, SpawnStep
  <2> QED BY <1>1, <2>1, <2>2, <2>3, <2>5, <2>6, <2>7, <2>8, <1>wait
          DEF Main, Start
<1>2. CASE ReadVersion
  <2>1. CASE Goto("main", "readVersion", "start") /\ UNCHANGED <<mainVars, source>>
    BY <2>1, <1>main DEF mainVars, Joining, MainPCs, EarlyPCs, HandlerPCs
  <2>2. CASE Goto("main", "readVersion", "returned") /\ UNCHANGED <<mainVars, source>>
    <3>1. \A w \in Workers : handle[w] # "joinable"
      BY <2>2, <1>early DEF Goto, EarlyPCs
    <3> QED BY <2>2, <3>1, <1>main
            DEF mainVars, Joining, MainPCs, EarlyPCs, HandlerPCs
  <2> QED BY <1>2, <2>1, <2>2 DEF ReadVersion
(* A worker between two places of its code, or at its end. *)
<1>worker. ASSUME NEW w \in Workers, NEW from, NEW to, Goto(w, from, to),
                  UNCHANGED <<joinVars, frameVars>>,
                  from \in WorkerPCs \ {"unborn", "ended"},
                  to \in WorkerPCs \ {"unborn"}
           PROVE  IInv'
  <2>1. /\ Active(w) /\ pc[w] = from
        /\ pc' = [pc EXCEPT ![w] = to]
    BY <1>worker DEF Goto
  <2>2. from \notin Joining /\ to \notin Joining
    BY <1>worker DEF Joining, WorkerPCs
  <2> QED BY <2>1, <2>2, <1>worker, <1>type, <1>ctx, PlainStep
<1>3. CASE DeviceThread
  <2>1. CASE LoopTest
    <3>1. CASE running
      BY <3>1, <2>1, <1>worker DEF LoopTest, Workers, WorkerPCs
    <3>2. CASE ~running
      BY <3>2, <2>1, <1>worker DEF LoopTest, Workers, WorkerPCs
    <3> QED BY <3>1, <3>2
  <2>2. CASE LockDevices
    BY <2>2, <1>worker DEF LockDevices, Workers, WorkerPCs
  <2>3. CASE BeginUpdate
    BY <2>3, <1>worker DEF BeginUpdate, Workers, WorkerPCs
  <2>4. CASE EndUpdate
    BY <2>4, <1>worker DEF EndUpdate, Workers, WorkerPCs
  <2>5. CASE UnlockDevices
    BY <2>5, <1>worker DEF UnlockDevices, Workers, WorkerPCs
  <2> QED BY <1>3, <2>1, <2>2, <2>3, <2>4, <2>5 DEF DeviceThread
<1>4. CASE SourceThread
  <2>1. /\ Goto("source", "publish", "ended")
        /\ UNCHANGED <<joinVars, frameVars>>
    BY <1>4 DEF SourceThread, SourceDisconnected, SourceLost
  <2> QED BY <2>1, <1>worker DEF Workers, WorkerPCs
<1>8. CASE Stream \/ StreamLost
  <2>1. PICK from \in WorkerPCs \ {"unborn", "ended"}, to \in WorkerPCs \ {"unborn"} :
          StreamStep(from, to)
    BY <1>8, Zenon DEF Stream, StreamLost, WorkerPCs
  <2>2. Goto("source", from, to) /\ UNCHANGED <<joinVars, frameVars>>
    BY <2>1 DEF StreamStep, mainVars
  <2> QED BY <2>2, <1>worker DEF Workers
<1>5. ASSUME NEW s \in Signals, Handler(s) PROVE IInv'
  (* A handler between two places of stop(), or returning. *)
  <2>h. ASSUME NEW from, NEW to, Goto(s, from, to),
               UNCHANGED <<joinVars, frameVars>>,
               from \notin Joining \cup {"idle", "returned"},
               to \in HandlerPCs \ (Joining \cup {"idle"})
        PROVE  IInv'
    <3>1. /\ Active(s) /\ pc[s] = from /\ Live(s)
          /\ pc' = [pc EXCEPT ![s] = to]
      BY <2>h DEF Goto, Live
    <3> QED BY <3>1, <2>h, <1>type, <1>ctx, PlainStep
  <2>1. CASE CloseDevice(s)
    <3>1. UNCHANGED <<pc, handle, joiner, under, host>>
      BY <2>1 DEF CloseDevice, joinVars, frameVars
    <3> QED BY <3>1, <1>type
            DEF IInv, PhaseInv, HandleInv, FrameInv, JoinerInv, MainInv,
                Live, ThreadOf, JoiningAt
  <2>2. CASE ClearRunning(s)
    BY <2>2, <2>h DEF ClearRunning, Joining, HandlerPCs
  <2>3. CASE Disconnect(s)
    BY <2>3, <2>h DEF Disconnect, Joining, HandlerPCs
  <2>4. CASE HandlerReturns(s)
    BY <2>4, <2>h DEF HandlerReturns, mainVars, Joining, HandlerPCs
  <2>5. CASE LockSockets(s)
    BY <2>5, <2>h DEF LockSockets, mainVars, Joining, HandlerPCs
  <2>6. CASE SignalSockets(s)
    BY <2>6, <2>h DEF SignalSockets, mainVars, Joining, HandlerPCs
  <2> QED BY <1>5, <2>1, <2>2, <2>3, <2>4, <2>5, <2>6, <1>wait DEF Handler, Stop
<1>6. ASSUME NEW s \in Signals, NEW t \in SignalHosts, Signal(s, t)
      PROVE IInv'
  BY <1>6, <1>type, SignalStep
<1>7. CASE UNCHANGED vars
  <2>1. UNCHANGED <<pc, handle, joiner, under, host>>
    BY <1>7 DEF vars, joinVars, frameVars
  <2> QED BY <2>1, <1>type
          DEF IInv, PhaseInv, HandleInv, FrameInv, JoinerInv, MainInv,
              Live, ThreadOf, JoiningAt
<1> QED BY <1>1, <1>2, <1>3, <1>4, <1>5, <1>6, <1>7, <1>8 DEF Next

(* ufctool starts in the inductive invariant: no thread exists, no handler  *)
(* runs.                                                                    *)
LEMMA InvInit == Init => IInv
<1> SUFFICES ASSUME Init PROVE IInv
  OBVIOUS
<1> USE ContextAssumption DEF Contexts, Threads, Workers
<1>1. /\ pc = [c \in Contexts |-> CASE c = "main" -> "initDevices"
                                    [] c \in Workers -> "unborn"
                                    [] OTHER -> "idle"]
      /\ \A w \in Workers : handle[w] = "none" /\ joiner[w] = None
  BY DEF Init, ConnectorInit
<1>2. /\ pc["main"] = "initDevices"
      /\ \A w \in Workers : pc[w] = "unborn"
      /\ \A s \in Signals : pc[s] = "idle"
  BY <1>1
<1>3. \A c \in Contexts : pc[c] \in {"initDevices", "unborn", "idle"}
  BY <1>1
<1>4. TypeOK
  <2>1. pc \in [Contexts -> PCs]
    BY <1>1 DEF PCs
  <2> QED BY <2>1
          DEF Init, ConnectorInit, TypeOK, ConnectorTypeOK
<1>5. PhaseInv
  BY <1>2 DEF PhaseInv, MainPCs, EarlyPCs, WorkerPCs, HandlerPCs
<1>6. HandleInv
  BY <1>1, <1>2 DEF HandleInv
<1>7. FrameInv
  BY <1>2 DEF FrameInv, Live
<1>8. JoinerInv
  <2>1. \A w \in Workers, c \in Contexts : pc[c] # JoiningAt(w)
    BY <1>3 DEF JoiningAt
  <2> QED BY <2>1, <1>1 DEF JoinerInv
<1>9. MainInv
  BY <1>2 DEF MainInv
<1> QED BY <1>4, <1>5, <1>6, <1>7, <1>8, <1>9 DEF IInv

(* The inductive invariant holds in every reachable state of ufctool. *)
THEOREM Invariance == Spec => []IInv
<1> QED BY InvInit, InvStep, PTL DEF Spec

(* main() returns with both threads gone, whichever threads the signals     *)
(* interrupt and although wait() swallows every join that fails.            *)
THEOREM WorkersGone == Spec => []WorkersDoneAtExit
<1>1. ASSUME IInv PROVE WorkersDoneAtExit
  BY <1>1 DEF IInv, MainInv, HandleInv, TypeOK, ConnectorTypeOK,
              WorkersDoneAtExit, Exited
<1> QED BY <1>1, Invariance, PTL

(* No joinable std::thread is left for ~FlightConnector to destroy. *)
THEOREM ThreadsJoined == Spec => []NoJoinableThreadAtExit
<1>1. ASSUME IInv PROVE NoJoinableThreadAtExit
  BY <1>1 DEF IInv, MainInv, NoJoinableThreadAtExit, Exited
<1> QED BY <1>1, Invariance, PTL

-----------------------------------------------------------------------------
(* The inductive invariant behind the end of the device thread and of the   *)
(* devices.                                                                 *)

Born == pc["device"] # "unborn" \/ pc["main"] = "spawnDevice"

(* Once start() has set m_running only stop() clears it, having closed      *)
(* every device; and no device is added while a stop() is closing them.     *)
RunInv ==
  /\ pc["device"] = "ended" => ~running
  /\ Born /\ ~running => open = {} /\ \E s \in Signals : pc[s] # "idle"
  /\ \A s \in Signals : pc[s] = "close" => open \subseteq toClose[s]

(* A step of one flow of control that neither starts nor ends a stop() and  *)
(* leaves the flag and the devices alone.                                   *)
LEMMA RunGoto ==
  ASSUME IInv, RunInv, NEW c \in Contexts, NEW from, NEW to, Goto(c, from, to),
         UNCHANGED <<running, open, toClose>>,
         to \notin {"idle", "close"},
         to = "spawnDevice" => from = "spawnDevice",
         c = "device" => from # "unborn" /\ (to = "ended" => ~running)
  PROVE  RunInv'
<1>0. pc \in [Contexts -> PCs]
  BY DEF IInv, TypeOK, ConnectorTypeOK
<1>1. pc[c] = from /\ pc' = [pc EXCEPT ![c] = to]
  BY DEF Goto
<1>2. /\ \A x \in Contexts : x # c => pc'[x] = pc[x]
      /\ pc'[c] = to
  BY <1>0, <1>1
<1>3. /\ {"main", "device"} \subseteq Contexts
      /\ \A s \in Signals : s \in Contexts
  BY DEF Contexts, Threads, Workers
<1>4. \A s \in Signals : /\ pc'[s] = "close" => pc[s] = "close"
                         /\ pc[s] # "idle" => pc'[s] # "idle"
  BY <1>2, <1>3
<1>5. Born' => Born
  BY <1>1, <1>2, <1>3 DEF Born
<1>6. pc'["device"] = "ended" => pc["device"] = "ended" \/ ~running
  BY <1>1, <1>2, <1>3
<1> QED BY <1>4, <1>5, <1>6 DEF RunInv

(* Every step of ufctool keeps it. *)
LEMMA RunStep == IInv /\ RunInv /\ [Next]_vars => RunInv'
<1> SUFFICES ASSUME IInv, RunInv, [Next]_vars PROVE RunInv'
  OBVIOUS
<1> USE ContextAssumption
<1>0. /\ pc \in [Contexts -> PCs] /\ toClose \in [Contexts -> SUBSET Devices]
      /\ open \subseteq devices
  BY DEF IInv, TypeOK, ConnectorTypeOK
<1>ctx. /\ {"main", "device"} \subseteq Contexts
        /\ "main" \notin Signals /\ "device" \notin Signals
        /\ \A s \in Signals : s \in Contexts
  BY DEF Contexts, Threads, Workers
<1>early. pc["main"] \in EarlyPCs => pc["device"] = "unborn" /\ pc["source"] = "unborn"
  BY DEF IInv, HandleInv, Workers
<1>wait. ASSUME NEW c \in {"main"} \cup Signals, Wait(c) PROVE RunInv'
  <2>1. PICK w \in Workers : \/ JoinSkip(c, w) \/ JoinThrows(c, w)
                             \/ JoinBegins(c, w) \/ JoinEnds(c, w)
    BY <1>wait DEF Wait
  <2>2. UNCHANGED <<running, open, toClose>>
    BY <2>1 DEF JoinSkip, JoinThrows, JoinBegins, JoinEnds, deviceVars
  <2>3. PICK from, to : Goto(c, from, to) /\ to \in {JoinNext(w), JoiningAt(w)}
    BY <2>1 DEF JoinSkip, JoinThrows, JoinBegins, JoinEnds
  <2>4. to \notin {"idle", "close", "spawnDevice"}
    BY <2>3 DEF JoinNext, JoiningAt
  <2>5. c \in Contexts /\ c # "device"
    BY <1>ctx
  <2> QED BY <2>2, <2>3, <2>4, <2>5, RunGoto
(* The main thread between two calls. *)
<1>main. ASSUME NEW from, NEW to, Goto("main", from, to), UNCHANGED mainVars,
                to \notin {"idle", "close", "spawnDevice"}
         PROVE  RunInv'
  <2>1. UNCHANGED <<running, open, toClose>>
    BY <1>main DEF mainVars, deviceVars
  <2> QED BY <2>1, <1>main, <1>ctx, RunGoto
<1>1. CASE Main
  <2>1. CASE \E d \in Devices \ devices : InitDevice("main", d) \/ AddDevice("main", d)
    <3>1. /\ Active("main") /\ pc["main"] \in {"initDevices", "scan"}
          /\ UNCHANGED <<running, pc, toClose>>
      BY <2>1 DEF InitDevice, AddDevice, NewDevice
    <3>2. ASSUME NEW s \in Signals PROVE ~Live(s)
      <4> SUFFICES ASSUME Live(s) PROVE FALSE
        OBVIOUS
      <4>1. host[s] \in under[s] /\ pc[host[s]] # "unborn" /\ host[s] \in Threads
        BY DEF IInv, FrameInv, TypeOK, ConnectorTypeOK
      <4>2. host[s] = "main"
        BY <4>1, <3>1, <1>early DEF EarlyPCs, Threads, Workers
      <4> QED BY <4>1, <4>2, <3>1 DEF Active
    <3>3. ~Born /\ \A s \in Signals : pc[s] # "close"
      BY <3>1, <3>2, <1>early DEF Born, EarlyPCs, Live
    <3> QED BY <3>1, <3>3 DEF RunInv, Born
  <2>2. CASE RegistryDone("main")
    <3>1. Goto("main", "initDevices", "scan") /\ UNCHANGED <<running, open, toClose>>
      BY <2>2 DEF RegistryDone, deviceVars
    <3> QED BY <3>1, <1>ctx, RunGoto
  <2>3. CASE Goto("main", "scan", "open") /\ UNCHANGED <<mainVars, source>>
    BY <2>3, <1>main
  <2>4. CASE OpenDataSource
    <3>1. CASE Goto("main", "open", "connect") /\ UNCHANGED mainVars
      BY <3>1, <1>main
    <3>2. CASE Goto("main", "open", "returned") /\ UNCHANGED mainVars
      BY <3>2, <1>main
    <3> QED BY <2>4, <3>1, <3>2 DEF OpenDataSource
  <2>5. CASE Connect
    BY <2>5, <1>main DEF Connect
  <2>6. CASE CallWait
    BY <2>6, <1>main DEF CallWait
  <2>7. CASE Return
    BY <2>7, <1>main DEF Return
  <2>8. CASE SetRunning("main")
    <3>1. /\ running' = TRUE /\ UNCHANGED <<open, toClose>>
          /\ pc["main"] = "start" /\ pc' = [pc EXCEPT !["main"] = "spawnDevice"]
      BY <2>8 DEF SetRunning, Goto, deviceVars
    <3>2. pc'["device"] = "unborn" /\ \A s \in Signals : pc'[s] = pc[s]
      BY <3>1, <1>0, <1>ctx, <1>early DEF EarlyPCs
    <3> QED BY <3>1, <3>2 DEF RunInv
  <2>9. CASE SpawnDevice("main")
    <3>1. /\ UNCHANGED <<running, open, toClose>> /\ pc["main"] = "spawnDevice"
          /\ pc' = [pc EXCEPT !["main"] = "spawnSource", !["device"] = "loop"]
      BY <2>9 DEF SpawnDevice, Spawn, deviceVars
    <3>2. /\ pc'["device"] = "loop" /\ \A s \in Signals : pc'[s] = pc[s]
      BY <3>1, <1>0, <1>ctx
    <3> QED BY <3>1, <3>2 DEF RunInv, Born
  <2>10. CASE SpawnSource("main")
    <3>1. /\ UNCHANGED <<running, open, toClose>>
          /\ pc' = [pc EXCEPT !["main"] = "started", !["source"] = "publish"]
      BY <2>10 DEF SpawnSource, Spawn, deviceVars
    <3>2. "source" \in Contexts /\ "source" \notin Signals
      BY DEF Contexts, Threads, Workers
    <3>3. /\ pc'["main"] = "started" /\ pc'["device"] = pc["device"]
          /\ \A s \in Signals : pc'[s] = pc[s]
      BY <3>1, <3>2, <1>0, <1>ctx
    <3> QED BY <3>1, <3>3 DEF RunInv, Born
  <2> QED BY <1>1, <2>1, <2>2, <2>3, <2>4, <2>5, <2>6, <2>7, <2>8, <2>9, <2>10,
             <1>wait DEF Main, InitDevices, Start
<1>2. CASE ReadVersion
  <2>1. CASE Goto("main", "readVersion", "start") /\ UNCHANGED mainVars
    BY <2>1, <1>main
  <2>2. CASE Goto("main", "readVersion", "returned") /\ UNCHANGED mainVars
    BY <2>2, <1>main
  <2> QED BY <1>2, <2>1, <2>2 DEF ReadVersion
<1>3. CASE DeviceThread
  <2>1. UNCHANGED <<running, open, toClose>>
    BY <1>3 DEF DeviceThread, LoopTest, LockDevices, BeginUpdate, EndUpdate,
                UnlockDevices, deviceVars
  <2>2. CASE LoopTest
    <3>1. CASE running
      BY <3>1, <2>1, <2>2, <1>ctx, RunGoto DEF LoopTest
    <3>2. CASE ~running
      BY <3>2, <2>1, <2>2, <1>ctx, RunGoto DEF LoopTest
    <3> QED BY <3>1, <3>2
  <2>3. CASE LockDevices
    BY <2>1, <2>3, <1>ctx, RunGoto DEF LockDevices
  <2>4. CASE BeginUpdate
    BY <2>1, <2>4, <1>ctx, RunGoto DEF BeginUpdate
  <2>5. CASE EndUpdate
    BY <2>1, <2>5, <1>ctx, RunGoto DEF EndUpdate
  <2>6. CASE UnlockDevices
    BY <2>1, <2>6, <1>ctx, RunGoto DEF UnlockDevices
  <2> QED BY <1>3, <2>2, <2>3, <2>4, <2>5, <2>6 DEF DeviceThread
<1>4. CASE SourceThread
  <2>1. /\ Goto("source", "publish", "ended")
        /\ UNCHANGED <<running, open, toClose>>
    BY <1>4 DEF SourceThread, SourceDisconnected, SourceLost, deviceVars
  <2>2. "source" \in Contexts
    BY DEF Contexts, Threads, Workers
  <2> QED BY <2>1, <2>2, RunGoto
<1>8. CASE Stream \/ StreamLost
  <2>1. PICK from \in WorkerPCs, to \in WorkerPCs : StreamStep(from, to)
    BY <1>8, Zenon DEF Stream, StreamLost, WorkerPCs
  <2>2. Goto("source", from, to) /\ UNCHANGED <<running, open, toClose>>
    BY <2>1 DEF StreamStep, mainVars, deviceVars
  <2>3. "source" \in Contexts
    BY DEF Contexts, Threads, Workers
  <2>4. to \notin {"idle", "close", "spawnDevice"}
    BY DEF WorkerPCs
  <2> QED BY <2>2, <2>3, <2>4, RunGoto
<1>5. ASSUME NEW s \in Signals, Handler(s) PROVE RunInv'
  <2>0. s \in Contexts /\ s # "device"
    BY <1>ctx
  <2>1. CASE CloseDevice(s)
    <3>1. PICK d \in toClose[s] :
            /\ open' = open \ {d}
            /\ toClose' = [toClose EXCEPT ![s] = @ \ {d}]
            /\ UNCHANGED <<running, pc>>
      BY <2>1 DEF CloseDevice
    <3>2. \A r \in Signals : toClose'[r] = IF r = s THEN toClose[s] \ {d} ELSE toClose[r]
      BY <3>1, <1>0, <1>ctx
    <3> QED BY <3>1, <3>2 DEF RunInv, Born
  <2>2. CASE ClearRunning(s)
    <3>1. /\ toClose[s] = {} /\ pc[s] = "close" /\ running' = FALSE
          /\ pc' = [pc EXCEPT ![s] = "disconnect"]
          /\ UNCHANGED <<open, toClose>>
      BY <2>2 DEF ClearRunning, Goto, deviceVars
    <3>2. open = {}
      BY <3>1 DEF RunInv
    <3>3. pc'[s] = "disconnect" /\ \A r \in Signals : pc'[r] = pc[r] \/ r = s
      BY <3>1, <1>0, <1>ctx
    <3> QED BY <3>1, <3>2, <3>3 DEF RunInv
  <2>3. CASE Disconnect(s)
    <3>1. UNCHANGED <<running, open, toClose>>
      BY <2>3 DEF Disconnect, deviceVars
    <3> QED BY <2>0, <2>3, <3>1, RunGoto DEF Disconnect
  <2>4. CASE HandlerReturns(s)
    <3>1. UNCHANGED <<running, open, toClose>>
      BY <2>4 DEF HandlerReturns, mainVars, deviceVars
    <3> QED BY <2>0, <2>4, <3>1, RunGoto DEF HandlerReturns
  <2>5. CASE LockSockets(s)
    <3>1. UNCHANGED <<running, open, toClose>>
      BY <2>5 DEF LockSockets, mainVars, deviceVars
    <3> QED BY <2>0, <2>5, <3>1, RunGoto DEF LockSockets
  <2>6. CASE SignalSockets(s)
    <3>1. UNCHANGED <<running, open, toClose>>
      BY <2>6 DEF SignalSockets, mainVars, deviceVars
    <3> QED BY <2>0, <2>6, <3>1, RunGoto DEF SignalSockets
  <2> QED BY <1>5, <2>1, <2>2, <2>3, <2>4, <2>5, <2>6, <1>wait DEF Handler, Stop
<1>6. ASSUME NEW s \in Signals, NEW t \in SignalHosts, Signal(s, t)
      PROVE RunInv'
  <2>1. /\ pc' = [pc EXCEPT ![s] = "close"]
        /\ toClose' = [toClose EXCEPT ![s] = devices]
        /\ UNCHANGED <<running, open>>
    BY <1>6 DEF Signal, CallStop, deviceVars
  <2>2. /\ pc'["main"] = pc["main"] /\ pc'["device"] = pc["device"]
        /\ pc'[s] = "close" /\ toClose'[s] = devices
        /\ \A r \in Signals \ {s} : pc'[r] = pc[r] /\ toClose'[r] = toClose[r]
    BY <2>1, <1>0, <1>ctx
  <2> QED BY <2>1, <2>2, <1>0 DEF RunInv, Born
<1>7. CASE UNCHANGED vars
  BY <1>7 DEF vars, deviceVars, RunInv, Born
<1> QED BY <1>1, <1>2, <1>3, <1>4, <1>5, <1>6, <1>7, <1>8 DEF Next

(* The flag, the device thread and the devices agree in every reachable     *)
(* state.                                                                   *)
THEOREM RunInvariance == Spec => []RunInv
<1>1. Init => RunInv
  <2> SUFFICES ASSUME Init PROVE RunInv
    OBVIOUS
  <2>1. /\ pc["main"] = "initDevices" /\ pc["device"] = "unborn"
        /\ \A s \in Signals : pc[s] = "idle"
    BY ContextAssumption DEF Init, Contexts, Threads, Workers
  <2> QED BY <2>1 DEF RunInv, Born
<1> QED BY <1>1, RunStep, Invariance, PTL DEF Spec

(* However signals interleave with start(), the device thread ends only     *)
(* because a stop() has cleared m_running.                                  *)
THEOREM EndsByStop == Spec => []DeviceThreadEndsOnlyByStop
<1>1. ASSUME RunInv PROVE DeviceThreadEndsOnlyByStop
  BY <1>1 DEF RunInv, Born, DeviceThreadEndsOnlyByStop
<1> QED BY <1>1, RunInvariance, PTL

(* Once the threads have run, main() returns with every device closed.      *)
THEOREM DevicesClosed == Spec => []DevicesClosedAtExit
<1>1. ASSUME IInv, RunInv PROVE DevicesClosedAtExit
  <2> SUFFICES ASSUME Exited, handle["device"] # "none" PROVE open = {}
    BY DEF DevicesClosedAtExit
  <2>1. pc["device"] = "ended"
    BY <1>1 DEF IInv, MainInv, HandleInv, TypeOK, ConnectorTypeOK, Exited,
                Workers
  <2> QED BY <1>1, <2>1 DEF RunInv, Born
<1> QED BY <1>1, RunInvariance, Invariance, PTL
=============================================================================
