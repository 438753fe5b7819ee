-------------------------- MODULE XPPluginDataSource --------------------------
(***************************************************************************)
(* The X-Plane plugin's data source: the two queues through which the       *)
(* device thread asks X-Plane's main thread to run commands and to set data *)
(* refs, and the flight-loop callback that serves them.                     *)
(*                                                                          *)
(* X-Plane's SDK belongs to the main thread, so command() and setData()     *)
(* only queue.  The callback loads the aircraft's mapping the first time,    *)
(* publishes the data refs, then drains each queue holding its mutex.       *)
(*                                                                          *)
(* A command definition is the sequence of its steps.  A "lua:" step that   *)
(* sets data or runs a command counts as those steps.  The other aircraft   *)
(* the pilot may load later is not modelled: nothing looks for it.          *)
(* updateDataRefs(), which only copies data refs into the aircraft state,   *)
(* belongs to module AircraftState.                                         *)
(***************************************************************************)
EXTENDS Naturals, Sequences

CONSTANTS
  CommandRefs,   \* the commands of X-Plane and of its other plugins
  Names,         \* data refs
  Writable,      \* the data refs X-Plane has
  Values,
  Controls,      \* the UFC commands a device may send
  Definition,    \* the steps of each control, once the mapping is loaded
  MaxCalls,      \* bound: command() calls in a behaviour
  None

Exec(r)   == [kind |-> "exec", ref |-> r]
Set(n, v) == [kind |-> "set", ref |-> n, value |-> v]
Steps == {Exec(r) : r \in CommandRefs} \cup {Set(n, v) : n \in Names, v \in Values}

PluginConstants ==
  /\ Definition \in [Controls -> Seq(Steps)]
  /\ None \notin CommandRefs \cup {"callback"}

VARIABLES
  checkAircraft,  \* m_checkAircraft
  mapping,        \* the command definitions: "empty", "loading", "loaded"
  aircraft,       \* X-Plane reports an ICAO type or an author
  registered,     \* the commands X-Plane knows so far
  commandDefs,    \* m_commandDefs: "unknown", "found", "missing"
  commandQueue,   \* m_commandQueue
  drained,        \* how many of its commands this callback has executed
  executed,       \* the commands X-Plane has executed, in order
  dataQueue,      \* m_dataQueue
  toWrite,        \* the requests this callback has still to serve
  written,        \* the data refs written by the plugin, once written
  commandMutex,   \* the holder of m_commandQueueMutex
  dataMutex,      \* the holder of m_dataQueueMutex
  script,         \* the steps the device thread's command() has still to do
  found,          \* the command its executeCommand() has looked up
  calls,
  pc              \* where the callback is

loadVars    == <<checkAircraft, mapping, aircraft>>
commandVars == <<commandQueue, drained, executed>>
dataVars    == <<dataQueue, toWrite, written>>
deviceVars  == <<script, found, calls>>
vars == <<loadVars, registered, commandDefs, commandVars, dataVars,
          commandMutex, dataMutex, deviceVars, pc>>

Init ==
  /\ checkAircraft = TRUE
  /\ mapping = "empty"
  /\ aircraft \in BOOLEAN
  /\ registered \in SUBSET CommandRefs
  /\ commandDefs = [r \in CommandRefs |-> "unknown"]
  /\ commandQueue = << >> /\ drained = 0 /\ executed = << >>
  /\ dataQueue = << >> /\ toWrite = {} /\ written = << >>
  /\ commandMutex = None /\ dataMutex = None
  /\ script = << >> /\ found = None /\ calls = 0
  /\ pc = "idle"

-----------------------------------------------------------------------------
(* findOrRegisterCommand(): X-Plane is asked once for each command; a       *)
(* command it does not know is remembered as missing.                       *)
Lookup(r) ==
  IF commandDefs[r] # "unknown" THEN commandDefs[r]
  ELSE IF r \in registered THEN "found" ELSE "missing"

-----------------------------------------------------------------------------
(* The device thread.                                                       *)

(* The bug of acting on a control that is not mapped yet. *)
Command_Unmapped ==
  /\ script = << >> /\ found = None
  /\ calls < MaxCalls
  /\ calls' = calls + 1
  /\ \E c \in Controls : script' = Definition[c]
  /\ UNCHANGED <<loadVars, registered, commandDefs, commandVars, dataVars,
                 commandMutex, dataMutex, found, pc>>

(* command(): getCommand() takes no lock, so while the mapping is being     *)
(* loaded it may miss a definition.                                         *)
Command ==
  /\ script = << >> /\ found = None
  /\ calls < MaxCalls
  /\ calls' = calls + 1
  /\ \E c \in Controls :
       script' \in CASE mapping = "loaded"  -> {Definition[c]}
                     [] mapping = "loading" -> {Definition[c], << >>}
                     [] OTHER               -> {<< >>}
  /\ UNCHANGED <<loadVars, registered, commandDefs, commandVars, dataVars,
                 commandMutex, dataMutex, found, pc>>

(* executeCommand() looks the command up, then queues it if X-Plane knows   *)
(* it.                                                                      *)
FindCommand ==
  /\ script # << >> /\ found = None /\ Head(script).kind = "exec"
  /\ LET r == Head(script).ref
     IN  /\ commandDefs' = [commandDefs EXCEPT ![r] = Lookup(r)]
         /\ found' = IF Lookup(r) = "found" THEN r ELSE None
  /\ script' = Tail(script)
  /\ UNCHANGED <<loadVars, registered, commandVars, dataVars, commandMutex,
                 dataMutex, calls, pc>>

QueueCommand ==
  /\ found # None
  /\ commandMutex = None
  /\ commandQueue' = Append(commandQueue, found)
  /\ found' = None
  /\ UNCHANGED <<loadVars, registered, commandDefs, drained, executed, dataVars,
                 commandMutex, dataMutex, script, calls, pc>>

(* setData(): emplace keeps a value already queued for the data ref. *)
SetData ==
  /\ script # << >> /\ found = None /\ Head(script).kind = "set"
  /\ dataMutex = None
  /\ LET s == Head(script)
     IN  dataQueue' = [m \in DOMAIN dataQueue \cup {s.ref} |->
                         IF m \in DOMAIN dataQueue THEN dataQueue[m] ELSE s.value]
  /\ script' = Tail(script)
  /\ UNCHANGED <<loadVars, registered, commandDefs, commandVars, toWrite, written,
                 commandMutex, dataMutex, found, calls, pc>>

DeviceThread == FindCommand \/ QueueCommand \/ SetData

-----------------------------------------------------------------------------
(* updateCallback(): checkReload, updateDataRefs, executeCommands,          *)
(* updateValues.                                                            *)

At(from, to) == pc = from /\ pc' = to

(* reloadAircraft() does nothing when X-Plane's ICAO type and author equal  *)
(* the aircraft state's, which start out empty.                             *)
CheckReload ==
  /\ \/ checkAircraft /\ aircraft /\ At("idle", "load") /\ mapping' = "loading"
        /\ UNCHANGED checkAircraft
     \/ checkAircraft /\ ~aircraft /\ At("idle", "commands")
        /\ checkAircraft' = FALSE /\ UNCHANGED mapping
     \/ ~checkAircraft /\ At("idle", "commands")
        /\ UNCHANGED <<checkAircraft, mapping>>
  /\ UNCHANGED <<aircraft, registered, commandDefs, commandVars, dataVars,
                 commandMutex, dataMutex, deviceVars>>

(* The mapping is complete once its commands have been looked up. *)
Reloaded ==
  /\ At("load", "commands")
  /\ mapping' = "loaded"
  /\ checkAircraft' = FALSE
  /\ commandDefs' = [r \in CommandRefs |->
       IF \E c \in Controls : \E i \in DOMAIN Definition[c] : Definition[c][i] = Exec(r)
       THEN Lookup(r) ELSE commandDefs[r]]
  /\ UNCHANGED <<aircraft, registered, commandVars, dataVars, commandMutex,
                 dataMutex, deviceVars>>

LockCommands ==
  /\ At("commands", "execute")
  /\ commandMutex = None /\ commandMutex' = "callback"
  /\ UNCHANGED <<loadVars, registered, commandDefs, commandVars, dataVars,
                 dataMutex, deviceVars>>

ExecuteCommand ==
  /\ pc = "execute" /\ drained < Len(commandQueue)
  /\ drained' = drained + 1
  /\ executed' = Append(executed, commandQueue[drained + 1])
  /\ UNCHANGED <<loadVars, registered, commandDefs, commandQueue, dataVars,
                 commandMutex, dataMutex, deviceVars, pc>>

(* The bug of forgetting to empty the queue. *)
ClearCommands_Kept ==
  /\ drained = Len(commandQueue) /\ At("execute", "values")
  /\ drained' = 0
  /\ commandMutex' = None
  /\ UNCHANGED <<loadVars, registered, commandDefs, commandQueue, executed,
                 dataVars, dataMutex, deviceVars>>

ClearCommands ==
  /\ drained = Len(commandQueue) /\ At("execute", "values")
  /\ drained' = 0
  /\ commandQueue' = << >>
  /\ commandMutex' = None
  /\ UNCHANGED <<loadVars, registered, commandDefs, executed, dataVars,
                 dataMutex, deviceVars>>

LockValues ==
  /\ At("values", "write")
  /\ dataMutex = None /\ dataMutex' = "callback"
  /\ toWrite' = DOMAIN dataQueue
  /\ UNCHANGED <<loadVars, registered, commandDefs, commandVars, dataQueue,
                 written, commandMutex, deviceVars>>

(* executeSetData(): a data ref X-Plane does not have is skipped. *)
WriteValue ==
  /\ pc = "write"
  /\ \E n \in toWrite :
       /\ toWrite' = toWrite \ {n}
       /\ written' = IF n \notin Writable THEN written
                     ELSE [m \in DOMAIN written \cup {n} |->
                             IF m = n THEN dataQueue[n] ELSE written[m]]
  /\ UNCHANGED <<loadVars, registered, commandDefs, commandVars, dataQueue,
                 commandMutex, dataMutex, deviceVars, pc>>

ClearValues ==
  /\ toWrite = {} /\ At("write", "idle")
  /\ dataQueue' = << >>
  /\ dataMutex' = None
  /\ UNCHANGED <<loadVars, registered, commandDefs, commandVars, toWrite,
                 written, commandMutex, deviceVars>>

UpdateCallback ==
  \/ CheckReload \/ Reloaded
  \/ LockCommands \/ ExecuteCommand \/ ClearCommands
  \/ LockValues \/ WriteValue \/ ClearValues

(* Another plugin registers its commands with X-Plane. *)
Register ==
  /\ \E r \in CommandRefs \ registered : registered' = registered \cup {r}
  /\ UNCHANGED <<loadVars, commandDefs, commandVars, dataVars, commandMutex,
                 dataMutex, deviceVars, pc>>

Next == Command \/ DeviceThread \/ UpdateCallback \/ Register

(* X-Plane runs the callback every tenth of a second. *)
Fairness == WF_vars(UpdateCallback)

Spec == Init /\ [][Next]_vars /\ Fairness

-----------------------------------------------------------------------------
(* The queues keep the promise of CommandChannel: no command lost, repeated *)
(* or overtaken, the value of a data ref first asked for written, and       *)
(* everything asked for served in the end, however the device thread        *)
(* interleaves with the callback.                                           *)
Channel == INSTANCE CommandChannel WITH
  Commands <- CommandRefs,
  accepted <- SubSeq(commandQueue, drained + 1, Len(commandQueue)),
  wanted   <- IF pc = "write" THEN [n \in toWrite |-> dataQueue[n]] ELSE dataQueue

ServesInOrder == Channel!Spec

(* Nothing a device asks for reaches X-Plane before the aircraft's mapping  *)
(* is complete, although the device thread queues at any time and the       *)
(* callback runs even when there is no aircraft to load.                    *)
NothingBeforeReload ==
  [][executed' # executed \/ written' # written => mapping = "loaded"]_vars
=============================================================================
