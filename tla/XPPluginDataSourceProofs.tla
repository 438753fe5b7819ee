----------------------- MODULE XPPluginDataSourceProofs -----------------------
(***************************************************************************)
(* What is proved of the plugin's data source, for any commands, data refs  *)
(* and command definitions: its queues implement CommandChannel (but for    *)
(* the fairness, which is beyond the prover), and nothing is done for a     *)
(* device before the aircraft's mapping is complete.                        *)
(***************************************************************************)
EXTENDS MCPlugin, SequenceTheorems, TLAPS

QueueTypes ==
  /\ checkAircraft \in BOOLEAN /\ aircraft \in BOOLEAN
  /\ mapping \in {"empty", "loading", "loaded"}
  /\ commandDefs \in [CommandRefs -> {"unknown", "found", "missing"}]
  /\ commandQueue \in Seq(CommandRefs) /\ drained \in 0..Len(commandQueue)
  /\ script \in Seq(Source!Steps) /\ found \in CommandRefs \cup {None}
  /\ DOMAIN dataQueue \subseteq Names
  /\ \A n \in DOMAIN dataQueue : dataQueue[n] \in Values
  /\ dataQueue = [n \in DOMAIN dataQueue |-> dataQueue[n]]
  /\ toWrite \subseteq DOMAIN dataQueue
  /\ callbackPc \in {"idle", "load", "commands", "execute", "values", "write"}

(* The callback holds a queue's mutex exactly while it drains the queue, and *)
(* leaves nothing half drained.                                              *)
DrainInv ==
  /\ commandMutex = IF callbackPc = "execute" THEN "callback" ELSE None
  /\ dataMutex = IF callbackPc = "write" THEN "callback" ELSE None
  /\ callbackPc # "execute" => drained = 0
  /\ callbackPc # "write" => toWrite = {}

(* Without a mapping a device's command() does nothing.  It may do something *)
(* while the mapping is being loaded, and then the callback is busy loading. *)
LoadInv ==
  /\ mapping = "empty" =>
       /\ script = << >> /\ found = None
       /\ commandQueue = << >> /\ DOMAIN dataQueue = {}
  /\ mapping = "loading" <=> callbackPc = "load"

QueueInv == QueueTypes /\ DrainInv /\ LoadInv

-----------------------------------------------------------------------------
LEMMA InvInit == Source!PluginConstants /\ Source!Init => QueueInv
<1> SUFFICES ASSUME Source!PluginConstants, Source!Init PROVE QueueInv
  OBVIOUS
<1>1. << >> \in Seq(CommandRefs) /\ << >> \in Seq(Source!Steps) /\ Len(<< >>) = 0
  OBVIOUS
<1>2. DOMAIN << >> = {} /\ << >> = [n \in {} |-> << >>[n]]
  OBVIOUS
<1>3. QueueTypes
  BY <1>1, <1>2 DEF Source!Init, QueueTypes
<1>4. DrainInv /\ LoadInv
  BY <1>2 DEF Source!Init, DrainInv, LoadInv
<1> QED BY <1>3, <1>4 DEF QueueInv

(* What a step of a command definition is about. *)
LEMMA StepKinds ==
  ASSUME NEW s \in Source!Steps
  PROVE  /\ s.kind = "exec" => s.ref \in CommandRefs
         /\ s.kind = "set" => s.ref \in Names /\ s.value \in Values
<1>1. CASE s \in {Source!Exec(r) : r \in CommandRefs}
  <2>1. s.kind = "exec" /\ s.ref \in CommandRefs
    BY <1>1 DEF Source!Exec
  <2> QED BY <2>1
<1>2. CASE s \in {Source!Set(n, v) : n \in Names, v \in Values}
  <2>1. s.kind = "set" /\ s.ref \in Names /\ s.value \in Values
    BY <1>2 DEF Source!Set
  <2> QED BY <2>1
<1> QED BY <1>1, <1>2 DEF Source!Steps

LEMMA LookupType ==
  ASSUME QueueTypes, NEW r \in CommandRefs
  PROVE  Source!Lookup(r) \in {"found", "missing"}
BY DEF Source!Lookup, QueueTypes

(* Taking the first element off a sequence leaves one of the same kind. *)
LEMMA HeadAndTail ==
  ASSUME NEW S, NEW s \in Seq(S), s # << >>
  PROVE  Head(s) \in S /\ Tail(s) \in Seq(S)
OBVIOUS

-----------------------------------------------------------------------------
(* The steps of the device thread. *)

LEMMA CommandStep ==
  Source!PluginConstants /\ QueueInv /\ Source!Command => QueueInv'
<1> SUFFICES ASSUME Source!PluginConstants, QueueInv, Source!Command PROVE QueueInv'
  OBVIOUS
<1>1. /\ UNCHANGED <<Source!loadVars, registered, commandDefs, Source!commandVars,
                     Source!dataVars,
                    commandMutex, dataMutex, found, callbackPc>>
      /\ script = << >>
  BY DEF Source!Command
<1>2. PICK c \in Controls :
        script' \in CASE mapping = "loaded"  -> {Definition[c]}
                       [] mapping = "loading" -> {Definition[c], << >>}
                       [] OTHER               -> {<< >>}
  BY DEF Source!Command
<1>3. Definition[c] \in Seq(Source!Steps) /\ << >> \in Seq(Source!Steps)
  BY DEF Source!PluginConstants
<1>4. script' \in Seq(Source!Steps) /\ (mapping = "empty" => script' = << >>)
  BY <1>2, <1>3
<1>5. QueueTypes'
  BY <1>1, <1>4 DEF QueueInv, QueueTypes, Source!loadVars, Source!commandVars,
     Source!dataVars
<1>6. DrainInv' /\ LoadInv'
  BY <1>1, <1>4 DEF QueueInv, DrainInv, LoadInv, Source!loadVars,
     Source!commandVars, Source!dataVars
<1> QED BY <1>5, <1>6 DEF QueueInv

LEMMA FindStep ==
  Source!PluginConstants /\ QueueInv /\ Source!FindCommand => QueueInv'
<1> SUFFICES ASSUME Source!PluginConstants, QueueInv, Source!FindCommand
             PROVE QueueInv'
  OBVIOUS
<1>1. PICK r : r = Head(script).ref
  OBVIOUS
<1>2. /\ commandDefs' = [commandDefs EXCEPT ![r] = Source!Lookup(r)]
      /\ found' = IF Source!Lookup(r) = "found" THEN r ELSE None
      /\ script' = Tail(script) /\ script # << >> /\ Head(script).kind = "exec"
      /\ UNCHANGED <<Source!loadVars, registered, Source!commandVars,
                     Source!dataVars, commandMutex,
                     dataMutex, calls, callbackPc>>
  BY <1>1 DEF Source!FindCommand
<1>3. script \in Seq(Source!Steps) /\ commandDefs \in [CommandRefs -> {"unknown", "found", "missing"}]
  BY DEF QueueInv, QueueTypes
<1>4. Head(script) \in Source!Steps /\ Tail(script) \in Seq(Source!Steps)
  BY <1>2, <1>3, HeadAndTail
<1>5. r \in CommandRefs
  BY <1>1, <1>2, <1>4, StepKinds
<1>6. Source!Lookup(r) \in {"found", "missing"}
  BY <1>5, LookupType DEF QueueInv
<1>7. /\ commandDefs' \in [CommandRefs -> {"unknown", "found", "missing"}]
      /\ found' \in CommandRefs \cup {None}
  BY <1>2, <1>3, <1>5, <1>6
<1>8. QueueTypes'
  BY <1>2, <1>4, <1>7 DEF QueueInv, QueueTypes, Source!loadVars, Source!commandVars,
     Source!dataVars
<1>9. DrainInv' /\ LoadInv'
  BY <1>2 DEF QueueInv, DrainInv, LoadInv, Source!loadVars, Source!commandVars,
     Source!dataVars
<1> QED BY <1>8, <1>9 DEF QueueInv

(* The mutex is only free when the callback is not draining the queue. *)
LEMMA NotDraining ==
  ASSUME Source!PluginConstants, QueueInv
  PROVE  /\ commandMutex = None => callbackPc # "execute" /\ drained = 0
         /\ dataMutex = None => callbackPc # "write"
BY DEF Source!PluginConstants, QueueInv, DrainInv

LEMMA QueueStep ==
  Source!PluginConstants /\ QueueInv /\ Source!QueueCommand => QueueInv'
<1> SUFFICES ASSUME Source!PluginConstants, QueueInv, Source!QueueCommand
             PROVE QueueInv'
  OBVIOUS
<1>1. /\ found # None /\ commandMutex = None
      /\ commandQueue' = Append(commandQueue, found) /\ found' = None
      /\ UNCHANGED <<Source!loadVars, registered, commandDefs, drained, executed,
                     Source!dataVars,
                     commandMutex, dataMutex, script, calls, callbackPc>>
  BY DEF Source!QueueCommand
<1>2. commandQueue \in Seq(CommandRefs) /\ found \in CommandRefs /\ drained = 0
  BY <1>1, NotDraining DEF QueueInv, QueueTypes
<1>3. commandQueue' \in Seq(CommandRefs) /\ 0 \in 0..Len(commandQueue')
  BY <1>1, <1>2
<1>4. QueueTypes'
  BY <1>1, <1>2, <1>3 DEF QueueInv, QueueTypes, Source!loadVars, Source!dataVars
<1>5. DrainInv' /\ LoadInv'
  BY <1>1 DEF QueueInv, DrainInv, LoadInv, Source!loadVars, Source!dataVars
<1> QED BY <1>4, <1>5 DEF QueueInv

LEMMA SetStep ==
  Source!PluginConstants /\ QueueInv /\ Source!SetData => QueueInv'
<1> SUFFICES ASSUME Source!PluginConstants, QueueInv, Source!SetData PROVE QueueInv'
  OBVIOUS
<1>1. PICK s : s = Head(script)
  OBVIOUS
<1>2. /\ dataQueue' = [m \in DOMAIN dataQueue \cup {s.ref} |->
                         IF m \in DOMAIN dataQueue THEN dataQueue[m] ELSE s.value]
      /\ script' = Tail(script) /\ script # << >> /\ s.kind = "set"
      /\ dataMutex = None
      /\ UNCHANGED <<Source!loadVars, registered, commandDefs, Source!commandVars,
                     toWrite, written,
                     commandMutex, dataMutex, found, calls, callbackPc>>
  BY <1>1 DEF Source!SetData
<1>3. script \in Seq(Source!Steps)
  BY DEF QueueInv, QueueTypes
<1>4. s \in Source!Steps /\ Tail(script) \in Seq(Source!Steps)
  BY <1>1, <1>2, <1>3, HeadAndTail
<1>5. s.ref \in Names /\ s.value \in Values
  BY <1>2, <1>4, StepKinds
<1>6. /\ DOMAIN dataQueue' = DOMAIN dataQueue \cup {s.ref}
      /\ DOMAIN dataQueue' \subseteq Names
      /\ \A n \in DOMAIN dataQueue' : dataQueue'[n] \in Values
      /\ dataQueue' = [n \in DOMAIN dataQueue' |-> dataQueue'[n]]
      /\ toWrite \subseteq DOMAIN dataQueue'
  BY <1>2, <1>5 DEF QueueInv, QueueTypes
<1>7. QueueTypes'
  BY <1>2, <1>4, <1>6 DEF QueueInv, QueueTypes, Source!loadVars, Source!commandVars
<1>8. mapping # "empty"
  BY <1>2 DEF QueueInv, LoadInv
<1>9. DrainInv' /\ LoadInv'
  BY <1>2, <1>8 DEF QueueInv, DrainInv, LoadInv, Source!loadVars, Source!commandVars
<1> QED BY <1>7, <1>9 DEF QueueInv

-----------------------------------------------------------------------------
(* The steps of the callback. *)
LEMMA CallbackStep ==
  Source!PluginConstants /\ QueueInv /\ Source!UpdateCallback => QueueInv'
<1> SUFFICES ASSUME Source!PluginConstants, QueueInv, Source!UpdateCallback
             PROVE QueueInv'
  OBVIOUS
<1> USE DEF Source!loadVars, Source!commandVars, Source!dataVars, Source!deviceVars,
            Source!At
<1>typed. QueueTypes /\ DrainInv /\ LoadInv
  BY DEF QueueInv
<1>1. CASE Source!CheckReload
  BY <1>1, <1>typed DEF Source!CheckReload, QueueInv, QueueTypes, DrainInv, LoadInv
<1>2. CASE Source!Reloaded
  <2>1. PICK defs : defs = commandDefs'
    OBVIOUS
  <2>2. defs \in [CommandRefs -> {"unknown", "found", "missing"}]
    <3>1. \A r \in CommandRefs : /\ Source!Lookup(r) \in {"unknown", "found", "missing"}
                                 /\ commandDefs[r] \in {"unknown", "found", "missing"}
      BY <1>typed, LookupType DEF QueueTypes
    <3> QED BY <1>2, <2>1, <3>1 DEF Source!Reloaded
  <2>3. /\ mapping' = "loaded" /\ checkAircraft' = FALSE
        /\ callbackPc = "load" /\ callbackPc' = "commands"
        /\ UNCHANGED <<aircraft, registered, Source!commandVars, Source!dataVars,
                       commandMutex,
                       dataMutex, Source!deviceVars>>
    BY <1>2 DEF Source!Reloaded
  <2>4. QueueTypes'
    BY <1>typed, <2>1, <2>2, <2>3 DEF QueueTypes
  <2>5. DrainInv' /\ LoadInv'
    BY <1>typed, <2>3 DEF DrainInv, LoadInv
  <2> QED BY <2>4, <2>5 DEF QueueInv
<1>3. CASE Source!LockCommands
  BY <1>3, <1>typed DEF Source!LockCommands, QueueInv, QueueTypes, DrainInv, LoadInv
<1>4. CASE Source!ExecuteCommand
  <2>1. drained' \in 0..Len(commandQueue)
    BY <1>4, <1>typed DEF Source!ExecuteCommand, QueueTypes
  <2> QED BY <1>4, <1>typed, <2>1 DEF Source!ExecuteCommand, QueueInv, QueueTypes,
             DrainInv, LoadInv
<1>5. CASE Source!ClearCommands
  <2>1. << >> \in Seq(CommandRefs) /\ 0 \in 0..Len(<< >>)
    OBVIOUS
  <2> QED BY <1>5, <1>typed, <2>1 DEF Source!ClearCommands, QueueInv, QueueTypes,
             DrainInv, LoadInv
<1>6. CASE Source!LockValues
  BY <1>6, <1>typed DEF Source!LockValues, QueueInv, QueueTypes, DrainInv, LoadInv
<1>7. CASE Source!WriteValue
  <2>1. /\ toWrite' \subseteq toWrite /\ toWrite # {} /\ callbackPc = "write"
        /\ UNCHANGED <<Source!loadVars, registered, commandDefs, Source!commandVars,
                       dataQueue,
                       commandMutex, dataMutex, Source!deviceVars, callbackPc>>
    BY <1>7 DEF Source!WriteValue
  <2> QED BY <1>typed, <2>1 DEF QueueInv, QueueTypes, DrainInv, LoadInv
<1>8. CASE Source!ClearValues
  <2>1. DOMAIN << >> = {} /\ << >> = [n \in DOMAIN << >> |-> << >>[n]]
    OBVIOUS
  <2> QED BY <1>8, <1>typed, <2>1 DEF Source!ClearValues, QueueInv, QueueTypes,
             DrainInv, LoadInv
<1> QED BY <1>1, <1>2, <1>3, <1>4, <1>5, <1>6, <1>7, <1>8 DEF Source!UpdateCallback

(* Every step keeps the inductive invariant. *)
LEMMA InvStep ==
  Source!PluginConstants /\ QueueInv /\ [Source!Next]_(Source!vars) => QueueInv'
<1> SUFFICES ASSUME Source!PluginConstants, QueueInv, [Source!Next]_(Source!vars)
             PROVE QueueInv'
  OBVIOUS
<1>1. CASE Source!Register \/ UNCHANGED Source!vars
  BY <1>1 DEF Source!Register, Source!vars, Source!loadVars, Source!commandVars,
     Source!dataVars, Source!deviceVars,
              QueueInv, QueueTypes, DrainInv, LoadInv
<1> QED BY <1>1, CommandStep, FindStep, QueueStep, SetStep, CallbackStep
      DEF Source!Next, Source!DeviceThread

-----------------------------------------------------------------------------
(* The queues implement the channel.                                        *)

accepted == SubSeq(commandQueue, drained + 1, Len(commandQueue))
wanted   == IF callbackPc = "write" THEN [n \in toWrite |-> dataQueue[n]] ELSE dataQueue

ChannelStep == Source!Channel!Next \/ UNCHANGED <<accepted, executed, wanted,
                                                  written>>

(* The rest of a queue loses its first element, or gets one more. *)
LEMMA RestOfQueue ==
  ASSUME NEW S, NEW q \in Seq(S), NEW k \in 0..Len(q) - 1
  PROVE  /\ SubSeq(q, k + 1, Len(q)) # << >>
         /\ Head(SubSeq(q, k + 1, Len(q))) = q[k + 1]
         /\ Tail(SubSeq(q, k + 1, Len(q))) = SubSeq(q, k + 2, Len(q))
<1> DEFINE rest == SubSeq(q, k + 1, Len(q))
           next == SubSeq(q, k + 2, Len(q))
<1>1. k \in Nat /\ Len(q) \in Nat /\ k + 1 <= Len(q)
  OBVIOUS
<1>2. /\ rest \in Seq(S) /\ Len(rest) = Len(q) - k
      /\ \A i \in 1..Len(q) - k : rest[i] = q[k + i]
  BY <1>1
<1>3. /\ next \in Seq(S) /\ Len(next) = Len(q) - k - 1
      /\ \A i \in 1..Len(q) - k - 1 : next[i] = q[k + 1 + i]
  BY <1>1
<1> HIDE DEF rest, next
<1>4. rest # << >> /\ Head(rest) = q[k + 1]
  BY <1>1, <1>2
<1>5. Tail(rest) \in Seq(S) /\ Len(Tail(rest)) = Len(next)
  BY <1>1, <1>2, <1>3, <1>4
<1>6. \A i \in 1..Len(Tail(rest)) : Tail(rest)[i] = next[i]
  <2> SUFFICES ASSUME NEW i \in 1..Len(Tail(rest)) PROVE Tail(rest)[i] = next[i]
    OBVIOUS
  <2>1. Tail(rest)[i] = rest[i + 1] /\ i + 1 \in 1..Len(q) - k
    BY <1>1, <1>2, <1>3, <1>4, <1>5
  <2>2. rest[i + 1] = q[k + (i + 1)] /\ next[i] = q[k + 1 + i]
    BY <1>2, <1>3, <1>5, <2>1
  <2>3. k + (i + 1) = k + 1 + i
    BY <1>1
  <2> QED BY <2>1, <2>2, <2>3
<1>7. Tail(rest) = next
  BY <1>3, <1>5, <1>6, SeqEqual
<1> QED BY <1>4, <1>7 DEF rest, next

LEMMA WholeQueue ==
  ASSUME NEW S, NEW q \in Seq(S)
  PROVE  SubSeq(q, 1, Len(q)) = q
OBVIOUS

(* The device thread's steps. *)
LEMMA CommandMaps ==
  QueueInv /\ (Source!Command \/ Source!FindCommand) => ChannelStep
BY DEF Source!Command, Source!FindCommand, ChannelStep, accepted, wanted,
   Source!commandVars, Source!dataVars

LEMMA QueueMaps ==
  Source!PluginConstants /\ QueueInv /\ Source!QueueCommand => ChannelStep
<1> SUFFICES ASSUME Source!PluginConstants, QueueInv, Source!QueueCommand
             PROVE ChannelStep
  OBVIOUS
<1>1. /\ found # None /\ commandMutex = None /\ drained' = drained
      /\ commandQueue' = Append(commandQueue, found)
      /\ UNCHANGED <<executed, dataQueue, toWrite, written, callbackPc>>
  BY DEF Source!QueueCommand, Source!dataVars
<1>2. commandQueue \in Seq(CommandRefs) /\ found \in CommandRefs /\ drained = 0
  BY <1>1, NotDraining DEF QueueInv, QueueTypes
<1>3. commandQueue' \in Seq(CommandRefs)
  BY <1>1, <1>2
<1>4. accepted = commandQueue /\ accepted' = commandQueue'
  BY <1>1, <1>2, <1>3, WholeQueue DEF accepted
<1>5. accepted' = Append(accepted, found) /\ UNCHANGED <<executed, wanted, written>>
  BY <1>1, <1>4 DEF wanted
<1>6. Source!Channel!Accept(found)
  BY <1>5 DEF Source!Channel!Accept, accepted, wanted
<1> QED BY <1>2, <1>6 DEF ChannelStep, Source!Channel!Next

LEMMA SetMaps ==
  Source!PluginConstants /\ QueueInv /\ Source!SetData => ChannelStep
<1> SUFFICES ASSUME Source!PluginConstants, QueueInv, Source!SetData
             PROVE ChannelStep
  OBVIOUS
<1>1. PICK s : s = Head(script)
  OBVIOUS
<1>2. /\ dataQueue' = [m \in DOMAIN dataQueue \cup {s.ref} |->
                         IF m \in DOMAIN dataQueue THEN dataQueue[m] ELSE s.value]
      /\ script # << >> /\ s.kind = "set" /\ dataMutex = None
      /\ UNCHANGED <<commandQueue, drained, executed, toWrite, written, callbackPc>>
  BY <1>1 DEF Source!SetData, Source!commandVars
<1>3. script \in Seq(Source!Steps) /\ dataQueue = [n \in DOMAIN dataQueue |-> dataQueue[n]]
  BY DEF QueueInv, QueueTypes
<1>4. s.ref \in Names /\ s.value \in Values
  BY <1>1, <1>2, <1>3, HeadAndTail, StepKinds
<1>5. wanted = dataQueue /\ wanted' = dataQueue'
  BY <1>2, NotDraining DEF wanted
<1>6. UNCHANGED <<accepted, executed, written>>
  BY <1>2 DEF accepted
<1>7. CASE s.ref \in DOMAIN dataQueue
  <2>1. dataQueue' = [m \in DOMAIN dataQueue |-> dataQueue[m]]
    BY <1>2, <1>7
  <2> QED BY <1>3, <1>5, <1>6, <2>1 DEF ChannelStep
<1>8. CASE s.ref \notin DOMAIN dataQueue
  <2>1. dataQueue' = [m \in DOMAIN dataQueue \cup {s.ref} |->
                        IF m = s.ref THEN s.value ELSE dataQueue[m]]
    BY <1>2, <1>8
  <2>2. s.ref \notin DOMAIN wanted /\ wanted' = Source!Channel!With(wanted, s.ref, s.value)
    BY <1>5, <1>8, <2>1 DEF Source!Channel!With
  <2>3. Source!Channel!Request(s.ref, s.value)
    BY <1>6, <2>2 DEF Source!Channel!Request, accepted, wanted
  <2> QED BY <1>4, <2>3 DEF ChannelStep, Source!Channel!Next
<1> QED BY <1>7, <1>8

(* The callback's. *)
LEMMA ExecuteMaps == QueueInv /\ Source!ExecuteCommand => ChannelStep
<1> SUFFICES ASSUME QueueInv, Source!ExecuteCommand PROVE ChannelStep
  OBVIOUS
<1>1. /\ drained < Len(commandQueue) /\ drained' = drained + 1
      /\ executed' = Append(executed, commandQueue[drained + 1])
      /\ UNCHANGED <<commandQueue, dataQueue, toWrite, written, callbackPc>>
  BY DEF Source!ExecuteCommand, Source!dataVars
<1>2. commandQueue \in Seq(CommandRefs) /\ drained \in 0..Len(commandQueue) - 1
  BY <1>1 DEF QueueInv, QueueTypes
<1>3. /\ accepted # << >> /\ Head(accepted) = commandQueue[drained + 1]
      /\ Tail(accepted) = SubSeq(commandQueue, drained + 2, Len(commandQueue))
  BY <1>2, RestOfQueue DEF accepted
<1>4. accepted' = SubSeq(commandQueue, drained + 2, Len(commandQueue))
  <2>1. drained' + 1 = drained + 2
    BY <1>1, <1>2
  <2> QED BY <1>1, <2>1 DEF accepted
<1>5. Source!Channel!Execute
  BY <1>1, <1>3, <1>4 DEF Source!Channel!Execute, accepted, wanted
<1> QED BY <1>5 DEF ChannelStep, Source!Channel!Next

LEMMA ClearMaps == QueueInv /\ Source!ClearCommands => ChannelStep
<1> SUFFICES ASSUME QueueInv, Source!ClearCommands PROVE ChannelStep
  OBVIOUS
<1>1. /\ drained = Len(commandQueue) /\ drained' = 0 /\ commandQueue' = << >>
      /\ callbackPc = "execute" /\ callbackPc' = "values"
      /\ UNCHANGED <<executed, dataQueue, toWrite, written>>
  BY DEF Source!ClearCommands, Source!dataVars, Source!At
<1>2. commandQueue \in Seq(CommandRefs)
  BY DEF QueueInv, QueueTypes
<1>3. accepted = << >> /\ accepted' = << >>
  BY <1>1, <1>2 DEF accepted
<1> QED BY <1>1, <1>3 DEF ChannelStep, wanted

LEMMA WriteMaps == QueueInv /\ Source!WriteValue => ChannelStep
<1> SUFFICES ASSUME QueueInv, Source!WriteValue PROVE ChannelStep
  OBVIOUS
<1>1. PICK n \in toWrite :
        /\ toWrite' = toWrite \ {n}
        /\ written' = IF n \notin Writable THEN written
                      ELSE [m \in DOMAIN written \cup {n} |->
                              IF m = n THEN dataQueue[n] ELSE written[m]]
  BY DEF Source!WriteValue
<1>2. callbackPc = "write" /\ UNCHANGED <<commandQueue, drained, executed,
                                          dataQueue, callbackPc>>
  BY DEF Source!WriteValue, Source!commandVars
<1>3. /\ wanted = [m \in toWrite |-> dataQueue[m]]
      /\ wanted' = [m \in toWrite \ {n} |-> dataQueue[m]]
  BY <1>1, <1>2 DEF wanted
<1>4. n \in DOMAIN wanted /\ wanted[n] = dataQueue[n] /\ n \in Names
  BY <1>1, <1>3 DEF QueueInv, QueueTypes
<1>5. wanted' = Source!Channel!Without(wanted, n)
  BY <1>3 DEF Source!Channel!Without
<1>6. written' = IF n \in Writable THEN Source!Channel!With(written, n, wanted[n]) ELSE written
  BY <1>1, <1>4 DEF Source!Channel!With
<1>7. Source!Channel!Write(n)
  BY <1>2, <1>4, <1>5, <1>6 DEF Source!Channel!Write, accepted, wanted
<1> QED BY <1>4, <1>7 DEF ChannelStep, Source!Channel!Next

LEMMA ValuesMap ==
  QueueInv /\ (Source!LockValues \/ Source!ClearValues) => ChannelStep
<1> SUFFICES ASSUME QueueInv, Source!LockValues \/ Source!ClearValues
             PROVE ChannelStep
  OBVIOUS
<1>1. UNCHANGED <<accepted, executed, written>>
  BY DEF Source!LockValues, Source!ClearValues, accepted, Source!commandVars
<1>2. wanted' = wanted
  <2>1. CASE Source!LockValues
    <3>1. /\ wanted = dataQueue
          /\ wanted' = [n \in DOMAIN dataQueue |-> dataQueue[n]]
      BY <2>1 DEF Source!LockValues, Source!At, wanted
    <3> QED BY <3>1 DEF QueueInv, QueueTypes
  <2>2. CASE Source!ClearValues
    <3>1. wanted = [n \in {} |-> dataQueue[n]] /\ wanted' = << >>
      BY <2>2 DEF Source!ClearValues, Source!At, wanted
    <3>2. [n \in {} |-> dataQueue[n]] = << >>
      OBVIOUS
    <3> QED BY <3>1, <3>2
  <2> QED BY <2>1, <2>2
<1> QED BY <1>1, <1>2 DEF ChannelStep

LEMMA OthersMap ==
  ASSUME QueueInv,
         \/ Source!CheckReload \/ Source!Reloaded \/ Source!LockCommands
         \/ Source!Register \/ UNCHANGED Source!vars
  PROVE  ChannelStep
<1>1. /\ UNCHANGED <<commandQueue, drained, executed, dataQueue, toWrite, written>>
      /\ callbackPc = "write" <=> callbackPc' = "write"
  BY DEF Source!CheckReload, Source!Reloaded, Source!LockCommands, Source!Register,
     Source!vars, Source!At,
         Source!loadVars, Source!commandVars, Source!dataVars, Source!deviceVars
<1> QED BY <1>1 DEF ChannelStep, accepted, wanted

-----------------------------------------------------------------------------
(* The data source takes no part in a step of the connector.                *)
LEMMA StepsOfDataSource ==
  ASSUME [MCNext]_everything
  PROVE  [Source!Next]_(Source!vars)
<1>1. CASE UNCHANGED dataSourceVars
  BY <1>1 DEF dataSourceVars, Source!vars, Source!loadVars,
              Source!commandVars, Source!dataVars, Source!deviceVars
<1>2. CASE UNCHANGED everything
  BY <1>1, <1>2 DEF everything
<1>3. CASE ConnectorNext
  BY <1>1, <1>3 DEF ConnectorNext, Connector
<1>4. CASE DataSourceNext
  BY <1>4 DEF DataSourceNext, OfSource
<1> QED BY <1>2, <1>3, <1>4 DEF MCNext

(* The inductive invariant holds in every reachable state. *)
THEOREM Invariance == MCSpec => []QueueInv
<1>1. MCInit => QueueInv
  BY PluginAssumption, InvInit DEF MCInit
<1>2. QueueInv /\ [MCNext]_everything => QueueInv'
  BY PluginAssumption, StepsOfDataSource, InvStep
<1> QED BY <1>1, <1>2, PTL DEF MCSpec

(* The queues of the data source implement CommandChannel: commands are     *)
(* executed once each and in order, and of the values asked for one data    *)
(* ref the first is written, for any commands, data refs and definitions.   *)
(* This is ServesInOrder but for the channel's fairness.                    *)
THEOREM QueuesImplementChannel ==
  MCSpec => Source!Channel!Init
              /\ [][Source!Channel!Next]_(Source!Channel!vars)
<1>1. MCInit => Source!Channel!Init
  BY DEF MCInit, Source!Init, Source!Channel!Init
<1>2. QueueInv /\ [MCNext]_everything
        => [Source!Channel!Next]_(Source!Channel!vars)
  <2>1. QueueInv /\ [Source!Next]_(Source!vars) => ChannelStep
    BY PluginAssumption, CommandMaps, QueueMaps, SetMaps, ExecuteMaps, ClearMaps,
       WriteMaps, ValuesMap, OthersMap
       DEF Source!Next, Source!DeviceThread, Source!UpdateCallback
  <2> QED BY <2>1, StepsOfDataSource
          DEF ChannelStep, Source!Channel!vars, accepted, wanted
<1> QED BY <1>1, <1>2, Invariance, PTL DEF MCSpec

(* updateCallback() does nothing for a device before it has loaded the      *)
(* aircraft's mapping.                                                      *)
THEOREM NothingEarly == MCSpec => NothingBeforeReload
<1>1. QueueInv /\ [MCNext]_everything =>
        [executed' # executed \/ written' # written => mapping = "loaded"]_(Source!vars)
  <2> SUFFICES ASSUME QueueInv, Source!Next,
                      executed' # executed \/ written' # written
               PROVE  mapping = "loaded"
    BY StepsOfDataSource DEF Source!vars, Source!commandVars, Source!dataVars
  <2>1. CASE Source!ExecuteCommand
    BY <2>1 DEF Source!ExecuteCommand, QueueInv, QueueTypes, LoadInv
  <2>2. CASE Source!WriteValue
    BY <2>2 DEF Source!WriteValue, QueueInv, QueueTypes, LoadInv
  <2>3. CASE ~Source!ExecuteCommand /\ ~Source!WriteValue
    BY <2>3 DEF Source!Next, Source!DeviceThread, Source!UpdateCallback,
         Source!Command, Source!FindCommand, Source!QueueCommand,
         Source!SetData, Source!CheckReload, Source!Reloaded,
         Source!LockCommands, Source!ClearCommands, Source!LockValues,
         Source!ClearValues, Source!Register, Source!commandVars,
         Source!dataVars
  <2> QED BY <2>1, <2>2, <2>3
<1> QED BY <1>1, Invariance, PTL
        DEF MCSpec, NothingBeforeReload, Source!NothingBeforeReload
=============================================================================
