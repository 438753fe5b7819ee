--------------------------- MODULE AircraftMapping ---------------------------
(***************************************************************************)
(* AircraftMapping: which data ref of the simulator stands behind each UFC  *)
(* name, and XPlaneDataSource, which streams the data refs by number.       *)
(*                                                                          *)
(* Loading clears the definitions, reads defaults.yaml and then the first   *)
(* aircraft file that matches.  Every definition is numbered as it is       *)
(* added, the stream is requested by that number, and a received value is   *)
(* stored under the name of the definition at that position.                *)
(*                                                                          *)
(* A definition says how a value is made (as it is, compared, negated, or a *)
(* static value) and from which data ref.  An entry written as a text says  *)
(* both; one written as a map, with a script, only says which data ref:     *)
(* when it overrides a definition, `how' stays what it was.                 *)
(*                                                                          *)
(* A definition is shared by m_dataRefs and m_dataRefsById, so byId holds   *)
(* positions.                                                               *)
(***************************************************************************)
EXTENDS Naturals, Sequences

CONSTANTS
  Ids,       \* UFC names
  Hows,      \* ways to make a value
  Static,    \* the static values among them
  AsIs,      \* the one among them that passes the value on
  Refs,      \* data refs
  NullRefs,  \* the empty and "null" data refs among them
  Contents,  \* what a definition file may hold
  MaxFiles,  \* bound: aircraft files in the directory
  None

Mappings == [how : Hows, ref : Refs]

(* An entry is a definition in either form, one that cannot be read, or a   *)
(* command.                                                                 *)
Entries == [kind : {"text", "command"}, id : Ids, mapping : Mappings]
             \cup [kind : {"map", "broken"}, id : Ids, ref : Refs]

ASSUME MappingAssumption ==
  /\ Contents \subseteq Seq(Entries)
  /\ Static \subseteq Hows /\ AsIs \in Hows \ Static
  /\ NullRefs \subseteq Refs /\ NullRefs # {}
  /\ None \notin Mappings
  /\ MaxFiles \in Nat

VARIABLES
  dataRefs,   \* m_dataRefs
  byId,       \* m_dataRefsById: the position of each name's definition, or 0
  commands,   \* m_commands: what each command maps to, or None
  todo,       \* the entries of the current file still to be read
  phase,      \* where loading and streaming are
  files,      \* how many aircraft files the directory still holds
  requested,  \* what is streamed: numbers and the mappings behind them
  state,      \* the mapping whose value each name of the aircraft state holds
  history     \* the entries read, in order (no variable of the program)

defVars == <<dataRefs, byId, commands>>
vars == <<defVars, todo, phase, files, requested, state, history>>

Init ==
  /\ dataRefs = << >> /\ byId = [i \in Ids |-> 0]
  /\ commands = [i \in Ids |-> None]
  /\ todo = << >> /\ phase = "empty" /\ files \in 0..MaxFiles
  /\ requested = {} /\ state = [i \in Ids |-> None]
  /\ history = << >>

-----------------------------------------------------------------------------
(* loadDefinitionsForAircraft()                                             *)

(* loadDefaults(): a file that cannot be loaded leaves no definitions. *)
LoadDefaults ==
  /\ phase = "empty" /\ phase' = "defaults"
  /\ dataRefs' = << >> /\ byId' = [i \in Ids |-> 0]
  /\ commands' = [i \in Ids |-> None]
  /\ todo' \in Contents \cup {<< >>}
  /\ history' = << >>
  /\ UNCHANGED <<files, requested, state>>

Reading == phase \in {"defaults", "aircraft"} /\ todo # << >>

(* The bug of numbering from zero. *)
NextIdx_Zero == Len(dataRefs)

NextIdx == Len(dataRefs) + 1

(* The bug of adding a second definition for a name already defined. *)
Define_Again(id, mapping) ==
  /\ dataRefs' = Append(dataRefs, [id |-> id, idx |-> NextIdx, mapping |-> mapping])
  /\ byId' = [byId EXCEPT ![id] = Len(dataRefs) + 1]

Define(id, mapping) ==
  \/ /\ byId[id] = 0
     /\ dataRefs' = Append(dataRefs, [id |-> id, idx |-> NextIdx, mapping |-> mapping])
     /\ byId' = [byId EXCEPT ![id] = Len(dataRefs) + 1]
  \/ /\ byId[id] # 0
     /\ dataRefs' = [dataRefs EXCEPT ![byId[id]].mapping = mapping]
     /\ UNCHANGED byId

(* A new definition passes the value of no data ref on. *)
MappingOf(id) ==
  IF byId[id] # 0 THEN dataRefs[byId[id]].mapping
  ELSE [how |-> AsIs, ref |-> CHOOSE r \in NullRefs : TRUE]

(* addDataDefinition() *)
AddDataDefinition ==
  /\ Reading
  /\ LET e == Head(todo)
     IN  /\ \/ e.kind = "text" /\ Define(e.id, e.mapping)
            \/ e.kind = "map" /\ Define(e.id, [MappingOf(e.id) EXCEPT !.ref = e.ref])
         /\ history' = Append(history, e)
  /\ todo' = Tail(todo)
  /\ UNCHANGED <<commands, phase, files, requested, state>>

(* A map without a data ref or a script throws, after its definition was    *)
(* added.                                                                   *)
AddThrows ==
  /\ Reading
  /\ Head(todo).kind = "broken"
  /\ Define(Head(todo).id, MappingOf(Head(todo).id))
  /\ phase' = "threw"
  /\ UNCHANGED <<commands, todo, files, requested, state, history>>

(* loadCommands() *)
LoadCommand ==
  /\ Reading
  /\ Head(todo).kind = "command"
  /\ commands' = [commands EXCEPT ![Head(todo).id] = Head(todo).mapping]
  /\ history' = Append(history, Head(todo))
  /\ todo' = Tail(todo)
  /\ UNCHANGED <<dataRefs, byId, phase, files, requested, state>>

(* The next file of the directory does not match, matches, or cannot be     *)
(* parsed, which throws.                                                    *)
NextFile ==
  /\ phase = "defaults" /\ todo = << >>
  /\ files > 0 /\ files' = files - 1
  /\ \/ UNCHANGED <<phase, todo>>
     \/ phase' = "aircraft" /\ todo' \in Contents
     \/ phase' = "threw" /\ UNCHANGED todo
  /\ UNCHANGED <<defVars, requested, state, history>>

Loaded ==
  /\ todo = << >>
  /\ phase = "aircraft" \/ (phase = "defaults" /\ files = 0)
  /\ phase' = "loaded"
  /\ UNCHANGED <<defVars, todo, files, requested, state, history>>

-----------------------------------------------------------------------------
(* XPlaneDataSource::update(): static values are stored at once, the others *)
(* requested under their number.                                            *)

Streamed ==
  {d \in {dataRefs[i] : i \in DOMAIN dataRefs} :
     d.mapping.how \notin Static /\ d.mapping.ref \notin NullRefs}

Update ==
  /\ phase = "loaded" /\ phase' = "streaming"
  /\ state' = [id \in Ids |->
       IF byId[id] # 0 /\ dataRefs[byId[id]].mapping.how \in Static
       THEN dataRefs[byId[id]].mapping ELSE state[id]]
  /\ requested' = {[idx |-> d.idx, mapping |-> d.mapping] : d \in Streamed}
  /\ UNCHANGED <<defVars, todo, files, history>>

(* update(values): the simulator answers a number with the value of what    *)
(* was requested under it.  A number below 1 is skipped.                    *)
UpdateValues ==
  /\ phase = "streaming"
  /\ \E r \in requested :
       /\ r.idx >= 1
       /\ state' = [state EXCEPT ![dataRefs[r.idx].id] = r.mapping]
  /\ UNCHANGED <<defVars, todo, phase, files, requested, history>>

Next ==
  \/ LoadDefaults \/ AddDataDefinition \/ AddThrows \/ LoadCommand \/ NextFile
  \/ Loaded \/ Update \/ UpdateValues

Spec == Init /\ [][Next]_vars

-----------------------------------------------------------------------------
Definitions == [id : Ids, idx : Nat \ {0}, mapping : Mappings]

(* Every variable stays in its domain. *)
TypeOK ==
  /\ dataRefs \in Seq(Definitions)
  /\ byId \in [Ids -> 0..Len(dataRefs)]
  /\ commands \in [Ids -> Mappings \cup {None}]
  /\ todo \in Seq(Entries)
  /\ phase \in {"empty", "defaults", "aircraft", "threw", "loaded", "streaming"}
  /\ files \in 0..MaxFiles
  /\ requested \subseteq [idx : 1..Len(dataRefs), mapping : Mappings]
  /\ state \in [Ids -> Mappings \cup {None}]
  /\ history \in Seq(Entries)

(* The list and the map hold the same definitions: one for each name, at    *)
(* the position that is its number.                                         *)
NumbersArePositions ==
  /\ \A i \in DOMAIN dataRefs : dataRefs[i].idx = i /\ byId[dataRefs[i].id] = i
  /\ \A id \in Ids : byId[id] # 0 => dataRefs[byId[id]].id = id

(* The last entry read for a name, of the given kinds. *)
IsLast(i, kinds, id) ==
  /\ i \in DOMAIN history
  /\ history[i].kind \in kinds /\ history[i].id = id
  /\ \A j \in DOMAIN history :
       history[j].kind \in kinds /\ history[j].id = id => j <= i

(* Each value of the aircraft state comes from the data ref that the last   *)
(* entry for its name asked for, in the defaults or in the aircraft's file, *)
(* and is made the way the last text entry for it said.                     *)
ValuesReachTheirNames ==
  \A id \in Ids : state[id] # None =>
    /\ \E i \in DOMAIN history :
         /\ IsLast(i, {"text", "map"}, id)
         /\ history[i].kind = "text" => state[id] = history[i].mapping
         /\ history[i].kind = "map"  => state[id].ref = history[i].ref
    /\ \A i \in DOMAIN history :
         IsLast(i, {"text"}, id) => state[id].how = history[i].mapping.how
=============================================================================
