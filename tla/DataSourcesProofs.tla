------------------------- MODULE DataSourcesProofs -------------------------
(***************************************************************************)
(* What is proved of the parts of a data source, for any values of the      *)
(* constants: of the aircraft mapping by itself, and of each part as a      *)
(* behaviour of MCDataSources drives it.                                    *)
(***************************************************************************)
EXTENDS MCDataSources, SequenceTheorems, TLAPS

-----------------------------------------------------------------------------
(* The aircraft mapping: the inductive invariant.                           *)

(* A mapping is what the entries read for a name ask for.                   *)
Meets(id, mapping) ==
  /\ \E i \in DOMAIN history :
       /\ IsLast(i, {"text", "map"}, id)
       /\ history[i].kind = "text" => mapping = history[i].mapping
       /\ history[i].kind = "map"  => mapping.ref = history[i].ref
  /\ \A i \in DOMAIN history :
       IsLast(i, {"text"}, id) => mapping.how = history[i].mapping.how

(* While no entry has thrown, the definitions are those of the entries.     *)
DefinedInv ==
  phase # "threw" =>
    /\ \A i \in DOMAIN dataRefs : Meets(dataRefs[i].id, dataRefs[i].mapping)
    /\ \A i \in DOMAIN history :
         history[i].kind \in {"text", "map"} => byId[history[i].id] # 0

(* What is streamed is what the definitions say, and what is in the state   *)
(* is what the entries asked for.                                           *)
StreamInv ==
  /\ phase # "streaming" => requested = {} /\ \A id \in Ids : state[id] = None
  /\ \A r \in requested : /\ r.idx \in DOMAIN dataRefs
                          /\ r.mapping = dataRefs[r.idx].mapping
  /\ \A id \in Ids : state[id] # None => Meets(id, state[id])

IInv == TypeOK /\ NumbersArePositions /\ DefinedInv /\ StreamInv

-----------------------------------------------------------------------------
(* The last entry for a name, when one more entry has been read.            *)
LEMMA LastOfOthers ==
  ASSUME history \in Seq(Entries), NEW e \in Entries,
         history' = Append(history, e),
         NEW kinds, NEW id, e.kind \notin kinds \/ e.id # id
  PROVE  \A i : IsLast(i, kinds, id)' <=> IsLast(i, kinds, id)
<1>1. /\ Len(history') = Len(history) + 1 /\ history'[Len(history) + 1] = e
      /\ \A i \in 1..Len(history) : history'[i] = history[i]
      /\ Len(history) \in Nat
  OBVIOUS
<1>2. DOMAIN history = 1..Len(history) /\ DOMAIN history' = 1..(Len(history) + 1)
  BY <1>1
<1> QED BY <1>1, <1>2 DEF IsLast

(* An entry for another name, or a command, changes no mapping's meaning.   *)
LEMMA MeetsKept ==
  ASSUME history \in Seq(Entries), NEW e \in Entries,
         history' = Append(history, e),
         NEW id, e.kind \notin {"text", "map"} \/ e.id # id,
         NEW mapping, Meets(id, mapping)
  PROVE  Meets(id, mapping)'
<1>1. /\ \A i : IsLast(i, {"text", "map"}, id)' <=> IsLast(i, {"text", "map"}, id)
      /\ \A i : IsLast(i, {"text"}, id)' <=> IsLast(i, {"text"}, id)
  BY LastOfOthers
<1>2. \A i \in DOMAIN history : i \in DOMAIN history' /\ history'[i] = history[i]
  OBVIOUS
<1>3. \A i : IsLast(i, {"text"}, id) => i \in DOMAIN history
  BY DEF IsLast
<1> QED BY <1>1, <1>2, <1>3 DEF Meets

-----------------------------------------------------------------------------
(* Adding or changing a definition.                                         *)
LEMMA DefineStep ==
  ASSUME TypeOK, NumbersArePositions, NEW id \in Ids, NEW mapping \in Mappings,
         Define(id, mapping)
  PROVE  /\ dataRefs' \in Seq(Definitions) /\ byId' \in [Ids -> 0..Len(dataRefs')]
         /\ Len(dataRefs) <= Len(dataRefs')
         /\ NumbersArePositions'
         /\ \A i \in DOMAIN dataRefs' :
              \/ dataRefs'[i].id = id /\ dataRefs'[i].mapping = mapping
              \/ /\ i \in DOMAIN dataRefs /\ dataRefs'[i] = dataRefs[i]
                 /\ dataRefs[i].id # id
         /\ byId'[id] # 0 /\ \A j \in Ids : byId[j] # 0 => byId'[j] # 0
<1> USE DEF TypeOK, Definitions
<1>0. /\ dataRefs \in Seq(Definitions) /\ byId \in [Ids -> 0..Len(dataRefs)]
      /\ Len(dataRefs) \in Nat /\ DOMAIN dataRefs = 1..Len(dataRefs)
  OBVIOUS
<1>elt. \A i \in DOMAIN dataRefs : dataRefs[i] \in Definitions /\ dataRefs[i].id \in Ids
  <2>1. \A i \in DOMAIN dataRefs : dataRefs[i] \in Definitions
    BY <1>0, ElementOfSeq
  <2> QED BY <2>1
<1>1. CASE byId[id] = 0
  <2> DEFINE n == Len(dataRefs) + 1
             d == [id |-> id, idx |-> n, mapping |-> mapping]
  <2>1. dataRefs' = Append(dataRefs, d) /\ byId' = [byId EXCEPT ![id] = n]
    BY <1>1 DEF Define, NextIdx
  <2>2. d \in Definitions /\ d.id = id /\ d.idx = n /\ d.mapping = mapping
    BY <1>0
  <2> HIDE DEF d
  <2>3. /\ dataRefs' \in Seq(Definitions) /\ Len(dataRefs') = n
        /\ DOMAIN dataRefs' = 1..n
        /\ dataRefs'[n] = d /\ \A i \in DOMAIN dataRefs : dataRefs'[i] = dataRefs[i]
    BY <1>0, <2>1, <2>2
  <2>4. byId' \in [Ids -> 0..n] /\ byId'[id] = n
        /\ \A j \in Ids : j # id => byId'[j] = byId[j]
    BY <1>0, <2>1
  <2>5. \A i \in DOMAIN dataRefs : dataRefs[i].id \in Ids /\ dataRefs[i].id # id
    BY <1>0, <1>elt, <1>1 DEF NumbersArePositions
  <2>6. \A i \in DOMAIN dataRefs' : i \in DOMAIN dataRefs \/ i = n
    BY <1>0, <2>3
  <2>7. NumbersArePositions'
    <3>1. ASSUME NEW i \in DOMAIN dataRefs'
          PROVE  dataRefs'[i].idx = i /\ byId'[dataRefs'[i].id] = i
      <4>1. CASE i = Len(dataRefs) + 1
        BY <2>2, <2>3, <2>4, <4>1
      <4>2. CASE i \in DOMAIN dataRefs
        BY <1>elt, <2>3, <2>4, <2>5, <4>2 DEF NumbersArePositions
      <4> QED BY <2>6, <4>1, <4>2
    <3>2. ASSUME NEW j \in Ids, byId'[j] # 0 PROVE dataRefs'[byId'[j]].id = j
      <4>1. CASE j = id
        BY <2>2, <2>3, <2>4, <4>1
      <4>2. CASE j # id
        <5>1. byId'[j] = byId[j] /\ byId[j] \in DOMAIN dataRefs
          BY <1>0, <2>4, <3>2, <4>2
        <5> QED BY <2>3, <3>2, <5>1 DEF NumbersArePositions
      <4> QED BY <4>1, <4>2
    <3> QED BY <3>1, <3>2 DEF NumbersArePositions
  <2>8. n # 0 /\ Len(dataRefs) <= n
    BY <1>0
  <2> QED BY <2>2, <2>3, <2>4, <2>5, <2>6, <2>7, <2>8
<1>2. CASE byId[id] # 0
  <2> DEFINE p == byId[id]
  <2>1. dataRefs' = [dataRefs EXCEPT ![p].mapping = mapping] /\ byId' = byId
    BY <1>2 DEF Define
  <2>2. p \in DOMAIN dataRefs /\ dataRefs[p].id = id /\ dataRefs[p] \in Definitions
    <3>1. p \in 1..Len(dataRefs)
      BY <1>0, <1>2
    <3> QED BY <1>0, <1>elt, <1>2, <3>1 DEF NumbersArePositions
  <2>3. [dataRefs[p] EXCEPT !.mapping = mapping] \in Definitions
    BY <2>2
  <2>4. /\ dataRefs' \in Seq(Definitions) /\ Len(dataRefs') = Len(dataRefs)
        /\ DOMAIN dataRefs' = DOMAIN dataRefs
        /\ dataRefs'[p] = [dataRefs[p] EXCEPT !.mapping = mapping]
        /\ \A i \in DOMAIN dataRefs : i # p => dataRefs'[i] = dataRefs[i]
    BY <1>0, <2>1, <2>2, <2>3, ExceptSeq
  <2>5. /\ dataRefs'[p].id = id /\ dataRefs'[p].idx = dataRefs[p].idx
        /\ dataRefs'[p].mapping = mapping
    BY <2>2, <2>4
  <2>6. \A i \in DOMAIN dataRefs : i # p => dataRefs[i].id # id
    BY <2>2 DEF NumbersArePositions
  <2>7. \A i \in DOMAIN dataRefs :
          dataRefs'[i].id = dataRefs[i].id /\ dataRefs'[i].idx = dataRefs[i].idx
    BY <2>2, <2>4, <2>5
  <2>8. NumbersArePositions'
    BY <2>1, <2>4, <2>7 DEF NumbersArePositions
  <2> QED BY <1>0, <1>2, <2>1, <2>4, <2>5, <2>6, <2>8
<1> QED BY <1>1, <1>2

LEMMA MappingOfType ==
  ASSUME TypeOK, NumbersArePositions, NEW id \in Ids
  PROVE  MappingOf(id) \in Mappings
<1>1. CASE byId[id] # 0
  <2>1. byId[id] \in DOMAIN dataRefs
    BY <1>1 DEF TypeOK
  <2>2. dataRefs[byId[id]] \in Definitions
    BY <2>1, ElementOfSeq DEF TypeOK
  <2> QED BY <1>1, <2>2 DEF MappingOf, Definitions
<1>2. CASE byId[id] = 0
  <2>1. (CHOOSE r \in NullRefs : TRUE) \in Refs /\ AsIs \in Hows
    BY MappingAssumption
  <2> QED BY <1>2, <2>1 DEF MappingOf, Mappings
<1> QED BY <1>1, <1>2

-----------------------------------------------------------------------------
(* Reading an entry that defines a name as the entry asks for.              *)
LEMMA AddStep == IInv /\ AddDataDefinition => IInv'
<1> SUFFICES ASSUME IInv, AddDataDefinition PROVE IInv'
  OBVIOUS
<1>typed. TypeOK /\ NumbersArePositions
  BY DEF IInv
<1>1. PICK e : e = Head(todo)
  OBVIOUS
<1>2. /\ Reading /\ e.kind \in {"text", "map"}
      /\ history' = Append(history, e) /\ todo' = Tail(todo)
      /\ UNCHANGED <<commands, phase, files, requested, state>>
  BY <1>1 DEF AddDataDefinition
<1>3. e \in Entries /\ todo' \in Seq(Entries)
  BY <1>1, <1>2, <1>typed DEF TypeOK, Reading
<1>4. /\ e.id \in Ids
      /\ e.kind = "text" => e.mapping \in Mappings
      /\ e.kind = "map" => e.ref \in Refs
  BY <1>2, <1>3 DEF Entries
<1>5. PICK m \in Mappings : /\ Define(e.id, m)
                            /\ e.kind = "text" => m = e.mapping
                            /\ e.kind = "map" => /\ m.ref = e.ref
                                                 /\ m.how = MappingOf(e.id).how
  <2>1. CASE e.kind = "text"
    BY <1>1, <1>4, <2>1 DEF AddDataDefinition
  <2>2. CASE e.kind = "map"
    <3>1. MappingOf(e.id) \in [how : Hows, ref : Refs]
      BY <1>4, <1>typed, MappingOfType DEF Mappings
    <3>2. Define(e.id, [MappingOf(e.id) EXCEPT !.ref = e.ref])
      BY <1>1, <2>2 DEF AddDataDefinition
    <3> QED BY <1>4, <2>2, <3>1, <3>2 DEF Mappings
  <2> QED BY <1>2, <2>1, <2>2
<1>6. /\ history \in Seq(Entries) /\ history' \in Seq(Entries)
      /\ Len(history) \in Nat
  BY <1>2, <1>3, <1>typed DEF TypeOK
<1>7. phase \in {"defaults", "aircraft"} /\ requested = {} /\ requested' = {}
      /\ \A id \in Ids : state'[id] = None
  BY <1>2 DEF IInv, StreamInv, Reading
<1>def. /\ dataRefs' \in Seq(Definitions) /\ byId' \in [Ids -> 0..Len(dataRefs')]
        /\ NumbersArePositions'
        /\ \A i \in DOMAIN dataRefs' :
             \/ dataRefs'[i].id = e.id /\ dataRefs'[i].mapping = m
             \/ /\ i \in DOMAIN dataRefs /\ dataRefs'[i] = dataRefs[i]
                /\ dataRefs[i].id # e.id
        /\ byId'[e.id] # 0 /\ \A j \in Ids : byId[j] # 0 => byId'[j] # 0
  BY <1>4, <1>5, <1>typed, DefineStep
<1>8. TypeOK'
  BY <1>2, <1>3, <1>6, <1>7, <1>def, <1>typed DEF TypeOK
<1>9. Meets(e.id, m)'
  <2>0. PICK n \in Nat : n = Len(history) + 1
    BY <1>6
  <2>1. n \in DOMAIN history' /\ history'[n] = e
    BY <1>2, <1>3, <1>6, <2>0
  <2>a. DOMAIN history' = 1..n /\ n \in Nat /\ e.kind \in {"text", "map"}
    BY <1>2, <1>3, <1>6, <2>0
  <2>2. IsLast(n, {"text", "map"}, e.id)'
    BY <2>1, <2>a DEF IsLast
  <2>3. /\ history'[n].kind = "text" => m = history'[n].mapping
        /\ history'[n].kind = "map" => m.ref = history'[n].ref
    BY <1>5, <2>1
  <2>4. ASSUME NEW i \in DOMAIN history', IsLast(i, {"text"}, e.id)'
        PROVE  m.how = history'[i].mapping.how
    <3>1. CASE e.kind = "text"
      <4>1. i = n
        BY <2>1, <2>4, <2>a, <3>1 DEF IsLast
      <4> QED BY <1>5, <2>1, <3>1, <4>1
    <3>2. CASE e.kind = "map"
      <4>1. IsLast(i, {"text"}, e.id)
        BY <1>2, <1>3, <1>6, <2>4, <3>2, LastOfOthers
      <4>2. /\ i \in DOMAIN history /\ history'[i] = history[i]
            /\ history[i].kind = "text" /\ history[i].id = e.id
        BY <1>2, <1>3, <1>6, <4>1 DEF IsLast
      <4>3. byId[e.id] # 0
        BY <1>7, <4>2 DEF IInv, DefinedInv
      <4>4. byId[e.id] \in DOMAIN dataRefs /\ dataRefs[byId[e.id]].id = e.id
        BY <1>4, <1>typed, <4>3 DEF TypeOK, NumbersArePositions
      <4>5. Meets(e.id, dataRefs[byId[e.id]].mapping)
        BY <1>7, <4>4 DEF IInv, DefinedInv
      <4>6. m.how = dataRefs[byId[e.id]].mapping.how
        BY <1>5, <3>2, <4>3 DEF MappingOf
      <4> QED BY <4>1, <4>2, <4>5, <4>6 DEF Meets
    <3> QED BY <1>2, <3>1, <3>2
  <2> QED BY <2>1, <2>2, <2>3, <2>4 DEF Meets
<1>10. DefinedInv'
  <2>1. ASSUME NEW i \in DOMAIN dataRefs', NEW id, NEW mapping,
               dataRefs'[i].id = id, dataRefs'[i].mapping = mapping
        PROVE  Meets(id, mapping)'
    <3>1. CASE id = e.id /\ mapping = m
      BY <1>9, <3>1
    <3>2. CASE i \in DOMAIN dataRefs /\ dataRefs'[i] = dataRefs[i] /\ id # e.id
      <4>1. Meets(id, mapping)
        BY <1>7, <2>1, <3>2 DEF IInv, DefinedInv
      <4> QED BY <1>2, <1>3, <1>6, <3>2, <4>1, MeetsKept
    <3> QED BY <1>def, <2>1, <3>1, <3>2
  <2>2. ASSUME NEW i \in DOMAIN history', history'[i].kind \in {"text", "map"}
        PROVE  byId'[history'[i].id] # 0
    <3>1. CASE i = Len(history) + 1
      BY <1>2, <1>3, <1>6, <1>def, <3>1
    <3>2. CASE i # Len(history) + 1
      <4>1. i \in DOMAIN history /\ history'[i] = history[i]
        BY <1>2, <1>3, <1>6, <3>2
      <4>2. history[i].id \in Ids
        BY <1>6, <4>1, ElementOfSeq DEF Entries
      <4> QED BY <1>7, <1>def, <2>2, <4>1, <4>2 DEF IInv, DefinedInv
    <3> QED BY <3>1, <3>2
  <2> QED BY <2>1, <2>2 DEF DefinedInv, Meets, IsLast
<1>11. StreamInv'
  BY <1>2, <1>7 DEF StreamInv
<1> QED BY <1>8, <1>def, <1>10, <1>11 DEF IInv

(* A command, and a file's end, change nothing about the definitions.       *)
LEMMA CommandStep == IInv /\ LoadCommand => IInv'
<1> SUFFICES ASSUME IInv, LoadCommand PROVE IInv'
  OBVIOUS
<1>typed. TypeOK /\ NumbersArePositions
  BY DEF IInv
<1>1. PICK e : e = Head(todo)
  OBVIOUS
<1>2. /\ Reading /\ e.kind = "command"
      /\ commands' = [commands EXCEPT ![e.id] = e.mapping]
      /\ history' = Append(history, e) /\ todo' = Tail(todo)
      /\ UNCHANGED <<dataRefs, byId, phase, files, requested, state>>
  BY <1>1 DEF LoadCommand
<1>3. e \in Entries /\ todo' \in Seq(Entries)
  BY <1>1, <1>2, <1>typed DEF TypeOK, Reading
<1>4. e.id \in Ids /\ e.mapping \in Mappings
  BY <1>2, <1>3 DEF Entries
<1>5. history \in Seq(Entries) /\ history' \in Seq(Entries)
  BY <1>2, <1>3, <1>typed DEF TypeOK
<1>6. TypeOK' /\ NumbersArePositions'
  BY <1>2, <1>3, <1>4, <1>5, <1>typed DEF TypeOK, NumbersArePositions
<1>7. \A id, mapping : Meets(id, mapping) => Meets(id, mapping)'
  BY <1>2, <1>3, <1>5, MeetsKept
<1>8. DefinedInv'
  <2> SUFFICES ASSUME phase # "threw" PROVE DefinedInv'
    BY <1>2 DEF DefinedInv
  <2>1. ASSUME NEW i \in DOMAIN dataRefs', NEW id, NEW mapping,
               dataRefs'[i].id = id, dataRefs'[i].mapping = mapping
        PROVE  Meets(id, mapping)'
    <3>1. Meets(id, mapping)
      BY <1>2, <2>1 DEF IInv, DefinedInv
    <3> QED BY <1>7, <3>1
  <2>2. ASSUME NEW i \in DOMAIN history', history'[i].kind \in {"text", "map"}
        PROVE  byId'[history'[i].id] # 0
    <3>1. i \in DOMAIN history /\ history'[i] = history[i]
      BY <1>2, <1>3, <1>5, <2>2
    <3> QED BY <1>2, <2>2, <3>1 DEF IInv, DefinedInv
  <2> QED BY <2>1, <2>2 DEF DefinedInv, Meets, IsLast
<1>9. StreamInv'
  <2>1. phase # "streaming"
    BY <1>2 DEF Reading
  <2> QED BY <1>2, <2>1 DEF IInv, StreamInv
<1> QED BY <1>6, <1>8, <1>9 DEF IInv

(* Every step keeps the inductive invariant. *)
LEMMA InvStep == IInv /\ [Next]_vars => IInv'
<1> SUFFICES ASSUME IInv, [Next]_vars PROVE IInv'
  OBVIOUS
<1> USE MappingAssumption DEF defVars
<1>typed. TypeOK /\ NumbersArePositions
  BY DEF IInv
<1>1. CASE LoadDefaults
  <2>1. /\ dataRefs' = << >> /\ byId' = [i \in Ids |-> 0]
        /\ commands' = [i \in Ids |-> None] /\ history' = << >>
        /\ phase = "empty" /\ phase' = "defaults"
        /\ UNCHANGED <<files, requested, state>>
    BY <1>1 DEF LoadDefaults
  <2>2. todo' \in Seq(Entries)
    <3>1. todo' \in Contents \cup {<< >>}
      BY <1>1 DEF LoadDefaults
    <3>2. << >> \in Seq(Entries)
      OBVIOUS
    <3>3. Contents \subseteq Seq(Entries)
      BY MappingAssumption
    <3> QED BY <3>1, <3>2, <3>3, Zenon
  <2>3. requested = {} /\ \A id \in Ids : state[id] = None
    BY <2>1 DEF IInv, StreamInv
  <2>4. /\ dataRefs' \in Seq(Definitions) /\ Len(dataRefs') = 0
        /\ DOMAIN dataRefs' = {} /\ DOMAIN history' = {} /\ history' \in Seq(Entries)
    BY <2>1
  <2>5. TypeOK'
    BY <1>typed, <2>1, <2>2, <2>3, <2>4 DEF TypeOK
  <2>6. NumbersArePositions' /\ DefinedInv' /\ StreamInv'
    BY <2>1, <2>3, <2>4 DEF NumbersArePositions, DefinedInv, StreamInv
  <2> QED BY <2>5, <2>6 DEF IInv
<1>2. CASE AddDataDefinition
  BY <1>2, AddStep
<1>3. CASE AddThrows
  <2>1. PICK e : e = Head(todo)
    OBVIOUS
  <2>2. /\ Reading /\ Define(e.id, MappingOf(e.id)) /\ phase' = "threw"
        /\ UNCHANGED <<commands, todo, files, requested, state, history>>
    BY <1>3, <2>1 DEF AddThrows
  <2>3. e \in Entries
    BY <1>typed, <2>1, <2>2 DEF TypeOK, Reading
  <2>4. e.id \in Ids
    BY <2>3 DEF Entries
  <2>5. MappingOf(e.id) \in Mappings
    BY <1>typed, <2>4, MappingOfType
  <2>6. PICK m \in Mappings : m = MappingOf(e.id)
    BY <2>5
  <2>7. /\ dataRefs' \in Seq(Definitions) /\ byId' \in [Ids -> 0..Len(dataRefs')]
        /\ NumbersArePositions'
    BY <1>typed, <2>2, <2>4, <2>6, DefineStep
  <2>8. requested = {} /\ \A id \in Ids : state[id] = None
    BY <2>2 DEF IInv, StreamInv, Reading
  <2>9. TypeOK'
    BY <1>typed, <2>2, <2>7, <2>8 DEF TypeOK
  <2> QED BY <2>2, <2>7, <2>8, <2>9 DEF IInv, DefinedInv, StreamInv
<1>4. CASE LoadCommand
  BY <1>4, CommandStep
(* Steps that leave the definitions and what has been read alone.           *)
<1>same. ASSUME UNCHANGED <<dataRefs, byId, commands, history>>,
                phase = "threw" => phase' = "threw", TypeOK'
         PROVE  /\ NumbersArePositions' /\ DefinedInv'
                /\ \A id, m : Meets(id, m)' <=> Meets(id, m)
  BY <1>same DEF IInv, NumbersArePositions, DefinedInv, Meets, IsLast
<1>5. CASE NextFile \/ Loaded
  <2>1. /\ UNCHANGED <<dataRefs, byId, commands, history, requested, state>>
        /\ phase \in {"defaults", "aircraft"}
        /\ phase' \in {"defaults", "aircraft", "threw", "loaded"}
    BY <1>5 DEF NextFile, Loaded
  <2>2. todo' \in Seq(Entries) /\ files' \in 0..MaxFiles
    BY <1>5, <1>typed DEF NextFile, Loaded, TypeOK
  <2>3. requested = {} /\ \A id \in Ids : state[id] = None
    BY <2>1 DEF IInv, StreamInv
  <2>4. TypeOK'
    BY <1>typed, <2>1, <2>2 DEF TypeOK
  <2> QED BY <1>same, <2>1, <2>3, <2>4 DEF IInv, StreamInv
<1>6. CASE Update
  <2>1. /\ UNCHANGED <<dataRefs, byId, commands, todo, files, history>>
        /\ phase = "loaded" /\ phase' = "streaming"
        /\ requested' = {[idx |-> d.idx, mapping |-> d.mapping] : d \in Streamed}
    BY <1>6 DEF Update
  <2>2. \A i \in DOMAIN dataRefs : /\ dataRefs[i] \in Definitions
                                   /\ dataRefs[i].idx = i /\ i \in 1..Len(dataRefs)
                                   /\ Meets(dataRefs[i].id, dataRefs[i].mapping)
    BY <1>typed, <2>1, ElementOfSeq
       DEF TypeOK, NumbersArePositions, IInv, DefinedInv
  <2>3. ASSUME NEW r \in requested'
        PROVE  /\ r.idx \in DOMAIN dataRefs /\ r.mapping = dataRefs[r.idx].mapping
               /\ r \in [idx : 1..Len(dataRefs), mapping : Mappings]
    <3>1. PICK i \in DOMAIN dataRefs :
            r = [idx |-> dataRefs[i].idx, mapping |-> dataRefs[i].mapping]
      BY <2>1 DEF Streamed
    <3>2. dataRefs[i].idx = i /\ dataRefs[i].mapping \in Mappings /\ i \in 1..Len(dataRefs)
      BY <2>2 DEF Definitions
    <3> QED BY <3>1, <3>2
  <2>4. ASSUME NEW id \in Ids
        PROVE  \/ state'[id] = None
               \/ state'[id] \in Mappings /\ Meets(id, state'[id])
    <3>1. state[id] = None
      BY <2>1 DEF IInv, StreamInv
    <3>2. state'[id] = IF byId[id] # 0 /\ dataRefs[byId[id]].mapping.how \in Static
                       THEN dataRefs[byId[id]].mapping ELSE state[id]
      BY <1>6 DEF Update
    <3>3. CASE byId[id] # 0
      <4>1. byId[id] \in DOMAIN dataRefs /\ dataRefs[byId[id]].id = id
        BY <1>typed, <3>3 DEF TypeOK, NumbersArePositions
      <4>2. /\ Meets(id, dataRefs[byId[id]].mapping)
            /\ dataRefs[byId[id]].mapping \in Mappings
        BY <2>2, <4>1 DEF Definitions
      <4> QED BY <3>1, <3>2, <4>2
    <3>4. CASE byId[id] = 0
      BY <3>1, <3>2, <3>4
    <3> QED BY <3>3, <3>4, <1>typed DEF TypeOK
  <2>5. state' \in [Ids -> Mappings \cup {None}]
    <3>1. DOMAIN state' = Ids /\ state' = [id \in Ids |-> state'[id]]
      BY <1>6 DEF Update
    <3> QED BY <2>4, <3>1
  <2>6. TypeOK'
    BY <1>typed, <2>1, <2>3, <2>5 DEF TypeOK
  <2>7. StreamInv'
    <3>1. ASSUME NEW id \in Ids, NEW m, state'[id] = m, m # None
          PROVE  Meets(id, m)'
      BY <1>same, <2>1, <2>4, <2>6, <3>1
    <3> QED BY <2>1, <2>3, <3>1 DEF StreamInv, Meets, IsLast
  <2> QED BY <1>same, <2>1, <2>6, <2>7 DEF IInv
<1>7. CASE UpdateValues
  <2>1. PICK r \in requested : state' = [state EXCEPT ![dataRefs[r.idx].id] = r.mapping]
    BY <1>7 DEF UpdateValues
  <2>2. /\ UNCHANGED <<dataRefs, byId, commands, todo, phase, files, requested, history>>
        /\ phase = "streaming"
    BY <1>7 DEF UpdateValues
  <2>3. /\ r.idx \in DOMAIN dataRefs /\ r.mapping = dataRefs[r.idx].mapping
        /\ r.mapping \in Mappings
    BY <1>typed DEF IInv, StreamInv, TypeOK
  <2>4. PICK x \in Ids : x = dataRefs[r.idx].id
    <3>1. dataRefs[r.idx] \in Definitions
      BY <1>typed, <2>3, ElementOfSeq DEF TypeOK
    <3> QED BY <3>1 DEF Definitions
  <2>5. Meets(x, r.mapping)
    BY <2>2, <2>3, <2>4 DEF IInv, DefinedInv
  <2>6. /\ state' \in [Ids -> Mappings \cup {None}]
        /\ \A id \in Ids : state'[id] = IF id = x THEN r.mapping ELSE state[id]
    BY <1>typed, <2>1, <2>3, <2>4 DEF TypeOK
  <2>7. TypeOK'
    BY <1>typed, <2>2, <2>6 DEF TypeOK
  <2>8. StreamInv'
    <3>1. ASSUME NEW id \in Ids, NEW m, state'[id] = m, m # None
          PROVE  Meets(id, m)'
      <4>1. Meets(id, m)
        BY <2>5, <2>6, <3>1 DEF IInv, StreamInv
      <4> QED BY <1>same, <2>2, <2>7, <4>1
    <3> QED BY <2>2, <3>1 DEF IInv, StreamInv, Meets, IsLast
  <2> QED BY <1>same, <2>2, <2>7, <2>8 DEF IInv
<1>8. CASE UNCHANGED vars
  <2>1. UNCHANGED <<dataRefs, byId, commands, todo, phase, files, requested, state, history>>
    BY <1>8 DEF vars
  <2>2. TypeOK'
    BY <1>typed, <2>1 DEF TypeOK
  <2> QED BY <1>same, <2>1, <2>2 DEF IInv, StreamInv, Meets, IsLast
<1> QED BY <1>1, <1>2, <1>3, <1>4, <1>5, <1>6, <1>7, <1>8 DEF Next

LEMMA InvStart == Init => IInv
<1> SUFFICES ASSUME Init PROVE IInv
  OBVIOUS
<1>1. IInv
  <2>1. /\ Len(dataRefs) = 0 /\ DOMAIN dataRefs = {} /\ DOMAIN history = {}
        /\ dataRefs \in Seq(Definitions) /\ history \in Seq(Entries)
        /\ todo \in Seq(Entries)
    BY DEF Init
  <2>2. TypeOK
    BY <2>1 DEF Init, TypeOK
  <2>3. NumbersArePositions /\ DefinedInv /\ StreamInv
    BY <2>1 DEF Init, NumbersArePositions, DefinedInv, StreamInv
  <2> QED BY <2>2, <2>3 DEF IInv
<1> QED BY <1>1

(* The inductive invariant holds in every reachable state.                  *)
THEOREM Invariance == Spec => []IInv
  BY InvStart, InvStep, PTL DEF Spec

(* Every variable of the mapping stays in its domain.                       *)
THEOREM TypeCorrect == Spec => []TypeOK
<1>1. IInv => TypeOK
  BY DEF IInv
<1> QED BY <1>1, Invariance, PTL

(* The number of a definition is its position, and its name's.              *)
THEOREM Numbered == Spec => []NumbersArePositions
<1>1. IInv => NumbersArePositions
  BY DEF IInv
<1> QED BY <1>1, Invariance, PTL

(* Every value of the aircraft state comes from where the last entry for    *)
(* its name said, and is made the way its last text entry said.             *)
THEOREM Mapped == Spec => []ValuesReachTheirNames
<1>1. IInv => ValuesReachTheirNames
  BY DEF IInv, StreamInv, Meets, ValuesReachTheirNames
<1> QED BY <1>1, Invariance, PTL

-----------------------------------------------------------------------------
(* The aircraft state. A name's object holds only types written under it,   *)
(* and both of its halves from the first completed write on; the value is   *)
(* never older than that, nor is what a getter has read.                    *)
ObjectInv ==
  \A n \in DOMAIN TypesOf :
    /\ type[n] \in TypesOf[n] \cup {"UNKNOWN"}
    /\ value[n].holds \in TypesOf[n] \cup {"UNKNOWN"}
    /\ settled[n] > 0 => type[n] # "UNKNOWN" /\ value[n].holds # "UNKNOWN"
    /\ settled[n] <= value[n].write /\ value[n].write <= writes

WriterInv ==
  writer # State!Idle =>
    /\ writer.type \in TypesOf[writer.name]
    /\ "type" \notin writer.left => type[writer.name] = writer.type
    /\ "value" \notin writer.left =>
         value[writer.name] = [holds |-> writer.type, write |-> writes]

ReaderInv ==
  \A t \in Readers : reader[t] # State!Idle =>
    /\ reader[t].type \in TypesOf[reader[t].name] \cup {"UNKNOWN"}
    /\ since[t] <= settled[reader[t].name]
    /\ since[t] > 0 => reader[t].type # "UNKNOWN"

StateInv == State!TypeOK /\ ObjectInv /\ WriterInv /\ ReaderInv

LEMMA StateStart == State!Init => StateInv
<1> SUFFICES ASSUME State!Init PROVE StateInv
  OBVIOUS
<1> USE StateAssumption DEF State!StateConstants, State!Init, State!Idle, State!Nothing, State!Default
<1>1. State!TypeOK
  BY DEF State!TypeOK, State!Types
<1> QED BY <1>1 DEF StateInv, ObjectInv, WriterInv, ReaderInv

LEMMA StateKeeps == StateInv /\ [State!Next]_stateVars => StateInv'
<1> SUFFICES ASSUME StateInv, [State!Next]_stateVars PROVE StateInv'
  OBVIOUS
<1> USE StateAssumption
    DEF State!StateConstants, State!Idle, State!objectVars, State!writerVars,
        State!readerVars, State!Nothing
<1>0. State!TypeOK /\ ObjectInv /\ WriterInv /\ ReaderInv
  BY DEF StateInv
<1>1. CASE State!BeginSet
  <2>1. PICK n \in DOMAIN TypesOf : \E ty \in TypesOf[n] :
          /\ valuesByName' = valuesByName \cup {n}
          /\ writer' = [at |-> "set", name |-> n, type |-> ty, left |-> {"type", "value"}]
    BY <1>1 DEF State!BeginSet
  <2>2. PICK ty \in TypesOf[n] :
          /\ valuesByName' = valuesByName \cup {n}
          /\ writer' = [at |-> "set", name |-> n, type |-> ty, left |-> {"type", "value"}]
    BY <2>1
  <2>3. ty \in State!Types
    OBVIOUS
  <2>4. /\ writes' = writes + 1 /\ writes' \in 0..MaxWrites
        /\ UNCHANGED <<type, value, settled, reader, since, result>>
    BY <1>0, <1>1 DEF State!BeginSet, State!TypeOK
  <2>5. State!TypeOK'
    BY <1>0, <2>2, <2>3, <2>4 DEF State!TypeOK
  <2>6. ObjectInv'
    BY <1>0, <2>4 DEF ObjectInv, State!TypeOK
  <2>7. WriterInv'
    BY <2>2 DEF WriterInv
  <2>8. ReaderInv'
    BY <1>0, <2>4 DEF ReaderInv
  <2> QED BY <2>5, <2>6, <2>7, <2>8 DEF StateInv
<1>2. CASE State!StoreType
  <2>1. PICK n \in DOMAIN TypesOf : n = writer.name /\ n \in valuesByName
    BY <1>0, <1>2 DEF State!TypeOK, State!StoreType
  <2>2. /\ writer.type \in TypesOf[n] /\ writer.type \in State!Types
        /\ writer # State!Idle /\ type' = [type EXCEPT ![n] = writer.type]
        /\ writer' = [writer EXCEPT !.left = @ \ {"type"}]
        /\ UNCHANGED <<valuesByName, value, writes, settled, reader, since, result>>
    BY <1>0, <1>2, <2>1 DEF State!TypeOK, State!StoreType, WriterInv
  <2>3. State!TypeOK'
    BY <1>0, <2>1, <2>2 DEF State!TypeOK
  <2>4. ObjectInv'
    <3>1. n \in DOMAIN TypesOf /\ writes \in Nat /\ settled[n] <= writes
      BY <1>0, <2>1 DEF State!TypeOK
    <3> SUFFICES ASSUME NEW m \in DOMAIN TypesOf PROVE ObjectInv!(m)'
      BY DEF ObjectInv
    <3>2. ObjectInv!(m)
      BY <1>0 DEF ObjectInv
    <3>3. CASE m = n
      BY <1>0, <2>2, <3>1, <3>2, <3>3 DEF State!TypeOK, State!Types
    <3>4. CASE m # n
      BY <1>0, <2>2, <3>2, <3>4 DEF State!TypeOK
    <3> QED BY <3>3, <3>4
  <2>5. WriterInv'
    BY <1>0, <2>1, <2>2 DEF WriterInv, State!TypeOK
  <2>6. ReaderInv'
    BY <1>0, <2>2 DEF ReaderInv
  <2> QED BY <2>3, <2>4, <2>5, <2>6 DEF StateInv
<1>3. CASE State!StoreValue
  <2>1. PICK n \in DOMAIN TypesOf : n = writer.name /\ n \in valuesByName
    BY <1>0, <1>3 DEF State!TypeOK, State!StoreValue
  <2>2. /\ writer.type \in TypesOf[n] /\ writer.type \in State!Types
        /\ writer # State!Idle
        /\ value' = [value EXCEPT ![n] = [holds |-> writer.type, write |-> writes]]
        /\ writer' = [writer EXCEPT !.left = @ \ {"value"}]
        /\ UNCHANGED <<valuesByName, type, writes, settled, reader, since, result>>
    BY <1>0, <1>3, <2>1 DEF State!TypeOK, State!StoreValue, WriterInv
  <2>3. State!TypeOK'
    BY <1>0, <2>1, <2>2 DEF State!TypeOK
  <2>4. ObjectInv'
    <3>1. n \in DOMAIN TypesOf /\ writes \in Nat /\ settled[n] <= writes
      BY <1>0, <2>1 DEF State!TypeOK
    <3> SUFFICES ASSUME NEW m \in DOMAIN TypesOf PROVE ObjectInv!(m)'
      BY DEF ObjectInv
    <3>2. ObjectInv!(m)
      BY <1>0 DEF ObjectInv
    <3>3. CASE m = n
      BY <1>0, <2>2, <3>1, <3>2, <3>3 DEF State!TypeOK, State!Types
    <3>4. CASE m # n
      BY <1>0, <2>2, <3>2, <3>4 DEF State!TypeOK
    <3> QED BY <3>3, <3>4
  <2>5. WriterInv'
    BY <1>0, <2>1, <2>2 DEF WriterInv, State!TypeOK
  <2>6. ReaderInv'
    BY <1>0, <2>2 DEF ReaderInv
  <2> QED BY <2>3, <2>4, <2>5, <2>6 DEF StateInv
<1>4. CASE State!EndSet
  <2>1. PICK n \in DOMAIN TypesOf : n = writer.name /\ n \in valuesByName
    BY <1>0, <1>4 DEF State!TypeOK, State!EndSet
  <2>2. /\ writer.type \in TypesOf[n] /\ type[n] = writer.type
        /\ value[n] = [holds |-> writer.type, write |-> writes]
        /\ settled' = [settled EXCEPT ![n] = writes]
        /\ writer' = State!Idle /\ writer.type \in State!Types
        /\ UNCHANGED <<valuesByName, type, value, writes, reader, since, result>>
    BY <1>0, <1>4, <2>1 DEF State!TypeOK, State!EndSet, WriterInv
  <2>3. State!TypeOK'
    BY <1>0, <2>2 DEF State!TypeOK
  <2>4. ObjectInv'
    <3> SUFFICES ASSUME NEW m \in DOMAIN TypesOf
                 PROVE  /\ settled'[m] > 0 =>
                             type[m] # "UNKNOWN" /\ value[m].holds # "UNKNOWN"
                        /\ settled'[m] <= value[m].write
      BY <1>0, <2>2 DEF ObjectInv
    <3>1. CASE m = n
      BY <1>0, <2>1, <2>2, <3>1 DEF State!Types, State!TypeOK
    <3>2. CASE m # n
      BY <1>0, <2>2, <3>2 DEF ObjectInv, State!TypeOK
    <3> QED BY <3>1, <3>2
  <2>5. WriterInv'
    BY <2>2 DEF WriterInv
  <2>6. ReaderInv'
    <3> SUFFICES ASSUME NEW t \in Readers, reader[t] # State!Idle
                 PROVE  since[t] <= settled'[reader[t].name]
      BY <1>0, <2>2 DEF ReaderInv
    <3>1. since[t] <= settled[reader[t].name] /\ reader[t].name \in DOMAIN TypesOf
      BY <1>0 DEF ReaderInv, State!TypeOK
    <3>2. settled[reader[t].name] <= writes
      BY <1>0, <3>1 DEF State!TypeOK
    <3> QED BY <1>0, <2>2, <3>1, <3>2 DEF State!TypeOK
  <2> QED BY <2>3, <2>4, <2>5, <2>6 DEF StateInv
<1>5. ASSUME NEW t \in Readers, State!GetMissing(t) PROVE StateInv'
  <2>1. /\ result' = [result EXCEPT ![t] = State!Default]
        /\ UNCHANGED <<valuesByName, type, value, writer, writes, settled, reader, since>>
    BY <1>5 DEF State!GetMissing
  <2>2. State!TypeOK'
    BY <1>0, <2>1 DEF State!TypeOK, State!Default
  <2> QED BY <1>0, <2>1, <2>2 DEF StateInv, ObjectInv, WriterInv, ReaderInv
<1>6. ASSUME NEW t \in Readers, State!ReadType(t) PROVE StateInv'
  <2>1. PICK n \in valuesByName :
          /\ reader' = [reader EXCEPT ![t] = [at |-> "get", name |-> n, type |-> type[n]]]
          /\ since' = [since EXCEPT ![t] = settled[n]]
    BY <1>6 DEF State!ReadType
  <2>2. UNCHANGED <<valuesByName, type, value, writer, writes, settled, result>>
    BY <1>6 DEF State!ReadType
  <2>3. n \in DOMAIN TypesOf
    BY <1>0 DEF State!TypeOK
  <2>4. State!TypeOK'
    BY <1>0, <2>1, <2>2, <2>3 DEF State!TypeOK, ReaderInv
  <2>5. ReaderInv'
    BY <1>0, <2>1, <2>2, <2>3 DEF ReaderInv, ObjectInv, State!TypeOK
  <2> QED BY <1>0, <2>2, <2>4, <2>5 DEF StateInv, ObjectInv, WriterInv
<1>7. ASSUME NEW t \in Readers, State!ReadValue(t) PROVE StateInv'
  <2>1. /\ reader' = [reader EXCEPT ![t] = State!Idle]
        /\ reader[t] # State!Idle
        /\ UNCHANGED <<valuesByName, type, value, writer, writes, settled, since>>
    BY <1>7 DEF State!ReadValue
  <2>2. PICK w : /\ w \in {State!Default, State!Threw, State!Got(value[reader[t].name].write)}
                 /\ result' = [result EXCEPT ![t] = w]
    BY <1>7 DEF State!ReadValue
  <2>3. reader[t].name \in DOMAIN TypesOf
    BY <1>0, <2>1 DEF State!TypeOK
  <2>4. value[reader[t].name].write \in 0..writes
    BY <1>0, <2>3 DEF State!TypeOK, ObjectInv
  <2>5. w \in [did : {"default", "threw", "value"}, write : 0..writes]
    BY <1>0, <2>2, <2>4 DEF State!Default, State!Threw, State!Got, State!TypeOK
  <2>6. State!TypeOK'
    BY <1>0, <2>1, <2>2, <2>5 DEF State!TypeOK, ReaderInv
  <2>7. ReaderInv'
    BY <1>0, <2>1 DEF ReaderInv
  <2> QED BY <1>0, <2>1, <2>6, <2>7 DEF StateInv, ObjectInv, WriterInv
<1>8. CASE UNCHANGED stateVars
  <2>1. State!TypeOK'
    BY <1>0, <1>8 DEF stateVars, State!TypeOK
  <2> QED BY <1>0, <1>8, <2>1
      DEF stateVars, StateInv, ObjectInv, WriterInv, ReaderInv
<1> QED BY <1>1, <1>2, <1>3, <1>4, <1>5, <1>6, <1>7, <1>8
    DEF State!Next, State!Writer, State!Reader

(* What a getter does, in a step of a state as it can be. *)
LEMMA ReadStep ==
  ASSUME StateInv, NEW t \in Readers, State!ReadValue(t), NEW n, n = reader[t].name
  PROVE  /\ result'[t] = State!Threw =>
              settled[n] = 0 \/ State!SeveralTypes(n)
         /\ since[t] > 0 /\ ~State!SeveralTypes(n) =>
              result'[t] \in {State!Got(w) : w \in since[t]..writes}
<1> DEFINE v == value[n]
           ty == reader[t].type
<1>1. /\ reader[t] # State!Idle /\ n \in DOMAIN TypesOf
      /\ since[t] \in Nat /\ settled[n] \in Nat /\ writes \in Nat /\ v.write \in Nat
  BY StateAssumption DEF StateInv, State!TypeOK, State!ReadValue, State!Idle, State!StateConstants
<1>2. /\ ty \in TypesOf[n] \cup {"UNKNOWN"} /\ since[t] <= settled[n]
      /\ since[t] > 0 => ty # "UNKNOWN"
  BY <1>1 DEF StateInv, ReaderInv
<1>3. /\ v.holds \in TypesOf[n] \cup {"UNKNOWN"}
      /\ settled[n] > 0 => v.holds # "UNKNOWN"
      /\ settled[n] <= v.write /\ v.write <= writes
  BY <1>1 DEF StateInv, ObjectInv
<1>4. ty # "UNKNOWN" /\ settled[n] > 0 =>
        v.holds = ty \/ State!SeveralTypes(n)
  BY <1>1, <1>2, <1>3 DEF State!SeveralTypes
<1>5. DOMAIN result = Readers
  BY DEF StateInv, State!TypeOK
<1>6. \/ ty = "UNKNOWN" /\ result'[t] = State!Default
      \/ ty # "UNKNOWN" /\ v.holds # ty /\ result'[t] = State!Threw
      \/ ty # "UNKNOWN" /\ v.holds = ty /\ result'[t] = State!Got(v.write)
  BY <1>5 DEF State!ReadValue
<1>7. ASSUME result'[t] = State!Threw
      PROVE  settled[n] = 0 \/ State!SeveralTypes(n)
  BY <1>1, <1>4, <1>6, <1>7 DEF State!Threw, State!Default, State!Got
<1>8. ASSUME since[t] > 0, ~State!SeveralTypes(n)
      PROVE  result'[t] \in {State!Got(w) : w \in since[t]..writes}
  <2>1. settled[n] > 0 /\ ty # "UNKNOWN" /\ since[t] <= v.write
    BY <1>1, <1>2, <1>3, <1>8
  <2>2. v.holds = ty
    BY <1>1, <1>4, <1>8, <2>1
  <2>3. v.write \in since[t]..writes
    BY <1>1, <1>3, <2>1
  <2>4. result'[t] = State!Got(v.write)
    BY <1>6, <2>1, <2>2
  <2> QED BY <2>3, <2>4
<1> QED BY <1>7, <1>8

LEMMA GetterStep ==
  ASSUME StateInv, [State!Next]_stateVars, NEW t \in Readers
  PROVE  /\ result'[t] = State!Threw /\ result[t] # State!Threw =>
              \/ settled[reader[t].name] = 0
              \/ State!SeveralTypes(reader[t].name)
         /\ /\ reader[t].at = "get" /\ reader'[t] = State!Idle
            /\ since[t] > 0 /\ ~State!SeveralTypes(reader[t].name)
            => result'[t] \in {State!Got(w) : w \in since[t]..writes}
<1> USE DEF State!Idle
<1>0. DOMAIN result = Readers /\ DOMAIN reader = Readers
  BY DEF StateInv, State!TypeOK, ReaderInv
<1>1. CASE State!ReadValue(t)
  BY <1>1, ReadStep
<1>2. CASE State!Writer \/ UNCHANGED stateVars
  BY <1>2 DEF stateVars, State!Writer, State!BeginSet, State!StoreType,
      State!StoreValue, State!EndSet, State!readerVars
<1>3. ASSUME NEW u \in Readers, State!Reader(u), u # t \/ ~State!ReadValue(t)
      PROVE  /\ result'[t] = State!Threw => result[t] = State!Threw
             /\ reader[t].at = "get" => reader'[t] = reader[t]
  <2>1. CASE State!GetMissing(u)
    BY <1>0, <2>1 DEF State!GetMissing, State!Default, State!Threw
  <2>2. CASE State!ReadType(u)
    <3>1. reader[u] = State!Idle /\ result' = result
      BY <2>2 DEF State!ReadType
    <3>2. reader[t].at = "get" => t # u
      BY <3>1
    <3>3. t # u => reader'[t] = reader[t]
      BY <1>0, <2>2 DEF State!ReadType
    <3> QED BY <3>1, <3>2, <3>3
  <2>3. CASE State!ReadValue(u) /\ u # t
    BY <1>0, <2>3 DEF State!ReadValue
  <2> QED BY <1>3, <2>1, <2>2, <2>3 DEF State!Reader
<1> QED BY <1>1, <1>2, <1>3 DEF State!Next

(* A step of the whole is one of the aircraft state or leaves it alone. *)
LEMMA StateProjection == [MCNext]_everything => [State!Next]_stateVars
  BY DEF MCNext, everything, MappingNext, StateNext, SimulatorNext, SimulatorStep,
      ClockNext, ClockStep

LEMMA StateInvariance == MCSpec => []StateInv
<1>1. MCInit => StateInv
  BY StateStart DEF MCInit
<1>2. StateInv /\ [MCNext]_everything => StateInv'
  BY StateKeeps, StateProjection
<1> QED BY <1>1, <1>2, PTL DEF MCSpec

(* A getter throws only where a name is written with several types, and     *)
(* else returns the last write completed before it began or a later one.    *)
THEOREM Getters == MCSpec => GettersAnswer
<1> DEFINE Throws(t) ==
             result'[t] = State!Threw /\ result[t] # State!Threw =>
               \/ settled[reader[t].name] = 0
               \/ State!SeveralTypes(reader[t].name)
           Fresh(t) ==
             /\ reader[t].at = "get" /\ reader'[t] = State!Idle
             /\ since[t] > 0 /\ ~State!SeveralTypes(reader[t].name)
             => result'[t] \in {State!Got(w) : w \in since[t]..writes}
<1>1. StateInv /\ [MCNext]_everything => [\A t \in Readers : Throws(t)]_(State!vars)
  BY StateProjection, GetterStep
<1>2. StateInv /\ [MCNext]_everything => [\A t \in Readers : Fresh(t)]_(State!vars)
  BY StateProjection, GetterStep
<1>3. State!ThrowsOnlyOnTypeChange <=> [][\A t \in Readers : Throws(t)]_(State!vars)
  BY PTL DEF State!ThrowsOnlyOnTypeChange
<1>4. State!ReadsAreFresh <=> [][\A t \in Readers : Fresh(t)]_(State!vars)
  BY PTL DEF State!ReadsAreFresh
<1> QED BY <1>1, <1>2, <1>3, <1>4, StateInvariance, PTL DEF MCSpec, GettersAnswer

-----------------------------------------------------------------------------
(* The simulator. What the members will be when a call has ended, if no     *)
(* other gets in between, is what the command makes of them alone.          *)
Autopilots == [Simulator!AutopilotFields -> Int]
MemberSet  == [Simulator!MemberFields -> Int]
CallSet ==
  [at : Simulator!Places, cmd : Simulator!Commands, copy : Autopilots,
   kept : Int, next : Int]

Standby(m, f) == [m EXCEPT !.com1StandbyHz = f]
Tunes(m, f, g) == [m EXCEPT !["com1Hz"] = f, !["com1StandbyHz"] = g]

AutopilotAfter(k, a) ==
  IF k.at = "store" THEN k.copy
                    ELSE Simulator!Turned(k.copy, k.cmd, a.altitudeStep1000)

MemberAfter(k, m) ==
  CASE k.at = "store" -> m
    [] k.at = "edit"  -> Simulator!Tuned(Simulator!Switched(m, k.cmd), k.cmd)
    [] k.at = "readMHz" ->
         Standby(m, m.com1StandbyHz - k.kept + Simulator!FineKHz(k.kept, k.cmd))
    [] k.at = "writeMHz" ->
         Standby(m, k.next + Simulator!FineKHz(k.kept, k.cmd))
    [] k.at = "readStandby" /\ k.cmd # "swap" ->
         Standby(m, m.com1StandbyHz + Simulator!FineKHz(k.kept, k.cmd))
    [] k.at = "readStandby" /\ k.cmd = "swap" ->
         Tunes(m, m.com1StandbyHz, k.kept)
    [] k.at = "writeCom1" -> Tunes(m, k.next, k.kept)
    [] k.at = "write" -> Standby(m, k.next)

(* Where a call can be with which command. *)
PlaceInv(k) ==
  /\ k.at \in {"readMHz", "writeMHz"} => k.cmd \in {"fineUp", "fineDown"}
  /\ k.at = "readStandby" => k.cmd \in {"fineUp", "fineDown", "swap"}
  /\ k.at = "writeCom1" => k.cmd = "swap"
  /\ k.at = "write" => k.cmd \in Simulator!TuningCommands \cup {"swap"}

Going(c) == caller[c] # Simulator!NoCall

OrderInv ==
  ~overlapped =>
    /\ source = "com1StandbyHz" =>
         /\ \A c \in Simulator!Callers : ~Going(c)
         /\ alone = [autopilot |-> autopilot,
                     member |-> Standby(member, Simulator!InitialStandby)]
    /\ source # "com1StandbyHz" /\ (\A c \in Simulator!Callers : ~Going(c)) =>
         alone = [autopilot |-> autopilot, member |-> member]
    /\ \A c \in Simulator!Callers : Going(c) =>
         /\ \A d \in Simulator!Callers : d # c => ~Going(d)
         /\ caller[c].at # "store" => caller[c].copy = autopilot
         /\ alone = [autopilot |-> AutopilotAfter(caller[c], autopilot),
                     member |-> MemberAfter(caller[c], member)]

SimulatorInv ==
  /\ Simulator!TypeOK
  /\ \A c \in Simulator!Callers : Going(c) => PlaceInv(caller[c])
  /\ OrderInv

LEMMA TurnedType ==
  ASSUME NEW a \in Autopilots, NEW cmd, NEW step
  PROVE  /\ Simulator!Turned(a, cmd, step) \in Autopilots
         /\ cmd \notin Simulator!AutopilotCommands =>
              Simulator!Turned(a, cmd, step) = a
<1> USE DEF Autopilots, Simulator!AutopilotFields, Simulator!AutopilotCommands,
            Simulator!Turned, Simulator!Toggled
<1>1. CASE cmd \notin Simulator!AutopilotCommands
  BY <1>1
<1>2. CASE cmd \in {"headingUp", "headingDown"}
  BY <1>2
<1>3. CASE cmd \in {"speedUp", "speedDown"}
  BY <1>3
<1>4. CASE cmd \in {"altitudeUp", "altitudeDown"}
  BY <1>4
<1>5. CASE cmd \in {"altitudeStep100", "altitudeStep1000"}
  BY <1>5
<1>6. CASE cmd \in {"ap1Toggle", "ap2Toggle"}
  BY <1>6
<1> QED BY <1>1, <1>2, <1>3, <1>4, <1>5, <1>6

LEMMA SwitchedType ==
  ASSUME NEW m \in MemberSet, NEW cmd
  PROVE  /\ Simulator!Switched(m, cmd) \in MemberSet
         /\ cmd \notin Simulator!PanelCommands =>
              Simulator!Switched(m, cmd) = m
<1>1. CASE cmd \notin Simulator!PanelCommands
  <2>1. Simulator!Switched(m, cmd) = m
    BY <1>1 DEF Simulator!PanelCommands, Simulator!Switched
  <2> QED BY <2>1
<1> USE DEF MemberSet, Simulator!MemberFields, Simulator!PanelFields,
            Simulator!PanelCommands, Simulator!Switched, Simulator!Toggled
<1>2. CASE cmd \in {"apuMasterToggle", "apuStarterToggle"}
  BY <1>2
<1>3. CASE cmd \in {"baroUp", "baroDown"}
  BY <1>3
<1>4. CASE cmd = "baroStd"
  BY <1>4
<1>5. CASE cmd \in {"baroInHg", "baroHpa", "baroPush"}
  BY <1>5
<1>6. CASE cmd \in {"flightDirectorToggle", "lsToggle"}
  BY <1>6
<1> QED BY <1>1, <1>2, <1>3, <1>4, <1>5, <1>6

LEMMA StandbyType ==
  ASSUME NEW m \in MemberSet, NEW f \in Int, NEW g \in Int
  PROVE  /\ Standby(m, f) \in MemberSet /\ Tunes(m, f, g) \in MemberSet
         /\ Tunes(m, f, g) = Standby([m EXCEPT !.com1Hz = f], g)
         /\ [m EXCEPT !.com1Hz = f] \in MemberSet
         /\ m.com1Hz \in Int /\ m.com1StandbyHz \in Int
         /\ Standby(m, f).com1StandbyHz = f
         /\ Standby(Standby(m, f), g) = Standby(m, g)
BY DEF MemberSet, Simulator!MemberFields, Standby, Tunes

LEMMA KHzRange ==
  ASSUME NEW f \in Int
  PROVE  /\ Simulator!KHz(f) \in Int
         /\ 0 <= Simulator!KHz(f) /\ Simulator!KHz(f) <= 999
BY DEF Simulator!KHz

LEMMA TunedIs ==
  ASSUME NEW m \in MemberSet, NEW cmd,
         NEW k, k = Simulator!KHz(m.com1StandbyHz)
  PROVE  /\ cmd = "coarseUp" =>
              Simulator!Tuned(m, cmd) = Standby(m, m.com1StandbyHz + 1000)
         /\ cmd = "coarseDown" =>
              Simulator!Tuned(m, cmd) = Standby(m, m.com1StandbyHz - 1000)
         /\ cmd \in {"fineUp", "fineDown"} =>
              Simulator!Tuned(m, cmd)
                = Standby(m, m.com1StandbyHz - k + Simulator!FineKHz(k, cmd))
         /\ cmd = "swap" =>
              Simulator!Tuned(m, cmd) = Tunes(m, m.com1StandbyHz, m.com1Hz)
         /\ cmd \notin Simulator!TuningCommands \cup {"swap"} =>
              Simulator!Tuned(m, cmd) = m
<1>1. m.com1StandbyHz \in Int
  BY StandbyType, 0 \in Int DEF MemberSet, Simulator!MemberFields
<1>2. k \in Int /\ 0 <= k /\ k <= 999
  BY <1>1, KHzRange
<1>3. /\ Simulator!FineKHz(k, "fineUp") = (k + 25) % 1000
      /\ Simulator!FineKHz(k, "fineDown") = (k + 975) % 1000
  BY <1>2 DEF Simulator!FineKHz
<1>4. /\ cmd = "coarseUp" =>
            Simulator!Tuned(m, cmd) = Standby(m, m.com1StandbyHz + 1000)
      /\ cmd = "coarseDown" =>
            Simulator!Tuned(m, cmd) = Standby(m, m.com1StandbyHz - 1000)
      /\ cmd = "swap" =>
            Simulator!Tuned(m, cmd) = Tunes(m, m.com1StandbyHz, m.com1Hz)
  BY DEF Simulator!Tuned, Standby, Tunes, MemberSet, Simulator!MemberFields
<1>5. /\ cmd = "fineUp" => Simulator!Tuned(m, cmd)
           = Standby(m, (m.com1StandbyHz - k) + ((k + 25) % 1000))
      /\ cmd = "fineDown" => Simulator!Tuned(m, cmd)
           = Standby(m, (m.com1StandbyHz - k) + ((k + 975) % 1000))
  BY DEF Simulator!Tuned, Standby, MemberSet, Simulator!MemberFields
<1>6. cmd \notin Simulator!TuningCommands \cup {"swap"} => Simulator!Tuned(m, cmd) = m
  BY DEF Simulator!Tuned, Simulator!TuningCommands
<1> QED BY <1>3, <1>4, <1>5, <1>6

LEMMA TunedType ==
  ASSUME NEW m \in MemberSet, NEW cmd
  PROVE  Simulator!Tuned(m, cmd) \in MemberSet
<1> DEFINE k == Simulator!KHz(m.com1StandbyHz)
<1>1. m.com1StandbyHz \in Int /\ m.com1Hz \in Int
  BY DEF MemberSet, Simulator!MemberFields
<1>2. k \in Int
  BY <1>1, KHzRange
<1>3. Simulator!FineKHz(k, cmd) \in Int
  BY <1>2 DEF Simulator!FineKHz
<1>4. \A f \in Int, g \in Int : Standby(m, f) \in MemberSet /\ Tunes(m, f, g) \in MemberSet
  BY StandbyType
<1>5. /\ m.com1StandbyHz + 1000 \in Int /\ m.com1StandbyHz - 1000 \in Int
      /\ m.com1StandbyHz - k + Simulator!FineKHz(k, cmd) \in Int
  BY <1>1, <1>2, <1>3
<1> HIDE DEF k
<1>6. CASE cmd \in Simulator!TuningCommands \cup {"swap"}
  BY <1>1, <1>4, <1>5, <1>6, TunedIs DEF Simulator!TuningCommands, k
<1> QED BY <1>6, TunedIs

LEMMA Frequencies ==
  Simulator!InitialCom1 \in Int /\ Simulator!InitialStandby \in Int
BY SMT DEF Simulator!InitialCom1, Simulator!InitialStandby

(* A step of a call that goes on leaves what it will make of the members.   *)
Carries(c, q) ==
  /\ q \in CallSet /\ PlaceInv(q)
  /\ caller' = [caller EXCEPT ![c] = q]
  /\ autopilot' = autopilot /\ member' \in MemberSet
  /\ caller[c].at # "store"
  /\ q.at # "store" => q.copy = caller[c].copy
  /\ caller[c].copy = autopilot =>
       AutopilotAfter(q, autopilot) = AutopilotAfter(caller[c], autopilot)
  /\ MemberAfter(q, member') = MemberAfter(caller[c], member)

LEMMA CallCarries ==
  ASSUME Simulator!TypeOK, NEW c \in Simulator!Callers, Going(c),
         PlaceInv(caller[c]), Simulator!Proceed(c), ~Simulator!Store(c)
  PROVE  \E q : Carries(c, q)
<1> DEFINE k == caller[c]
           q(at, kept, next) == Simulator!Call(at, k.cmd, k.copy, kept, next)
<1>1. k \in CallSet
  BY Zenon DEF Simulator!TypeOK, Going, CallSet, Autopilots
<1>2. /\ autopilot \in Autopilots /\ member \in MemberSet
      /\ member.com1StandbyHz \in Int /\ member.com1Hz \in Int
  BY DEF Simulator!TypeOK, Autopilots, MemberSet, Simulator!MemberFields
<1>3. k.copy \in Autopilots /\ k.cmd \in Simulator!Commands /\ k.kept \in Int /\ k.next \in Int
  BY <1>1 DEF CallSet
<1>4. ASSUME NEW at \in Simulator!Places, NEW kept \in Int, NEW next \in Int
      PROVE  q(at, kept, next) \in CallSet
  BY <1>3 DEF CallSet, Simulator!Call
<1>5. ASSUME NEW at, NEW kept, NEW next, Simulator!Goes(c, at, kept, next)
      PROVE  caller' = [caller EXCEPT ![c] = q(at, kept, next)]
  BY <1>5 DEF Simulator!Goes
<1>6. ASSUME NEW at \in Simulator!Places, at # "store", k.at # "store",
             NEW kept, NEW next
      PROVE  AutopilotAfter(q(at, kept, next), autopilot) = AutopilotAfter(k, autopilot)
  BY <1>6 DEF AutopilotAfter, Simulator!Call
<1>7. ASSUME k.at # "store", k.cmd \notin Simulator!AutopilotCommands
      PROVE  AutopilotAfter(q("store", 0, 0), autopilot) = AutopilotAfter(k, autopilot)
  BY <1>3, <1>7, TurnedType DEF AutopilotAfter, Simulator!Call
<1> USE DEF Carries, PlaceInv, MemberAfter, Simulator!At
<1>8. CASE Simulator!EditCopy(c)
  <2> DEFINE r == Simulator!Call("store", k.cmd,
                    Simulator!Turned(k.copy, k.cmd, autopilot.altitudeStep1000), 0, 0)
  <2>1. /\ k.at = "edit" /\ k.cmd \in Simulator!AutopilotCommands
        /\ caller' = [caller EXCEPT ![c] = r]
        /\ autopilot' = autopilot /\ member' = member
    BY <1>8 DEF Simulator!EditCopy, Simulator!ownVars
  <2>2. r \in CallSet
    BY <1>3, TurnedType DEF CallSet, Simulator!Call, Simulator!Places
  <2>3. AutopilotAfter(r, autopilot) = AutopilotAfter(k, autopilot)
    BY <2>1 DEF AutopilotAfter, Simulator!Call
  <2>4. k.cmd \notin Simulator!PanelCommands /\ k.cmd \notin Simulator!TuningCommands \cup {"swap"}
    BY <2>1 DEF Simulator!AutopilotCommands, Simulator!PanelCommands, Simulator!TuningCommands
  <2>5. Simulator!Tuned(Simulator!Switched(member, k.cmd), k.cmd) = member
    BY <1>2, <2>4, SwitchedType, TunedIs
  <2>6. Carries(c, r)
    BY <1>2, <2>1, <2>2, <2>3, <2>5 DEF Simulator!Call
  <2> QED BY <2>6
<1>9. CASE Simulator!EditPanel(c)
  <2> DEFINE r == q("store", 0, 0)
  <2>1. /\ k.at = "edit" /\ k.cmd \in Simulator!PanelCommands \cup {"unknown"}
        /\ caller' = [caller EXCEPT ![c] = r]
        /\ autopilot' = autopilot /\ member' = Simulator!Switched(member, k.cmd)
    BY <1>5, <1>9 DEF Simulator!EditPanel
  <2>2. r \in CallSet
    BY <1>4, 0 \in Int DEF Simulator!Places
  <2>3. /\ k.cmd \notin Simulator!AutopilotCommands
        /\ k.cmd \notin Simulator!TuningCommands \cup {"swap"}
    BY <2>1 DEF Simulator!AutopilotCommands, Simulator!PanelCommands, Simulator!TuningCommands
  <2>4. AutopilotAfter(r, autopilot) = AutopilotAfter(k, autopilot)
    BY <1>7, <2>1, <2>3
  <2>5. member' \in MemberSet /\ Simulator!Tuned(member', k.cmd) = member'
    BY <1>2, <2>1, <2>3, SwitchedType, TunedIs
  <2>6. Carries(c, r)
    BY <2>1, <2>2, <2>4, <2>5 DEF Simulator!Call
  <2> QED BY <2>6
<1>10. CASE Simulator!ReadKHz(c)
  <2> DEFINE r == q("readMHz", Simulator!KHz(member.com1StandbyHz), 0)
  <2>1. /\ k.at = "edit" /\ k.cmd \in {"fineUp", "fineDown"}
        /\ caller' = [caller EXCEPT ![c] = r]
        /\ autopilot' = autopilot /\ member' = member
    BY <1>5, <1>10 DEF Simulator!ReadKHz, Simulator!ownVars
  <2>2. r \in CallSet
    BY <1>2, <1>4, KHzRange, 0 \in Int DEF Simulator!Places
  <2>3. AutopilotAfter(r, autopilot) = AutopilotAfter(k, autopilot)
    BY <1>6, <2>1 DEF Simulator!Places
  <2>4. Simulator!Switched(member, k.cmd) = member
    BY <1>2, <2>1, SwitchedType DEF Simulator!PanelCommands
  <2>5. MemberAfter(r, member) = MemberAfter(k, member)
    BY <1>2, <2>1, <2>4, TunedIs DEF Simulator!Call
  <2>6. Carries(c, r)
    BY <1>2, <2>1, <2>2, <2>3, <2>5 DEF Simulator!Call
  <2> QED BY <2>6
<1>11. CASE Simulator!ReadMHz(c)
  <2> DEFINE r == q("writeMHz", k.kept, member.com1StandbyHz - k.kept)
  <2>1. /\ k.at = "readMHz" /\ k.cmd \in {"fineUp", "fineDown"}
        /\ caller' = [caller EXCEPT ![c] = r]
        /\ autopilot' = autopilot /\ member' = member
    BY <1>5, <1>11 DEF Simulator!ReadMHz, Simulator!ownVars
  <2>2. r \in CallSet
    BY <1>2, <1>3, <1>4 DEF Simulator!Places
  <2>3. AutopilotAfter(r, autopilot) = AutopilotAfter(k, autopilot)
    BY <1>6, <2>1 DEF Simulator!Places
  <2>4. MemberAfter(r, member) = MemberAfter(k, member)
    BY <2>1 DEF Simulator!Call
  <2>5. Carries(c, r)
    BY <1>2, <2>1, <2>2, <2>3, <2>4 DEF Simulator!Call
  <2> QED BY <2>5
<1>12. CASE Simulator!WriteMHz(c)
  <2> DEFINE r == q("readStandby", k.kept, 0)
  <2>1. /\ k.at = "writeMHz" /\ k.cmd \in {"fineUp", "fineDown"}
        /\ caller' = [caller EXCEPT ![c] = r]
        /\ autopilot' = autopilot /\ member' = Standby(member, k.next)
    BY <1>5, <1>12 DEF Simulator!WriteMHz, Standby
  <2>2. r \in CallSet
    BY <1>3, <1>4, 0 \in Int DEF Simulator!Places
  <2>3. AutopilotAfter(r, autopilot) = AutopilotAfter(k, autopilot)
    BY <1>6, <2>1 DEF Simulator!Places
  <2>4. /\ member' \in MemberSet
        /\ \A g \in Int : Standby(member', g) = Standby(member, g)
    <3>1. ASSUME NEW f \in Int, member' = Standby(member, f)
          PROVE  /\ member' \in MemberSet
                 /\ \A g \in Int : Standby(member', g) = Standby(member, g)
      BY <1>2, <3>1, StandbyType
    <3> QED BY <1>3, <2>1, <3>1
  <2>5. k.next + Simulator!FineKHz(k.kept, k.cmd) \in Int
    BY <1>3 DEF Simulator!FineKHz
  <2>6. MemberAfter(r, member') = MemberAfter(k, member)
    <3>1. MemberAfter(k, member) = Standby(member, k.next + Simulator!FineKHz(k.kept, k.cmd))
      BY <2>1
    <3>2. MemberAfter(r, member')
            = Standby(member', member'.com1StandbyHz + Simulator!FineKHz(k.kept, k.cmd))
      BY <2>1 DEF Simulator!Call
    <3>3. member'.com1StandbyHz = k.next
      BY <2>1, <1>2 DEF Standby, MemberSet, Simulator!MemberFields
    <3> QED BY <2>4, <2>5, <3>1, <3>2, <3>3
  <2>7. Carries(c, r)
    BY <2>1, <2>2, <2>3, <2>4, <2>6 DEF Simulator!Call
  <2> QED BY <2>7
<1>13. CASE Simulator!ReadStandby(c)
  <2>1. autopilot' = autopilot /\ member' = member
    BY <1>13 DEF Simulator!ReadStandby, Simulator!ownVars
  <2>2. PICK n \in Int :
          /\ caller' = [caller EXCEPT ![c] = q("write", 0, n)]
          /\ k.at # "store" /\ k.cmd \in Simulator!TuningCommands
          /\ MemberAfter(k, member) = Standby(member, n)
    <3>1. CASE Simulator!At(c, "edit", {"coarseUp"})
                 /\ Simulator!Goes(c, "write", 0, member.com1StandbyHz + 1000)
      <4>1. k.at = "edit" /\ k.cmd = "coarseUp" /\ k.cmd \in Simulator!TuningCommands
        BY <3>1 DEF Simulator!TuningCommands
      <4>2. Simulator!Switched(member, k.cmd) = member
        BY <1>2, <4>1, SwitchedType DEF Simulator!PanelCommands
      <4>3. MemberAfter(k, member) = Standby(member, member.com1StandbyHz + 1000)
        BY <1>2, <4>1, <4>2, TunedIs
      <4> QED BY <1>2, <1>5, <3>1, <4>1, <4>3
    <3>2. CASE Simulator!At(c, "edit", {"coarseDown"})
                 /\ Simulator!Goes(c, "write", 0, member.com1StandbyHz - 1000)
      <4>1. k.at = "edit" /\ k.cmd = "coarseDown" /\ k.cmd \in Simulator!TuningCommands
        BY <3>2 DEF Simulator!TuningCommands
      <4>2. Simulator!Switched(member, k.cmd) = member
        BY <1>2, <4>1, SwitchedType DEF Simulator!PanelCommands
      <4>3. MemberAfter(k, member) = Standby(member, member.com1StandbyHz - 1000)
        BY <1>2, <4>1, <4>2, TunedIs
      <4> QED BY <1>2, <1>5, <3>2, <4>1, <4>3
    <3>3. CASE /\ Simulator!At(c, "readStandby", {"fineUp", "fineDown"})
               /\ Simulator!Goes(c, "write", 0,
                    member.com1StandbyHz + Simulator!FineKHz(k.kept, k.cmd))
      <4>1. k.at = "readStandby" /\ k.cmd \in {"fineUp", "fineDown"}
              /\ k.cmd \in Simulator!TuningCommands
        BY <3>3 DEF Simulator!TuningCommands
      <4>2. member.com1StandbyHz + Simulator!FineKHz(k.kept, k.cmd) \in Int
        BY <1>2, <1>3 DEF Simulator!FineKHz
      <4> QED BY <1>5, <3>3, <4>1, <4>2
    <3> QED BY <1>13, <3>1, <3>2, <3>3 DEF Simulator!ReadStandby
  <2>3. q("write", 0, n) \in CallSet
    BY <1>4, 0 \in Int DEF Simulator!Places
  <2>4. AutopilotAfter(q("write", 0, n), autopilot) = AutopilotAfter(k, autopilot)
    BY <1>6, <2>2 DEF Simulator!Places
  <2>5. MemberAfter(q("write", 0, n), member) = Standby(member, n)
    BY DEF Simulator!Call
  <2>6. Carries(c, q("write", 0, n))
    BY <1>2, <2>1, <2>2, <2>3, <2>4, <2>5 DEF Simulator!Call
  <2> QED BY <2>6
<1>14. CASE Simulator!ReadCom1(c)
  <2> DEFINE r == q("readStandby", member.com1Hz, 0)
  <2>1. /\ k.at = "edit" /\ k.cmd = "swap"
        /\ caller' = [caller EXCEPT ![c] = r]
        /\ autopilot' = autopilot /\ member' = member
    BY <1>5, <1>14 DEF Simulator!ReadCom1, Simulator!ownVars
  <2>2. r \in CallSet
    BY <1>2, <1>4, 0 \in Int DEF Simulator!Places
  <2>3. AutopilotAfter(r, autopilot) = AutopilotAfter(k, autopilot)
    BY <1>6, <2>1 DEF Simulator!Places
  <2>4. Simulator!Switched(member, k.cmd) = member
    BY <1>2, <2>1, SwitchedType DEF Simulator!PanelCommands
  <2>5. MemberAfter(r, member) = MemberAfter(k, member)
    BY <1>2, <2>1, <2>4, TunedIs DEF Simulator!Call
  <2>6. Carries(c, r)
    BY <1>2, <2>1, <2>2, <2>3, <2>5 DEF Simulator!Call
  <2> QED BY <2>6
<1>15. CASE Simulator!ReadSwapped(c)
  <2> DEFINE r == q("writeCom1", k.kept, member.com1StandbyHz)
  <2>1. /\ k.at = "readStandby" /\ k.cmd = "swap"
        /\ caller' = [caller EXCEPT ![c] = r]
        /\ autopilot' = autopilot /\ member' = member
    BY <1>5, <1>15 DEF Simulator!ReadSwapped, Simulator!ownVars
  <2>2. r \in CallSet
    BY <1>2, <1>3, <1>4 DEF Simulator!Places
  <2>3. AutopilotAfter(r, autopilot) = AutopilotAfter(k, autopilot)
    BY <1>6, <2>1 DEF Simulator!Places
  <2>4. MemberAfter(r, member) = MemberAfter(k, member)
    BY <2>1 DEF Simulator!Call
  <2>5. Carries(c, r)
    BY <1>2, <2>1, <2>2, <2>3, <2>4 DEF Simulator!Call
  <2> QED BY <2>5
<1>16. CASE Simulator!WriteCom1(c)
  <2> DEFINE r == q("write", 0, k.kept)
  <2>1. /\ k.at = "writeCom1" /\ k.cmd = "swap"
        /\ caller' = [caller EXCEPT ![c] = r]
        /\ autopilot' = autopilot /\ member' = [member EXCEPT !.com1Hz = k.next]
    BY <1>5, <1>16 DEF Simulator!WriteCom1
  <2>2. r \in CallSet
    BY <1>3, <1>4, 0 \in Int DEF Simulator!Places
  <2>3. AutopilotAfter(r, autopilot) = AutopilotAfter(k, autopilot)
    BY <1>6, <2>1 DEF Simulator!Places
  <2>4. member' \in MemberSet /\ Standby(member', k.kept) = Tunes(member, k.next, k.kept)
    BY <1>2, <1>3, <2>1, StandbyType
  <2>5. MemberAfter(r, member') = MemberAfter(k, member)
    BY <2>1, <2>4 DEF Simulator!Call
  <2>6. Carries(c, r)
    BY <2>1, <2>2, <2>3, <2>4, <2>5 DEF Simulator!Call
  <2> QED BY <2>6
<1>17. CASE Simulator!WriteStandby(c)
  <2> DEFINE r == q("store", 0, 0)
  <2>1. /\ k.at = "write" /\ k.cmd \in Simulator!TuningCommands \cup {"swap"}
        /\ caller' = [caller EXCEPT ![c] = r]
        /\ autopilot' = autopilot /\ member' = Standby(member, k.next)
    BY <1>5, <1>17 DEF Simulator!WriteStandby, Standby
  <2>2. r \in CallSet
    BY <1>4, 0 \in Int DEF Simulator!Places
  <2>3. k.cmd \notin Simulator!AutopilotCommands
    BY <2>1 DEF Simulator!AutopilotCommands, Simulator!TuningCommands
  <2>4. AutopilotAfter(r, autopilot) = AutopilotAfter(k, autopilot)
    BY <1>7, <2>1, <2>3
  <2>5. member' \in MemberSet
    BY <1>2, <1>3, <2>1, StandbyType
  <2>6. MemberAfter(r, member') = MemberAfter(k, member)
    BY <2>1 DEF Simulator!Call
  <2>7. Carries(c, r)
    BY <2>1, <2>2, <2>4, <2>5, <2>6 DEF Simulator!Call
  <2> QED BY <2>7
<1> QED BY <1>8, <1>9, <1>10, <1>11, <1>12, <1>13, <1>14, <1>15, <1>16, <1>17
        DEF Simulator!Proceed

LEMMA SimulatorStart == Simulator!Init => SimulatorInv
<1> SUFFICES ASSUME Simulator!Init PROVE SimulatorInv
  OBVIOUS
<1> USE SimulatorAssumption DEF Simulator!Init, Simulator!SimulatorConstants
<1>1. autopilot \in Autopilots /\ member \in MemberSet
  BY DEF Autopilots, MemberSet
<1>2. 1 \in DOMAIN Simulator!Round
  BY DEF Simulator!Round
<1>3. Simulator!TypeOK
  <2>1. published \in [Simulator!Published -> Int]
    OBVIOUS
  <2>4. /\ overlapped \in BOOLEAN /\ running \in BOOLEAN
        /\ source \in {"new", "connected", "com1Hz", "com1StandbyHz", "loop",
                       "publish", "ended"}
    BY Zenon
  <2>2. caller \in [Simulator!Callers -> {Simulator!NoCall} \cup CallSet]
    OBVIOUS
  <2>3. issued \in 0..MaxCommands /\ position \in DOMAIN Simulator!Round
    BY <1>2
  <2> QED BY Zenon, <1>1, <2>1, <2>2, <2>3, <2>4
          DEF Simulator!TypeOK, Simulator!Members, Autopilots, MemberSet, CallSet
<1>4. \A c \in Simulator!Callers : ~Going(c)
  BY DEF Going
<1>5. alone = [autopilot |-> autopilot, member |-> member] /\ source = "new"
  BY DEF Simulator!Members
<1> QED BY <1>3, <1>4, <1>5 DEF SimulatorInv, OrderInv

LEMMA SimulatorBegins ==
  ASSUME SimulatorInv, NEW c \in Simulator!Callers, Simulator!Begin(c)
  PROVE  SimulatorInv'
<1>1. /\ Simulator!TypeOK /\ OrderInv
      /\ \A d \in Simulator!Callers : Going(d) => PlaceInv(caller[d])
  BY DEF SimulatorInv
<1>2. PICK cmd \in Simulator!Commands :
        /\ caller' = [caller EXCEPT ![c] = Simulator!Call("edit", cmd, autopilot, 0, 0)]
        /\ alone' = Simulator!Alone(alone, cmd)
  BY SimulatorAssumption DEF Simulator!Begin, Simulator!SimulatorConstants
<1> DEFINE q == Simulator!Call("edit", cmd, autopilot, 0, 0)
<1>3. /\ ~Going(c) /\ issued' = issued + 1 /\ issued < MaxCommands
      /\ UNCHANGED <<running, source, position, autopilot, member, published>>
  BY DEF Simulator!Begin, Going, Simulator!sourceVars, Simulator!ownVars
<1>4. autopilot \in Autopilots /\ member \in MemberSet
  BY <1>1 DEF Simulator!TypeOK, Autopilots, MemberSet
<1>5. q \in CallSet /\ PlaceInv(q) /\ q # Simulator!NoCall
  BY <1>4, 0 \in Int DEF CallSet, Simulator!Call, Simulator!Places, PlaceInv,
                         Simulator!NoCall
<1>6. caller \in [Simulator!Callers -> {Simulator!NoCall} \cup CallSet]
  BY <1>1 DEF Simulator!TypeOK, CallSet, Autopilots
<1>7. caller' \in [Simulator!Callers -> {Simulator!NoCall} \cup CallSet]
  BY <1>2, <1>5, <1>6
<1>8. alone.autopilot \in Autopilots /\ alone.member \in MemberSet
  BY <1>1 DEF Simulator!TypeOK, Autopilots, MemberSet
<1>9. alone' \in [autopilot : Autopilots, member : MemberSet]
  <2>1. Simulator!Switched(alone.member, cmd) \in MemberSet
    BY <1>8, SwitchedType
  <2>2. Simulator!Tuned(Simulator!Switched(alone.member, cmd), cmd) \in MemberSet
    BY <2>1, TunedType
  <2> QED BY <1>2, <1>8, <2>2, TurnedType DEF Simulator!Alone
<1>10. overlapped' \in BOOLEAN
  BY Zenon DEF Simulator!Begin
<1>11. issued' \in 0..MaxCommands
  BY <1>1, <1>3, SimulatorAssumption DEF Simulator!TypeOK, Simulator!SimulatorConstants
<1>12. Simulator!TypeOK'
  BY <1>1, <1>3, <1>7, <1>9, <1>10, <1>11
     DEF Simulator!TypeOK, CallSet, Autopilots, MemberSet
<1>13. \A d \in Simulator!Callers : Going(d)' => PlaceInv(caller[d])'
  BY <1>1, <1>2, <1>5, <1>6 DEF Going, PlaceInv
<1>14. OrderInv'
  <2> SUFFICES ASSUME ~overlapped' PROVE OrderInv'
    BY DEF OrderInv
  <2>1. /\ ~overlapped /\ source # "com1StandbyHz"
        /\ \A d \in Simulator!Callers : ~Going(d)
    BY DEF Simulator!Begin, Simulator!Busy, Going
  <2>2. alone = [autopilot |-> autopilot, member |-> member]
    BY <1>1, <2>1 DEF OrderInv
  <2>3. alone' = [autopilot |-> AutopilotAfter(q, autopilot),
                  member |-> MemberAfter(q, member)]
    BY <1>2, <2>2 DEF Simulator!Alone, AutopilotAfter, MemberAfter, Simulator!Call
  <2>4. caller'[c] = q /\ q.copy = autopilot
        /\ \A d \in Simulator!Callers : d # c => ~Going(d)'
    BY <1>2, <1>6, <2>1 DEF Going, Simulator!Call
  <2>5. Going(c)'
    BY <1>5, <2>4 DEF Going
  <2> QED BY <1>3, <2>1, <2>3, <2>4, <2>5 DEF OrderInv
<1> QED BY <1>12, <1>13, <1>14 DEF SimulatorInv

LEMMA SimulatorProceeds ==
  ASSUME SimulatorInv, NEW c \in Simulator!Callers, Simulator!Proceed(c)
  PROVE  SimulatorInv'
<1> DEFINE k == caller[c]
<1>1. /\ Simulator!TypeOK /\ OrderInv
      /\ \A d \in Simulator!Callers : Going(d) => PlaceInv(caller[d])
  BY DEF SimulatorInv
<1>2. Going(c)
  <2>1. k.at # "idle"
    BY DEF Simulator!Proceed, Simulator!EditCopy, Simulator!EditPanel,
       Simulator!ReadKHz, Simulator!ReadMHz, Simulator!WriteMHz,
       Simulator!ReadStandby, Simulator!ReadCom1, Simulator!ReadSwapped,
       Simulator!WriteCom1, Simulator!WriteStandby, Simulator!Store, Simulator!At
  <2> QED BY <2>1 DEF Going, Simulator!NoCall
<1>3. UNCHANGED <<running, source, position, published, issued, alone, overlapped>>
  BY Zenon DEF Simulator!Proceed, Simulator!EditCopy, Simulator!EditPanel,
     Simulator!ReadKHz, Simulator!ReadMHz, Simulator!WriteMHz,
     Simulator!ReadStandby, Simulator!ReadCom1, Simulator!ReadSwapped,
     Simulator!WriteCom1, Simulator!WriteStandby, Simulator!Store,
     Simulator!Others, Simulator!sourceVars, Simulator!ghostVars
<1>4. /\ autopilot \in Autopilots /\ member \in MemberSet
      /\ caller \in [Simulator!Callers -> {Simulator!NoCall} \cup CallSet]
  BY <1>1 DEF Simulator!TypeOK, Autopilots, MemberSet, CallSet
<1>5. k \in CallSet
  BY <1>2, <1>4 DEF Going
<1>6. CASE Simulator!Store(c)
  <2>1. /\ k.at = "store" /\ autopilot' = k.copy /\ member' = member
        /\ caller' = [caller EXCEPT ![c] = Simulator!NoCall]
    BY <1>6 DEF Simulator!Store, Simulator!At
  <2>2. Simulator!TypeOK'
    BY <1>1, <1>3, <1>4, <1>5, <2>1 DEF Simulator!TypeOK, CallSet, Autopilots
  <2>3. \A d \in Simulator!Callers : Going(d)' => PlaceInv(caller[d])'
    BY <1>1, <1>4, <2>1 DEF Going, PlaceInv
  <2>4. OrderInv'
    <3> SUFFICES ASSUME ~overlapped PROVE OrderInv'
      BY <1>3 DEF OrderInv
    <3>1. /\ \A d \in Simulator!Callers : d # c => ~Going(d)
          /\ source # "com1StandbyHz"
          /\ alone = [autopilot |-> AutopilotAfter(k, autopilot),
                      member |-> MemberAfter(k, member)]
      BY <1>1, <1>2 DEF OrderInv
    <3>2. alone = [autopilot |-> autopilot', member |-> member']
      BY <2>1, <3>1 DEF AutopilotAfter, MemberAfter
    <3>3. \A d \in Simulator!Callers : ~Going(d)'
      BY <1>4, <2>1, <3>1 DEF Going
    <3> QED BY <1>3, <3>1, <3>2, <3>3 DEF OrderInv
  <2> QED BY <2>2, <2>3, <2>4 DEF SimulatorInv
<1>7. CASE ~Simulator!Store(c)
  <2>1. PICK q : Carries(c, q)
    BY <1>1, <1>2, <1>7, CallCarries
  <2>2. /\ q \in CallSet /\ PlaceInv(q)
        /\ caller' = [caller EXCEPT ![c] = q]
        /\ autopilot' = autopilot /\ member' \in MemberSet
        /\ k.at # "store" /\ (q.at # "store" => q.copy = k.copy)
        /\ k.copy = autopilot =>
             AutopilotAfter(q, autopilot) = AutopilotAfter(k, autopilot)
        /\ MemberAfter(q, member') = MemberAfter(k, member)
    BY <2>1 DEF Carries
  <2>3. Simulator!TypeOK'
    <3>1. caller' \in [Simulator!Callers -> {Simulator!NoCall} \cup CallSet]
      BY <1>4, <2>2
    <3> QED BY <1>1, <1>3, <2>2, <3>1 DEF Simulator!TypeOK, CallSet, Autopilots, MemberSet
  <2>4. \A d \in Simulator!Callers : Going(d)' => PlaceInv(caller[d])'
    BY <1>1, <1>4, <2>2 DEF Going, PlaceInv
  <2>5. OrderInv'
    <3> SUFFICES ASSUME ~overlapped PROVE OrderInv'
      BY <1>3 DEF OrderInv
    <3>1. /\ \A d \in Simulator!Callers : d # c => ~Going(d)
          /\ source # "com1StandbyHz"
          /\ k.at # "store" => k.copy = autopilot
          /\ alone = [autopilot |-> AutopilotAfter(k, autopilot),
                      member |-> MemberAfter(k, member)]
      BY <1>1, <1>2 DEF OrderInv
    <3>2. k.at # "store"
      BY <2>1 DEF Carries
    <3>3. alone' = [autopilot |-> AutopilotAfter(q, autopilot'),
                    member |-> MemberAfter(q, member')]
      BY <1>3, <2>2, <3>1, <3>2
    <3>4. caller'[c] = q /\ (q.at # "store" => q.copy = autopilot')
      BY <1>4, <2>2, <3>1, <3>2
    <3>5. \A d \in Simulator!Callers : d # c => ~Going(d)'
      BY <1>4, <2>2, <3>1 DEF Going
    <3>6. Going(c)'
      BY <1>4, <2>2 DEF Going, CallSet, Simulator!NoCall, Simulator!Places
    <3> QED BY <1>3, <3>1, <3>3, <3>4, <3>5, <3>6 DEF OrderInv
  <2> QED BY <2>3, <2>4, <2>5 DEF SimulatorInv
<1> QED BY <1>6, <1>7

LEMMA SimulatorUpdates ==
  ASSUME SimulatorInv, Simulator!Update
  PROVE  SimulatorInv'
<1>1. /\ Simulator!TypeOK /\ OrderInv
      /\ \A d \in Simulator!Callers : Going(d) => PlaceInv(caller[d])
  BY DEF SimulatorInv
<1>2. /\ autopilot \in Autopilots /\ member \in MemberSet
      /\ published \in [Simulator!Published -> Int]
  BY <1>1 DEF Simulator!TypeOK, Autopilots, MemberSet
<1>3. UNCHANGED <<running, autopilot, caller, issued>>
  BY Zenon DEF Simulator!Update, Simulator!BeginUpdate, Simulator!SetCom1,
     Simulator!SetStandby, Simulator!TestRunning, Simulator!Publish,
     Simulator!ownVars, Simulator!callVars
<1>4. \A d \in Simulator!Callers : Going(d)' => PlaceInv(caller[d])'
  BY <1>1, <1>3 DEF Going, PlaceInv
<1>5. ASSUME /\ UNCHANGED <<member, alone, overlapped>>
             /\ source # "com1StandbyHz" /\ source' # "com1StandbyHz"
      PROVE  OrderInv'
  <2> SUFFICES ASSUME ~overlapped PROVE OrderInv'
    BY <1>5 DEF OrderInv
  <2> QED BY <1>1, <1>3, <1>5 DEF OrderInv, Going
<1>6. CASE Simulator!BeginUpdate
  <2>1. /\ source = "connected" /\ source' = "com1Hz"
        /\ UNCHANGED <<position, member, alone, overlapped>>
    BY <1>6 DEF Simulator!BeginUpdate, Simulator!ownVars, Simulator!ghostVars
  <2>2. published' \in [Simulator!Published -> Int]
    <3>1. member.flightDirector \in Int
      BY <1>2 DEF MemberSet, Simulator!MemberFields, Simulator!PanelFields
    <3>2. PICK s \in Int, h \in Int, d \in Int : s = 50 /\ h = 1000 /\ d = 90
      OBVIOUS
    <3>3. published' = [published EXCEPT
             !["flightDirector"] = member.flightDirector,
             !["com1Hz"] = Simulator!InitialCom1,
             !["com1StandbyHz"] = Simulator!InitialStandby,
             !["speed"] = s, !["altitude"] = h, !["heading"] = d]
      BY <1>6, <3>2, Zenon DEF Simulator!BeginUpdate
    <3> QED BY <1>2, <3>1, <3>3, Frequencies
  <2>3. Simulator!TypeOK'
    BY <1>1, <1>3, <2>1, <2>2 DEF Simulator!TypeOK
  <2> QED BY <1>4, <1>5, <2>1, <2>3 DEF SimulatorInv
<1>7. CASE Simulator!SetCom1
  <2>1. /\ source = "com1Hz" /\ source' = "com1StandbyHz"
        /\ member' = [member EXCEPT !.com1Hz = Simulator!InitialCom1]
        /\ alone' = [alone EXCEPT !.member =
             Tunes(@, Simulator!InitialCom1, Simulator!InitialStandby)]
        /\ UNCHANGED <<position, published>>
    BY Zenon, <1>7 DEF Simulator!SetCom1, Tunes
  <2>2. overlapped' \in BOOLEAN
    BY Zenon, <1>7 DEF Simulator!SetCom1
  <2>3. member' \in MemberSet
    BY <1>2, <2>1, Frequencies, StandbyType
  <2>4. alone \in [autopilot : Autopilots, member : MemberSet]
    BY <1>1 DEF Simulator!TypeOK, Autopilots, MemberSet
  <2>5. alone' = [autopilot |-> alone.autopilot,
                  member |-> Tunes(alone.member, Simulator!InitialCom1,
                                                 Simulator!InitialStandby)]
    BY <2>1, <2>4
  <2>6. alone' \in [autopilot : Autopilots, member : MemberSet]
    BY <2>4, <2>5, Frequencies, StandbyType
  <2>7. Simulator!TypeOK'
    BY <1>1, <1>3, <2>1, <2>2, <2>3, <2>6 DEF Simulator!TypeOK, Autopilots, MemberSet
  <2>8. OrderInv'
    <3> SUFFICES ASSUME ~overlapped' PROVE OrderInv'
      BY DEF OrderInv
    <3>1. ~overlapped /\ \A c \in Simulator!Callers : ~Going(c)
      BY <1>7 DEF Simulator!SetCom1, Simulator!Busy, Going
    <3>2. alone = [autopilot |-> autopilot, member |-> member]
      BY <1>1, <2>1, <3>1 DEF OrderInv
    <3>3. Tunes(member, Simulator!InitialCom1, Simulator!InitialStandby)
            = Standby(member', Simulator!InitialStandby)
      BY <1>2, <2>1, Frequencies, StandbyType
    <3>4. alone' = [autopilot |-> autopilot',
                    member |-> Standby(member', Simulator!InitialStandby)]
      BY <1>3, <2>5, <3>2, <3>3
    <3> QED BY <1>3, <2>1, <3>1, <3>4 DEF OrderInv, Going
  <2> QED BY <1>4, <2>7, <2>8 DEF SimulatorInv
<1>8. CASE Simulator!SetStandby
  <2>1. /\ source = "com1StandbyHz" /\ source' = "loop"
        /\ member' = Standby(member, Simulator!InitialStandby)
        /\ UNCHANGED <<position, published, alone, overlapped>>
    BY <1>8 DEF Simulator!SetStandby, Simulator!ghostVars, Standby
  <2>2. member' \in MemberSet
    BY <1>2, <2>1, Frequencies, StandbyType
  <2>3. Simulator!TypeOK'
    BY <1>1, <1>3, <2>1, <2>2 DEF Simulator!TypeOK, MemberSet
  <2>4. OrderInv'
    <3> SUFFICES ASSUME ~overlapped PROVE OrderInv'
      BY <2>1 DEF OrderInv
    <3>1. /\ \A c \in Simulator!Callers : ~Going(c)
          /\ alone = [autopilot |-> autopilot,
                      member |-> Standby(member, Simulator!InitialStandby)]
      BY <1>1, <2>1 DEF OrderInv
    <3> QED BY <1>3, <2>1, <3>1 DEF OrderInv, Going
  <2> QED BY <1>4, <2>3, <2>4 DEF SimulatorInv
<1>9. CASE Simulator!TestRunning
  <2>1. /\ source = "loop" /\ source' \in {"publish", "ended"}
        /\ UNCHANGED <<position, member, published, alone, overlapped>>
    BY <1>9 DEF Simulator!TestRunning, Simulator!ownVars, Simulator!ghostVars
  <2>2. Simulator!TypeOK'
    BY <1>1, <1>3, <2>1 DEF Simulator!TypeOK
  <2> QED BY <1>4, <1>5, <2>1, <2>2 DEF SimulatorInv
<1>10. CASE Simulator!Publish
  <2>1. /\ source = "publish" /\ source' \in {"publish", "loop"}
        /\ UNCHANGED <<member, alone, overlapped>>
    BY <1>10 DEF Simulator!Publish, Simulator!ownVars, Simulator!ghostVars
  <2>2. position' \in DOMAIN Simulator!Round
    BY <1>1, <1>10 DEF Simulator!Publish, Simulator!TypeOK, Simulator!Round
  <2>3. published' \in [Simulator!Published -> Int]
    <3>1. ASSUME NEW f \in Simulator!Published
          PROVE  Simulator!Shown(Simulator!Members, f) \in Int
      <4>1. f \in Simulator!AutopilotFields \/ f \in Simulator!MemberFields
        <5>1. PICK i \in DOMAIN Simulator!Round : f \in Simulator!Round[i]
          BY DEF Simulator!Published
        <5> QED BY <5>1 DEF Simulator!Round, Simulator!AutopilotFields,
                            Simulator!MemberFields, Simulator!PanelFields
      <4> QED BY <1>2, <4>1 DEF Simulator!Shown, Simulator!Members, Autopilots, MemberSet
    <3> QED BY <1>2, <1>10, <3>1 DEF Simulator!Publish
  <2>4. Simulator!TypeOK'
    BY <1>1, <1>3, <2>1, <2>2, <2>3 DEF Simulator!TypeOK
  <2> QED BY <1>4, <1>5, <2>1, <2>4 DEF SimulatorInv
<1> QED BY <1>6, <1>7, <1>8, <1>9, <1>10 DEF Simulator!Update

LEMMA SimulatorKeeps ==
  SimulatorInv /\ [Simulator!Next]_simulatorVars => SimulatorInv'
<1> SUFFICES ASSUME SimulatorInv, [Simulator!Next]_simulatorVars PROVE SimulatorInv'
  OBVIOUS
<1>1. CASE Simulator!Connect \/ Simulator!Disconnect \/ UNCHANGED simulatorVars
  <2>1. /\ UNCHANGED <<position, autopilot, member, published, caller, issued, alone, overlapped>>
        /\ source' = source \/ (source = "new" /\ source' = "connected")
    BY <1>1 DEF Simulator!Connect, Simulator!Disconnect, simulatorVars,
       Simulator!ownVars, Simulator!callVars, Simulator!ghostVars, Simulator!sourceVars
  <2>2. running' \in BOOLEAN
    BY Zenon, <1>1 DEF Simulator!Connect, Simulator!Disconnect, simulatorVars,
       SimulatorInv, Simulator!TypeOK
  <2>3. source' \in {"connected", source}
    BY <2>1
  <2>4. Simulator!TypeOK'
    BY <2>1, <2>2, <2>3 DEF SimulatorInv, Simulator!TypeOK
  <2>5. (source' = "com1StandbyHz") <=> (source = "com1StandbyHz")
    BY <1>1 DEF Simulator!Connect, Simulator!Disconnect, simulatorVars,
       Simulator!sourceVars
  <2>6. OrderInv'
    BY <2>1, <2>5 DEF SimulatorInv, OrderInv, Going
  <2>7. \A d \in Simulator!Callers : Going(d)' => PlaceInv(caller[d])'
    BY <2>1 DEF SimulatorInv, Going, PlaceInv
  <2> QED BY <2>4, <2>6, <2>7 DEF SimulatorInv
<1>2. CASE Simulator!Update
  BY <1>2, SimulatorUpdates
<1>3. ASSUME NEW c \in Simulator!Callers, Simulator!Begin(c) \/ Simulator!Proceed(c)
      PROVE  SimulatorInv'
  BY <1>3, SimulatorBegins, SimulatorProceeds
<1> QED BY <1>1, <1>2, <1>3 DEF Simulator!Next

LEMMA SimulatorProjection == [MCNext]_everything => [Simulator!Next]_simulatorVars
<1>1. SimulatorNext => Simulator!Next
  BY Zenon DEF SimulatorNext, SimulatorStep
<1>2. MappingNext \/ StateNext \/ ClockNext \/ UNCHANGED everything
        => UNCHANGED simulatorVars
  BY DEF MappingNext, StateNext, ClockNext, ClockStep, everything
<1> QED BY <1>1, <1>2 DEF MCNext

LEMMA SimulatorInvariance == MCSpec => []SimulatorInv
<1>1. MCInit => SimulatorInv
  BY SimulatorStart DEF MCInit
<1>2. SimulatorInv /\ [MCNext]_everything => SimulatorInv'
  BY SimulatorKeeps, SimulatorProjection
<1> QED BY <1>1, <1>2, PTL DEF MCSpec

(* Commands of the two threads that do not overlap each other or the start  *)
(* of update() make of the members what they make one by one.               *)
THEOREM CommandsLoseNothing == MCSpec => []AloneAsOrdered
<1>1. SimulatorInv => AloneAsOrdered
  BY DEF SimulatorInv, OrderInv, Going, AloneAsOrdered, Simulator!AloneAsOrdered,
         Simulator!Busy, Simulator!Members
<1> QED BY <1>1, SimulatorInvariance, PTL

-----------------------------------------------------------------------------
(* The clock. Once update() has split the hour of its sample, the hour and  *)
(* the managed light make it up; once it has published the digits, they     *)
(* show it in the way the seconds' setting says, unless a press came.       *)
Half == IF face.speedManaged THEN 12 ELSE 0
Split == hour + Half = Clock!Hour(timestamp)

Digits(seconds) ==
  LET m == Clock!Minute(timestamp)
  IN  IF seconds
      THEN /\ face.speed = hour * 10 + m \div 10
           /\ face.heading = (m % 10) * 100 + Clock!Second(timestamp)
      ELSE face.speed = hour /\ face.heading = m

ClockInv ==
  /\ Clock!TypeOK
  /\ clockSource \in {"digits", "altitude", "expire", "clear", "clock"} => Split
  /\ clockSource \in {"altitude", "expire", "clear", "clock"} =>
       \E seconds \in BOOLEAN : Digits(seconds) /\ (seconds = showSeconds \/ presses > 0)

(* The hour, minute and second of a sample, and what the clock makes of     *)
(* them.                                                                    *)
LEMMA TimeOfDay ==
  ASSUME NEW t \in Nat
  PROVE  Clock!Hour(t) \in 0..23 /\ Clock!Minute(t) \in 0..59 /\ Clock!Second(t) \in 0..59
<1>1. Midnight \in Nat /\ Clock!Day = 86400
  BY SMT, ClockAssumption DEF Clock!ClockConstants, Clock!Day
<1>2. PICK u \in Nat : u = Midnight + t
  BY <1>1
<1>3. u % 86400 \in Nat /\ u % 86400 < 86400
  BY SMT
<1>4. PICK s \in Nat : s = u % 86400 /\ s < 86400
  BY SMT, <1>3
<1>5. s = Clock!SecondOfDay(t)
  BY SMT, <1>1, <1>2, <1>4 DEF Clock!SecondOfDay
<1>6. s \div 3600 \in 0..23
  BY SMT, <1>4
<1>7. (s % 3600) \div 60 \in 0..59
  <2>1. PICK v \in 0..3599 : v = s % 3600
    BY SMT, <1>4
  <2> QED BY SMT, <2>1
<1>8. s % 60 \in 0..59
  BY SMT, <1>4
<1> QED BY SMT, <1>5, <1>6, <1>7, <1>8 DEF Clock!Hour, Clock!Minute, Clock!Second

ClockNumber(h, m, s) == h * 10000 + m * 100 + s

LEMMA ClockDigits ==
  ASSUME NEW h \in 0..23, NEW m \in 0..59, NEW s \in 0..59
  PROVE  ClockNumber(h, m, s) \in 0..Clock!LastClock
<1>1. h * 10000 + m * 100 + s <= 235959 /\ h * 10000 + m * 100 + s \in Nat
  BY SMT
<1>2. Clock!LastClock \in Nat /\ h * 10000 + m * 100 + s <= Clock!LastClock
  BY SMT, <1>1 DEF Clock!LastClock
<1> QED BY SMT, <1>1, <1>2 DEF ClockNumber

(* What publishing values does to the others. *)
Face(m, sp, hd, al, c, i) ==
  [speedManaged |-> m, speed |-> sp, heading |-> hd, altitude |-> al,
   com1Hz |-> c, inHg |-> i]

LEMMA FaceParts ==
  ASSUME NEW f \in Clock!Faces
  PROVE  \E m, sp, hd, al, c, i : f = Face(m, sp, hd, al, c, i)
<1>1. f = Face(f.speedManaged, f.speed, f.heading, f.altitude, f.com1Hz, f.inHg)
  BY SMT DEF Clock!Faces, Face
<1> QED BY <1>1, Zenon

WithClock(f, c, i) == [f EXCEPT !.com1Hz = c, !.inHg = i]
WithDigits(f, sp, hd) == [f EXCEPT !.speed = sp, !.heading = hd]

LEMMA FaceWith ==
  ASSUME NEW f, NEW m, NEW sp, NEW hd, NEW al, NEW c, NEW i,
         f = Face(m, sp, hd, al, c, i), NEW x, NEW y
  PROVE  /\ WithClock(f, x, y) = Face(m, sp, hd, al, x, y)
         /\ WithDigits(f, x, y) = Face(m, x, y, al, c, i)
<1>1. [Face(m, sp, hd, al, c, i) EXCEPT !.com1Hz = x] = Face(m, sp, hd, al, x, i)
  BY SMT DEF Face
<1>2. [Face(m, sp, hd, al, x, i) EXCEPT !.inHg = y] = Face(m, sp, hd, al, x, y)
  BY SMT DEF Face
<1>3. [Face(m, sp, hd, al, c, i) EXCEPT !.speed = x] = Face(m, x, hd, al, c, i)
  BY SMT DEF Face
<1>4. [Face(m, x, hd, al, c, i) EXCEPT !.heading = y] = Face(m, x, y, al, c, i)
  BY SMT DEF Face
<1>5. /\ WithClock(f, x, y) = [[f EXCEPT !.com1Hz = x] EXCEPT !.inHg = y]
      /\ WithDigits(f, x, y) = [[f EXCEPT !.speed = x] EXCEPT !.heading = y]
  BY Zenon DEF WithClock, WithDigits
<1> QED BY Zenon, <1>1, <1>2, <1>3, <1>4, <1>5

LEMMA ClockStart == Clock!Init => ClockInv
<1> SUFFICES ASSUME Clock!Init PROVE ClockInv
  OBVIOUS
<1>1. MaxTime \in Nat /\ MaxPresses \in Nat /\ 0 \in 0..Clock!LastClock
  BY SMT, ClockAssumption DEF Clock!ClockConstants, Clock!LastClock
<1>2. face \in Clock!Faces
  BY SMT, <1>1 DEF Clock!Init, Clock!Faces
<1>3. /\ clockRunning = TRUE /\ clockSource = "new"
      /\ now = 0 /\ timestamp = 0 /\ showYearTime = 0 /\ hour = 0 /\ presses = 0
      /\ hour24 = TRUE /\ showSeconds = FALSE /\ showYear = FALSE /\ pressing = FALSE
  BY DEF Clock!Init
<1>4. Clock!TypeOK
  <2>1. now \in 0..MaxTime /\ timestamp \in 0..now /\ showYearTime \in 0..now
    BY SMT, <1>1, <1>3
  <2>2. hour \in 0..23 /\ presses \in 0..MaxPresses
    BY SMT, <1>1, <1>3
  <2>3. clockRunning \in BOOLEAN /\ hour24 \in BOOLEAN /\ showSeconds \in BOOLEAN
        /\ showYear \in BOOLEAN /\ pressing \in BOOLEAN
    BY Zenon, <1>3
  <2> QED BY SMT, <1>2, <1>3, <2>1, <2>2, <2>3 DEF Clock!TypeOK
<1> QED BY <1>3, <1>4 DEF ClockInv

(* Steps that leave the sample, the hour and the published values alone.    *)
LEMMA ClockKept ==
  ASSUME ClockInv, Clock!TypeOK', UNCHANGED <<timestamp, hour, face>>,
         presses' > 0 \/ (showSeconds' = showSeconds /\ presses' = presses),
         clockSource' \in {"digits", "altitude", "expire", "clear", "clock"} =>
           clockSource \in {"digits", "altitude", "expire", "clear", "clock"},
         clockSource' \in {"altitude", "expire", "clear", "clock"} =>
           clockSource \in {"altitude", "expire", "clear", "clock"}
  PROVE  ClockInv'
<1>1. \A x : Clock!Hour(x)' = Clock!Hour(x) /\ Clock!Minute(x)' = Clock!Minute(x)
             /\ Clock!Second(x)' = Clock!Second(x)
  BY DEF Clock!Hour, Clock!Minute, Clock!Second, Clock!SecondOfDay
<1>2. Split <=> Split'
  BY <1>1 DEF Split, Half
<1>3. \A seconds : Digits(seconds) => Digits(seconds)'
  BY <1>1 DEF Digits
<1> QED BY <1>2, <1>3 DEF ClockInv

(* Every step keeps the variables in their domains. *)
LEMMA ClockTypes == Clock!TypeOK /\ [Clock!Next]_clockVars => Clock!TypeOK'
<1> SUFFICES ASSUME Clock!TypeOK, [Clock!Next]_clockVars PROVE Clock!TypeOK'
  OBVIOUS
<1> USE DEF Clock!settingVars, Clock!pressVars, Clock!updateVars
<1>0. MaxTime \in Nat /\ Step \in Nat /\ MaxPresses \in Nat
  BY SMT, ClockAssumption DEF Clock!ClockConstants
<1>1. CASE Clock!Tick
  BY SMT, <1>0, <1>1 DEF Clock!TypeOK, Clock!Tick
<1>2. CASE Clock!Connect
  BY SMT, <1>2 DEF Clock!TypeOK, Clock!Connect
<1>3. CASE Clock!Disconnect
  <2>1. clockRunning' \in BOOLEAN
    BY Zenon, <1>3 DEF Clock!Disconnect
  <2>2. UNCHANGED <<now, clockSource, timestamp, hour, hour24, showSeconds, showYear,
                    showYearTime, pressing, presses, face>>
    BY <1>3 DEF Clock!Disconnect
  <2> QED BY SMT, <2>1, <2>2 DEF Clock!TypeOK
<1>4. CASE Clock!Sample
  BY SMT, <1>0, <1>4 DEF Clock!TypeOK, Clock!Sample
<1>5. CASE Clock!End
  BY SMT, <1>5 DEF Clock!TypeOK, Clock!End
<1>6. CASE Clock!PublishManaged
  <2>1. Clock!Hour(timestamp) \in 0..23
    BY TimeOfDay DEF Clock!TypeOK
  <2>2. PICK afternoon \in BOOLEAN :
          afternoon = (~hour24 /\ Clock!Hour(timestamp) > 12)
    OBVIOUS
  <2>3. /\ clockSource' = "digits"
        /\ hour' = IF afternoon THEN Clock!Hour(timestamp) - 12 ELSE Clock!Hour(timestamp)
        /\ face' = [face EXCEPT !.speedManaged = afternoon]
        /\ UNCHANGED <<clockRunning, now, timestamp, hour24, showSeconds, showYear,
                       showYearTime, pressing, presses>>
    BY <1>6, <2>2 DEF Clock!PublishManaged
  <2>4. afternoon => Clock!Hour(timestamp) > 12
    BY <2>2
  <2>5. hour' \in 0..23
    BY SMT, <2>1, <2>3, <2>4
  <2> QED BY SMT, <2>3, <2>5 DEF Clock!TypeOK, Clock!Faces
<1>7. CASE Clock!PublishDigits
  <2> DEFINE m == Clock!Minute(timestamp)
             s == Clock!Second(timestamp)
  <2>1. m \in 0..59 /\ s \in 0..59 /\ hour \in 0..23
    BY TimeOfDay DEF Clock!TypeOK
  <2>2. /\ clockSource' = "altitude"
        /\ UNCHANGED <<clockRunning, now, timestamp, hour, hour24, showSeconds, showYear,
                       showYearTime, pressing, presses>>
        /\ \/ face' = WithDigits(face, hour * 10 + m \div 10, (m % 10) * 100 + s)
           \/ face' = WithDigits(face, hour, m)
    BY <1>7 DEF Clock!PublishDigits, WithDigits
  <2> HIDE DEF m, s
  <2>3. PICK speed1, heading1 :
          /\ speed1 = hour * 10 + m \div 10 /\ heading1 = (m % 10) * 100 + s
    OBVIOUS
  <2>4. m \div 10 \in 0..5 /\ m % 10 \in 0..9
    BY SMT, <2>1
  <2>5. speed1 \in 0..239 /\ heading1 \in 0..959 /\ hour \in 0..239 /\ m \in 0..959
    BY SMT, <2>1, <2>3, <2>4
  <2>6. face' \in Clock!Faces
    <3>1. face \in Clock!Faces
      BY DEF Clock!TypeOK
    <3>2. PICK ma, sp, hd, al, c, i : face = Face(ma, sp, hd, al, c, i)
      BY <3>1, FaceParts, SMT
    <3>3. CASE face' = WithDigits(face, speed1, heading1)
      <4>1. face' = Face(ma, speed1, heading1, al, c, i)
        BY SMT, <3>2, <3>3, FaceWith
      <4> QED BY SMT, <2>5, <3>1, <3>2, <4>1 DEF Clock!Faces, Face
    <3>4. CASE face' = WithDigits(face, hour, m)
      <4>1. face' = Face(ma, hour, m, al, c, i)
        BY SMT, <3>2, <3>4, FaceWith
      <4> QED BY SMT, <2>5, <3>1, <3>2, <4>1 DEF Clock!Faces, Face
    <3> QED BY Zenon, <2>2, <2>3, <3>3, <3>4
  <2> QED BY <2>2, <2>6 DEF Clock!TypeOK
<1>8. CASE Clock!PublishAltitude
  BY SMT, <1>8 DEF Clock!TypeOK, Clock!Faces, Clock!PublishAltitude
<1>9. CASE Clock!ExpireYear
  BY SMT, <1>9 DEF Clock!TypeOK, Clock!ExpireYear
<1>10. CASE Clock!ClearYear
  <2>1. showYear' \in BOOLEAN
    BY Zenon, <1>10 DEF Clock!ClearYear
  <2>2. /\ clockSource' = "clock"
        /\ UNCHANGED <<clockRunning, now, timestamp, hour, hour24, showSeconds,
                       showYearTime, pressing, presses, face>>
    BY <1>10 DEF Clock!ClearYear
  <2> QED BY SMT, <2>1, <2>2 DEF Clock!TypeOK
<1>11. CASE Clock!PublishClock
  <2>1. Clock!Minute(timestamp) \in 0..59 /\ Clock!Second(timestamp) \in 0..59
        /\ hour \in 0..23
    BY TimeOfDay DEF Clock!TypeOK
  <2>2. PICK c, i : /\ c = ClockNumber(hour, Clock!Minute(timestamp),
                                        Clock!Second(timestamp))
                    /\ i = hour * 100 + Clock!Minute(timestamp)
    OBVIOUS
  <2>3. c \in 0..Clock!LastClock
    BY <2>1, <2>2, ClockDigits
  <2>4. i \in 0..2359
    BY SMT, <2>1, <2>2
  <2>5. /\ face' = WithClock(face, c, i) /\ clockSource' = "loop"
        /\ UNCHANGED <<clockRunning, now, timestamp, hour, hour24, showSeconds, showYear,
                       showYearTime, pressing, presses>>
    BY SMT, <1>11, <2>2 DEF Clock!PublishClock, ClockNumber, WithClock
  <2>6. face' \in Clock!Faces
    <3>1. face \in Clock!Faces
      BY DEF Clock!TypeOK
    <3>2. PICK m, sp, hd, al, c1, j : face = Face(m, sp, hd, al, c1, j)
      BY <3>1, FaceParts, SMT
    <3>3. face' = Face(m, sp, hd, al, c, i)
      BY SMT, <2>5, <3>2, FaceWith
    <3> QED BY SMT, <2>3, <2>4, <3>1, <3>2, <3>3 DEF Clock!Faces, Face
  <2> QED BY <2>5, <2>6 DEF Clock!TypeOK
<1>12. CASE Clock!PressAltitude
  BY SMT, <1>0, <1>12 DEF Clock!TypeOK, Clock!PressAltitude, Clock!CanPress
<1>13. CASE Clock!PressHeading
  BY SMT, <1>0, <1>13 DEF Clock!TypeOK, Clock!PressHeading, Clock!CanPress
<1>14. CASE Clock!PressSpeed
  BY SMT, <1>0, <1>14 DEF Clock!TypeOK, Clock!PressSpeed, Clock!CanPress
<1>15. CASE Clock!StampYear
  <2>1. pressing' \in BOOLEAN
    BY Zenon, <1>15 DEF Clock!StampYear
  <2>2. /\ showYearTime' = now
        /\ UNCHANGED <<clockRunning, now, clockSource, timestamp, hour, hour24,
                       showSeconds, showYear, presses, face>>
    BY <1>15 DEF Clock!StampYear
  <2> QED BY SMT, <1>0, <2>1, <2>2 DEF Clock!TypeOK
<1>16. CASE UNCHANGED clockVars
  BY SMT, <1>16 DEF Clock!TypeOK, clockVars
<1> QED BY <1>1, <1>2, <1>3, <1>4, <1>5, <1>6, <1>7, <1>8, <1>9, <1>10, <1>11, <1>12,
           <1>13, <1>14, <1>15, <1>16 DEF Clock!Next, Clock!Update

(* Every step keeps the invariant. *)
LEMMA ClockKeeps == ClockInv /\ [Clock!Next]_clockVars => ClockInv'
<1> SUFFICES ASSUME ClockInv, [Clock!Next]_clockVars PROVE ClockInv'
  OBVIOUS
<1> USE DEF Clock!settingVars, Clock!pressVars, Clock!updateVars
<1>0. Clock!TypeOK /\ Clock!TypeOK'
  BY ClockTypes DEF ClockInv
(* A sample that stays has the same time.                                   *)
<1>time. ASSUME UNCHANGED timestamp
         PROVE  /\ Clock!Hour(timestamp)' = Clock!Hour(timestamp)
                /\ Clock!Minute(timestamp)' = Clock!Minute(timestamp)
                /\ Clock!Second(timestamp)' = Clock!Second(timestamp)
  BY <1>time DEF Clock!Hour, Clock!Minute, Clock!Second, Clock!SecondOfDay, Clock!Day
<1>1. CASE Clock!Tick \/ Clock!Connect \/ Clock!Disconnect \/ Clock!End
  BY <1>0, <1>1, ClockKept DEF Clock!Tick, Clock!Connect, Clock!Disconnect, Clock!End
<1>2. CASE Clock!Sample
  BY <1>0, <1>2 DEF ClockInv, Clock!Sample
<1>3. CASE Clock!PublishManaged
  <2>1. Clock!Hour(timestamp) \in 0..23 /\ Clock!Hour(timestamp)' = Clock!Hour(timestamp)
    BY <1>0, <1>3, <1>time, TimeOfDay DEF Clock!TypeOK, Clock!PublishManaged
  <2>2. PICK afternoon \in BOOLEAN :
          afternoon = (~hour24 /\ Clock!Hour(timestamp) > 12)
    OBVIOUS
  <2>3. /\ hour' = IF afternoon THEN Clock!Hour(timestamp) - 12 ELSE Clock!Hour(timestamp)
        /\ face' = [face EXCEPT !.speedManaged = afternoon]
    BY <1>3, <2>2 DEF Clock!PublishManaged
  <2>4. Split'
    <3>1. face'.speedManaged = afternoon
      BY <1>0, <2>3 DEF Clock!TypeOK, Clock!Faces
    <3>2. CASE afternoon = TRUE
      <4>1. Half' = 12 /\ hour' = Clock!Hour(timestamp) - 12
        BY Zenon, <2>3, <3>1, <3>2 DEF Half
      <4> QED BY SMT, <2>1, <4>1 DEF Split
    <3>3. CASE afternoon = FALSE
      <4>1. Half' = 0 /\ hour' = Clock!Hour(timestamp)
        BY Zenon, <2>3, <3>1, <3>3 DEF Half
      <4> QED BY SMT, <2>1, <4>1 DEF Split
    <3> QED BY <2>2, <3>2, <3>3
  <2> QED BY <1>0, <1>3, <2>4 DEF ClockInv, Clock!PublishManaged
<1>4. CASE Clock!PublishDigits
  <2>1. /\ clockSource = "digits" /\ clockSource' = "altitude"
        /\ UNCHANGED <<timestamp, hour, showSeconds, presses>>
    BY <1>4 DEF Clock!PublishDigits
  <2>2. PICK sp, hd : /\ face' = WithDigits(face, sp, hd)
                      /\ \/ /\ showSeconds
                            /\ sp = hour * 10 + Clock!Minute(timestamp) \div 10
                            /\ hd = (Clock!Minute(timestamp) % 10) * 100
                                      + Clock!Second(timestamp)
                         \/ ~showSeconds /\ sp = hour /\ hd = Clock!Minute(timestamp)
    BY Zenon, <1>4 DEF Clock!PublishDigits, WithDigits
  <2>a. /\ hour \in 0..23 /\ Clock!Minute(timestamp) \in 0..59
        /\ Clock!Second(timestamp) \in 0..59
    BY <1>0, TimeOfDay DEF Clock!TypeOK
  <2>b. sp \in 0..239 /\ hd \in 0..959
    BY SMT, <2>2, <2>a
  <2>c. /\ face'.speedManaged = face.speedManaged
        /\ face'.speed = sp /\ face'.heading = hd
    <3>1. face \in Clock!Faces
      BY <1>0 DEF Clock!TypeOK
    <3>2. face' = WithDigits(face, sp, hd)
      BY Zenon, <2>2
    <3>3. PICK m, s, h, al, c, i : face = Face(m, s, h, al, c, i)
      BY <3>1, FaceParts, SMT
    <3>4. face' = Face(m, sp, hd, al, c, i)
      BY SMT, <3>2, <3>3, FaceWith
    <3> QED BY SMT, <3>3, <3>4 DEF Face
  <2>3. Split'
    BY <1>time, <2>1, <2>c DEF ClockInv, Split, Half
  <2>4. Digits(showSeconds)'
    BY <1>time, <2>1, <2>2, <2>c DEF Digits
  <2>5. showSeconds' \in BOOLEAN
    BY <1>0 DEF Clock!TypeOK
  <2> QED BY <1>0, <2>1, <2>3, <2>4, <2>5 DEF ClockInv
<1>5. CASE Clock!PublishAltitude \/ Clock!PublishClock
  <2>1. /\ UNCHANGED <<timestamp, hour, showSeconds, presses>>
        /\ clockSource' \in {"expire", "clock", "loop"}
        /\ clockSource' \in {"expire", "clock"} => clockSource = "altitude"
    BY <1>5 DEF Clock!PublishAltitude, Clock!PublishClock
  <2>2. /\ face'.speedManaged = face.speedManaged
        /\ face'.speed = face.speed /\ face'.heading = face.heading
    <3>1. CASE Clock!PublishAltitude
      BY <1>0, <3>1 DEF Clock!PublishAltitude, Clock!TypeOK, Clock!Faces
    <3>2. CASE Clock!PublishClock
      BY <1>0, <3>2 DEF Clock!PublishClock, Clock!TypeOK, Clock!Faces
    <3> QED BY <1>5, <3>1, <3>2
  <2>3. (Split => Split') /\ \A seconds : Digits(seconds) => Digits(seconds)'
    BY <1>time, <2>1, <2>2 DEF Split, Half, Digits
  <2> QED BY <1>0, <2>1, <2>3 DEF ClockInv
<1>6. CASE Clock!ExpireYear \/ Clock!ClearYear
  BY <1>0, <1>6, ClockKept DEF Clock!ExpireYear, Clock!ClearYear
<1>7. CASE Clock!PressAltitude \/ Clock!PressHeading \/ Clock!PressSpeed
  <2>1. presses' > 0
    BY <1>0, <1>7 DEF Clock!PressAltitude, Clock!PressHeading, Clock!PressSpeed,
        Clock!TypeOK
  <2>2. UNCHANGED <<timestamp, hour, face>> /\ clockSource' = clockSource
    BY <1>7 DEF Clock!PressAltitude, Clock!PressHeading, Clock!PressSpeed
  <2>3. presses' > 0 \/ (showSeconds' = showSeconds /\ presses' = presses)
    BY <2>1
  <2> QED BY <1>0, <2>2, <2>3, ClockKept
<1>8. CASE Clock!StampYear \/ UNCHANGED clockVars
  BY <1>0, <1>8, ClockKept DEF Clock!StampYear, clockVars
<1> QED BY <1>1, <1>2, <1>3, <1>4, <1>5, <1>6, <1>7, <1>8 DEF Clock!Next, Clock!Update

(* What the digits on the panel stand for. *)
LEMMA DigitsRead ==
  ASSUME ClockInv, NEW seconds \in BOOLEAN, Digits(seconds), Split
  PROVE  /\ Clock!HoursShown(seconds) + (IF face.speedManaged THEN 12 ELSE 0)
              = Clock!Hour(timestamp)
         /\ Clock!MinutesShown(seconds) = Clock!Minute(timestamp)
<1> DEFINE m == Clock!Minute(timestamp)
           s == Clock!Second(timestamp)
<1>1. m \in 0..59 /\ s \in 0..59 /\ hour \in 0..23
  BY TimeOfDay DEF ClockInv, Clock!TypeOK
<1>2. CASE seconds = TRUE
  <2>1. face.speed = hour * 10 + m \div 10 /\ face.heading = (m % 10) * 100 + s
    BY <1>2 DEF Digits
  <2> HIDE DEF m, s
  <2>2. (hour * 10 + m \div 10) \div 10 = hour
    BY <1>1
  <2>3. ((hour * 10 + m \div 10) % 10) * 10 + ((m % 10) * 100 + s) \div 100 = m
    BY <1>1
  <2>4. Clock!HoursShown(TRUE) = hour /\ Clock!MinutesShown(TRUE) = m
    BY <2>1, <2>2, <2>3 DEF Clock!HoursShown, Clock!MinutesShown
  <2> QED BY <1>2, <2>4 DEF Split, Half, m
<1>3. CASE seconds = FALSE
  BY <1>3 DEF Digits, Split, Half, Clock!HoursShown, Clock!MinutesShown
<1> QED BY <1>2, <1>3

LEMMA ClockProjection == [MCNext]_everything => [Clock!Next]_clockVars
<1>1. ClockNext => Clock!Next
  BY Zenon DEF ClockNext, ClockStep
<1>2. MappingNext \/ StateNext \/ SimulatorNext \/ UNCHANGED everything
        => UNCHANGED clockVars
  BY DEF everything, MappingNext, StateNext, SimulatorNext, SimulatorStep
<1> QED BY <1>1, <1>2 DEF MCNext

LEMMA ClockInvariance == MCSpec => []ClockInv
<1>1. MCInit => ClockInv
  BY ClockStart DEF MCInit
<1>2. ClockInv /\ [MCNext]_everything => ClockInv'
  BY ClockKeeps, ClockProjection
<1> QED BY <1>1, <1>2, PTL DEF MCSpec

(* After a full round the panel shows the hour and minute update() sampled, *)
(* read the way the seconds' setting says, or said when a press came during *)
(* the round.                                                               *)
THEOREM FaceCorrect == MCSpec => []FaceShowsTime
<1>1. ClockInv => FaceShowsTime
  <2> SUFFICES ASSUME ClockInv, clockSource = "clock" PROVE FaceShowsTime
    BY DEF FaceShowsTime, Clock!FaceShowsTime
  <2>1. Split
    BY DEF ClockInv
  <2>2. PICK seconds \in BOOLEAN :
          Digits(seconds) /\ (seconds = showSeconds \/ presses > 0)
    BY DEF ClockInv
  <2>3. seconds \in {showSeconds} \cup (IF presses > 0 THEN BOOLEAN ELSE {})
    BY <2>2
  <2> QED BY <2>1, <2>2, <2>3, DigitsRead DEF FaceShowsTime, Clock!FaceShowsTime
<1> QED BY <1>1, ClockInvariance, PTL

-----------------------------------------------------------------------------
(* The whole.                                                               *)
LEMMA MappingProjection == [MCNext]_everything => [Next]_vars
<1>1. MappingNext => Next
  BY Zenon DEF MappingNext
<1>2. StateNext \/ SimulatorNext \/ ClockNext \/ UNCHANGED everything
        => UNCHANGED vars
  BY DEF StateNext, SimulatorNext, SimulatorStep, ClockNext, ClockStep, everything
<1> QED BY <1>1, <1>2 DEF MCNext

LEMMA MappingInvariance == MCSpec => []IInv
<1>1. MCInit => IInv
  BY InvStart DEF MCInit
<1>2. IInv /\ [MCNext]_everything => IInv'
  BY InvStep, MappingProjection
<1> QED BY <1>1, <1>2, PTL DEF MCSpec

(* Every variable of the four parts stays in its domain.                    *)
THEOREM TypesCorrect == MCSpec => []TypesOK
<1>1. IInv /\ StateInv /\ SimulatorInv /\ ClockInv => TypesOK
  BY DEF TypesOK, IInv, StateInv, SimulatorInv, ClockInv
<1> QED BY <1>1, MappingInvariance, StateInvariance, SimulatorInvariance,
           ClockInvariance, PTL
=============================================================================
