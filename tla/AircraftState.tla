---------------------------- MODULE AircraftState ----------------------------
(***************************************************************************)
(* AircraftState: the values the data source writes and the devices read.   *)
(*                                                                          *)
(* m_mutex protects the map from names to AircraftValue objects, so looking *)
(* a name up and creating it are single steps.  It does not protect the     *)
(* objects: set() stores m_type and then m_value, a getter reads m_type and  *)
(* then asks m_value for the alternative that goes with it, which throws    *)
(* when the variant holds another one.  As the stores race with the reads,  *)
(* they may be seen in either order.                                        *)
(*                                                                          *)
(* One thread writes: the data source's, or X-Plane's in the plugin.  The   *)
(* device thread and the Lua scripts read through the pointer getState()    *)
(* gave them.  Values are numbered by the write that stored them.           *)
(***************************************************************************)
EXTENDS Naturals

CONSTANTS
  Names,
  Readers,
  TypesOf,    \* the types the data source writes under each name
  MaxWrites   \* bound: calls of set()

Types == {"INTEGER", "FLOAT", "STRING"}

StateConstants ==
  /\ TypesOf \in [Names -> SUBSET Types]
  /\ MaxWrites \in Nat

Nothing == [holds |-> "UNKNOWN", write |-> 0]
Default == [did |-> "default", write |-> 0]
Threw   == [did |-> "threw", write |-> 0]
Got(w)  == [did |-> "value", write |-> w]

VARIABLES
  valuesByName,  \* the names in m_valuesByName
  type,          \* m_type of each name's object
  value,         \* m_value: the alternative it holds, and the write it is from
  writer,        \* the set() in progress: its name, type and remaining stores
  writes,        \* how many times set() was called
  settled,       \* the last write completed under each name, 0 for none
  reader,        \* where each reader is, the name it asks for, the type it saw
  since,         \* the last write completed when the reader read m_type
  result         \* what the last getter of each reader did

objectVars == <<valuesByName, type, value>>
writerVars == <<writer, writes, settled>>
readerVars == <<reader, since, result>>
vars == <<objectVars, writerVars, readerVars>>

Idle == [at |-> "idle"]

Init ==
  /\ valuesByName = {}
  /\ type = [n \in Names |-> "UNKNOWN"]
  /\ value = [n \in Names |-> Nothing]
  /\ writer = Idle /\ writes = 0 /\ settled = [n \in Names |-> 0]
  /\ reader = [t \in Readers |-> Idle]
  /\ since = [t \in Readers |-> 0]
  /\ result = [t \in Readers |-> Default]

-----------------------------------------------------------------------------
(* The writer.                                                              *)

(* The bug of writing to an object that the map does not keep. *)
BeginSet_NotKept ==
  /\ writer = Idle /\ writes < MaxWrites
  /\ writes' = writes + 1
  /\ \E n \in Names : \E ty \in TypesOf[n] :
       writer' = [at |-> "set", name |-> n, type |-> ty, left |-> {"type", "value"}]
  /\ UNCHANGED <<objectVars, settled, readerVars>>

(* set() finds or creates the name's object, with UNKNOWN and monostate. *)
BeginSet ==
  /\ writer = Idle /\ writes < MaxWrites
  /\ writes' = writes + 1
  /\ \E n \in Names : \E ty \in TypesOf[n] :
       /\ valuesByName' = valuesByName \cup {n}
       /\ writer' = [at |-> "set", name |-> n, type |-> ty, left |-> {"type", "value"}]
  /\ UNCHANGED <<type, value, settled, readerVars>>

(* The bug of setting the value and leaving the type as it was. *)
StoreType_Dropped ==
  /\ writer.at = "set" /\ "type" \in writer.left
  /\ writer' = [writer EXCEPT !.left = @ \ {"type"}]
  /\ UNCHANGED <<objectVars, writes, settled, readerVars>>

StoreType ==
  /\ writer.at = "set" /\ "type" \in writer.left
  /\ type' = [type EXCEPT ![writer.name] = writer.type]
  /\ writer' = [writer EXCEPT !.left = @ \ {"type"}]
  /\ UNCHANGED <<valuesByName, value, writes, settled, readerVars>>

(* The bug of storing every value in the alternative of another type. *)
StoreValue_Alternative ==
  /\ writer.at = "set" /\ "value" \in writer.left
  /\ value' = [value EXCEPT ![writer.name] = [holds |-> "STRING", write |-> writes]]
  /\ writer' = [writer EXCEPT !.left = @ \ {"value"}]
  /\ UNCHANGED <<valuesByName, type, writes, settled, readerVars>>

StoreValue ==
  /\ writer.at = "set" /\ "value" \in writer.left
  /\ value' = [value EXCEPT ![writer.name] = [holds |-> writer.type, write |-> writes]]
  /\ writer' = [writer EXCEPT !.left = @ \ {"value"}]
  /\ UNCHANGED <<valuesByName, type, writes, settled, readerVars>>

EndSet ==
  /\ writer.at = "set" /\ writer.left = {}
  /\ settled' = [settled EXCEPT ![writer.name] = writes]
  /\ writer' = Idle
  /\ UNCHANGED <<objectVars, writes, readerVars>>

Writer == BeginSet \/ StoreType \/ StoreValue \/ EndSet

-----------------------------------------------------------------------------
(* A reader: any number of getters.                                         *)

(* getInt(), getFloat() or getString() of a name nobody has created. *)
GetMissing(t) ==
  /\ reader[t] = Idle
  /\ Names \ valuesByName # {}
  /\ result' = [result EXCEPT ![t] = Default]
  /\ UNCHANGED <<objectVars, writerVars, reader, since>>

ReadType(t) ==
  /\ reader[t] = Idle
  /\ \E n \in valuesByName :
       /\ reader' = [reader EXCEPT ![t] = [at |-> "get", name |-> n, type |-> type[n]]]
       /\ since' = [since EXCEPT ![t] = settled[n]]
  /\ UNCHANGED <<objectVars, writerVars, result>>

ReadValue(t) ==
  LET r == reader[t]
      v == value[r.name]
  IN  /\ r.at = "get"
      /\ reader' = [reader EXCEPT ![t] = Idle]
      /\ \/ /\ r.type = "UNKNOWN"
            /\ result' = [result EXCEPT ![t] = Default]
         \/ /\ r.type # "UNKNOWN" /\ v.holds # r.type
            /\ result' = [result EXCEPT ![t] = Threw]
         \/ /\ r.type # "UNKNOWN" /\ v.holds = r.type
            /\ result' = [result EXCEPT ![t] = Got(v.write)]
      /\ UNCHANGED <<objectVars, writerVars, since>>

Reader(t) == GetMissing(t) \/ ReadType(t) \/ ReadValue(t)

Next == Writer \/ \E t \in Readers : Reader(t)

Spec == Init /\ [][Next]_vars

-----------------------------------------------------------------------------
(* Every variable stays in its domain, and only a set() has touched an      *)
(* object.                                                                  *)
TypeOK ==
  /\ valuesByName \subseteq Names
  /\ type \in [Names -> Types \cup {"UNKNOWN"}]
  /\ value \in [Names -> [holds : Types \cup {"UNKNOWN"}, write : 0..MaxWrites]]
  /\ \A n \in Names \ valuesByName : type[n] = "UNKNOWN" /\ value[n] = Nothing
  /\ writer = Idle \/ writer \in [at : {"set"}, name : valuesByName, type : Types,
                                  left : SUBSET {"type", "value"}]
  /\ writes \in 0..MaxWrites
  /\ settled \in [Names -> 0..writes]
  /\ reader \in [Readers -> {Idle} \cup
       [at : {"get"}, name : valuesByName, type : Types \cup {"UNKNOWN"}]]
  /\ since \in [Readers -> 0..writes]
  /\ result \in [Readers -> [did : {"default", "threw", "value"}, write : 0..writes]]

(* The data source writes the name with several types. *)
SeveralTypes(n) == \E a, b \in TypesOf[n] : a # b

(* A getter throws only while the first write under its name is in progress *)
(* or when the data source writes the name with several types: a name of    *)
(* one type is safe to read without a lock from its first write on.         *)
ThrowsOnlyOnTypeChange ==
  [][\A t \in Readers : result'[t] = Threw /\ result[t] # Threw =>
       \/ settled[reader[t].name] = 0
       \/ SeveralTypes(reader[t].name)]_vars

(* A read of a name of one type returns the last write completed before it  *)
(* began, or a later one: no default and no older value after a write.      *)
ReadsAreFresh ==
  [][\A t \in Readers :
       /\ reader[t].at = "get" /\ reader'[t] = Idle
       /\ since[t] > 0 /\ ~SeveralTypes(reader[t].name)
       => result'[t] \in {Got(w) : w \in since[t]..writes}]_vars
=============================================================================
