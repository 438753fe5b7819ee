--------------------------- MODULE NavigationProofs ---------------------------
(***************************************************************************)
(* What is proved of the navigation data and of what is made of them, for   *)
(* any constants that the assumptions allow: the writes of a transaction    *)
(* stay together, an answer about procedures is of one version of the file  *)
(* and whole, a nav aid is in one leaf of the quad tree and is found, an    *)
(* airport is what stands under its line in the file, a route takes the     *)
(* nearest of several nav aids and keeps its points, and a flight plan has  *)
(* a point for every entry.                                                 *)
(***************************************************************************)
EXTENDS MCNavigation, SequenceTheorems, FiniteSetTheorems, NaturalsInduction,
        WellFoundedInduction, TLAPS

-----------------------------------------------------------------------------
(* Least elements. *)

LEMMA FirstOf ==
  ASSUME NEW T, T \subseteq Nat, NEW t \in T
  PROVE  \E n \in T : \A m \in T : n <= m
<1>1. IsWellFoundedOn(OpToRel(<, Nat), Nat)
  BY NatLessThanWellFounded
<1>2. PICK n \in T : \A m \in T : <<m, n>> \notin OpToRel(<, Nat)
  BY <1>1, WFMin
<1>3. \A m \in T : ~(m < n)
  BY <1>2 DEF OpToRel
<1> QED BY <1>3

LEMMA LeastOf ==
  ASSUME NEW S, NEW D, NEW d \in S, S \subseteq Nat, \A n \in S : D[n] \in Nat
  PROVE  \E n \in S : /\ \A m \in S : D[n] <= D[m]
                      /\ \A m \in S : m < n => D[n] < D[m]
<1>1. PICK k \in {D[n] : n \in S} : \A l \in {D[n] : n \in S} : k <= l
  <2>1. {D[n] : n \in S} \subseteq Nat /\ D[d] \in {D[n] : n \in S}
    OBVIOUS
  <2> QED BY <2>1, FirstOf
<1>2. PICK c \in S : D[c] = k
  OBVIOUS
<1>3. PICK a \in {n \in S : D[n] = k} : \A m \in {n \in S : D[n] = k} : a <= m
  <2>1. {n \in S : D[n] = k} \subseteq Nat /\ c \in {n \in S : D[n] = k}
    BY <1>2
  <2> QED BY <2>1, FirstOf
<1>4. ASSUME NEW m \in S PROVE D[a] <= D[m] /\ (m < a => D[a] < D[m])
  <2>1. k <= D[m] /\ k \in Nat /\ D[m] \in Nat /\ D[a] = k
    BY <1>1
  <2>2. m \in Nat /\ a \in Nat /\ (D[m] = k => a <= m)
    BY <1>3
  <2> QED BY <2>1, <2>2
<1> QED BY <1>4

-----------------------------------------------------------------------------
(* The database: the inductive invariant behind TransactionsAreWhole.       *)

(* A transaction that the caller is in, and that nothing has broken, is one *)
(* of SQLite's, and holds all of its writes back.                           *)
OpenInv ==
  depth > 0 /\ outer \notin broken => begun /\ WritesOf(outer) \subseteq pending

(* The writes of a transaction are held back together, reached the file     *)
(* together, or are lost together.                                          *)
Together(g) ==
  \/ /\ WritesOf(g) \subseteq pending
     /\ g \in completed \/ (g = outer /\ depth > 0)
  \/ g \in completed /\ WritesOf(g) \subseteq stored
  \/ WritesOf(g) \cap (stored \cup pending) = {}

DatabaseInv ==
  /\ TypeOK
  /\ pending \cap stored = {}
  /\ depth > 0 => outer > 0
  /\ OpenInv
  /\ \A g \in (1..outer) \ broken : Together(g)

-----------------------------------------------------------------------------
LEMMA LockType == Lock \in {"none", "shared", "reserved"}
BY DEF Lock

(* Every step keeps every variable in its domain. *)
LEMMA DatabaseTypeStep == TypeOK /\ [Next]_vars => TypeOK'
<1> SUFFICES ASSUME TypeOK, [Next]_vars PROVE TypeOK'
  OBVIOUS
<1> USE DatabaseConstants
    DEF TypeOK, openVars, fileVars, ghostVars
<1>broken. ASSUME Breaks PROVE broken' \subseteq 0..outer
  <2>1. outer \in 0..outer
    BY DEF TypeOK
  <2> QED BY <1>broken, <2>1 DEF Breaks
<1>1. CASE Open
  <2>1. left' \in {"none", "shared", "reserved"}
    BY <1>1, LockType DEF Open
  <2>2. statement' \in [Statements -> [at : {"none", "ready", "active", "orphan"},
                                       rows : 0..Rows]]
    BY <1>1 DEF Open
  <2>3. broken' \subseteq 0..outer
    BY <1>1, <1>broken DEF Open
  <2> QED BY <1>1, <2>1, <2>2, <2>3 DEF Open
<1>2. CASE OpenFails
  BY <1>2 DEF OpenFails
<1>3. CASE Close
  <2>1. broken' \subseteq 0..outer
    BY <1>3, <1>broken DEF Close
  <2>flags. /\ opened' \in BOOLEAN /\ connection' \in BOOLEAN
            /\ (opened' => connection')
            /\ begun' \in BOOLEAN /\ (begun' => connection')
            /\ (pending' # {} => begun')
    <3>1. CASE Live = {}
      <4>1. /\ opened' = FALSE /\ connection' = FALSE
            /\ begun' = FALSE /\ pending' = {}
        BY <1>3, <3>1, Zenon DEF Close
      <4> QED BY <4>1
    <3>2. CASE Live # {}
      <4>1. /\ opened' = FALSE /\ connection' = connection
            /\ begun' = begun /\ pending' = pending
        BY <1>3, <3>2, Zenon DEF Close
      <4> QED BY <4>1
    <3> QED BY <3>1, <3>2
  <2> QED BY <1>3, <2>1, <2>flags DEF Close
<1>4. CASE Crash
  <2>1. failures' \in 0..MaxFailures
    BY <1>4 DEF Crash
  <2>2. /\ statement' \in [Statements -> [at : {"none", "ready", "active", "orphan"},
                                        rows : 0..Rows]]
        /\ tries' \in [Statements -> 0..(Tries - 1)]
    BY <1>4 DEF Crash, NoStatement
  <2>flags. /\ opened' \in BOOLEAN /\ connection' \in BOOLEAN
            /\ (opened' => connection')
            /\ begun' \in BOOLEAN /\ (begun' => connection')
            /\ (pending' # {} => begun')
    BY <1>4 DEF Crash
  <2> QED BY <1>4, <2>1, <2>2, <2>flags DEF Crash
<1>5. CASE StartTransaction
  <2>1. outer' \in 0..MaxOuter /\ outer' >= outer
    BY <1>5 DEF StartTransaction
  <2>2. groupOf' \in [Writes -> 0..outer'] /\ completed' \subseteq 0..outer'
    BY <1>5, <2>1 DEF StartTransaction
  <2>3. broken' \subseteq 0..outer'
    BY <1>5, <2>1 DEF StartTransaction
  <2>4. depth' \in 0..MaxDepth
    BY <1>5 DEF StartTransaction
  <2> QED BY <1>5, <2>1, <2>2, <2>3, <2>4 DEF StartTransaction
<1>6. CASE EndTransaction
  <2>1. completed' \subseteq 0..outer'
    BY <1>6 DEF EndTransaction, Completes
  <2>2. depth' \in 0..MaxDepth
    BY <1>6 DEF EndTransaction
  <2>3. /\ begun' \in BOOLEAN /\ (begun' => connection')
        /\ pending' \subseteq Writes /\ stored' \subseteq Writes
        /\ (pending' # {} => begun')
    <3>1. CASE depth > 1
      BY <1>6, <3>1 DEF EndTransaction
    <3>2. CASE depth <= 1 /\ Commit
      <4>1. CASE /\ stored' = stored \cup pending
                 /\ pending' = {} /\ begun' = FALSE
        BY <4>1, <1>6 DEF EndTransaction
      <4>2. CASE UNCHANGED fileVars
        BY <4>2, <1>6 DEF EndTransaction
      <4> QED BY <3>2, <4>1, <4>2 DEF Commit
    <3> QED BY <1>6, <3>1, <3>2 DEF EndTransaction
  <2> QED BY <1>6, <2>1, <2>2, <2>3 DEF EndTransaction
<1>7. ASSUME NEW w \in Writes, Execute(w) PROVE TypeOK'
  <2>1. groupOf' \in [Writes -> 0..outer']
    BY <1>7 DEF Execute
  <2>2. /\ pending' \subseteq Writes /\ stored' \subseteq Writes
        /\ (pending' # {} => begun')
    BY <1>7 DEF Execute
  <2> QED BY <1>7, <2>1, <2>2 DEF Execute
<1>8. CASE ExecuteFails
  <2>1. broken' \subseteq 0..outer
    BY <1>8, <1>broken DEF ExecuteFails
  <2>flags. /\ opened' \in BOOLEAN /\ connection' \in BOOLEAN
            /\ (opened' => connection')
            /\ begun' \in BOOLEAN /\ (begun' => connection')
            /\ (pending' # {} => begun')
    BY <1>8 DEF ExecuteFails
  <2> QED BY <1>8, <2>1, <2>flags DEF ExecuteFails
<1>9. ASSUME NEW s \in Statements,
             PrepareStatement(s) \/ Step(s) \/ StepBusy(s) \/ Reset(s) \/ Finalize(s)
      PROVE TypeOK'
  <2> USE DEF Goes, QueryVars
  <2>1. CASE PrepareStatement(s)
    BY <2>1 DEF PrepareStatement
  <2>2. CASE Step(s)
    <3>1. PICK n \in 0..Rows, at \in {"ready", "active"} : Goes(s, at, n)
      BY <2>2 DEF Step
    <3>2. tries' \in [Statements -> 0..(Tries - 1)]
      BY <2>2 DEF Step
    <3> QED BY <2>2, <3>1, <3>2 DEF Step
  <2>3. CASE StepBusy(s)
    BY <2>3 DEF StepBusy
  <2>4. CASE Reset(s)
    BY <2>4 DEF Reset
  <2>5. CASE Finalize(s)
    BY <2>5 DEF Finalize
  <2> QED BY <1>9, <2>1, <2>2, <2>3, <2>4, <2>5
<1>10. CASE OtherProgram
  BY <1>10 DEF OtherProgram
<1>11. CASE UNCHANGED vars
  BY <1>11 DEF vars
<1> QED
  BY <1>1, <1>2, <1>3, <1>4, <1>5, <1>6, <1>7, <1>8, <1>9, <1>10, <1>11 DEF Next

-----------------------------------------------------------------------------
(* A step that only loses what is pending, and breaks the transaction the   *)
(* caller is in, or ends it.                                                *)
LEMMA LostStep ==
  ASSUME DatabaseInv, pending' = {}, stored' = stored, groupOf' = groupOf,
         completed' = completed, outer' = outer, depth' \in {0, depth},
         broken \subseteq broken',
         depth' > 0 => outer \in broken'
  PROVE  /\ OpenInv'
         /\ \A g \in (1..outer) \ broken' : Together(g)'
<1>1. OpenInv'
  BY DEF OpenInv
<1>2. ASSUME NEW g \in (1..outer) \ broken' PROVE Together(g)'
  <2>1. WritesOf(g)' = WritesOf(g)
    BY DEF WritesOf
  <2>2. Together(g)
    BY DEF DatabaseInv
  <2> QED BY <2>1, <2>2 DEF Together, DatabaseInv
<1> QED BY <1>1, <1>2

(* Every step keeps the transactions together. *)
LEMMA DatabaseStep == DatabaseInv /\ [Next]_vars => DatabaseInv'
<1> SUFFICES ASSUME DatabaseInv, [Next]_vars PROVE DatabaseInv'
  OBVIOUS
<1> USE DatabaseConstants DEF openVars, fileVars, ghostVars
<1>type. TypeOK'
  BY DatabaseTypeStep DEF DatabaseInv
<1>nat. outer \in Nat /\ depth \in Nat
  BY DEF DatabaseInv, TypeOK
<1>quiet. ASSUME UNCHANGED <<depth, fileVars, ghostVars>> PROVE DatabaseInv'
  <2>1. /\ (pending \cap stored = {})' /\ (depth > 0 => outer > 0)'
        /\ OpenInv' /\ outer' = outer /\ broken' = broken
    BY <1>quiet DEF DatabaseInv, OpenInv, WritesOf
  <2>2. ASSUME NEW g \in (1..outer) \ broken PROVE Together(g)'
    BY <1>quiet, <2>2 DEF DatabaseInv, Together, WritesOf
  <2> QED BY <1>type, <2>1, <2>2 DEF DatabaseInv
<1>lost. ASSUME pending' = {}, stored' = stored, groupOf' = groupOf,
                completed' = completed, outer' = outer, depth' \in {0, depth},
                broken \subseteq broken', depth' > 0 => outer \in broken'
         PROVE  DatabaseInv'
  <2>1. OpenInv' /\ \A g \in (1..outer') \ broken' : Together(g)'
    BY <1>lost, LostStep
  <2>2. (pending \cap stored = {})' /\ (depth > 0 => outer > 0)'
    BY <1>lost DEF DatabaseInv
  <2> QED BY <1>type, <2>1, <2>2 DEF DatabaseInv
<1>1. CASE Open
  <2>1. CASE connection
    BY <1>1, <2>1, <1>lost DEF Open, Breaks
  <2>2. CASE ~connection
    <3>1. begun = FALSE /\ pending = {}
      BY <2>2 DEF DatabaseInv, TypeOK
    <3>2. depth > 0 => outer \in broken
      BY <3>1 DEF DatabaseInv, OpenInv
    <3> QED BY <1>1, <2>2, <3>2, <1>lost DEF Open
  <2> QED BY <2>1, <2>2
<1>2. CASE OpenFails
  BY <1>2, <1>quiet DEF OpenFails
<1>3. CASE Close
  <2>1. CASE Live = {}
    BY <1>3, <2>1, <1>lost DEF Close, Breaks
  <2>2. CASE Live # {}
    BY <1>3, <2>2, <1>quiet DEF Close
  <2> QED BY <2>1, <2>2
<1>4. CASE Crash
  BY <1>4, <1>lost DEF Crash
<1>5. CASE StartTransaction
  <2>1. CASE depth > 0
    <3>1. /\ depth' = depth + 1 /\ outer' = outer /\ broken' = broken
          /\ UNCHANGED <<pending, stored, groupOf, completed>>
      BY <1>5, <2>1, <1>nat DEF StartTransaction
    <3>2. begun => begun'
      BY <1>5 DEF StartTransaction
    <3>3. /\ (pending \cap stored = {})' /\ (depth > 0 => outer > 0)' /\ OpenInv'
      BY <2>1, <3>1, <3>2, <1>nat DEF DatabaseInv, OpenInv, WritesOf
    <3>4. ASSUME NEW g \in (1..outer) \ broken PROVE Together(g)'
      BY <2>1, <3>1, <1>nat DEF DatabaseInv, Together, WritesOf
    <3> QED BY <1>type, <3>1, <3>3, <3>4 DEF DatabaseInv
  <2>2. CASE depth = 0
    <3>1. /\ depth' = 1 /\ outer' = outer + 1
          /\ UNCHANGED <<pending, stored, groupOf, completed>>
          /\ broken' = IF connection THEN broken ELSE broken \cup {outer + 1}
          /\ connection => begun'
      <4>1. depth' = 1 /\ outer' = outer + 1
        BY <1>5, <2>2, <1>nat DEF StartTransaction
      <4>2. UNCHANGED <<pending, stored, groupOf, completed>>
        BY <1>5 DEF StartTransaction
      <4>3. broken' = IF connection THEN broken ELSE broken \cup {outer + 1}
        BY <1>5, <2>2, Zenon DEF StartTransaction
      <4>4. connection => begun'
        BY <1>5, <2>2, Zenon DEF StartTransaction
      <4> QED BY <4>1, <4>2, <4>3, <4>4
    <3>2. \A g : WritesOf(g)' = WritesOf(g)
      BY <3>1 DEF WritesOf
    <3>3. WritesOf(outer + 1) = {}
      BY <1>nat DEF WritesOf, DatabaseInv, TypeOK
    <3>4. OpenInv'
      BY <3>1, <3>2, <3>3 DEF OpenInv
    <3>5. ASSUME NEW g \in (1..outer') \ broken' PROVE Together(g)'
      <4>1. CASE g = outer + 1
        BY <4>1, <3>1, <3>2, <3>3 DEF Together
      <4>2. CASE g # outer + 1
        <5>1. g \in (1..outer) \ broken
          BY <4>2, <3>1, <1>nat
        <5>2. Together(g)
          BY <5>1 DEF DatabaseInv
        <5> QED BY <5>2, <2>2, <3>1, <3>2 DEF Together
      <4> QED BY <4>1, <4>2
    <3>6. (pending \cap stored = {})' /\ (depth > 0 => outer > 0)'
      BY <3>1, <1>nat DEF DatabaseInv
    <3> QED BY <1>type, <3>4, <3>5, <3>6 DEF DatabaseInv
  <2> QED BY <2>1, <2>2, <1>nat
<1>6. CASE EndTransaction
  <2>0. UNCHANGED <<outer, groupOf, broken>> /\ Completes
    BY <1>6 DEF EndTransaction
  <2>1. \A g : WritesOf(g)' = WritesOf(g)
    BY <2>0 DEF WritesOf
  <2>2. CASE depth > 1
    <3>1. /\ depth' = depth - 1 /\ UNCHANGED <<pending, stored, begun, completed>>
      BY <1>6, <2>2, <1>nat DEF EndTransaction, Completes
    <3>2. (pending \cap stored = {})' /\ (depth > 0 => outer > 0)' /\ OpenInv'
      BY <2>0, <2>1, <2>2, <3>1, <1>nat DEF DatabaseInv, OpenInv
    <3>3. ASSUME NEW g \in (1..outer) \ broken PROVE Together(g)'
      BY <2>0, <2>1, <2>2, <3>1, <1>nat DEF DatabaseInv, Together
    <3> QED BY <1>type, <2>0, <3>2, <3>3 DEF DatabaseInv
  <2>3. CASE depth <= 1
    <3>1. depth' = 0 /\ Commit
      BY <1>6, <2>3, <1>nat DEF EndTransaction
    <3>2. completed \subseteq completed' /\ (depth > 0 => outer \in completed')
      BY <2>0, <2>3, <1>nat DEF Completes
    <3>3. \/ stored' = stored \cup pending /\ pending' = {}
          \/ UNCHANGED <<stored, pending>>
      BY <3>1 DEF Commit
    <3>4. (pending \cap stored = {})' /\ (depth > 0 => outer > 0)' /\ OpenInv'
      BY <3>1, <3>3 DEF DatabaseInv, OpenInv
    <3>5. ASSUME NEW g \in (1..outer) \ broken PROVE Together(g)'
      <4>1. Together(g)
        BY DEF DatabaseInv
      <4>2. CASE WritesOf(g) \subseteq pending /\ (g \in completed \/ (g = outer /\ depth > 0))
        BY <4>2, <2>1, <3>2, <3>3 DEF Together
      <4>3. CASE g \in completed /\ WritesOf(g) \subseteq stored
        BY <4>3, <2>1, <3>2, <3>3 DEF Together
      <4>4. CASE WritesOf(g) \cap (stored \cup pending) = {}
        BY <4>4, <2>1, <3>3 DEF Together
      <4> QED BY <4>1, <4>2, <4>3, <4>4 DEF Together
    <3> QED BY <1>type, <2>0, <3>4, <3>5 DEF DatabaseInv
  <2> QED BY <2>2, <2>3, <1>nat
<1>7. ASSUME NEW w \in Writes, Execute(w) PROVE DatabaseInv'
  <2>0. /\ UNCHANGED <<depth, outer, completed, broken, begun>>
        /\ w \notin pending /\ w \notin stored /\ groupOf[w] = 0
        /\ groupOf' = [groupOf EXCEPT ![w] = IF depth > 0 THEN outer ELSE 0]
    BY <1>7 DEF Execute, Written
  <2>1. \/ begun /\ pending' = pending \cup {w} /\ stored' = stored
        \/ ~begun /\ stored' = stored \cup {w} /\ pending' = pending
    BY <1>7 DEF Execute
  <2>2. (pending \cap stored = {})' /\ (depth > 0 => outer > 0)'
    BY <2>0, <2>1 DEF DatabaseInv
  <2>3. \A g \in 1..outer : \/ WritesOf(g)' = WritesOf(g)
                            \/ /\ depth > 0 /\ g = outer
                               /\ WritesOf(g)' = WritesOf(g) \cup {w}
    <3> SUFFICES ASSUME NEW g \in 1..outer
                 PROVE  \/ WritesOf(g)' = WritesOf(g)
                        \/ /\ depth > 0 /\ g = outer
                           /\ WritesOf(g)' = WritesOf(g) \cup {w}
      OBVIOUS
    <3>1. groupOf \in [Writes -> 0..outer] /\ g > 0
      BY <1>nat DEF DatabaseInv, TypeOK
    <3>2. CASE depth > 0 /\ g = outer
      BY <3>1, <3>2, <2>0 DEF WritesOf
    <3>3. CASE ~(depth > 0 /\ g = outer)
      BY <3>1, <3>3, <2>0 DEF WritesOf
    <3> QED BY <3>2, <3>3
  <2>4. OpenInv'
    <3>1. CASE depth > 0 /\ outer \notin broken
      <4>1. begun /\ WritesOf(outer) \subseteq pending /\ outer \in 1..outer
        BY <3>1, <1>nat DEF DatabaseInv, OpenInv
      <4>2. WritesOf(outer)' \subseteq WritesOf(outer) \cup {w}
        BY <4>1, <2>3, <2>0 DEF WritesOf
      <4> QED BY <4>1, <4>2, <2>0, <2>1 DEF OpenInv, WritesOf
    <3> QED BY <3>1, <2>0 DEF OpenInv
  <2>5. ASSUME NEW g \in (1..outer) \ broken PROVE Together(g)'
    <3>1. Together(g) /\ w \notin WritesOf(g)
      BY <2>0, <1>nat DEF DatabaseInv, WritesOf
    <3>2. CASE depth > 0 /\ g = outer
      <4>1. WritesOf(g)' \subseteq pending'
        BY <3>2, <2>0, <2>4 DEF OpenInv
      <4> QED BY <4>1, <3>2, <2>0 DEF Together
    <3>3. CASE WritesOf(g)' = WritesOf(g)
      BY <3>1, <3>3, <2>0, <2>1 DEF Together
    <3> QED BY <3>2, <3>3, <2>3
  <2> QED BY <1>type, <2>0, <2>2, <2>4, <2>5 DEF DatabaseInv
<1>8. CASE ExecuteFails
  BY <1>8, <1>lost DEF ExecuteFails, Breaks
<1>9. ASSUME NEW s \in Statements,
             PrepareStatement(s) \/ Step(s) \/ StepBusy(s) \/ Reset(s) \/ Finalize(s)
      PROVE DatabaseInv'
  BY <1>9, <1>quiet DEF PrepareStatement, Step, StepBusy, Reset, Finalize, QueryVars
<1>10. CASE OtherProgram
  BY <1>10, <1>quiet DEF OtherProgram
<1>11. CASE UNCHANGED vars
  BY <1>11, <1>quiet DEF vars
<1> QED
  BY <1>1, <1>2, <1>3, <1>4, <1>5, <1>6, <1>7, <1>8, <1>9, <1>10, <1>11 DEF Next

LEMMA DatabaseInit == Init => DatabaseInv
<1> SUFFICES ASSUME Init PROVE DatabaseInv
  OBVIOUS
<1> USE DatabaseConstants DEF Init
<1>1. TypeOK
  <2>1. /\ statement \in [Statements -> [at : {"none", "ready", "active", "orphan"},
                                         rows : 0..Rows]]
        /\ tries \in [Statements -> 0..(Tries - 1)]
    BY DEF NoStatement
  <2>2. 0 \in 0..MaxDepth /\ 0 \in 0..MaxOuter /\ 0 \in 0..MaxFailures
    OBVIOUS
  <2>3. groupOf \in [Writes -> 0..outer]
    OBVIOUS
  <2>4. opened \in BOOLEAN /\ connection \in BOOLEAN /\ begun \in BOOLEAN
    OBVIOUS
  <2> QED BY <2>1, <2>2, <2>3, <2>4 DEF TypeOK
<1>2. OpenInv
  BY DEF OpenInv
<1>3. outer = 0 /\ depth = 0 /\ pending = {}
  OBVIOUS
<1> QED BY <1>1, <1>2, <1>3 DEF DatabaseInv

-----------------------------------------------------------------------------
(* The procedures. *)

(* The rows of the airport being fetched that have been dealt with.         *)
Done == IF fetch.at = "row" THEN fetch.row ELSE fetch.row - 1

(* The list of an airport, as far as it is known. *)
ListOf(a) == IF airportProcedures[a] = None THEN << >> ELSE airportProcedures[a]

HasKey(list, k) == \E i \in DOMAIN list : list[i].key = k

(* The keys of a list are those of rows, each is there once, and they find  *)
(* the procedures of the list; no others are known.                         *)
IndexInv ==
  /\ \A a \in Airports :
       /\ \A i \in DOMAIN ListOf(a) :
            /\ \E v \in Versions : ListOf(a)[i].key \in Procs!KeysOf(v, a)
            /\ procedures[ListOf(a)[i].key] = ListOf(a)[i]
       /\ \A i, j \in DOMAIN ListOf(a) : ListOf(a)[i].key = ListOf(a)[j].key => i = j
  /\ \A k \in Keys : procedures[k] # None =>
       \E a \in Airports : HasKey(ListOf(a), k)

(* The legs that have been read of a row. *)
LegsRead ==
  LET n == fetch.read
  IN  CASE fetch.at = "approach" -> fetch.legs = Procs!Legs("approach", n, version) /\ n <= Procs!Row.approach
        [] fetch.at = "transition" ->
             /\ fetch.legs = Procs!Legs("approach", Procs!Row.approach, version)
                               \o Procs!Legs("transition", n, version)
             /\ n <= Procs!Row.transition
        [] fetch.at = "add" ->
             fetch.legs = Procs!Legs("approach", Procs!Row.approach, version)
                            \o Procs!Legs("transition", Procs!Row.transition, version)
        [] OTHER -> TRUE

FetchOf(a) ==
  /\ fetch.found <=> airportProcedures[a] # None
  /\ \A j \in 1..Done : HasKey(ListOf(a), RowsOf[version][a][j].key)
  /\ \A i \in DOMAIN ListOf(a) : \E j \in 1..Done :
       ListOf(a)[i].key = RowsOf[version][a][j].key
  /\ a \notin cut => Procs!IsAnswer(ListOf(a), version, a, Done) /\ LegsRead

FetchInv == fetch # Procs!NoFetch => FetchOf(fetch.airport)

ProcInv == Procs!TypeOK /\ IndexInv /\ FetchInv /\ Procs!AnswersAreWhole

-----------------------------------------------------------------------------
LEMMA RowTypes ==
  ASSUME NEW v \in Versions, NEW a \in Airports
  PROVE  /\ Len(RowsOf[v][a]) \in Nat /\ DOMAIN RowsOf[v][a] = 1..Len(RowsOf[v][a])
         /\ \A i \in 1..Len(RowsOf[v][a]) :
              /\ RowsOf[v][a][i] \in Procs!AllRows /\ RowsOf[v][a][i].key \in Procs!KeysOf(v, a)
              /\ RowsOf[v][a][i].key \in Keys
              /\ RowsOf[v][a][i].approach \in Nat /\ RowsOf[v][a][i].transition \in Nat
<1>1. /\ Len(RowsOf[v][a]) \in Nat /\ DOMAIN RowsOf[v][a] = 1..Len(RowsOf[v][a])
  BY ProceduresAssumption DEF Procs!ProcedureConstants
<1>2. \A i \in 1..Len(RowsOf[v][a]) : RowsOf[v][a][i] \in Procs!AllRows
  <2> SUFFICES ASSUME NEW i \in DOMAIN RowsOf[v][a] PROVE RowsOf[v][a][i] \in Procs!AllRows
    BY <1>1
  <2>1. RowsOf[v][a][i] \in Procs!RowSet(v, a)
    BY DEF Procs!RowSet
  <2> QED BY <2>1 DEF Procs!AllRows
<1>3. \A row \in Procs!AllRows : row.key \in Keys /\ row.approach \in Nat /\ row.transition \in Nat
  BY ProceduresAssumption DEF Procs!ProcedureConstants
<1> QED BY <1>1, <1>2, <1>3 DEF Procs!KeysOf

LEMMA KeysApart ==
  ASSUME NEW v \in Versions, NEW w \in Versions, NEW a \in Airports, NEW b \in Airports,
         NEW k, k \in Procs!KeysOf(v, a), k \in Procs!KeysOf(w, b)
  PROVE  a = b
BY ProceduresAssumption DEF Procs!ProcedureConstants

LEMMA NoneApart ==
  /\ None \notin Procs!AllProcedures /\ None \notin Seq(Procs!AllProcedures)
BY ProceduresAssumption DEF Procs!ProcedureConstants

LEMMA LegsTypes ==
  ASSUME NEW t \in {"approach", "transition"}, NEW n \in Nat, NEW v \in Versions
  PROVE  Procs!Legs(t, n, v) \in Seq(Procs!AllLegs) /\ Len(Procs!Legs(t, n, v)) = n
<1>1. \A i \in 1..n : Procs!Leg(t, i, v) \in Procs!AllLegs
  BY DEF Procs!Leg, Procs!AllLegs
<1>2. Procs!Legs(t, n, v) \in [1..n -> Procs!AllLegs]
  BY <1>1 DEF Procs!Legs
<1>3. Procs!Legs(t, n, v) \in Seq(Procs!AllLegs)
  BY <1>2, IsASeq
<1>4. DOMAIN Procs!Legs(t, n, v) = 1..n
  BY <1>2
<1> QED BY <1>3, <1>4

(* One leg more. *)
LEMMA NextLegs ==
  ASSUME NEW t \in {"approach", "transition"}, NEW n \in Nat, NEW v \in Versions
  PROVE  Append(Procs!Legs(t, n, v), Procs!Leg(t, n + 1, v)) = Procs!Legs(t, n + 1, v)
<1>1. Procs!Leg(t, n + 1, v) \in Procs!AllLegs
  BY DEF Procs!Leg, Procs!AllLegs
<1>2. Procs!Legs(t, n, v) \in Seq(Procs!AllLegs) /\ Len(Procs!Legs(t, n, v)) = n
  BY LegsTypes
<1>3. Procs!Legs(t, n + 1, v) \in Seq(Procs!AllLegs) /\ Len(Procs!Legs(t, n + 1, v)) = n + 1
  BY LegsTypes
<1>4. \A i \in 1..n + 1 : Append(Procs!Legs(t, n, v), Procs!Leg(t, n + 1, v))[i] = Procs!Legs(t, n + 1, v)[i]
  <2>1. \A i \in 1..n : Procs!Legs(t, n, v)[i] = Procs!Leg(t, i, v)
    BY DEF Procs!Legs
  <2>2. \A i \in 1..n + 1 : Procs!Legs(t, n + 1, v)[i] = Procs!Leg(t, i, v)
    BY DEF Procs!Legs
  <2> QED BY <1>1, <1>2, <2>1, <2>2
<1> DEFINE s == Append(Procs!Legs(t, n, v), Procs!Leg(t, n + 1, v))
<1>5. s \in Seq(Procs!AllLegs) /\ Len(s) = n + 1
  BY <1>1, <1>2
<1> HIDE DEF s
<1> QED BY <1>3, <1>4, <1>5 DEF s

(* Which rows are first of their key. *)
LEMMA FirstRowsGrow ==
  ASSUME NEW v, NEW a, NEW n \in Nat
  PROVE  /\ (\A j \in 1..n : RowsOf[v][a][j].key # RowsOf[v][a][n + 1].key)
              => Procs!FirstRows(v, a, n + 1) = Procs!FirstRows(v, a, n) \cup {n + 1}
         /\ (\E j \in 1..n : RowsOf[v][a][j].key = RowsOf[v][a][n + 1].key)
              => Procs!FirstRows(v, a, n + 1) = Procs!FirstRows(v, a, n)
<1>1. 1..n + 1 = (1..n) \cup {n + 1}
  OBVIOUS
<1>2. 1..(n + 1) - 1 = 1..n
  OBVIOUS
<1> QED BY <1>1, <1>2 DEF Procs!FirstRows

Ordered(order, list, v, a, n) ==
  /\ order \in [DOMAIN list -> Procs!FirstRows(v, a, n)]
  /\ \A i, j \in DOMAIN list : i < j => order[i] < order[j]
  /\ \A i \in Procs!FirstRows(v, a, n) : \E j \in DOMAIN list : order[j] = i
  /\ \A i \in DOMAIN list : list[i] = Procs!ProcedureAt(v, a, order[i])

LEMMA AnOrder ==
  ASSUME NEW list, NEW v, NEW a, NEW n
  PROVE  Procs!IsAnswer(list, v, a, n) <=> \E order : Ordered(order, list, v, a, n)
BY Zenon DEF Procs!IsAnswer, Ordered

(* The first row of a key puts its procedure behind the others. *)
LEMMA AnswerGrows ==
  ASSUME NEW list \in Seq(Procs!AllProcedures), NEW v, NEW a, NEW n \in Nat,
         Procs!IsAnswer(list, v, a, n),
         \A j \in 1..n : RowsOf[v][a][j].key # RowsOf[v][a][n + 1].key,
         NEW p \in Procs!AllProcedures, p = Procs!ProcedureAt(v, a, n + 1)
  PROVE  Procs!IsAnswer(Append(list, p), v, a, n + 1)
<1> PICK order : Ordered(order, list, v, a, n)
  BY AnOrder
<1> PICK c \in Nat : c = Len(list) + 1
  OBVIOUS
<1> DEFINE o  == [k \in 1..c |-> IF k = c THEN n + 1 ELSE order[k]]
           ds == Append(list, p)
           S  == Procs!FirstRows(v, a, n)
           T  == Procs!FirstRows(v, a, n + 1)
<1>0. T = S \cup {n + 1} /\ \A i \in S : i \in Nat /\ i < n + 1
  <2>1. \A i \in S : i \in 1..n
    BY DEF Procs!FirstRows
  <2> QED BY <2>1, FirstRowsGrow
<1>1. /\ DOMAIN ds = 1..c /\ DOMAIN list = 1..c - 1 /\ c > 0
      /\ ds[c] = p /\ \A k \in 1..c - 1 : ds[k] = list[k]
  OBVIOUS
<1>2. /\ order \in [1..c - 1 -> S]
      /\ \A k, l \in 1..c - 1 : k < l => order[k] < order[l]
      /\ \A i \in S : \E k \in 1..c - 1 : order[k] = i
      /\ \A k \in 1..c - 1 : list[k] = Procs!ProcedureAt(v, a, order[k])
  BY <1>1 DEF Ordered
<1>3. /\ o[c] = n + 1 /\ \A k \in 1..c - 1 : o[k] = order[k] /\ o[k] \in S
  BY <1>1, <1>2
<1>4. \A k \in 1..c : k = c \/ k \in 1..c - 1
  BY <1>1
<1>5. o \in [1..c -> T]
  BY <1>0, <1>2
<1> HIDE DEF o, ds, S, T
<1>6. ASSUME NEW k \in 1..c, NEW l \in 1..c, k < l PROVE o[k] < o[l]
  <2>1. k \in 1..c - 1
    BY <1>6
  <2>2. CASE l = c
    BY <1>0, <1>3, <2>1, <2>2
  <2>3. CASE l \in 1..c - 1
    <3>1. order[k] < order[l]
      BY <1>2, <1>6, <2>1, <2>3
    <3> QED BY <1>3, <2>1, <2>3, <3>1
  <2> QED BY <1>4, <2>2, <2>3
<1>7. ASSUME NEW i \in T PROVE \E k \in 1..c : o[k] = i
  <2>1. CASE i = n + 1
    <3>1. c \in 1..c
      BY <1>1
    <3> QED BY <1>3, <2>1, <3>1
  <2>2. CASE i \in S
    <3>1. PICK k \in 1..c - 1 : order[k] = i
      BY <1>2, <2>2
    <3>2. k \in 1..c
      OBVIOUS
    <3> QED BY <1>3, <3>1, <3>2
  <2> QED BY <1>0, <2>1, <2>2
<1>8. ASSUME NEW k \in 1..c PROVE ds[k] = Procs!ProcedureAt(v, a, o[k])
  <2>1. CASE k = c
    BY <1>1, <1>3, <2>1
  <2>2. CASE k \in 1..c - 1
    BY <1>1, <1>2, <1>3, <2>2
  <2> QED BY <1>4, <2>1, <2>2
<1>9. Ordered(o, ds, v, a, n + 1)
  BY <1>1, <1>5, <1>6, <1>7, <1>8 DEF Ordered, T
<1> QED BY <1>9, AnOrder DEF ds

(* A row whose key is known already adds nothing. *)
LEMMA AnswerStays ==
  ASSUME NEW list, NEW v, NEW a, NEW n \in Nat, Procs!IsAnswer(list, v, a, n),
         \E j \in 1..n : RowsOf[v][a][j].key = RowsOf[v][a][n + 1].key
  PROVE  Procs!IsAnswer(list, v, a, n + 1)
<1>1. Procs!FirstRows(v, a, n + 1) = Procs!FirstRows(v, a, n)
  BY FirstRowsGrow
<1> QED BY <1>1 DEF Procs!IsAnswer

LEMMA NoAnswer ==
  ASSUME NEW v, NEW a
  PROVE  Procs!IsAnswer(<< >>, v, a, 0)
<1>1. Procs!FirstRows(v, a, 0) = {}
  BY DEF Procs!FirstRows
<1>2. Ordered(<< >>, << >>, v, a, 0)
  BY <1>1 DEF Ordered
<1> QED BY <1>2, AnOrder

(* The fields of a fetch. *)
LEMMA Fetches ==
  ASSUME NEW at, NEW a, NEW row, NEW legs, NEW read, NEW found
  PROVE  /\ Procs!Fetch(at, a, row, legs, read, found).at = at
         /\ Procs!Fetch(at, a, row, legs, read, found).airport = a
         /\ Procs!Fetch(at, a, row, legs, read, found).row = row
         /\ Procs!Fetch(at, a, row, legs, read, found).legs = legs
         /\ Procs!Fetch(at, a, row, legs, read, found).read = read
         /\ Procs!Fetch(at, a, row, legs, read, found).found = found
         /\ at # "idle" => Procs!Fetch(at, a, row, legs, read, found) # Procs!NoFetch
BY DEF Procs!Fetch, Procs!NoFetch

LEMMA ProcInit == Procs!Init => ProcInv
<1> SUFFICES ASSUME Procs!Init PROVE ProcInv
  OBVIOUS
<1>1. Procs!TypeOK
  BY DEF Procs!Init, Procs!TypeOK
<1>2. \A a \in Airports : airportProcedures[a] = None /\ ListOf(a) = << >>
  BY DEF Procs!Init, ListOf
<1>3. IndexInv
  BY <1>2 DEF Procs!Init, IndexInv, HasKey
<1>4. Procs!Known = {}
  BY <1>2 DEF Procs!Known
<1> QED BY <1>1, <1>3, <1>4 DEF ProcInv, FetchInv, Procs!AnswersAreWhole, Procs!Init

LEMMA ProcTypeStep == Procs!TypeOK /\ [Procs!Next]_(Procs!vars) => Procs!TypeOK'
<1> SUFFICES ASSUME Procs!TypeOK, [Procs!Next]_(Procs!vars) PROVE Procs!TypeOK'
  OBVIOUS
<1> USE DEF Procs!cacheVars
<1>f. ASSUME fetch # Procs!NoFetch
      PROVE  /\ fetch.at \in {"row", "approach", "transition", "add"}
             /\ fetch.airport \in Airports /\ fetch.row \in Nat /\ fetch.read \in Nat
             /\ fetch.legs \in Seq(Procs!AllLegs) /\ fetch.found \in BOOLEAN
             /\ fetch.row <= Len(RowsOf[version][fetch.airport])
             /\ fetch.at # "row" => fetch.row > 0
             /\ Len(RowsOf[version][fetch.airport]) \in Nat
  BY <1>f, RowTypes DEF Procs!TypeOK
<1>c. /\ procedures \in [Keys -> Procs!AllProcedures \cup {None}]
      /\ \A k \in Keys : procedures[k] # None => procedures[k].key = k
      /\ airportProcedures \in [Airports -> Seq(Procs!AllProcedures) \cup {None}]
      /\ cut \subseteq Airports /\ version \in Versions
  BY DEF Procs!TypeOK
<1>i. Procs!NoFetch.at = "idle"
  BY DEF Procs!NoFetch
<1>t. ASSUME NEW at \in {"row", "approach", "transition", "add"}, NEW a \in Airports,
             NEW row \in Nat, NEW legs \in Seq(Procs!AllLegs), NEW read \in Nat,
             NEW found \in BOOLEAN, fetch' = Procs!Fetch(at, a, row, legs, read, found),
             row <= Len(RowsOf[version][a]), at # "row" => row > 0, version' = version,
             procedures' \in [Keys -> Procs!AllProcedures \cup {None}],
             \A k \in Keys : procedures'[k] # None => procedures'[k].key = k,
             airportProcedures' \in [Airports -> Seq(Procs!AllProcedures) \cup {None}],
             cut' \subseteq Airports
      PROVE  Procs!TypeOK'
  <2>1. fetch' \in [at : {"row", "approach", "transition", "add"}, airport : Airports,
                    row : Nat, legs : Seq(Procs!AllLegs), read : Nat, found : BOOLEAN]
    BY <1>t DEF Procs!Fetch
  <2>2. fetch'.row = row /\ fetch'.airport = a /\ fetch'.at = at
    BY <1>t DEF Procs!Fetch
  <2> QED BY <1>t, <2>1, <2>2 DEF Procs!TypeOK
<1>1. CASE Procs!Rewrite
  <2>1. CASE fetch = Procs!NoFetch
    BY <1>1, <2>1 DEF Procs!Rewrite, Procs!TypeOK
  <2>2. CASE fetch # Procs!NoFetch
    <3>1. fetch.row = 0
      BY <1>1, <1>f, <2>2 DEF Procs!Rewrite, Procs!Reading
    <3>2. fetch'.row <= Len(RowsOf[version'][fetch'.airport])
      BY <1>1, <1>f, <2>2, <3>1, RowTypes DEF Procs!Rewrite, Procs!TypeOK
    <3>3. fetch.at = "row"
      BY <1>f, <2>2, <3>1
    <3> QED BY <1>1, <2>2, <3>2, <3>3 DEF Procs!Rewrite, Procs!TypeOK
  <2> QED BY <2>1, <2>2
<1>2. ASSUME NEW a \in Airports, Procs!CheckProcedures(a) PROVE Procs!TypeOK'
  <2>1. fetch' = Procs!Fetch("row", a, 0, << >>, 0, FALSE) /\ UNCHANGED <<version, Procs!cacheVars, cut>>
    BY <1>2 DEF Procs!CheckProcedures
  <2>2. 0 <= Len(RowsOf[version][a]) /\ << >> \in Seq(Procs!AllLegs)
    BY RowTypes DEF Procs!TypeOK
  <2> QED BY <1>t, <1>c, <2>1, <2>2
<1>3. CASE Procs!NextRow
  <2>1. fetch # Procs!NoFetch /\ fetch.row + 1 <= Len(RowsOf[version][fetch.airport])
    BY <1>3, <1>i, <1>f DEF Procs!NextRow
  <2>2. fetch' = Procs!Fetch("approach", fetch.airport, fetch.row + 1, << >>, 0, fetch.found)
        /\ UNCHANGED <<version, Procs!cacheVars, cut>>
    BY <1>3 DEF Procs!NextRow
  <2>3. << >> \in Seq(Procs!AllLegs) /\ fetch.row + 1 \in Nat /\ fetch.row + 1 > 0
    BY <1>f, <2>1
  <2> QED BY <1>f, <1>t, <1>c, <2>1, <2>2, <2>3
<1>e. ASSUME Procs!EndFetch, fetch # Procs!NoFetch, cut' \subseteq Airports PROVE Procs!TypeOK'
  <2>1. airportProcedures' \in [Airports -> Seq(Procs!AllProcedures) \cup {None}]
    BY <1>c, <1>e, <1>f DEF Procs!EndFetch
  <2> QED BY <1>c, <1>e, <2>1 DEF Procs!EndFetch, Procs!TypeOK
<1>4. CASE Procs!LastRow
  BY <1>4, <1>c, <1>i, <1>e DEF Procs!LastRow
<1>5. CASE Procs!RowFails
  BY <1>5, <1>c, <1>i, <1>e, <1>f DEF Procs!RowFails
<1>6. CASE Procs!NextLeg
  <2>1. fetch # Procs!NoFetch /\ fetch.at \in {"approach", "transition"}
    BY <1>6, <1>i DEF Procs!NextLeg, Procs!ReadingLegs
  <2>2. /\ fetch' = Procs!Fetch(fetch.at, fetch.airport, fetch.row,
                    Append(fetch.legs, Procs!Leg(fetch.at, fetch.read + 1, version)),
                    fetch.read + 1, fetch.found)
        /\ UNCHANGED <<version, Procs!cacheVars, cut>>
    BY <1>6 DEF Procs!NextLeg
  <2>3. Append(fetch.legs, Procs!Leg(fetch.at, fetch.read + 1, version)) \in Seq(Procs!AllLegs)
    <3>1. Procs!Leg(fetch.at, fetch.read + 1, version) \in Procs!AllLegs
      BY <1>c, <1>f, <2>1 DEF Procs!Leg, Procs!AllLegs
    <3> QED BY <1>f, <2>1, <3>1
  <2>4. fetch.read + 1 \in Nat
    BY <1>f, <2>1
  <2>5. /\ fetch.airport \in Airports /\ fetch.row \in Nat /\ fetch.found \in BOOLEAN
        /\ fetch.row <= Len(RowsOf[version][fetch.airport]) /\ fetch.row > 0
    BY <1>f, <2>1
  <2>6. fetch.at \in {"row", "approach", "transition", "add"}
    BY <2>1
  <2>7. /\ version' = version /\ cut' \subseteq Airports
        /\ procedures' \in [Keys -> Procs!AllProcedures \cup {None}]
        /\ \A k \in Keys : procedures'[k] # None => procedures'[k].key = k
        /\ airportProcedures' \in [Airports -> Seq(Procs!AllProcedures) \cup {None}]
    BY <1>c, <2>2
  <2> QED BY <1>t, <2>2, <2>3, <2>4, <2>5, <2>6, <2>7
<1>7. CASE Procs!EndLegs
  <2>1. fetch # Procs!NoFetch /\ fetch.at # "row"
    BY <1>7, <1>i DEF Procs!EndLegs, Procs!ReadingLegs
  <2>2. PICK at \in {"transition", "add"} :
          fetch' = Procs!Fetch(at, fetch.airport, fetch.row, fetch.legs, 0, fetch.found)
    BY <1>7 DEF Procs!EndLegs
  <2>3. UNCHANGED <<version, Procs!cacheVars>> /\ cut' \subseteq Airports
    BY <1>7, <1>c, <1>f, <2>1 DEF Procs!EndLegs
  <2> QED BY <1>f, <1>t, <1>c, <2>1, <2>2, <2>3
<1>8. CASE Procs!AddProcedure
  <2> DEFINE p    == Procs!Procedure(Procs!Row, fetch.legs)
             list == airportProcedures[fetch.airport]
  <2>1. fetch # Procs!NoFetch /\ fetch.at = "add"
    BY <1>8, <1>i DEF Procs!AddProcedure
  <2>2. /\ fetch' = Procs!Fetch("row", fetch.airport, fetch.row, fetch.legs, fetch.read, TRUE)
        /\ UNCHANGED <<version, cut>>
    BY <1>8 DEF Procs!AddProcedure
  <2>3. p \in Procs!AllProcedures /\ p.key \in Keys
    <3>1. Procs!Row \in Procs!AllRows /\ Procs!Row.key \in Keys
      BY <1>c, <1>f, <2>1, RowTypes DEF Procs!Row
    <3> QED BY <1>f, <2>1, <3>1 DEF Procs!Procedure, Procs!AllProcedures
  <2>4. \/ /\ procedures' = [procedures EXCEPT ![p.key] = p]
           /\ airportProcedures' = [airportProcedures EXCEPT ![fetch.airport] =
                IF list = None THEN <<p>> ELSE Append(list, p)]
        \/ UNCHANGED Procs!cacheVars
    BY <1>8 DEF Procs!AddProcedure
  <2> HIDE DEF p
  <2>5. (IF list = None THEN <<p>> ELSE Append(list, p)) \in Seq(Procs!AllProcedures)
    BY <1>c, <1>f, <2>1, <2>3
  <2> HIDE DEF list
  <2>6. /\ procedures' \in [Keys -> Procs!AllProcedures \cup {None}]
        /\ \A k \in Keys : procedures'[k] # None => procedures'[k].key = k
        /\ airportProcedures' \in [Airports -> Seq(Procs!AllProcedures) \cup {None}]
    <3>1. CASE UNCHANGED Procs!cacheVars
      BY <1>c, <3>1
    <3>2. CASE ~UNCHANGED Procs!cacheVars
      <4>1. /\ procedures' = [procedures EXCEPT ![p.key] = p]
            /\ airportProcedures' = [airportProcedures EXCEPT ![fetch.airport] =
                 IF list = None THEN <<p>> ELSE Append(list, p)]
        BY <2>4, <3>2
      <4>2. fetch.airport \in Airports
        BY <1>f, <2>1
      <4>3. /\ procedures' \in [Keys -> Procs!AllProcedures \cup {None}]
            /\ \A k \in Keys : procedures'[k] # None => procedures'[k].key = k
        BY <1>c, <2>3, <4>1
      <4>4. airportProcedures' \in [Airports -> Seq(Procs!AllProcedures) \cup {None}]
        BY <1>c, <2>5, <4>1, <4>2
      <4> QED BY <4>3, <4>4
    <3> QED BY <3>1, <3>2
  <2>7. version' = version /\ cut' \subseteq Airports
    BY <1>c, <2>2
  <2>8. /\ fetch.airport \in Airports /\ fetch.row \in Nat /\ fetch.read \in Nat
        /\ fetch.legs \in Seq(Procs!AllLegs) /\ fetch.row <= Len(RowsOf[version][fetch.airport])
    BY <1>f, <2>1
  <2> QED BY <1>t, <2>2, <2>6, <2>7, <2>8
<1>9. CASE UNCHANGED Procs!vars
  BY <1>9 DEF Procs!vars, Procs!TypeOK
<1> QED BY <1>1, <1>2, <1>3, <1>4, <1>5, <1>6, <1>7, <1>8, <1>9 DEF Procs!Next, Procs!FetchProcedures

-----------------------------------------------------------------------------
(* What a step that adds nothing keeps. *)
LEMMA IndexKept ==
  ASSUME IndexInv, UNCHANGED procedures, \A a \in Airports : ListOf(a)' = ListOf(a)
  PROVE  IndexInv'
BY DEF IndexInv, HasKey

LEMMA ListsKept ==
  ASSUME UNCHANGED airportProcedures, NEW a
  PROVE  ListOf(a)' = ListOf(a)
BY DEF ListOf

LEMMA AnswersKept ==
  ASSUME Procs!AnswersAreWhole, UNCHANGED airportProcedures, cut \subseteq cut', Procs!Known' \subseteq Procs!Known
  PROVE  Procs!AnswersAreWhole'
BY DEF Procs!AnswersAreWhole, Procs!GetProcedures, Procs!IsAnswer, Procs!FirstRows, Procs!ProcedureAt

LEMMA FetchNext ==
  ASSUME NEW a, fetch'.airport = a, FetchOf(a)'
  PROVE  FetchInv'
BY DEF FetchInv, FetchOf, ListOf

LEMMA RewriteStep == ProcInv /\ Procs!Rewrite => ProcInv'
<1> SUFFICES ASSUME ProcInv, Procs!Rewrite PROVE ProcInv'
  OBVIOUS
<1>1. Procs!TypeOK /\ IndexInv /\ FetchInv /\ Procs!AnswersAreWhole
  BY DEF ProcInv
<1>2. Procs!TypeOK'
  BY <1>1, ProcTypeStep DEF Procs!Next
<1>3. UNCHANGED <<procedures, airportProcedures, fetch, cut>> /\ ~Procs!Reading
  BY DEF Procs!Rewrite, Procs!cacheVars
<1>4. IndexInv'
  BY <1>1, <1>3, IndexKept, ListsKept
<1>5. Procs!AnswersAreWhole'
  BY <1>1, <1>3, AnswersKept DEF Procs!Known
<1>6. FetchInv'
  <2> SUFFICES ASSUME fetch # Procs!NoFetch PROVE FetchInv'
    BY <1>3 DEF FetchInv
  <2>0. PICK a \in Airports : a = fetch.airport
    BY <1>1 DEF Procs!TypeOK
  <2>1. fetch.row = 0 /\ fetch.at = "row" /\ FetchOf(a)
    BY <1>1, <1>3, <2>0 DEF Procs!TypeOK, Procs!Reading, FetchInv
  <2>2. Done = 0 /\ Done' = 0
    BY <1>3, <2>1 DEF Done
  <2>3. ListOf(a) \in Seq(Procs!AllProcedures)
    BY <1>1 DEF Procs!TypeOK, ListOf
  <2>4. ListOf(a) = << >>
    <3>1. DOMAIN ListOf(a) = {}
      <4>1. \A i \in DOMAIN ListOf(a) : \E j \in 1..Done :
              ListOf(a)[i].key = RowsOf[version][a][j].key
        BY <2>1 DEF FetchOf
      <4>2. 1..Done = {}
        BY <2>2
      <4> QED BY <4>1, <4>2
    <3> QED BY <2>3, <3>1
  <2>5. Procs!IsAnswer(<< >>, version', a, 0)
    BY NoAnswer
  <2>6. ListOf(a)' = << >>
    BY <1>3, <2>4 DEF ListOf
  <2>7. LegsRead'
    BY <1>3, <2>1 DEF LegsRead
  <2>8. fetch'.found <=> airportProcedures'[a] # None
    BY <1>3, <2>1 DEF FetchOf
  <2>9. FetchOf(a)'
    BY <2>2, <2>5, <2>6, <2>7, <2>8 DEF FetchOf
  <2> QED BY <1>3, <2>0, <2>9, FetchNext
<1> QED BY <1>2, <1>4, <1>5, <1>6 DEF ProcInv

LEMMA CheckStep ==
  ASSUME ProcInv, NEW a \in Airports, Procs!CheckProcedures(a)
  PROVE  ProcInv'
<1>1. Procs!TypeOK /\ IndexInv /\ FetchInv /\ Procs!AnswersAreWhole
  BY DEF ProcInv
<1>2. Procs!TypeOK'
  BY <1>1, ProcTypeStep DEF Procs!Next
<1>3. /\ UNCHANGED <<version, procedures, airportProcedures, cut>> /\ fetch = Procs!NoFetch
      /\ airportProcedures[a] = None /\ fetch' = Procs!Fetch("row", a, 0, << >>, 0, FALSE)
  BY DEF Procs!CheckProcedures, Procs!cacheVars
<1>4. IndexInv'
  BY <1>1, <1>3, IndexKept, ListsKept
<1>5. Procs!AnswersAreWhole'
  BY <1>1, <1>3, AnswersKept DEF Procs!Known
<1>6. FetchInv'
  <2>1. /\ fetch'.at = "row" /\ fetch'.airport = a /\ fetch'.row = 0 /\ fetch'.found = FALSE
    BY <1>3 DEF Procs!Fetch
  <2>2. Done' = 0 /\ ListOf(a)' = << >>
    BY <1>3, <2>1 DEF Done, ListOf
  <2>3. Procs!IsAnswer(<< >>, version', a, 0)
    BY NoAnswer
  <2>4. LegsRead'
    BY <2>1 DEF LegsRead
  <2>5. fetch'.found <=> airportProcedures'[a] # None
    BY <1>3, <2>1
  <2>6. FetchOf(a)'
    BY <2>2, <2>3, <2>4, <2>5 DEF FetchOf
  <2> QED BY <2>1, <2>6, FetchNext
<1> QED BY <1>2, <1>4, <1>5, <1>6 DEF ProcInv

(* A step that reads on, within a row or to the next. *)
LEMMA ReadOn ==
  ASSUME IndexInv, Procs!AnswersAreWhole, FetchInv, fetch # Procs!NoFetch, fetch' # Procs!NoFetch,
         UNCHANGED <<version, Procs!cacheVars>>, cut \subseteq cut',
         fetch'.airport = fetch.airport, fetch'.found = fetch.found, Done' = Done,
         fetch.airport \notin cut' => LegsRead'
  PROVE  IndexInv' /\ Procs!AnswersAreWhole' /\ FetchInv'
<1>1. UNCHANGED <<version, procedures, airportProcedures>>
  BY DEF Procs!cacheVars
<1>2. IndexInv'
  BY <1>1, IndexKept, ListsKept
<1>3. Procs!AnswersAreWhole'
  BY <1>1, AnswersKept DEF Procs!Known
<1>4. FetchInv'
  <2>0. PICK a : a = fetch.airport
    OBVIOUS
  <2>1. ListOf(a)' = ListOf(a) /\ FetchOf(a)
    BY <1>1, <2>0, ListsKept DEF FetchInv
  <2>2. FetchOf(a)'
    BY <1>1, <2>0, <2>1 DEF FetchOf
  <2> QED BY <2>0, <2>2, FetchNext
<1> QED BY <1>2, <1>3, <1>4

LEMMA RowStep == ProcInv /\ Procs!NextRow => ProcInv'
<1> SUFFICES ASSUME ProcInv, Procs!NextRow PROVE ProcInv'
  OBVIOUS
<1>1. Procs!TypeOK /\ IndexInv /\ FetchInv /\ Procs!AnswersAreWhole
  BY DEF ProcInv
<1>2. Procs!TypeOK'
  BY <1>1, ProcTypeStep DEF Procs!Next, Procs!FetchProcedures
<1>3. /\ fetch.at = "row" /\ UNCHANGED <<version, Procs!cacheVars, cut>>
      /\ fetch' = Procs!Fetch("approach", fetch.airport, fetch.row + 1, << >>, 0, fetch.found)
  BY DEF Procs!NextRow
<1>4. fetch # Procs!NoFetch /\ fetch.row \in Nat
  BY <1>1, <1>3 DEF Procs!NoFetch, Procs!TypeOK
<1>5. /\ fetch'.at = "approach" /\ fetch'.airport = fetch.airport /\ fetch'.row = fetch.row + 1
      /\ fetch'.legs = << >> /\ fetch'.read = 0 /\ fetch'.found = fetch.found
      /\ fetch' # Procs!NoFetch
  BY <1>3 DEF Procs!Fetch, Procs!NoFetch
<1>6. Done' = Done
  BY <1>3, <1>4, <1>5 DEF Done
<1>7. LegsRead'
  <2>1. Procs!Legs("approach", 0, version') = << >>
    BY DEF Procs!Legs
  <2>2. Procs!Row'.approach \in Nat
    <3>1. /\ fetch'.airport \in Airports /\ version' \in Versions
          /\ fetch'.row \in 1..Len(RowsOf[version'][fetch'.airport])
      BY <1>2, <1>5 DEF Procs!TypeOK
    <3> QED BY <3>1, RowTypes DEF Procs!Row
  <2> QED BY <1>5, <2>1, <2>2 DEF LegsRead
<1>8. IndexInv' /\ Procs!AnswersAreWhole' /\ FetchInv'
  BY <1>1, <1>3, <1>4, <1>5, <1>6, <1>7, ReadOn
<1> QED BY <1>2, <1>8 DEF ProcInv

LEMMA LegStep == ProcInv /\ Procs!NextLeg => ProcInv'
<1> SUFFICES ASSUME ProcInv, Procs!NextLeg PROVE ProcInv'
  OBVIOUS
<1>1. Procs!TypeOK /\ IndexInv /\ FetchInv /\ Procs!AnswersAreWhole
  BY DEF ProcInv
<1>2. Procs!TypeOK'
  BY <1>1, ProcTypeStep DEF Procs!Next, Procs!FetchProcedures
<1>3. /\ fetch.at \in {"approach", "transition"} /\ fetch.read < Procs!LegCount
      /\ UNCHANGED <<version, Procs!cacheVars, cut>>
      /\ fetch' = Procs!Fetch(fetch.at, fetch.airport, fetch.row,
                    Append(fetch.legs, Procs!Leg(fetch.at, fetch.read + 1, version)),
                    fetch.read + 1, fetch.found)
  BY DEF Procs!NextLeg, Procs!ReadingLegs
<1>4. /\ fetch # Procs!NoFetch /\ fetch.read \in Nat /\ version \in Versions
      /\ fetch.airport \in Airports /\ fetch.row \in 1..Len(RowsOf[version][fetch.airport])
  BY <1>1, <1>3 DEF Procs!NoFetch, Procs!TypeOK
<1>5. /\ fetch'.at = fetch.at /\ fetch'.airport = fetch.airport /\ fetch'.row = fetch.row
      /\ fetch'.legs = Append(fetch.legs, Procs!Leg(fetch.at, fetch.read + 1, version))
      /\ fetch'.read = fetch.read + 1 /\ fetch'.found = fetch.found
      /\ fetch' # Procs!NoFetch
  BY <1>3, <1>4 DEF Procs!Fetch, Procs!NoFetch
<1>6. Done' = Done /\ Procs!Row' = Procs!Row
  BY <1>3, <1>5 DEF Done, Procs!Row
<1>7. Procs!Row.approach \in Nat /\ Procs!Row.transition \in Nat
  BY <1>4, RowTypes DEF Procs!Row
<1>8. ASSUME fetch.airport \notin cut' PROVE LegsRead'
  <2>1. LegsRead
    BY <1>1, <1>3, <1>4, <1>8 DEF FetchInv, FetchOf
  <2>2. CASE fetch.at = "approach"
    <3>1. fetch.legs = Procs!Legs("approach", fetch.read, version) /\ fetch.read < Procs!Row.approach
      BY <1>3, <2>1, <2>2 DEF LegsRead, Procs!LegCount
    <3>2. fetch'.legs = Procs!Legs("approach", fetch.read + 1, version)
      BY <1>4, <1>5, <2>2, <3>1, NextLegs
    <3> QED BY <1>3, <1>4, <1>5, <1>6, <1>7, <2>2, <3>1, <3>2 DEF LegsRead
  <2>3. CASE fetch.at = "transition"
    <3> DEFINE A == Procs!Legs("approach", Procs!Row.approach, version)
               T == Procs!Legs("transition", fetch.read, version)
               g == Procs!Leg("transition", fetch.read + 1, version)
    <3>1. fetch.legs = A \o T /\ fetch.read < Procs!Row.transition
      BY <1>3, <2>1, <2>3 DEF LegsRead, Procs!LegCount
    <3>2. Append(T, g) = Procs!Legs("transition", fetch.read + 1, version)
      BY <1>4, NextLegs
    <3>3. A \in Seq(Procs!AllLegs) /\ T \in Seq(Procs!AllLegs) /\ g \in Procs!AllLegs
      <4>1. g \in Procs!AllLegs
        BY <1>4 DEF Procs!Leg, Procs!AllLegs
      <4>2. A \in Seq(Procs!AllLegs) /\ T \in Seq(Procs!AllLegs)
        BY <1>4, <1>7, LegsTypes
      <4> QED BY <4>1, <4>2
    <3>4. Append(A \o T, g) = A \o Append(T, g)
      <4> HIDE DEF A, T, g
      <4> QED BY <3>3
    <3>5. fetch'.legs = A \o Procs!Legs("transition", fetch.read + 1, version)
      BY <1>5, <2>3, <3>1, <3>2, <3>4
    <3>6. fetch'.at = "transition" /\ fetch'.read = fetch.read + 1 /\ version' = version
          /\ fetch.read + 1 <= Procs!Row.transition
      BY <1>3, <1>4, <1>5, <1>7, <2>3, <3>1
    <3> HIDE DEF g
    <3> QED BY <1>6, <3>5, <3>6 DEF LegsRead
  <2> QED BY <1>3, <2>2, <2>3
<1>9. IndexInv' /\ Procs!AnswersAreWhole' /\ FetchInv'
  BY <1>1, <1>3, <1>4, <1>5, <1>6, <1>8, ReadOn
<1> QED BY <1>2, <1>9 DEF ProcInv

LEMMA EndLegsStep == ProcInv /\ Procs!EndLegs => ProcInv'
<1> SUFFICES ASSUME ProcInv, Procs!EndLegs PROVE ProcInv'
  OBVIOUS
<1>1. Procs!TypeOK /\ IndexInv /\ FetchInv /\ Procs!AnswersAreWhole
  BY DEF ProcInv
<1>2. Procs!TypeOK'
  BY <1>1, ProcTypeStep DEF Procs!Next, Procs!FetchProcedures
<1>3. /\ fetch.at \in {"approach", "transition"} /\ UNCHANGED <<version, Procs!cacheVars>>
      /\ cut' = IF fetch.read < Procs!LegCount THEN cut \cup {fetch.airport} ELSE cut
  BY DEF Procs!EndLegs, Procs!ReadingLegs
<1>4. /\ fetch # Procs!NoFetch /\ fetch.read \in Nat /\ version \in Versions
      /\ fetch.airport \in Airports /\ fetch.row \in 1..Len(RowsOf[version][fetch.airport])
  BY <1>1, <1>3 DEF Procs!NoFetch, Procs!TypeOK
<1>5. Procs!Row.approach \in Nat /\ Procs!Row.transition \in Nat
  BY <1>4, RowTypes DEF Procs!Row
<1>6. PICK at : /\ at = IF fetch.at = "approach" /\ Procs!Row.transition > 0 THEN "transition" ELSE "add"
                /\ fetch' = Procs!Fetch(at, fetch.airport, fetch.row, fetch.legs, 0, fetch.found)
  BY DEF Procs!EndLegs
<1>7. /\ fetch'.at = at /\ fetch'.airport = fetch.airport /\ fetch'.row = fetch.row
      /\ fetch'.legs = fetch.legs /\ fetch'.read = 0 /\ fetch'.found = fetch.found
      /\ fetch' # Procs!NoFetch
  BY <1>6 DEF Procs!Fetch, Procs!NoFetch
<1>8. Done' = Done /\ Procs!Row' = Procs!Row
  BY <1>3, <1>6, <1>7 DEF Done, Procs!Row
<1>9. ASSUME fetch.airport \notin cut' PROVE LegsRead'
  <2>1. LegsRead /\ ~(fetch.read < Procs!LegCount)
    BY <1>1, <1>3, <1>4, <1>9 DEF FetchInv, FetchOf
  <2> DEFINE A == Procs!Legs("approach", Procs!Row.approach, version)
  <2>2. A \o << >> = A /\ Procs!Legs("transition", 0, version) = << >>
    <3>1. A \in Seq(Procs!AllLegs)
      BY <1>4, <1>5, LegsTypes
    <3>2. Procs!Legs("transition", 0, version) = << >>
      BY DEF Procs!Legs
    <3> HIDE DEF A
    <3> QED BY <3>1, <3>2
  <2>3. CASE fetch.at = "approach"
    <3>1. fetch.legs = A
      BY <1>4, <1>5, <2>1, <2>3 DEF LegsRead, Procs!LegCount
    <3>2. fetch.legs = A \o Procs!Legs("transition", 0, version)
      BY <2>2, <3>1
    <3>3. CASE Procs!Row.transition > 0
      <4>1. at = "transition"
        BY <1>6, <2>3, <3>3
      <4> QED BY <1>3, <1>5, <1>7, <1>8, <3>2, <4>1 DEF LegsRead
    <3>4. CASE Procs!Row.transition = 0
      <4>1. at = "add"
        BY <1>6, <3>4
      <4> QED BY <1>3, <1>5, <1>7, <1>8, <3>2, <3>4, <4>1 DEF LegsRead
    <3> QED BY <1>5, <3>3, <3>4
  <2>4. CASE fetch.at = "transition"
    <3>1. fetch.legs = A \o Procs!Legs("transition", Procs!Row.transition, version)
      BY <1>4, <1>5, <2>1, <2>4 DEF LegsRead, Procs!LegCount
    <3>2. at = "add"
      BY <1>6, <2>4
    <3> QED BY <1>3, <1>7, <1>8, <3>1, <3>2 DEF LegsRead
  <2> QED BY <1>3, <2>3, <2>4
<1>10. cut \subseteq cut'
  BY <1>3
<1>11. IndexInv' /\ Procs!AnswersAreWhole' /\ FetchInv'
  BY <1>1, <1>3, <1>4, <1>7, <1>8, <1>9, <1>10, ReadOn
<1> QED BY <1>2, <1>11 DEF ProcInv

(* The rows are at an end: the list is what is known of the airport. *)
LEMMA FetchEnds ==
  ASSUME ProcInv, fetch.at = "row", Procs!EndFetch,
         \/ fetch.row = Len(RowsOf[version][fetch.airport]) /\ UNCHANGED cut
         \/ cut' = cut \cup {fetch.airport}
  PROVE  IndexInv' /\ Procs!AnswersAreWhole' /\ FetchInv'
<1> DEFINE a == fetch.airport
<1>1. Procs!TypeOK /\ IndexInv /\ Procs!AnswersAreWhole /\ fetch # Procs!NoFetch /\ FetchOf(a)
  BY DEF ProcInv, Procs!NoFetch, FetchInv
<1>2. /\ a \in Airports /\ version \in Versions
      /\ airportProcedures \in [Airports -> Seq(Procs!AllProcedures) \cup {None}]
  BY <1>1 DEF Procs!TypeOK
<1>3. UNCHANGED <<version, procedures>> /\ fetch' = Procs!NoFetch
  BY DEF Procs!EndFetch
<1>4. /\ airportProcedures'[a] = ListOf(a)
      /\ \A b \in Airports : b # a => airportProcedures'[b] = airportProcedures[b]
  BY <1>1, <1>2 DEF Procs!EndFetch, ListOf, FetchOf
<1> HIDE DEF a
<1>5. ASSUME NEW b \in Airports PROVE ListOf(b)' = ListOf(b)
  BY <1>4 DEF ListOf
<1>6. IndexInv'
  BY <1>1, <1>3, <1>5, IndexKept
<1>7. FetchInv'
  BY <1>3 DEF FetchInv
<1>8. Procs!AnswersAreWhole'
  <2> SUFFICES ASSUME NEW b \in Airports, b \in Procs!Known', b \notin cut'
               PROVE  \E v \in Versions :
                        Procs!IsAnswer(airportProcedures'[b], v, b, Len(RowsOf[v][b]))
    BY DEF Procs!AnswersAreWhole, Procs!GetProcedures, Procs!Known
  <2>1. CASE b = a
    <3>1. Procs!IsAnswer(ListOf(a), version, a, Len(RowsOf[version][a]))
      BY <1>1, <2>1 DEF FetchOf, Done, a
    <3> QED BY <1>2, <1>4, <2>1, <3>1
  <2>2. CASE b # a
    <3>1. b \in Procs!Known \ cut
      BY <1>3, <1>4, <2>2 DEF Procs!Known, a
    <3> QED BY <1>1, <1>4, <2>2, <3>1 DEF Procs!AnswersAreWhole, Procs!GetProcedures
  <2> QED BY <2>1, <2>2
<1> QED BY <1>6, <1>7, <1>8

LEMMA LastRowStep == ProcInv /\ (Procs!LastRow \/ Procs!RowFails) => ProcInv'
<1> SUFFICES ASSUME ProcInv, Procs!LastRow \/ Procs!RowFails PROVE ProcInv'
  OBVIOUS
<1>1. Procs!TypeOK'
  BY ProcTypeStep DEF ProcInv, Procs!Next, Procs!FetchProcedures
<1>2. IndexInv' /\ Procs!AnswersAreWhole' /\ FetchInv'
  BY FetchEnds DEF Procs!LastRow, Procs!RowFails
<1> QED BY <1>1, <1>2 DEF ProcInv

(* A procedure whose name is known is in the airport's list. *)
LEMMA KnownHere ==
  ASSUME IndexInv, NEW v \in Versions, NEW a \in Airports,
         NEW k \in Keys, k \in Procs!KeysOf(v, a), procedures[k] # None
  PROVE  HasKey(ListOf(a), k)
<1>1. PICK b \in Airports : HasKey(ListOf(b), k)
  BY DEF IndexInv
<1>2. PICK w \in Versions : k \in Procs!KeysOf(w, b)
  BY <1>1 DEF IndexInv, HasKey
<1>3. a = b
  BY <1>2, KeysApart
<1> QED BY <1>1, <1>3

LEMMA AddProcedureStep == ProcInv /\ Procs!AddProcedure => ProcInv'
<1> SUFFICES ASSUME ProcInv, Procs!AddProcedure PROVE ProcInv'
  OBVIOUS
<1>1. Procs!TypeOK /\ IndexInv /\ FetchInv /\ Procs!AnswersAreWhole
  BY DEF ProcInv
<1>2. Procs!TypeOK'
  BY <1>1, ProcTypeStep DEF Procs!Next, Procs!FetchProcedures
<1> PICK a : a = fetch.airport
  OBVIOUS
<1> PICK p : p = Procs!Procedure(Procs!Row, fetch.legs)
  OBVIOUS
<1> PICK k : k = p.key
  OBVIOUS
<1> PICK n : n = fetch.row - 1
  OBVIOUS
<1> DEFINE L == ListOf(a)
<1>3. /\ fetch.at = "add" /\ UNCHANGED <<version, cut>>
      /\ fetch' = Procs!Fetch("row", a, fetch.row, fetch.legs, fetch.read, TRUE)
      /\ \/ /\ procedures[k] = None
            /\ procedures' = [procedures EXCEPT ![k] = p]
            /\ airportProcedures' = [airportProcedures EXCEPT ![a] =
                 IF airportProcedures[a] = None THEN <<p>>
                 ELSE Append(airportProcedures[a], p)]
         \/ procedures[k] # None /\ UNCHANGED Procs!cacheVars
  BY DEF Procs!AddProcedure
<1>4. /\ fetch # Procs!NoFetch /\ version \in Versions /\ a \in Airports
      /\ n \in Nat /\ n + 1 = fetch.row /\ fetch.row \in 1..Len(RowsOf[version][a])
      /\ fetch.legs \in Seq(Procs!AllLegs) /\ Done = n
  BY <1>1, <1>3 DEF Procs!NoFetch, Procs!TypeOK, Done
<1>5. /\ fetch'.at = "row" /\ fetch'.airport = a /\ fetch'.row = fetch.row
      /\ fetch'.found = TRUE /\ fetch' # Procs!NoFetch
  BY <1>3 DEF Procs!Fetch, Procs!NoFetch
<1>6. Done' = n + 1
  BY <1>4, <1>5 DEF Done
<1>7. FetchOf(a)
  BY <1>1, <1>4 DEF FetchInv
<1>8. /\ Procs!Row = RowsOf[version][a][n + 1] /\ Procs!Row \in Procs!AllRows /\ Procs!Row.key \in Keys
      /\ Procs!Row.key \in Procs!KeysOf(version, a)
  BY <1>4, RowTypes DEF Procs!Row
<1>9. /\ p \in Procs!AllProcedures /\ p # None /\ k \in Keys /\ k = RowsOf[version][a][n + 1].key
      /\ k \in Procs!KeysOf(version, a)
  <2>1. p.key = Procs!Row.key
    BY DEF Procs!Procedure
  <2>2. p \in Procs!AllProcedures
    BY <1>4, <1>8 DEF Procs!Procedure, Procs!AllProcedures
  <2> QED BY <1>8, <2>1, <2>2, NoneApart
<1>10. a \notin cut => p = Procs!ProcedureAt(version, a, n + 1)
  BY <1>3, <1>7, <1>8 DEF FetchOf, LegsRead, Procs!ProcedureAt
<1>11. /\ L \in Seq(Procs!AllProcedures)
       /\ procedures \in [Keys -> Procs!AllProcedures \cup {None}]
       /\ airportProcedures \in [Airports -> Seq(Procs!AllProcedures) \cup {None}]
  BY <1>1, <1>4 DEF Procs!TypeOK, ListOf
<1> HIDE DEF L
<1>14. LegsRead' /\ cut' = cut /\ version' = version
  BY <1>3, <1>5 DEF LegsRead
<1>12. CASE procedures[k] # None
  <2>1. UNCHANGED <<procedures, airportProcedures>>
    BY <1>3, <1>12 DEF Procs!cacheVars
  <2>2. HasKey(L, k)
    BY <1>1, <1>4, <1>9, <1>12, KnownHere DEF L
  <2>3. IndexInv'
    BY <1>1, <2>1, IndexKept, ListsKept
  <2>4. Procs!AnswersAreWhole'
    BY <1>1, <1>3, <1>4, <1>5, <2>1, AnswersKept DEF Procs!Known
  <2>5. ListOf(a)' = L
    BY <2>1, ListsKept DEF L
  <2>6. airportProcedures'[a] # None
    BY <2>1, <2>2 DEF L, ListOf, HasKey
  <2>7. \E j \in 1..n : RowsOf[version][a][j].key = k
    <3>1. PICK i \in DOMAIN L : L[i].key = k
      BY <2>2 DEF HasKey
    <3> QED BY <1>4, <1>7, <3>1 DEF FetchOf, L
  <2>8. a \notin cut => Procs!IsAnswer(L, version, a, n + 1)
    <3> SUFFICES ASSUME a \notin cut PROVE Procs!IsAnswer(L, version, a, n + 1)
      OBVIOUS
    <3>1. Procs!IsAnswer(L, version, a, n)
      BY <1>4, <1>7 DEF FetchOf, L
    <3> QED BY <1>4, <1>9, <2>7, <3>1, AnswerStays
  <2>9. \A j \in 1..n + 1 : HasKey(L, RowsOf[version][a][j].key)
    <3>1. \A j \in 1..n + 1 : j \in 1..n \/ j = n + 1
      BY <1>4
    <3> QED BY <1>4, <1>7, <1>9, <2>2, <3>1 DEF FetchOf, L
  <2>10. \A i \in DOMAIN L : \E j \in 1..n + 1 : L[i].key = RowsOf[version][a][j].key
    <3>1. \A j \in 1..n : j \in 1..n + 1
      BY <1>4
    <3> QED BY <1>4, <1>7, <3>1 DEF FetchOf, L
  <2>11. FetchOf(a)'
    BY <1>5, <1>6, <1>14, <2>5, <2>6, <2>8, <2>9, <2>10 DEF FetchOf
  <2>12. FetchInv'
    BY <1>5, <2>11, FetchNext
  <2> QED BY <1>2, <2>3, <2>4, <2>12 DEF ProcInv
<1>13. CASE procedures[k] = None
  <2> DEFINE M == Append(L, p)
  <2>1. /\ procedures' = [procedures EXCEPT ![k] = p]
        /\ \A b \in Airports : b # a => airportProcedures'[b] = airportProcedures[b]
        /\ airportProcedures'[a] = M
    <3>1. Append(<< >>, p) = <<p>>
      OBVIOUS
    <3> QED BY <1>3, <1>4, <1>11, <1>13, <3>1 DEF L, ListOf
  <2>2. M \in Seq(Procs!AllProcedures) /\ M # None
    BY <1>9, <1>11, NoneApart
  <2>3. /\ DOMAIN L = 1..Len(L) /\ DOMAIN M = 1..Len(L) + 1 /\ Len(L) \in Nat
        /\ M[Len(L) + 1] = p /\ \A i \in 1..Len(L) : M[i] = L[i]
        /\ \A i \in 1..Len(L) + 1 : i = Len(L) + 1 \/ i \in 1..Len(L)
        /\ \A i \in 1..Len(L) : L[i] \in Procs!AllProcedures
    BY <1>9, <1>11
  <2> HIDE DEF M
  <2>4. ListOf(a)' = M /\ \A b \in Airports : b # a => ListOf(b)' = ListOf(b)
    BY <2>1, <2>2 DEF ListOf
  <2>5. ASSUME NEW b \in Airports, NEW i \in DOMAIN ListOf(b)
        PROVE  ListOf(b)[i].key # k /\ procedures'[ListOf(b)[i].key] = ListOf(b)[i]
    <3>1. procedures[ListOf(b)[i].key] = ListOf(b)[i]
      BY <1>1 DEF IndexInv
    <3>2. ListOf(b)[i] \in Procs!AllProcedures /\ ListOf(b)[i].key \in Keys
      <4>1. ListOf(b) \in Seq(Procs!AllProcedures)
        BY <1>11 DEF ListOf
      <4>2. ListOf(b)[i] \in Procs!AllProcedures
        BY <4>1
      <4> QED BY <4>2 DEF Procs!AllProcedures
    <3>3. ListOf(b)[i].key # k
      BY <1>13, <3>1, <3>2, NoneApart
    <3> QED BY <1>11, <2>1, <3>1, <3>2, <3>3
  <2>6. IndexInv'
    <3>1. procedures'[k] = p
      BY <1>9, <1>11, <2>1
    <3>2. ASSUME NEW b \in Airports, NEW i \in DOMAIN ListOf(b)'
          PROVE  /\ \E v \in Versions : ListOf(b)'[i].key \in Procs!KeysOf(v, b)
                 /\ procedures'[ListOf(b)'[i].key] = ListOf(b)'[i]
      <4>1. CASE b # a
        BY <1>1, <2>4, <2>5, <4>1 DEF IndexInv
      <4>2. CASE b = a /\ i = Len(L) + 1
        BY <1>4, <1>9, <2>3, <2>4, <3>1, <4>2
      <4>3. CASE b = a /\ i \in DOMAIN L
        <5>1. ListOf(b)'[i] = ListOf(b)[i] /\ i \in DOMAIN ListOf(b)
          BY <2>3, <2>4, <4>3 DEF L
        <5> QED BY <1>1, <2>5, <5>1 DEF IndexInv
      <4> QED BY <2>3, <2>4, <4>1, <4>2, <4>3
    <3>3. ASSUME NEW b \in Airports, NEW i \in DOMAIN ListOf(b)', NEW j \in DOMAIN ListOf(b)',
                 ListOf(b)'[i].key = ListOf(b)'[j].key
          PROVE  i = j
      <4>1. CASE b # a
        BY <1>1, <2>4, <3>3, <4>1 DEF IndexInv
      <4>2. CASE b = a
        <5>1. i \in 1..Len(L) + 1 /\ j \in 1..Len(L) + 1 /\ M[i].key = M[j].key
          BY <2>3, <2>4, <3>3, <4>2
        <5>2. \A l \in 1..Len(L) : M[l].key # k
          BY <1>4, <2>3, <2>5 DEF L
        <5>3. \A l, m \in 1..Len(L) : M[l].key = M[m].key => l = m
          BY <1>1, <1>4, <2>3 DEF L, IndexInv
        <5> QED BY <2>3, <5>1, <5>2, <5>3
      <4> QED BY <4>1, <4>2
    <3>4. ASSUME NEW q \in Keys, procedures'[q] # None
          PROVE  \E b \in Airports : HasKey(ListOf(b)', q)
      <4>1. CASE q = k
        <5>1. Len(L) + 1 \in DOMAIN M /\ M[Len(L) + 1].key = k
          BY <2>3
        <5>2. HasKey(ListOf(a)', q)
          BY <2>4, <4>1, <5>1 DEF HasKey
        <5> QED BY <1>4, <5>2
      <4>2. CASE q # k
        <5>1. procedures[q] # None
          BY <1>11, <2>1, <3>4, <4>2
        <5>2. PICK b \in Airports : HasKey(ListOf(b), q)
          BY <1>1, <5>1 DEF IndexInv
        <5>3. CASE b # a
          BY <2>4, <5>2, <5>3
        <5>4. CASE b = a
          <6>1. PICK i \in 1..Len(L) : L[i].key = q
            BY <2>3, <5>2, <5>4 DEF HasKey, L
          <6>2. i \in DOMAIN M /\ M[i].key = q
            BY <2>3, <6>1
          <6> QED BY <2>4, <5>4, <6>2 DEF HasKey
        <5> QED BY <5>3, <5>4
      <4> QED BY <4>1, <4>2
    <3> QED BY <3>2, <3>3, <3>4 DEF IndexInv, HasKey
  <2>7. Procs!AnswersAreWhole'
    <3> SUFFICES ASSUME NEW b \in Airports, b \in Procs!Known', b \notin cut'
                 PROVE  \E v \in Versions :
                          Procs!IsAnswer(airportProcedures'[b], v, b, Len(RowsOf[v][b]))
      BY DEF Procs!AnswersAreWhole, Procs!GetProcedures, Procs!Known
    <3>1. b # a
      BY <1>5 DEF Procs!Known
    <3>2. b \in Procs!Known \ cut /\ airportProcedures'[b] = airportProcedures[b]
      BY <1>3, <2>1, <3>1 DEF Procs!Known
    <3> QED BY <1>1, <3>2 DEF Procs!AnswersAreWhole, Procs!GetProcedures
  <2>8. \A j \in 1..n : HasKey(L, RowsOf[version][a][j].key)
    BY <1>4, <1>7 DEF FetchOf, L
  <2>9. \A j \in 1..n : RowsOf[version][a][j].key # k
    BY <1>4, <2>5, <2>8 DEF HasKey, L
  <2>10. a \notin cut => Procs!IsAnswer(M, version, a, n + 1)
    <3> SUFFICES ASSUME a \notin cut PROVE Procs!IsAnswer(M, version, a, n + 1)
      OBVIOUS
    <3>1. Procs!IsAnswer(L, version, a, n)
      BY <1>4, <1>7 DEF FetchOf, L
    <3> QED BY <1>4, <1>9, <1>10, <1>11, <2>9, <3>1, AnswerGrows DEF M
  <2>11. \A j \in 1..n + 1 : HasKey(M, RowsOf[version][a][j].key)
    <3> SUFFICES ASSUME NEW j \in 1..n + 1 PROVE HasKey(M, RowsOf[version][a][j].key)
      OBVIOUS
    <3>1. CASE j = n + 1
      <4>1. Len(L) + 1 \in DOMAIN M /\ M[Len(L) + 1].key = k
        BY <2>3
      <4> QED BY <1>9, <3>1, <4>1 DEF HasKey
    <3>2. CASE j \in 1..n
      <4>1. PICK i \in 1..Len(L) : L[i].key = RowsOf[version][a][j].key
        BY <2>3, <2>8, <3>2 DEF HasKey
      <4>2. i \in DOMAIN M /\ M[i] = L[i]
        BY <2>3
      <4> QED BY <4>1, <4>2 DEF HasKey
    <3> QED BY <1>4, <3>1, <3>2
  <2>12. \A i \in DOMAIN M : \E j \in 1..n + 1 : M[i].key = RowsOf[version][a][j].key
    <3> SUFFICES ASSUME NEW i \in 1..Len(L) + 1
                 PROVE  \E j \in 1..n + 1 : M[i].key = RowsOf[version][a][j].key
      BY <2>3
    <3>1. CASE i = Len(L) + 1
      <4>1. n + 1 \in 1..n + 1
        BY <1>4
      <4> QED BY <1>9, <2>3, <3>1, <4>1
    <3>2. CASE i \in 1..Len(L)
      <4>1. PICK j \in 1..n : L[i].key = RowsOf[version][a][j].key
        BY <1>4, <1>7, <2>3, <3>2 DEF FetchOf, L
      <4>2. j \in 1..n + 1 /\ M[i] = L[i]
        BY <1>4, <2>3, <3>2
      <4> QED BY <4>1, <4>2
    <3> QED BY <2>3, <3>1, <3>2
  <2>13. airportProcedures'[a] # None
    BY <2>1, <2>2
  <2>14. FetchOf(a)'
    BY <1>5, <1>6, <1>14, <2>4, <2>10, <2>11, <2>12, <2>13 DEF FetchOf
  <2>15. FetchInv'
    BY <1>5, <2>14, FetchNext
  <2> QED BY <1>2, <2>6, <2>7, <2>15 DEF ProcInv
<1> QED BY <1>12, <1>13

LEMMA ProcStep == ProcInv /\ [Procs!Next]_(Procs!vars) => ProcInv'
<1> SUFFICES ASSUME ProcInv, [Procs!Next]_(Procs!vars) PROVE ProcInv'
  OBVIOUS
<1>1. CASE UNCHANGED Procs!vars
  <2>1. UNCHANGED <<version, procedures, airportProcedures, fetch, cut>>
    BY <1>1 DEF Procs!vars, Procs!cacheVars
  <2>2. Procs!TypeOK'
    BY ProcTypeStep DEF ProcInv
  <2>3. IndexInv'
    BY <2>1, IndexKept, ListsKept DEF ProcInv
  <2>4. Procs!AnswersAreWhole'
    BY <2>1, AnswersKept DEF ProcInv, Procs!Known
  <2>5. FetchInv'
    BY <2>1 DEF ProcInv, FetchInv, FetchOf, Done, ListOf, LegsRead, Procs!Row
  <2> QED BY <2>2, <2>3, <2>4, <2>5 DEF ProcInv
<1> QED BY <1>1, RewriteStep, CheckStep, RowStep, LastRowStep, LegStep, EndLegsStep, AddProcedureStep
        DEF Procs!Next, Procs!FetchProcedures

LEMMA NamesMatch == ProcInv => Procs!NamesMatchLists
BY DEF ProcInv, IndexInv, Procs!NamesMatchLists, Procs!Known, Procs!GetProcedures, Procs!GetProcedure, ListOf

-----------------------------------------------------------------------------
(* The quad tree.  The sizes of its leaves, as its module counts them.      *)

LEMMA SameSize == \A S : Tree!Cardinality(S) = Cardinality(S)
BY DEF Tree!Cardinality, Cardinality

LEMMA EmptyLeaf ==
  /\ IsFiniteSet({}) /\ Tree!Cardinality({}) = 0
  /\ \A S : IsFiniteSet(S) => (Tree!Cardinality(S) = 0 <=> S = {})
BY SameSize, FS_EmptySet, Zenon

LEMMA LeafSize == \A S : IsFiniteSet(S) => Tree!Cardinality(S) \in Nat
BY SameSize, FS_CardinalityType, Zenon

LEMMA LeafGrows ==
  ASSUME NEW S, NEW x, IsFiniteSet(S)
  PROVE  /\ IsFiniteSet(S \cup {x})
         /\ Tree!Cardinality(S \cup {x}) =
              IF x \in S THEN Tree!Cardinality(S) ELSE Tree!Cardinality(S) + 1
BY SameSize, FS_AddElement, Zenon

LEMMA OneElement == \A x : IsFiniteSet({x}) /\ Tree!Cardinality({x}) = 1
BY SameSize, FS_Singleton, Zenon

Sides == CHOOSE S \in SUBSET (1..Size) : Tree!AreSides(S)
Boxes == [x : Int, y : Int, size : Sides \cup {0}]
PlaceSet == Int \X Int

Place(o) == aids[o].place
Held(o) == \E box \in DOMAIN leaves : o \in leaves[box]
Pending(o) == \E i \in DOMAIN inserting : inserting[i] = o

(* The boxes of the leaves do not overlap, hold what they contain, and what *)
(* waits to be inserted belongs into the tree.                              *)
TreeInv ==
  /\ DOMAIN leaves \subseteq Boxes
  /\ \A box \in DOMAIN leaves :
       IsFiniteSet(leaves[box]) /\ \A o \in leaves[box] : o \in Tree!Inserted /\ Tree!Contains(box, Place(o))
  /\ \A b, c \in DOMAIN leaves, p \in PlaceSet : Tree!Contains(b, p) /\ Tree!Contains(c, p) => b = c
  /\ inserting \in Seq(Tree!Inserted)
  /\ aborted => inserting = << >>

(* What waits before the new object has room where it belongs: only the new *)
(* one may have to split a leaf.                                            *)
RoomInv ==
  \A i \in 1..Len(inserting) - 1, box \in DOMAIN leaves :
    Tree!Contains(box, Place(inserting[i])) =>
      Tree!Cardinality(leaves[box]) + Len(inserting) - 1 <= Capacity

(* There is no leaf for the new object: insert() will call abort(). *)
Lost ==
  \/ aborted
  \/ inserting # << >> /\ Tree!LeavesOf(inserting[Len(inserting)]) = {}

(* Otherwise the leaves cover the root, and nothing is forgotten. *)
WholeInv ==
  \/ Lost
  \/ /\ \A p \in PlaceSet : Tree!Contains(Tree!Root, p) => \E box \in DOMAIN leaves : Tree!Contains(box, p)
     /\ \A o \in Tree!Inserted : Held(o) \/ Pending(o)

(* Every nav aid is found under its name. *)
NamesInv ==
  /\ aidsById \in [Ids -> Seq(DOMAIN aids)]
  /\ \A o \in DOMAIN aids : \E n \in DOMAIN aidsById[aids[o].id] : aidsById[aids[o].id][n] = o

AidsInv == Tree!TypeOK /\ TreeInv /\ RoomInv /\ WholeInv /\ NamesInv

-----------------------------------------------------------------------------
LEMMA SidesHalve ==
  /\ Sides \subseteq 1..Size /\ Size \in Sides /\ Size \in Nat
  /\ \A n \in Sides : n = 1 \/ \E half \in Sides : n = half + half
<1>1. PICK S \in SUBSET (1..Size) : Tree!AreSides(S)
  BY NavAidsAssumption DEF Tree!NavAidConstants
<1>2. Sides \in SUBSET (1..Size) /\ Tree!AreSides(Sides)
  BY <1>1, Zenon DEF Sides
<1> QED BY <1>2, NavAidsAssumption DEF Tree!AreSides, Tree!NavAidConstants

LEMMA BoxTypes ==
  ASSUME NEW box \in Boxes
  PROVE  /\ box.x \in Int /\ box.y \in Int /\ box.size \in Nat /\ box.size \in 0..Size
         /\ box.size = 0 \/ box.size \in Sides
<1>1. box.x \in Int /\ box.y \in Int /\ box.size \in Sides \cup {0}
  BY DEF Boxes
<1>2. Sides \subseteq 1..Size /\ Size \in Nat
  BY SidesHalve
<1>3. box.size \in 0..Size
  <2>1. CASE box.size = 0
    BY <1>2, <2>1
  <2>2. CASE box.size \in Sides
    <3>1. box.size \in 1..Size
      BY <1>2, <2>2
    <3> QED BY <1>2, <3>1
  <2> QED BY <1>1, <2>1, <2>2
<1> QED BY <1>1, <1>2, <1>3

LEMMA InBox ==
  ASSUME NEW box \in Boxes, NEW p \in PlaceSet
  PROVE  Tree!Contains(box, p) <=> /\ box.x <= p[1] /\ p[1] < box.x + box.size
                              /\ box.y <= p[2] /\ p[2] < box.y + box.size
BY BoxTypes DEF Tree!Contains, PlaceSet

(* The quarters of a box that can be halved make it up, without overlap.    *)
LEMMA QuartersFit ==
  ASSUME NEW box \in Boxes, box.size > 1
  PROVE  /\ Tree!Quarters(box) \subseteq Boxes /\ box \notin Tree!Quarters(box)
         /\ \A p \in PlaceSet :
              /\ Tree!Contains(box, p) <=> \E q \in Tree!Quarters(box) : Tree!Contains(q, p)
              /\ \A q, r \in Tree!Quarters(box) : Tree!Contains(q, p) /\ Tree!Contains(r, p) => q = r
<1>1. PICK half \in Sides : box.size = half + half
  BY BoxTypes, SidesHalve
<1>2. half \in Nat /\ half > 0 /\ box.size \div 2 = half
  BY <1>1, SidesHalve
<1>3. box.x \in Int /\ box.y \in Int
  BY BoxTypes
<1> DEFINE x == box.x
           y == box.y
<1>4. Tree!Quarters(box) = {Tree!Box(x, y, half), Tree!Box(x, y + half, half),
                       Tree!Box(x + half, y + half, half), Tree!Box(x + half, y, half)}
  BY <1>2 DEF Tree!Quarters
<1>5. Tree!Quarters(box) \subseteq Boxes
  BY <1>1, <1>2, <1>3, <1>4 DEF Boxes, Tree!Box
<1>6. \A q \in Tree!Quarters(box) : q.size = half
  BY <1>4 DEF Tree!Box
<1>7. \A q \in Tree!Quarters(box) :
        /\ q.x \in {x, x + half} /\ q.y \in {y, y + half} /\ q = Tree!Box(q.x, q.y, half)
  BY <1>4 DEF Tree!Box
<1>8. \A u \in {x, x + half}, v \in {y, y + half} : Tree!Box(u, v, half) \in Tree!Quarters(box)
  BY <1>4
<1>9. ASSUME NEW p \in PlaceSet
      PROVE  /\ Tree!Contains(box, p) <=> \E q \in Tree!Quarters(box) : Tree!Contains(q, p)
             /\ \A q, r \in Tree!Quarters(box) : Tree!Contains(q, p) /\ Tree!Contains(r, p) => q = r
  <2>0. p[1] \in Int /\ p[2] \in Int
    BY DEF PlaceSet
  <2>1. ASSUME NEW q \in Tree!Quarters(box)
        PROVE  Tree!Contains(q, p) <=> /\ q.x <= p[1] /\ p[1] < q.x + half
                                  /\ q.y <= p[2] /\ p[2] < q.y + half
    BY <1>5, <1>6, InBox
  <2>2. Tree!Contains(box, p) <=> /\ x <= p[1] /\ p[1] < x + half + half
                             /\ y <= p[2] /\ p[2] < y + half + half
    BY <1>1, <1>2, <1>3, InBox
  <2>3. ASSUME Tree!Contains(box, p) PROVE \E q \in Tree!Quarters(box) : Tree!Contains(q, p)
    <3>1. PICK u \in {x, x + half} : u <= p[1] /\ p[1] < u + half
      BY <1>2, <1>3, <2>0, <2>2, <2>3
    <3>2. PICK v \in {y, y + half} : v <= p[2] /\ p[2] < v + half
      BY <1>2, <1>3, <2>0, <2>2, <2>3
    <3>3. Tree!Box(u, v, half) \in Tree!Quarters(box) /\ Tree!Box(u, v, half).x = u /\ Tree!Box(u, v, half).y = v
      BY <1>8 DEF Tree!Box
    <3> QED BY <2>1, <3>1, <3>2, <3>3
  <2>4. ASSUME NEW q \in Tree!Quarters(box), Tree!Contains(q, p) PROVE Tree!Contains(box, p)
    BY <1>2, <1>3, <1>7, <2>0, <2>1, <2>2, <2>4
  <2>5. ASSUME NEW q \in Tree!Quarters(box), NEW r \in Tree!Quarters(box), Tree!Contains(q, p), Tree!Contains(r, p)
        PROVE  q = r
    <3>1. q.x = r.x /\ q.y = r.y
      BY <1>2, <1>3, <1>7, <2>0, <2>1, <2>5
    <3> QED BY <1>7, <3>1
  <2> QED BY <2>3, <2>4, <2>5
<1>10. box \notin Tree!Quarters(box)
  BY <1>1, <1>2, <1>6
<1> QED BY <1>5, <1>9, <1>10

(* The quarters of a box of side 1 contain nothing. *)
LEMMA NoQuarter ==
  ASSUME NEW box \in Boxes, box.size = 1
  PROVE  /\ Tree!Quarters(box) \subseteq Boxes /\ box \notin Tree!Quarters(box)
         /\ \A q \in Tree!Quarters(box), p \in PlaceSet : ~Tree!Contains(q, p)
<1>1. box.size \div 2 = 0 /\ box.x \in Int /\ box.y \in Int
  BY BoxTypes
<1>2. \A q \in Tree!Quarters(box) : q \in Boxes /\ q.size = 0
  BY <1>1 DEF Tree!Quarters, Boxes, Tree!Box
<1>3. ASSUME NEW q \in Tree!Quarters(box), NEW p \in PlaceSet PROVE ~Tree!Contains(q, p)
  <2>1. p[1] \in Int /\ q.x \in Int /\ q \in Boxes
    BY <1>2, BoxTypes DEF PlaceSet
  <2> QED BY <1>2, <2>1, InBox
<1>4. box \notin Tree!Quarters(box)
  BY <1>2
<1> QED BY <1>2, <1>3, <1>4

LEMMA RootIsBox == Tree!Root \in Boxes /\ Tree!Root.size = Size
BY SidesHalve DEF Tree!Root, Tree!Box, Boxes

LEMMA PlaceIs ==
  ASSUME Tree!TypeOK, NEW o \in DOMAIN aids
  PROVE  Place(o) \in PlaceSet /\ aids[o].id \in Ids
<1>1. aids[o] \in [id : Ids, place : Places]
  <2>1. aids \in Seq([id : Ids, place : Places])
    BY DEF Tree!TypeOK
  <2>2. \A S : aids \in Seq(S) => aids[o] \in S
    OBVIOUS
  <2> QED BY <2>1, <2>2
<1>2. Places \subseteq PlaceSet
  BY NavAidsAssumption DEF Tree!NavAidConstants, PlaceSet
<1> QED BY <1>1, <1>2 DEF Place

LEMMA AidsInit == Tree!Init => AidsInv
<1> SUFFICES ASSUME Tree!Init PROVE AidsInv
  OBVIOUS
<1>0. /\ aids = << >> /\ DOMAIN aids = {} /\ inserting = << >> /\ Len(inserting) = 0
      /\ DOMAIN leaves = {Tree!Root} /\ leaves[Tree!Root] = {} /\ aborted = FALSE
      /\ aidsById = [i \in Ids |-> << >>]
  BY DEF Tree!Init
<1>1. Tree!Cardinality({}) = 0 /\ IsFiniteSet({}) /\ Capacity \in Nat
  BY EmptyLeaf, NavAidsAssumption DEF Tree!NavAidConstants
<1>2. Tree!TypeOK
  <2>1. Tree!Root.size \in 0..Size /\ Capacity >= 0
    BY RootIsBox, BoxTypes, NavAidsAssumption DEF Tree!NavAidConstants
  <2>2. aids \in Seq([id : Ids, place : Places]) /\ Len(aids) <= MaxAids
    BY <1>0, NavAidsAssumption DEF Tree!NavAidConstants
  <2>3. \A box \in DOMAIN leaves :
          /\ box.size \in 0..Size
          /\ leaves[box] \subseteq DOMAIN aids /\ Tree!Cardinality(leaves[box]) <= Capacity
    <3>1. Tree!Cardinality(leaves[Tree!Root]) <= Capacity /\ leaves[Tree!Root] \subseteq DOMAIN aids
      BY <1>0, <1>1, <2>1
    <3> QED BY <1>0, <2>1, <3>1
  <2> QED BY <1>0, <2>2, <2>3 DEF Tree!TypeOK
<1>3. Tree!Inserted = {}
  BY <1>0 DEF Tree!Inserted
<1>4. TreeInv
  <2>1. IsFiniteSet(leaves[Tree!Root]) /\ \A o \in leaves[Tree!Root] : FALSE
    BY <1>0, <1>1
  <2>2. inserting \in Seq(Tree!Inserted)
    BY <1>0
  <2> QED BY <1>0, <2>1, <2>2, RootIsBox DEF TreeInv
<1>5. RoomInv
  BY <1>0 DEF RoomInv
<1>6. WholeInv
  BY <1>0, <1>3 DEF WholeInv
<1>7. NamesInv
  BY <1>0 DEF NamesInv
<1> QED BY <1>2, <1>4, <1>5, <1>6, <1>7 DEF AidsInv

LEMMA AddAidStep == AidsInv /\ Tree!AddNavAid => AidsInv'
<1> SUFFICES ASSUME AidsInv, Tree!AddNavAid PROVE AidsInv'
  OBVIOUS
<1>0. Tree!TypeOK /\ TreeInv /\ RoomInv /\ WholeInv /\ NamesInv
  BY DEF AidsInv
<1> PICK n : n = Len(aids) + 1
  OBVIOUS
<1>1. PICK i \in Ids, p \in Places :
        /\ aids' = Append(aids, [id |-> i, place |-> p])
        /\ aidsById' = [aidsById EXCEPT ![i] = Append(@, n)]
        /\ inserting' = IF Tree!Contains(Tree!Root, p) THEN <<n>> ELSE << >>
  BY DEF Tree!AddNavAid
<1>2. inserting = << >> /\ ~aborted /\ Len(aids) < MaxAids /\ UNCHANGED <<leaves, aborted>>
  BY DEF Tree!AddNavAid
<1>3. /\ n \in Nat /\ DOMAIN aids = 1..n - 1 /\ DOMAIN aids' = 1..n /\ n > 0
      /\ aids' \in Seq([id : Ids, place : Places]) /\ Len(aids') = n
      /\ \A o \in DOMAIN aids : aids'[o] = aids[o]
      /\ aids'[n].id = i /\ aids'[n].place = p
  <2>1. aids \in Seq([id : Ids, place : Places])
    BY <1>0 DEF Tree!TypeOK
  <2>2. [id |-> i, place |-> p] \in [id : Ids, place : Places]
    OBVIOUS
  <2> QED BY <1>1, <2>1, <2>2
<1>4. /\ \A o \in DOMAIN aids : o \in DOMAIN aids' /\ Place(o)' = Place(o)
      /\ n \in DOMAIN aids' /\ Place(n)' = p
      /\ \A o \in DOMAIN aids' : o = n \/ o \in DOMAIN aids
  BY <1>3 DEF Place
<1>5. /\ Tree!Inserted \subseteq Tree!Inserted'
      /\ \A o \in Tree!Inserted' : o \in Tree!Inserted \/ (o = n /\ Tree!Contains(Tree!Root, p))
      /\ Tree!Contains(Tree!Root, p) => n \in Tree!Inserted'
  BY <1>4 DEF Tree!Inserted, Place
<1>6. aidsById' \in [Ids -> Seq(DOMAIN aids')]
  <2>1. aidsById[i] \in Seq(DOMAIN aids) /\ DOMAIN aids \subseteq DOMAIN aids'
    BY <1>0, <1>4 DEF NamesInv
  <2>2. Append(aidsById[i], n) \in Seq(DOMAIN aids')
    BY <1>4, <2>1
  <2>3. Seq(DOMAIN aids) \subseteq Seq(DOMAIN aids')
    BY <2>1, SeqMonotonic
  <2> HIDE DEF NamesInv
  <2> QED BY <1>0, <1>1, <2>2, <2>3 DEF NamesInv
<1>7. /\ \A j \in Ids : j # i => aidsById'[j] = aidsById[j]
      /\ aidsById'[i] = Append(aidsById[i], n) /\ aidsById[i] \in Seq(DOMAIN aids)
  BY <1>0, <1>1 DEF NamesInv
<1>8. /\ DOMAIN aidsById[i] = 1..Len(aidsById[i]) /\ Len(aidsById[i]) \in Nat
      /\ DOMAIN aidsById'[i] = 1..Len(aidsById[i]) + 1
      /\ aidsById'[i][Len(aidsById[i]) + 1] = n
      /\ \A m \in 1..Len(aidsById[i]) : aidsById'[i][m] = aidsById[i][m]
  BY <1>4, <1>7
<1>9. Tree!TypeOK'
  <2>1. Len(aids') <= MaxAids /\ aborted' \in BOOLEAN
    BY <1>0, <1>2, <1>3, NavAidsAssumption DEF Tree!TypeOK, Tree!NavAidConstants
  <2>2. \A box \in DOMAIN leaves' :
          /\ box.size \in 0..Size
          /\ leaves'[box] \subseteq DOMAIN aids' /\ Tree!Cardinality(leaves'[box]) <= Capacity
    BY <1>0, <1>2, <1>4 DEF Tree!TypeOK
  <2>3. \A j \in DOMAIN inserting' : inserting'[j] \in DOMAIN aids'
    BY <1>1, <1>4
  <2>4. ASSUME NEW j \in Ids, NEW m \in DOMAIN aidsById'[j] PROVE aids'[aidsById'[j][m]].id = j
    <3>1. CASE j # i
      <4>1. aidsById'[j] = aidsById[j] /\ aidsById[j] \in Seq(DOMAIN aids)
        BY <1>0, <1>7, <3>1 DEF NamesInv
      <4>2. aidsById[j][m] \in DOMAIN aids /\ m \in DOMAIN aidsById[j]
        BY <2>4, <4>1
      <4>3. aids[aidsById[j][m]].id = j
        BY <1>0, <4>2 DEF Tree!TypeOK
      <4> QED BY <1>3, <4>1, <4>2, <4>3
    <3>2. CASE j = i /\ m = Len(aidsById[i]) + 1
      BY <1>3, <1>8, <3>2
    <3>3. CASE j = i /\ m \in 1..Len(aidsById[i])
      <4>1. aidsById'[i][m] = aidsById[i][m] /\ aidsById[i][m] \in DOMAIN aids
        BY <1>7, <1>8, <3>3
      <4> QED BY <1>0, <1>3, <1>8, <3>3, <4>1 DEF Tree!TypeOK
    <3> QED BY <1>8, <3>1, <3>2, <3>3
  <2> QED BY <1>3, <2>1, <2>2, <2>3, <2>4 DEF Tree!TypeOK
<1>10. TreeInv'
  <2>1. \A box \in DOMAIN leaves' : \A o \in leaves'[box] : o \in Tree!Inserted' /\ Tree!Contains(box, Place(o)')
    BY <1>0, <1>2, <1>4, <1>5 DEF TreeInv, Tree!TypeOK
  <2>2. inserting' \in Seq(Tree!Inserted')
    BY <1>1, <1>5
  <2> QED BY <1>0, <1>2, <2>1, <2>2 DEF TreeInv
<1>11. RoomInv'
  <2>1. Len(inserting') = 0 \/ Len(inserting') = 1
    BY <1>1
  <2>2. ASSUME NEW k, k = 0 \/ k = 1 PROVE 1..(k - 1) = {}
    BY <2>2
  <2> QED BY <2>1, <2>2 DEF RoomInv
<1>12. WholeInv'
  <2>1. ~Lost /\ \A o \in DOMAIN inserting : FALSE
    BY <1>2 DEF Lost
  <2>2. /\ \A q \in PlaceSet : Tree!Contains(Tree!Root, q) => \E box \in DOMAIN leaves : Tree!Contains(box, q)
        /\ \A o \in Tree!Inserted : Held(o)
    BY <1>0, <2>1 DEF WholeInv, Pending
  <2>3. ASSUME NEW o \in Tree!Inserted' PROVE Held(o)' \/ Pending(o)'
    <3>1. CASE o \in Tree!Inserted
      BY <1>2, <2>2, <3>1 DEF Held
    <3>2. CASE o = n /\ Tree!Contains(Tree!Root, p)
      BY <1>1, <3>2 DEF Pending
    <3> QED BY <1>5, <3>1, <3>2
  <2> QED BY <1>2, <2>2, <2>3 DEF WholeInv
<1>13. NamesInv'
  <2>1. ASSUME NEW o \in DOMAIN aids'
        PROVE  \E m \in DOMAIN aidsById'[aids'[o].id] : aidsById'[aids'[o].id][m] = o
    <3>1. CASE o = n
      <4>1. Len(aidsById[i]) + 1 \in DOMAIN aidsById'[i]
        BY <1>8
      <4> QED BY <1>3, <1>8, <3>1, <4>1
    <3>2. CASE o \in DOMAIN aids
      <4>1. PICK m \in DOMAIN aidsById[aids[o].id] : aidsById[aids[o].id][m] = o
        BY <1>0, <3>2 DEF NamesInv
      <4>2. aids'[o].id = aids[o].id /\ aids[o].id \in Ids
        BY <1>0, <1>3, <3>2, PlaceIs
      <4>3. CASE aids[o].id = i
        BY <1>8, <4>1, <4>2, <4>3
      <4>4. CASE aids[o].id # i
        BY <1>7, <4>1, <4>2, <4>4
      <4> QED BY <4>3, <4>4
    <3> QED BY <1>4, <3>1, <3>2
  <2> QED BY <1>6, <2>1 DEF NamesInv
<1> QED BY <1>9, <1>10, <1>11, <1>12, <1>13 DEF AidsInv

(* The names are not touched by what the tree does. *)
LEMMA SameAids ==
  ASSUME UNCHANGED <<aids, aidsById>>
  PROVE  /\ \A o : Place(o)' = Place(o)
         /\ Tree!Inserted' = Tree!Inserted
         /\ NamesInv => NamesInv'
BY DEF Place, Tree!Inserted, NamesInv

(* What is inserted next, and what is behind it. *)
LEMMA NextObject ==
  ASSUME Tree!TypeOK, TreeInv, inserting # << >>
  PROVE  /\ Len(inserting) \in Nat /\ Len(inserting) > 0
         /\ DOMAIN inserting = 1..Len(inserting)
         /\ Head(inserting) = inserting[1] /\ Head(inserting) \in Tree!Inserted
         /\ Tail(inserting) \in Seq(Tree!Inserted) /\ Len(Tail(inserting)) = Len(inserting) - 1
         /\ \A i \in 1..Len(inserting) - 1 : Tail(inserting)[i] = inserting[i + 1]
         /\ \A i \in 1..Len(inserting) : inserting[i] \in Tree!Inserted
BY DEF TreeInv

LEMMA InsertedIs ==
  ASSUME Tree!TypeOK, NEW o \in Tree!Inserted
  PROVE  o \in DOMAIN aids /\ Place(o) \in PlaceSet /\ Tree!Contains(Tree!Root, Place(o))
BY PlaceIs DEF Tree!Inserted, Place

(* The leaf of an object is the one that contains it. *)
LEMMA LeafIs ==
  ASSUME Tree!TypeOK, TreeInv, NEW o \in Tree!Inserted, Tree!LeavesOf(o) # {}
  PROVE  /\ Tree!LeafOf(o) \in DOMAIN leaves /\ Tree!LeafOf(o) \in Boxes /\ Tree!Contains(Tree!LeafOf(o), Place(o))
         /\ \A box \in DOMAIN leaves : Tree!Contains(box, Place(o)) => box = Tree!LeafOf(o)
         /\ IsFiniteSet(leaves[Tree!LeafOf(o)]) /\ Tree!Cardinality(leaves[Tree!LeafOf(o)]) \in Nat
<1>1. Tree!LeafOf(o) \in Tree!LeavesOf(o)
  BY DEF Tree!LeafOf
<1>2. Tree!LeafOf(o) \in DOMAIN leaves /\ Tree!Contains(Tree!LeafOf(o), Place(o))
  BY <1>1 DEF Tree!LeavesOf, Place
<1>3. \A box \in DOMAIN leaves : Tree!Contains(box, Place(o)) => box = Tree!LeafOf(o)
  BY <1>2, InsertedIs DEF TreeInv
<1>4. Tree!LeafOf(o) \in Boxes /\ IsFiniteSet(leaves[Tree!LeafOf(o)])
  BY <1>2 DEF TreeInv
<1> QED BY <1>2, <1>3, <1>4, LeafSize

LEMMA PutStep == AidsInv /\ Tree!PutInLeaf => AidsInv'
<1> SUFFICES ASSUME AidsInv, Tree!PutInLeaf PROVE AidsInv'
  OBVIOUS
<1>0. Tree!TypeOK /\ TreeInv /\ RoomInv /\ WholeInv /\ NamesInv
  BY DEF AidsInv
<1> PICK o : o = Head(inserting)
  OBVIOUS
<1> PICK leaf : leaf = Tree!LeafOf(o)
  OBVIOUS
<1>1. /\ inserting # << >> /\ inserting' = Tail(inserting) /\ Tree!LeavesOf(o) # {}
      /\ Tree!Cardinality(leaves[leaf]) < Capacity
      /\ leaves' = [leaves EXCEPT ![leaf] = @ \cup {o}]
      /\ UNCHANGED <<aids, aidsById, aborted>>
  BY DEF Tree!PutInLeaf
<1>2. o \in Tree!Inserted /\ o = inserting[1]
  BY <1>0, <1>1, NextObject
<1>3. /\ leaf \in DOMAIN leaves /\ leaf \in Boxes /\ Tree!Contains(leaf, Place(o))
      /\ \A box \in DOMAIN leaves : Tree!Contains(box, Place(o)) => box = leaf
      /\ IsFiniteSet(leaves[leaf]) /\ Tree!Cardinality(leaves[leaf]) \in Nat
  BY <1>0, <1>1, <1>2, LeafIs
<1>4. /\ DOMAIN leaves' = DOMAIN leaves /\ leaves'[leaf] = leaves[leaf] \cup {o}
      /\ \A box \in DOMAIN leaves : box # leaf => leaves'[box] = leaves[box]
  BY <1>1, <1>3
<1>5. /\ \A b : Place(b)' = Place(b)
      /\ Tree!Inserted' = Tree!Inserted
      /\ NamesInv'
  BY <1>0, <1>1, SameAids
<1>6. /\ IsFiniteSet(leaves'[leaf])
      /\ Tree!Cardinality(leaves'[leaf]) \in Nat
      /\ Tree!Cardinality(leaves'[leaf]) <= Tree!Cardinality(leaves[leaf]) + 1
  <2>1. IsFiniteSet(leaves[leaf] \cup {o})
        /\ (Tree!Cardinality(leaves[leaf] \cup {o}) = Tree!Cardinality(leaves[leaf])
            \/ Tree!Cardinality(leaves[leaf] \cup {o}) = Tree!Cardinality(leaves[leaf]) + 1)
    BY <1>3, LeafGrows, Zenon
  <2> QED BY <1>3, <1>4, <2>1
<1>7. /\ Len(inserting) \in Nat /\ Len(inserting) > 0
      /\ DOMAIN inserting = 1..Len(inserting)
      /\ inserting' \in Seq(Tree!Inserted) /\ Len(inserting') = Len(inserting) - 1
      /\ \A i \in 1..Len(inserting) - 1 : inserting'[i] = inserting[i + 1]
      /\ \A i \in 1..Len(inserting) : inserting[i] \in Tree!Inserted
  BY <1>0, <1>1, NextObject
<1>8. Capacity \in Nat
  BY NavAidsAssumption DEF Tree!NavAidConstants
<1>9. Tree!TypeOK'
  <2>1. \A box \in DOMAIN leaves' :
          /\ box.size \in 0..Size
          /\ leaves'[box] \subseteq DOMAIN aids /\ Tree!Cardinality(leaves'[box]) <= Capacity
    <3>1. ASSUME NEW box \in DOMAIN leaves'
          PROVE  leaves'[box] \subseteq DOMAIN aids /\ Tree!Cardinality(leaves'[box]) <= Capacity
      <4>1. CASE box = leaf
        BY <1>0, <1>1, <1>2, <1>3, <1>4, <1>6, <1>8, <4>1, InsertedIs DEF Tree!TypeOK
      <4>2. CASE box # leaf
        BY <1>0, <1>4, <4>2 DEF Tree!TypeOK
      <4> QED BY <4>1, <4>2
    <3> QED BY <1>0, <1>4, <3>1 DEF Tree!TypeOK
  <2>2. \A i \in DOMAIN inserting' : inserting'[i] \in DOMAIN aids
    BY <1>7 DEF Tree!Inserted
  <2> QED BY <1>0, <1>1, <2>1, <2>2 DEF Tree!TypeOK
<1>10. TreeInv'
  <2>1. ASSUME NEW box \in DOMAIN leaves'
        PROVE  /\ IsFiniteSet(leaves'[box])
               /\ \A b \in leaves'[box] : b \in Tree!Inserted /\ Tree!Contains(box, Place(b))
    <3>1. CASE box = leaf
      BY <1>0, <1>2, <1>3, <1>4, <1>6, <3>1 DEF TreeInv
    <3>2. CASE box # leaf
      BY <1>0, <1>4, <3>2 DEF TreeInv
    <3> QED BY <3>1, <3>2
  <2>2. aborted' => inserting' = << >>
    BY <1>0, <1>1 DEF TreeInv
  <2> QED BY <1>0, <1>4, <1>5, <1>7, <2>1, <2>2 DEF TreeInv
<1>11. RoomInv'
  <2>1. ASSUME NEW i \in 1..Len(inserting') - 1, NEW box \in DOMAIN leaves',
               Tree!Contains(box, Place(inserting'[i]))
        PROVE  Tree!Cardinality(leaves'[box]) + Len(inserting') - 1 <= Capacity
    <3>1. i + 1 \in 1..Len(inserting) - 1 /\ inserting'[i] = inserting[i + 1]
      BY <1>7
    <3>2. Tree!Cardinality(leaves[box]) + Len(inserting) - 1 <= Capacity
      BY <1>0, <1>4, <2>1, <3>1 DEF RoomInv
    <3>3. Tree!Cardinality(leaves'[box]) \in Nat /\ Tree!Cardinality(leaves'[box]) <= Tree!Cardinality(leaves[box]) + 1
      <4>1. CASE box = leaf
        BY <1>6, <4>1
      <4>2. CASE box # leaf
        <5>1. leaves'[box] = leaves[box] /\ IsFiniteSet(leaves[box])
          BY <1>0, <1>4, <4>2 DEF TreeInv
        <5>2. Tree!Cardinality(leaves[box]) \in Nat
          BY <5>1, LeafSize
        <5> QED BY <5>1, <5>2
      <4> QED BY <4>1, <4>2
    <3>4. Tree!Cardinality(leaves[box]) \in Nat
      BY <1>0, <1>4, LeafSize DEF TreeInv
    <3> QED BY <1>7, <1>8, <3>2, <3>3, <3>4
  <2> QED BY <1>5, <2>1 DEF RoomInv
<1>12. WholeInv'
  <2>1. CASE aborted
    BY <1>1, <2>1 DEF WholeInv, Lost
  <2>2. CASE Tree!LeavesOf(inserting[Len(inserting)]) = {}
    <3>1. Len(inserting) # 1
      BY <1>1, <1>2, <2>2
    <3>2. inserting' # << >> /\ inserting'[Len(inserting')] = inserting[Len(inserting)]
      BY <1>7, <3>1
    <3>3. Tree!LeavesOf(inserting[Len(inserting)])' = {}
      BY <1>1, <1>4, <2>2, <3>2 DEF Tree!LeavesOf
    <3> QED BY <3>2, <3>3 DEF WholeInv, Lost
  <2>3. CASE ~aborted /\ Tree!LeavesOf(inserting[Len(inserting)]) # {}
    <3>1. /\ \A p \in PlaceSet : Tree!Contains(Tree!Root, p) => \E box \in DOMAIN leaves : Tree!Contains(box, p)
          /\ \A b \in Tree!Inserted : Held(b) \/ Pending(b)
      BY <1>0, <2>3 DEF WholeInv, Lost
    <3>2. ASSUME NEW b \in Tree!Inserted PROVE Held(b)' \/ Pending(b)'
      <4>1. CASE Held(b)
        BY <1>4, <4>1 DEF Held
      <4>2. CASE b = o
        BY <1>3, <1>4, <4>2 DEF Held
      <4>3. CASE Pending(b) /\ b # o
        <5>1. PICK i \in 1..Len(inserting) : inserting[i] = b
          BY <1>7, <4>3 DEF Pending
        <5>2. i # 1 /\ i - 1 \in 1..Len(inserting) - 1 /\ i - 1 + 1 = i
          BY <1>2, <1>7, <4>3, <5>1
        <5>3. inserting'[i - 1] = b /\ i - 1 \in DOMAIN inserting'
          BY <1>7, <5>1, <5>2
        <5> QED BY <5>3 DEF Pending
      <4> QED BY <3>1, <4>1, <4>2, <4>3
    <3> QED BY <1>4, <1>5, <3>1, <3>2 DEF WholeInv
  <2> QED BY <2>1, <2>2, <2>3
<1> QED BY <1>5, <1>9, <1>10, <1>11, <1>12 DEF AidsInv

LEMMA NoLeafStep == AidsInv /\ Tree!NoLeaf => AidsInv'
<1> SUFFICES ASSUME AidsInv, Tree!NoLeaf PROVE AidsInv'
  OBVIOUS
<1>0. Tree!TypeOK /\ TreeInv /\ RoomInv /\ WholeInv /\ NamesInv
  BY DEF AidsInv
<1>1. /\ inserting # << >> /\ inserting' = Tail(inserting)
      /\ Tree!LeavesOf(inserting[1]) = {}
      /\ aborted' = (Tail(inserting) = << >>)
      /\ UNCHANGED <<aids, leaves, aidsById>>
  BY DEF Tree!NoLeaf
<1>2. /\ \A b : Place(b)' = Place(b)
      /\ Tree!Inserted' = Tree!Inserted
      /\ NamesInv'
  BY <1>0, <1>1, SameAids
<1>3. /\ Len(inserting) \in Nat /\ Len(inserting) > 0
      /\ inserting' \in Seq(Tree!Inserted) /\ Len(inserting') = Len(inserting) - 1
      /\ \A i \in 1..Len(inserting) - 1 : inserting'[i] = inserting[i + 1]
      /\ \A i \in 1..Len(inserting) : inserting[i] \in Tree!Inserted
  BY <1>0, <1>1, NextObject
<1>4. Tree!TypeOK'
  <2>1. \A i \in DOMAIN inserting' : inserting'[i] \in DOMAIN aids
    BY <1>3 DEF Tree!Inserted
  <2>2. aborted' \in BOOLEAN
    BY <1>1
  <2> QED BY <1>0, <1>1, <2>1, <2>2 DEF Tree!TypeOK
<1>5. TreeInv'
  BY <1>0, <1>1, <1>2, <1>3 DEF TreeInv
<1>6. RoomInv'
  <2>1. ASSUME NEW i \in 1..Len(inserting') - 1, NEW box \in DOMAIN leaves,
               Tree!Contains(box, Place(inserting'[i]))
        PROVE  Tree!Cardinality(leaves[box]) + Len(inserting') - 1 <= Capacity
    <3>1. i + 1 \in 1..Len(inserting) - 1 /\ inserting'[i] = inserting[i + 1]
      BY <1>3
    <3>2. Tree!Cardinality(leaves[box]) + Len(inserting) - 1 <= Capacity
      BY <1>0, <2>1, <3>1 DEF RoomInv
    <3>3. Tree!Cardinality(leaves[box]) \in Nat /\ Capacity \in Nat
      BY <1>0, LeafSize, NavAidsAssumption DEF TreeInv, Tree!NavAidConstants
    <3> QED BY <1>3, <3>2, <3>3
  <2> QED BY <1>1, <1>2, <2>1 DEF RoomInv
<1>7. WholeInv'
  <2>1. Lost
    <3>1. inserting[1] \in Tree!Inserted
      BY <1>3
    <3>2. ~\E box \in DOMAIN leaves : Tree!Contains(box, Place(inserting[1]))
      BY <1>1 DEF Tree!LeavesOf, Place
    <3> QED BY <1>0, <3>1, <3>2, InsertedIs DEF WholeInv
  <2>2. CASE Len(inserting) = 1
    <3>1. Tail(inserting) = << >>
      BY <1>1, <1>3, <2>2
    <3> QED BY <1>1, <3>1 DEF WholeInv, Lost
  <2>3. CASE Len(inserting) # 1 /\ Tree!LeavesOf(inserting[Len(inserting)]) = {}
    <3>1. inserting' # << >> /\ inserting'[Len(inserting')] = inserting[Len(inserting)]
      BY <1>3, <2>3
    <3>2. Tree!LeavesOf(inserting[Len(inserting)])' = {}
      BY <1>1, <2>3, <3>1 DEF Tree!LeavesOf
    <3> QED BY <3>1, <3>2 DEF WholeInv, Lost
  <2>4. ~aborted
    BY <1>0, <1>1 DEF TreeInv
  <2> QED BY <2>1, <2>2, <2>3, <2>4 DEF Lost
<1> QED BY <1>2, <1>4, <1>5, <1>6, <1>7 DEF AidsInv

(* The objects of the leaf that is split, in front of the new one. *)
LEMMA OrderedObjects ==
  ASSUME NEW S, IsFiniteSet(S), NEW order \in Tree!Orders(S), NEW o, NEW T, S \subseteq T, o \in T
  PROVE  /\ order \o <<o>> \in Seq(T)
         /\ Len(order \o <<o>>) = Tree!Cardinality(S) + 1 /\ Tree!Cardinality(S) \in Nat
         /\ (order \o <<o>>)[Tree!Cardinality(S) + 1] = o
         /\ \A i \in 1..Tree!Cardinality(S) : (order \o <<o>>)[i] \in S
         /\ \A b \in S : \E i \in 1..Tree!Cardinality(S) : (order \o <<o>>)[i] = b
<1> PICK n : n = Tree!Cardinality(S)
  OBVIOUS
<1>1. n \in Nat
  BY LeafSize
<1>2. order \in [1..n -> S] /\ \A b \in S : \E i \in 1..n : order[i] = b
  BY DEF Tree!Orders
<1>3. order \in Seq(S) /\ Len(order) = n
  BY <1>1, <1>2
<1>4. order \in Seq(T) /\ <<o>> \in Seq(T) /\ Len(<<o>>) = 1 /\ <<o>>[1] = o
  <2>1. order \in [1..n -> T]
    BY <1>2
  <2> QED BY <1>1, <2>1
<1>5. order \o <<o>> \in Seq(T) /\ Len(order \o <<o>>) = n + 1
  BY <1>1, <1>3, <1>4
<1>6. (order \o <<o>>)[n + 1] = o
  BY <1>1, <1>3, <1>4
<1>7. \A i \in 1..n : (order \o <<o>>)[i] = order[i]
  BY <1>1, <1>3, <1>4
<1> QED BY <1>1, <1>2, <1>5, <1>6, <1>7

LEMMA SplitStep == AidsInv /\ Tree!Subdivide => AidsInv'
<1> SUFFICES ASSUME AidsInv, Tree!Subdivide PROVE AidsInv'
  OBVIOUS
<1>0. Tree!TypeOK /\ TreeInv /\ RoomInv /\ WholeInv /\ NamesInv
  BY DEF AidsInv
<1> PICK o : o = Head(inserting)
  OBVIOUS
<1> PICK old : old = Tree!LeafOf(o)
  OBVIOUS
<1> PICK card : card = Tree!Cardinality(leaves[old])
  OBVIOUS
<1>1. /\ inserting # << >> /\ Tree!LeavesOf(o) # {}
      /\ card >= Capacity
      /\ leaves' = [b \in (DOMAIN leaves \ {old}) \cup Tree!Quarters(old) |->
                      IF b \in Tree!Quarters(old) THEN {} ELSE leaves[b]]
      /\ \E order \in Tree!Orders(leaves[old]) : inserting' = order \o inserting
      /\ UNCHANGED <<aids, aidsById, aborted>>
  BY DEF Tree!Subdivide
<1>2. o \in Tree!Inserted /\ o = inserting[1] /\ Tree!Contains(Tree!Root, Place(o)) /\ ~aborted
  BY <1>0, <1>1, NextObject, InsertedIs DEF TreeInv
<1>3. /\ old \in DOMAIN leaves /\ old \in Boxes /\ Tree!Contains(old, Place(o))
      /\ \A box \in DOMAIN leaves : Tree!Contains(box, Place(o)) => box = old
      /\ IsFiniteSet(leaves[old]) /\ card \in Nat
  BY <1>0, <1>1, <1>2, LeafIs
<1>4. Capacity \in Nat \ {0} /\ card = Capacity
  BY <1>0, <1>1, <1>3, NavAidsAssumption DEF Tree!TypeOK, Tree!NavAidConstants
<1>5. /\ Len(inserting) \in Nat /\ Len(inserting) > 0
      /\ DOMAIN inserting = 1..Len(inserting) /\ inserting \in Seq(Tree!Inserted)
  BY <1>0, <1>1, NextObject DEF TreeInv
<1>6. Len(inserting) = 1
  <2>1. SUFFICES ASSUME Len(inserting) > 1 PROVE FALSE
    BY <1>5
  <2>2. 1 \in 1..Len(inserting) - 1
    BY <1>5, <2>1
  <2>3. card + Len(inserting) - 1 <= Capacity
    BY <1>0, <1>2, <1>3, <2>2 DEF RoomInv
  <2> QED BY <1>3, <1>4, <1>5, <2>1, <2>3
<1>7. inserting = <<o>>
  BY <1>2, <1>5, <1>6
<1>8. PICK order \in Tree!Orders(leaves[old]) : inserting' = order \o <<o>>
  BY <1>1, <1>7
<1>9. leaves[old] \subseteq Tree!Inserted
  BY <1>0, <1>3 DEF TreeInv
<1>10. /\ inserting' \in Seq(Tree!Inserted) /\ Len(inserting') = card + 1
       /\ inserting'[card + 1] = o
       /\ \A i \in 1..card : inserting'[i] \in leaves[old]
       /\ \A b \in leaves[old] : \E i \in 1..card : inserting'[i] = b
  <2>1. IsFiniteSet(leaves[old]) /\ leaves[old] \subseteq Tree!Inserted /\ o \in Tree!Inserted
    BY <1>2, <1>3, <1>9
  <2> QED BY <1>8, <2>1, OrderedObjects
<1>11. /\ \A b : Place(b)' = Place(b)
       /\ Tree!Inserted' = Tree!Inserted
       /\ NamesInv'
  BY <1>0, <1>1, SameAids
<1>12. /\ DOMAIN leaves' = (DOMAIN leaves \ {old}) \cup Tree!Quarters(old)
       /\ \A q \in Tree!Quarters(old) : leaves'[q] = {}
       /\ \A b \in DOMAIN leaves \ {old} : b \notin Tree!Quarters(old) => leaves'[b] = leaves[b]
  BY <1>1
<1>13. /\ Tree!Quarters(old) \subseteq Boxes /\ old \notin Tree!Quarters(old)
       /\ \A q \in Tree!Quarters(old), p \in PlaceSet : Tree!Contains(q, p) => Tree!Contains(old, p)
       /\ \A q, r \in Tree!Quarters(old), p \in PlaceSet : Tree!Contains(q, p) /\ Tree!Contains(r, p) => q = r
       /\ \/ \A p \in PlaceSet : Tree!Contains(old, p) => \E q \in Tree!Quarters(old) : Tree!Contains(q, p)
          \/ \A q \in Tree!Quarters(old), p \in PlaceSet : ~Tree!Contains(q, p)
  <2>1. old.size = 0 => FALSE
    BY <1>2, <1>3, <1>0, InBox, BoxTypes, InsertedIs DEF PlaceSet
  <2>2. CASE old.size > 1
    BY <1>3, <2>2, QuartersFit
  <2>3. CASE old.size = 1
    BY <1>3, <2>3, NoQuarter
  <2>4. old.size = 1 \/ old.size > 1
    BY <1>3, <2>1, BoxTypes
  <2> QED BY <2>2, <2>3, <2>4
<1>14. \A b \in DOMAIN leaves \ {old}, q \in Tree!Quarters(old), p \in PlaceSet :
         Tree!Contains(b, p) /\ Tree!Contains(q, p) => FALSE
  BY <1>0, <1>3, <1>13 DEF TreeInv
<1>15. ASSUME NEW b \in DOMAIN leaves, NEW a \in leaves[b]
       PROVE  a \in Tree!Inserted /\ Place(a) \in PlaceSet /\ Tree!Contains(b, Place(a))
  BY <1>0, InsertedIs DEF TreeInv
<1>16. \A b \in DOMAIN leaves \ {old} : leaves'[b] = leaves[b]
  BY <1>12, <1>13, <1>14, <1>15
<1>17. Tree!TypeOK'
  <2>1. ASSUME NEW box \in DOMAIN leaves'
        PROVE  /\ box.size \in 0..Size
               /\ leaves'[box] \subseteq DOMAIN aids /\ Tree!Cardinality(leaves'[box]) <= Capacity
    <3>1. CASE box \in Tree!Quarters(old)
      <4>1. leaves'[box] = {} /\ Tree!Cardinality({}) = 0 /\ box \in Boxes
        BY <1>12, <1>13, <3>1, EmptyLeaf
      <4>2. Tree!Cardinality(leaves'[box]) = 0 /\ leaves'[box] \subseteq DOMAIN aids
        BY <4>1
      <4> QED BY <1>4, <4>1, <4>2, BoxTypes
    <3>2. CASE box \in DOMAIN leaves \ {old}
      BY <1>0, <1>16, <3>2 DEF Tree!TypeOK
    <3> QED BY <1>12, <3>1, <3>2
  <2>2. \A i \in DOMAIN inserting' : inserting'[i] \in DOMAIN aids
    BY <1>10 DEF Tree!Inserted
  <2> QED BY <1>0, <1>1, <2>1, <2>2 DEF Tree!TypeOK
<1>18. TreeInv'
  <2>1. DOMAIN leaves' \subseteq Boxes
    BY <1>0, <1>12, <1>13 DEF TreeInv
  <2>2. ASSUME NEW box \in DOMAIN leaves'
        PROVE  /\ IsFiniteSet(leaves'[box])
               /\ \A b \in leaves'[box] : b \in Tree!Inserted /\ Tree!Contains(box, Place(b))
    <3>1. CASE box \in Tree!Quarters(old)
      BY <1>12, <3>1, EmptyLeaf
    <3>2. CASE box \in DOMAIN leaves \ {old}
      BY <1>0, <1>16, <3>2 DEF TreeInv
    <3> QED BY <1>12, <3>1, <3>2
  <2>3. ASSUME NEW b \in DOMAIN leaves', NEW c \in DOMAIN leaves', NEW p \in PlaceSet,
               Tree!Contains(b, p), Tree!Contains(c, p)
        PROVE  b = c
    <3>1. CASE b \in Tree!Quarters(old) /\ c \in Tree!Quarters(old)
      BY <1>13, <2>3, <3>1
    <3>2. CASE b \in DOMAIN leaves \ {old} /\ c \in DOMAIN leaves \ {old}
      BY <1>0, <2>3, <3>2 DEF TreeInv
    <3>3. CASE b \in DOMAIN leaves \ {old} /\ c \in Tree!Quarters(old)
      BY <1>14, <2>3, <3>3
    <3>4. CASE b \in Tree!Quarters(old) /\ c \in DOMAIN leaves \ {old}
      BY <1>14, <2>3, <3>4
    <3> QED BY <1>12, <3>1, <3>2, <3>3, <3>4
  <2>4. ~aborted' /\ inserting' \in Seq(Tree!Inserted')
    BY <1>1, <1>2, <1>10, <1>11
  <2>5. \A box \in DOMAIN leaves' :
          IsFiniteSet(leaves'[box])
          /\ \A b \in leaves'[box] : b \in Tree!Inserted' /\ Tree!Contains(box, Place(b)')
    BY <1>11, <2>2
  <2> QED BY <2>1, <2>3, <2>4, <2>5 DEF TreeInv
<1>19. RoomInv'
  <2>1. ASSUME NEW i \in 1..Len(inserting') - 1, NEW box \in DOMAIN leaves',
               Tree!Contains(box, Place(inserting'[i]))
        PROVE  Tree!Cardinality(leaves'[box]) + Len(inserting') - 1 <= Capacity
    <3>1. i \in 1..card /\ inserting'[i] \in leaves[old]
      BY <1>3, <1>10
    <3>2. Place(inserting'[i]) \in PlaceSet /\ Tree!Contains(old, Place(inserting'[i]))
      BY <1>3, <1>15, <3>1
    <3>3. box \in Tree!Quarters(old)
      BY <1>0, <1>3, <1>12, <2>1, <3>2 DEF TreeInv
    <3>4. Tree!Cardinality(leaves'[box]) = 0
      BY <1>12, <3>3, EmptyLeaf
    <3> QED BY <1>3, <1>4, <1>10, <3>4
  <2> QED BY <1>11, <2>1 DEF RoomInv
<1>20. WholeInv'
  <2>1. ~Lost
    BY <1>1, <1>2, <1>6 DEF Lost
  <2>2. /\ \A p \in PlaceSet : Tree!Contains(Tree!Root, p) => \E box \in DOMAIN leaves : Tree!Contains(box, p)
        /\ \A b \in Tree!Inserted : Held(b) \/ Pending(b)
    BY <1>0, <2>1 DEF WholeInv
  <2>3. CASE \A p \in PlaceSet : Tree!Contains(old, p) => \E q \in Tree!Quarters(old) : Tree!Contains(q, p)
    <3>1. ASSUME NEW p \in PlaceSet, Tree!Contains(Tree!Root, p)
          PROVE  \E box \in DOMAIN leaves' : Tree!Contains(box, p)
      <4>1. PICK box \in DOMAIN leaves : Tree!Contains(box, p)
        BY <2>2, <3>1
      <4>2. CASE box = old
        BY <1>12, <2>3, <4>1, <4>2
      <4>3. CASE box # old
        BY <1>12, <4>1, <4>3
      <4> QED BY <4>2, <4>3
    <3>2. ASSUME NEW b \in Tree!Inserted PROVE Held(b)' \/ Pending(b)'
      <4>0. DOMAIN inserting' = 1..card + 1 /\ \A i \in 1..card : i \in 1..card + 1
        BY <1>3, <1>10
      <4>1. CASE b \in leaves[old]
        BY <1>10, <4>0, <4>1 DEF Pending
      <4>2. CASE b = o
        <5>1. card + 1 \in DOMAIN inserting'
          BY <1>3, <4>0
        <5> QED BY <1>10, <4>2, <5>1 DEF Pending
      <4>3. CASE Held(b) /\ b \notin leaves[old]
        <5>1. PICK box \in DOMAIN leaves \ {old} : b \in leaves[box]
          BY <4>3 DEF Held
        <5>2. box \in DOMAIN leaves' /\ b \in leaves'[box]
          BY <1>12, <1>16, <5>1
        <5> QED BY <5>2 DEF Held
      <4>4. Pending(b) => b = o
        BY <1>7 DEF Pending
      <4> QED BY <2>2, <4>1, <4>2, <4>3, <4>4
    <3> QED BY <1>11, <3>1, <3>2 DEF WholeInv
  <2>4. CASE \A q \in Tree!Quarters(old), p \in PlaceSet : ~Tree!Contains(q, p)
    <3>1. Place(o) \in PlaceSet
      BY <1>0, <1>2, InsertedIs
    <3>2. ASSUME NEW box \in DOMAIN leaves' PROVE ~Tree!Contains(box, Place(o))
      BY <1>3, <1>12, <2>4, <3>1
    <3>3. Tree!LeavesOf(o)' = {}
      BY <1>1, <3>2 DEF Tree!LeavesOf, Place
    <3>4. inserting' # << >> /\ inserting'[Len(inserting')] = o
      BY <1>3, <1>10
    <3> QED BY <3>3, <3>4 DEF WholeInv, Lost
  <2> QED BY <1>13, <2>3, <2>4
<1> QED BY <1>11, <1>17, <1>18, <1>19, <1>20 DEF AidsInv

LEMMA AidsStep == AidsInv /\ [Tree!Next]_(Tree!vars) => AidsInv'
<1>1. ASSUME UNCHANGED Tree!vars PROVE AidsInv => AidsInv'
  <2>0. UNCHANGED <<aids, leaves, inserting, aidsById, aborted>>
    BY <1>1 DEF Tree!vars
  <2>1. /\ \A b : Place(b)' = Place(b) /\ Tree!LeavesOf(b)' = Tree!LeavesOf(b)
        /\ Tree!Inserted' = Tree!Inserted /\ Lost' = Lost /\ NamesInv' = NamesInv
    BY <2>0, Zenon DEF Place, Tree!LeavesOf, Tree!Inserted, Lost, NamesInv
  <2>2. Tree!TypeOK => Tree!TypeOK'
    BY <2>0, Zenon DEF Tree!TypeOK
  <2>3. TreeInv => TreeInv'
    BY <2>0, <2>1, Zenon DEF TreeInv
  <2>4. RoomInv => RoomInv'
    BY <2>0, <2>1, Zenon DEF RoomInv
  <2>5. WholeInv => WholeInv'
    BY <2>0, <2>1, Zenon DEF WholeInv, Held, Pending
  <2> QED BY <2>1, <2>2, <2>3, <2>4, <2>5 DEF AidsInv
<1> QED BY <1>1, AddAidStep, PutStep, SplitStep, NoLeafStep DEF Tree!Next

-----------------------------------------------------------------------------
LEMMA OneLeaf == AidsInv => Tree!EveryAidInOneLeaf
<1> SUFFICES ASSUME AidsInv, Tree!Settled, NEW o \in Tree!Inserted
             PROVE  /\ Tree!Cardinality({box \in DOMAIN leaves : o \in leaves[box]}) = 1
                    /\ Tree!LeavesOf(o) = {box \in DOMAIN leaves : o \in leaves[box]}
  BY Zenon DEF Tree!EveryAidInOneLeaf
<1>1. Tree!TypeOK /\ TreeInv /\ WholeInv
  BY DEF AidsInv
<1>2. inserting = << >> /\ ~Lost /\ ~Pending(o)
  BY DEF Tree!Settled, Lost, Pending
<1>3. PICK leaf \in DOMAIN leaves : o \in leaves[leaf]
  BY <1>1, <1>2 DEF WholeInv, Held
<1>4. Place(o) \in PlaceSet /\ \A box \in DOMAIN leaves : o \in leaves[box] => Tree!Contains(box, Place(o))
  BY <1>1, InsertedIs DEF TreeInv
<1>5. \A box \in DOMAIN leaves : Tree!Contains(box, Place(o)) => box = leaf
  BY <1>1, <1>3, <1>4 DEF TreeInv
<1>6. {box \in DOMAIN leaves : o \in leaves[box]} = {leaf}
  BY <1>3, <1>4, <1>5
<1>7. Tree!LeavesOf(o) = {leaf}
  BY <1>3, <1>4, <1>5 DEF Tree!LeavesOf, Place
<1> QED BY <1>6, <1>7, OneElement

LEMMA Nearest ==
  /\ \A p, q \in PlaceSet : Tree!Distance(p, q) \in Nat
  /\ \A p \in PlaceSet : Tree!Distance(p, p) = 0
  /\ \A p, q \in PlaceSet : Tree!Distance(p, q) <= 0 => p = q
<1>1. ASSUME NEW d \in Int PROVE d * d \in Nat /\ (d * d <= 0 => d = 0)
  <2>1. CASE d >= 0
    BY <2>1
  <2>2. CASE d < 0
    BY <2>2
  <2> QED BY <2>1, <2>2
<1>2. ASSUME NEW p \in PlaceSet, NEW q \in PlaceSet
      PROVE  Tree!Distance(p, q) \in Nat /\ (Tree!Distance(p, q) <= 0 => p = q)
  <2> PICK d \in Int : d = p[1] - q[1]
    BY DEF PlaceSet
  <2> PICK e \in Int : e = p[2] - q[2]
    BY DEF PlaceSet
  <2>1. Tree!Distance(p, q) = d * d + e * e
    BY Zenon DEF Tree!Distance
  <2>2. d * d \in Nat /\ e * e \in Nat /\ (d * d <= 0 => d = 0) /\ (e * e <= 0 => e = 0)
    BY <1>1
  <2>3. PICK s \in Nat, t \in Nat : s = d * d /\ t = e * e
    BY <2>2
  <2>4. Tree!Distance(p, q) = s + t /\ (s <= 0 => d = 0) /\ (t <= 0 => e = 0)
    BY <2>1, <2>2, <2>3
  <2>5. d = 0 /\ e = 0 => p = q
    BY DEF PlaceSet
  <2> QED BY <2>4, <2>5
<1>3. ASSUME NEW p \in PlaceSet PROVE Tree!Distance(p, p) = 0
  BY DEF Tree!Distance, PlaceSet
<1> QED BY <1>2, <1>3

(* Among finitely many or infinitely many naturals there is a least one. *)
(* The node above a leaf contains it. *)
LEMMA ParentHolds ==
  ASSUME NEW leaf \in Boxes, leaf.size > 0
  PROVE  Tree!Inside(leaf, Tree!Parent(leaf))
<1> PICK m : m = 2 * leaf.size
  OBVIOUS
<1>1. m \in Nat \ {0} /\ leaf.x \in Int /\ leaf.y \in Int /\ leaf.size \in Nat /\ leaf.size <= m
  BY BoxTypes
<1>2. leaf.x % m \in 0..m - 1 /\ leaf.y % m \in 0..m - 1
  BY <1>1
<1>3. Tree!Parent(leaf) = Tree!Box(leaf.x - (leaf.x % m), leaf.y - (leaf.y % m), m)
  BY DEF Tree!Parent
<1>4. Tree!Contains(Tree!Parent(leaf), <<leaf.x, leaf.y>>) /\ Tree!Parent(leaf).size = m
  BY <1>1, <1>2, <1>3 DEF Tree!Contains, Tree!Box
<1> QED BY <1>1, <1>4 DEF Tree!Inside

LEMMA Found == AidsInv => Tree!AidsAreFound
<1> SUFFICES ASSUME AidsInv, Tree!Settled, NEW o \in Tree!Inserted
             PROVE  /\ Tree!CanFind(aids[o].place) =>
                         /\ Tree!FindNearest(aids[o].place) # {}
                         /\ \A q \in Tree!FindNearest(aids[o].place) : aids[q].place = aids[o].place
                    /\ aids[aidsById[aids[o].id][Tree!FindById(aids[o].id, aids[o].place)]].place
                         = aids[o].place
  BY Zenon DEF Tree!AidsAreFound
<1>1. Tree!TypeOK /\ TreeInv /\ WholeInv /\ NamesInv
  BY DEF AidsInv
<1> PICK p : p = aids[o].place
  OBVIOUS
<1>2. p \in PlaceSet /\ Tree!Contains(Tree!Root, p) /\ o \in DOMAIN aids /\ aids[o].id \in Ids
  BY <1>1, InsertedIs, PlaceIs DEF Place
<1>3. \A q \in DOMAIN aids : aids[q].place \in PlaceSet
  BY <1>1, PlaceIs DEF Place
<1>4. Tree!FindNearest(p) # {} /\ \A q \in Tree!FindNearest(p) : aids[q].place = p
  <2>1. \A b \in Tree!Inserted : \E box \in DOMAIN leaves : b \in leaves[box]
    BY <1>1 DEF Tree!Settled, WholeInv, Lost, Held, Pending
  <2> PICK leaf : leaf = CHOOSE box \in DOMAIN leaves : Tree!Contains(box, p)
    OBVIOUS
  <2>2. \E box \in DOMAIN leaves : o \in leaves[box] /\ Tree!Contains(box, p)
    BY <1>1, <2>1 DEF TreeInv, Place
  <2>3. leaf \in DOMAIN leaves /\ Tree!Contains(leaf, p)
    BY <2>2
  <2>4. o \in leaves[leaf] /\ leaf \in Boxes
    BY <1>1, <1>2, <2>2, <2>3 DEF TreeInv
  <2>5. leaf.size > 0
    BY <1>2, <2>3, <2>4, InBox, BoxTypes DEF PlaceSet
  <2>6. leaf \in {b \in DOMAIN leaves : Tree!Inside(b, Tree!Parent(leaf))}
    BY <2>3, <2>4, <2>5, ParentHolds
  <2>7. Tree!Candidates(p) = UNION {leaves[box] : box \in {b \in DOMAIN leaves : Tree!Inside(b, Tree!Parent(leaf))}}
    BY DEF Tree!Candidates
  <2>8. o \in Tree!Candidates(p)
    BY <2>4, <2>6, <2>7
  <2>9. ASSUME NEW q \in Tree!Candidates(p) PROVE q \in DOMAIN aids
    <3>1. PICK box \in DOMAIN leaves : q \in leaves[box]
      BY <2>7
    <3> QED BY <1>1, <3>1 DEF Tree!TypeOK
  <2>10. ASSUME NEW q \in Tree!Candidates(p)
         PROVE  /\ Tree!Distance(aids[q].place, p) \in Nat
                /\ Tree!Distance(aids[q].place, p) <= 0 => aids[q].place = p
    BY <1>2, <1>3, <2>9, Nearest
  <2>11. Tree!Distance(aids[o].place, p) = 0
    BY <1>2, Nearest
  <2>12. o \in Tree!FindNearest(p)
    BY <2>8, <2>10, <2>11 DEF Tree!FindNearest
  <2>13. ASSUME NEW q \in Tree!FindNearest(p) PROVE aids[q].place = p
    <3>1. q \in Tree!Candidates(p) /\ Tree!Distance(aids[q].place, p) <= Tree!Distance(aids[o].place, p)
      BY <2>8 DEF Tree!FindNearest
    <3> QED BY <2>10, <2>11, <3>1
  <2> QED BY <2>12, <2>13
<1>5. aids[aidsById[aids[o].id][Tree!FindById(aids[o].id, p)]].place = p
  <2> PICK i \in Ids : i = aids[o].id
    BY <1>2
  <2> PICK list \in Seq(DOMAIN aids) : list = aidsById[i]
    BY <1>1 DEF NamesInv
  <2> PICK D : D = [n \in DOMAIN list |-> Tree!Distance(aids[list[n]].place, p)]
    OBVIOUS
  <2>1. PICK k \in DOMAIN list : list[k] = o
    BY <1>1, <1>2 DEF NamesInv
  <2>2. \A n \in DOMAIN list : list[n] \in DOMAIN aids /\ D[n] \in Nat
    BY <1>2, <1>3, Nearest
  <2>3. DOMAIN list = 1..Len(list) /\ Len(list) \in Nat /\ DOMAIN list \subseteq Nat
    OBVIOUS
  <2>4. PICK n \in DOMAIN list : /\ \A m \in DOMAIN list : D[n] <= D[m]
                                 /\ \A m \in DOMAIN list : m < n => D[n] < D[m]
    <3>1. PICK S : S = DOMAIN list
      OBVIOUS
    <3>2. k \in S /\ S \subseteq Nat /\ \A n \in S : D[n] \in Nat
      BY <2>1, <2>2, <2>3, <3>1
    <3>3. \E n \in S : /\ \A m \in S : D[n] <= D[m]
                       /\ \A m \in S : m < n => D[n] < D[m]
      BY <3>2, LeastOf
    <3> QED BY <3>1, <3>3
  <2>5. \A m \in 1..(n - 1) : m \in DOMAIN list /\ m < n
    BY <2>3
  <2>6. \E a \in DOMAIN aidsById[i] :
          /\ \A m \in DOMAIN aidsById[i] :
               Tree!Distance(aids[aidsById[i][a]].place, p) <= Tree!Distance(aids[aidsById[i][m]].place, p)
          /\ \A m \in 1..(a - 1) :
               Tree!Distance(aids[aidsById[i][a]].place, p) < Tree!Distance(aids[aidsById[i][m]].place, p)
    BY <2>4, <2>5
  <2>7. /\ Tree!FindById(i, p) \in DOMAIN list
        /\ \A m \in DOMAIN list :
             Tree!Distance(aids[list[Tree!FindById(i, p)]].place, p) <= Tree!Distance(aids[list[m]].place, p)
    BY <2>6, Zenon DEF Tree!FindById
  <2>8. Tree!Distance(aids[list[Tree!FindById(i, p)]].place, p) <= 0
    BY <1>2, <2>1, <2>7, Nearest
  <2>9. list[Tree!FindById(i, p)] \in DOMAIN aids
    BY <2>2, <2>7
  <2> QED BY <1>2, <1>3, <2>8, <2>9, Nearest
<1> QED BY <1>4, <1>5

-----------------------------------------------------------------------------
(* X-Plane's files: what is made of an airport's lines is an airport.       *)

LEMMA NothingRead ==
  /\ DOMAIN << >> = {} /\ Len(<< >>) = 0
  /\ \A S : << >> \in Seq(S)
OBVIOUS

LEMMA FilesInit == Files!Init => Files!TypeOK
<1> SUFFICES ASSUME Files!Init PROVE Files!TypeOK
  OBVIOUS
<1>1. Files!NoRule \in Files!Rule /\ Files!NoAirport \in Files!Airport
  BY DEF Files!NoRule, Files!Rule, Files!NoAirport, Files!NewAirport, Files!Airport
<1>2. 0 \in 0..MaxLines /\ 0 \in 0..MaxLoads /\ 0 <= MaxLines
  BY FilesAssumption DEF Files!XPlaneNavDataConstants
<1>3. /\ file \in Seq(Files!Lines) /\ Len(file) <= MaxLines /\ airportList \in Seq(Files!Airport)
      /\ \A c \in DOMAIN byCode : c \in Codes /\ byCode[c] \in Files!Airport
  BY <1>2, NothingRead, Zenon DEF Files!Init
<1> QED BY <1>1, <1>2, <1>3 DEF Files!Init, Files!TypeOK

LEMMA AirportsOfLines ==
  ASSUME Files!TypeOK, NEW n \in Nat
  PROVE  /\ Files!WithRule \in Files!Airport /\ Files!NewAirport(n) \in Files!Airport
         /\ [current EXCEPT !.runways = Append(@, n)] \in Files!Airport
         /\ [current EXCEPT !.controllers = Append(@, n)] \in Files!Airport
         /\ [current EXCEPT !.lat = currentLat, !.lon = n] \in Files!Airport
         /\ \A c \in Codes : [current EXCEPT !.code = c] \in Files!Airport
         /\ [rule EXCEPT !.conditions = Append(@, n)] \in Files!Rule
<1> PICK a \in Files!Airport : a = current
  BY DEF Files!TypeOK
<1> PICK r \in Files!Rule : r = rule
  BY DEF Files!TypeOK
<1>1. /\ a.line \in Nat /\ a.lat \in Nat /\ a.lon \in Nat /\ a.code \in Codes \cup {Files!Nil}
      /\ a.runways \in Seq(Nat) /\ a.rules \in Seq(Files!Rule) /\ a.controllers \in Seq(Nat)
      /\ a = [line |-> a.line, lat |-> a.lat, lon |-> a.lon, code |-> a.code,
              runways |-> a.runways, rules |-> a.rules, controllers |-> a.controllers]
  BY DEF Files!Airport
<1>2. currentLat \in Nat
  BY FilesAssumption DEF Files!TypeOK, Files!XPlaneNavDataConstants
<1>3. /\ Append(a.runways, n) \in Seq(Nat) /\ Append(a.controllers, n) \in Seq(Nat)
      /\ Append(a.rules, r) \in Seq(Files!Rule)
  BY <1>1
<1>4. Files!WithRule \in Files!Airport
  <2>1. [a EXCEPT !.rules = Append(a.rules, r)] \in Files!Airport
    BY <1>1, <1>3 DEF Files!Airport
  <2> QED BY <2>1 DEF Files!WithRule
<1>5. Files!NewAirport(n) \in Files!Airport
  BY DEF Files!NewAirport, Files!Airport
<1>6. [current EXCEPT !.runways = Append(@, n)] \in Files!Airport
  BY <1>1, <1>3 DEF Files!Airport
<1>7. [current EXCEPT !.controllers = Append(@, n)] \in Files!Airport
  BY <1>1, <1>3 DEF Files!Airport
<1>8. [current EXCEPT !.lat = currentLat, !.lon = n] \in Files!Airport
  <2>1. [current EXCEPT !.lat = currentLat, !.lon = n]
          = [line |-> a.line, lat |-> currentLat, lon |-> n, code |-> a.code,
             runways |-> a.runways, rules |-> a.rules, controllers |-> a.controllers]
    <3>1. [current EXCEPT !.lat = currentLat, !.lon = n]
            = [[a EXCEPT !.lat = currentLat] EXCEPT !.lon = n]
      BY Zenon
    <3>2. [a EXCEPT !.lat = currentLat]
            = [line |-> a.line, lat |-> currentLat, lon |-> a.lon, code |-> a.code,
               runways |-> a.runways, rules |-> a.rules, controllers |-> a.controllers]
      BY <1>1
    <3> PICK b : b = [line |-> a.line, lat |-> currentLat, lon |-> a.lon, code |-> a.code,
                      runways |-> a.runways, rules |-> a.rules,
                      controllers |-> a.controllers]
      OBVIOUS
    <3>3. [b EXCEPT !.lon = n]
            = [line |-> a.line, lat |-> currentLat, lon |-> n, code |-> a.code,
               runways |-> a.runways, rules |-> a.rules, controllers |-> a.controllers]
      OBVIOUS
    <3>4. [a EXCEPT !.lat = currentLat] = b
      BY <3>2, Zenon
    <3> QED BY <3>1, <3>3, <3>4, Zenon
  <2> QED BY <1>1, <1>2, <2>1 DEF Files!Airport
<1>9. \A c \in Codes : [current EXCEPT !.code = c] \in Files!Airport
  BY <1>1 DEF Files!Airport
<1>10. [rule EXCEPT !.conditions = Append(@, n)] \in Files!Rule
  <2>1. r.conditions \in Seq(Nat) /\ Append(r.conditions, n) \in Seq(Nat)
    BY DEF Files!Rule
  <2>2. [r EXCEPT !.conditions = Append(r.conditions, n)] \in Files!Rule
    BY <2>1 DEF Files!Rule
  <2> QED BY <2>2
<1> QED BY <1>4, <1>5, <1>6, <1>7, <1>8, <1>9, <1>10

LEMMA AirportsAdded ==
  ASSUME Files!TypeOK, Files!FlushAirport
  PROVE  /\ airportList' \in Seq(Files!Airport)
         /\ \A c \in DOMAIN byCode' : c \in Codes /\ byCode'[c] \in Files!Airport
<1>1. CASE UNCHANGED <<airportList, byCode>>
  BY <1>1 DEF Files!TypeOK
<1>2. CASE ~UNCHANGED <<airportList, byCode>>
  <2> PICK airport : airport = Files!WithRule
    OBVIOUS
  <2>1. airport \in Files!Airport /\ airport.code \in Codes \cup {Files!Nil}
    <3>1. airport \in Files!Airport
      BY AirportsOfLines
    <3> QED BY <3>1 DEF Files!Airport
  <2>2. /\ airportList' = Append(airportList, airport)
        /\ byCode' = IF airport.code = Files!Nil \/ airport.code \in DOMAIN byCode
                       THEN byCode
                       ELSE [c \in DOMAIN byCode \cup {airport.code} |->
                               IF c = airport.code THEN airport ELSE byCode[c]]
    BY <1>2 DEF Files!FlushAirport, Files!AddAirport
  <2>3. airportList' \in Seq(Files!Airport)
    <3>1. \A S : \A s \in Seq(S) : \A e \in S : Append(s, e) \in Seq(S)
      OBVIOUS
    <3> QED BY <2>1, <2>2, <3>1, Zenon DEF Files!TypeOK
  <2>4. \A c \in DOMAIN byCode' : c \in Codes /\ byCode'[c] \in Files!Airport
    BY <2>1, <2>2 DEF Files!TypeOK
  <2> QED BY <2>3, <2>4
<1> QED BY <1>1, <1>2

LEMMA FilesStep == Files!TypeOK /\ [Files!Next]_(Files!navVars) => Files!TypeOK'
<1> SUFFICES ASSUME Files!TypeOK, [Files!Next]_(Files!navVars) PROVE Files!TypeOK'
  OBVIOUS
<1>0. /\ MaxLines \in Nat /\ MaxLoads \in Nat /\ loads \in 0..MaxLoads /\ Len(file) \in Nat
      /\ file \in Seq(Files!Lines) /\ Len(file) <= MaxLines
      /\ {answer, airports, navAids} \subseteq {Files!Nil, "object"}
  BY FilesAssumption DEF Files!TypeOK, Files!XPlaneNavDataConstants
<1> PICK n : n = Len(file) + 1
  OBVIOUS
<1>1. n \in Nat /\ n = Files!LineNo
  BY <1>0 DEF Files!LineNo
<1>2. Files!NoRule \in Files!Rule /\ Files!NoAirport \in Files!Airport /\ Files!NewAirport(n) \in Files!Airport
  BY <1>1 DEF Files!NoRule, Files!Rule, Files!NoAirport, Files!NewAirport, Files!Airport
<1>3. ASSUME NEW line \in Files!Lines, Files!Reading(line)
      PROVE  /\ file' \in Seq(Files!Lines) /\ Len(file') <= MaxLines /\ n \in 0..MaxLines
             /\ answer' = answer /\ airports' = airports /\ navAids' = navAids
             /\ loads' = loads
  <2>1. file' = Append(file, line) /\ Len(file) < MaxLines
    BY <1>3 DEF Files!Reading
  <2>2. file' \in Seq(Files!Lines) /\ Len(file') = n
    <3>1. \A S : \A s \in Seq(S) : \A e \in S :
            Append(s, e) \in Seq(S) /\ Len(Append(s, e)) = Len(s) + 1
      OBVIOUS
    <3> QED BY <1>0, <2>1, <3>1, Zenon
  <2> QED BY <1>0, <1>3, <2>1, <2>2 DEF Files!Reading, Files!cacheVars
<1>4. \A kind \in Files!Kinds : [kind |-> kind, code |-> Files!Nil] \in Files!Lines
  BY Zenon DEF Files!Lines
<1>5. {"airport", "rule", "condition", "latitude"} \subseteq Files!Kinds
  BY DEF Files!Kinds
<1>6. CASE Files!GetAirports
  <2>1. CASE UNCHANGED Files!fileVars
    <3>1. UNCHANGED <<file, current, currentLat, rule, hasRule, airportList, byCode>>
      BY <2>1 DEF Files!fileVars
    <3> QED BY <1>0, <1>6, <3>1 DEF Files!GetAirports, Files!TypeOK
  <2>2. CASE /\ loading' = "airports" /\ loads < MaxLoads /\ loads' = loads + 1
             /\ file' = << >> /\ current' = Files!NoAirport /\ currentLat' = 0
             /\ rule' = Files!NoRule /\ hasRule' = FALSE
             /\ airportList' = << >> /\ byCode' = << >>
             /\ UNCHANGED <<answer, airports, navAids>>
    <3>1. /\ file' \in Seq(Files!Lines) /\ Len(file') <= MaxLines /\ airportList' \in Seq(Files!Airport)
          /\ \A c \in DOMAIN byCode' : c \in Codes /\ byCode'[c] \in Files!Airport
      <4>1. 0 <= MaxLines
        BY <1>0
      <4> QED BY <2>2, <4>1, NothingRead, Zenon
    <3>2. currentLat' \in 0..MaxLines /\ loads' \in 0..MaxLoads
      BY <1>0, <2>2
    <3>3. hasRule' \in BOOLEAN
      BY <2>2, Zenon
    <3> QED BY <1>0, <1>2, <2>2, <3>1, <3>2, <3>3 DEF Files!TypeOK
  <2> QED BY <1>6, <2>1, <2>2 DEF Files!GetAirports
<1>7. CASE Files!ReadAirport
  <2>1. Files!Reading([kind |-> "airport", code |-> Files!Nil])
    BY <1>7 DEF Files!ReadAirport
  <2>2. /\ airportList' \in Seq(Files!Airport)
        /\ \A c \in DOMAIN byCode' : c \in Codes /\ byCode'[c] \in Files!Airport
    BY <1>7, AirportsAdded DEF Files!ReadAirport
  <2>3. /\ current' \in Files!Airport /\ rule' \in Files!Rule /\ hasRule' \in BOOLEAN
        /\ currentLat' = 0 /\ loading' = loading
    BY <1>1, <1>2, <1>7, Zenon DEF Files!ReadAirport
  <2> QED BY <1>0, <1>3, <1>4, <1>5, <2>1, <2>2, <2>3 DEF Files!TypeOK
<1>8. CASE Files!ReadRule
  <2>1. Files!Reading([kind |-> "rule", code |-> Files!Nil])
    BY <1>8 DEF Files!ReadRule
  <2>2. Files!WithRule \in Files!Airport
    BY AirportsOfLines
  <2>3. [line |-> n, conditions |-> << >>] \in Files!Rule
    BY <1>1 DEF Files!Rule
  <2>4. /\ current' \in Files!Airport /\ rule' \in Files!Rule /\ hasRule' \in BOOLEAN
        /\ loading' \in {"airports", "crashed"}
        /\ UNCHANGED <<currentLat, airportList, byCode>>
    BY <1>1, <1>8, <2>2, <2>3 DEF Files!ReadRule, Files!Crash, Files!Reading, Files!TypeOK
  <2> QED BY <1>0, <1>3, <1>4, <1>5, <2>1, <2>4 DEF Files!TypeOK
<1>9. CASE Files!ReadCondition
  <2>1. Files!Reading([kind |-> "condition", code |-> Files!Nil])
    BY <1>9 DEF Files!ReadCondition
  <2>2. rule' \in Files!Rule
    BY <1>1, <1>9, AirportsOfLines DEF Files!ReadCondition
  <2> QED BY <1>0, <1>3, <1>4, <1>5, <1>9, <2>1, <2>2 DEF Files!ReadCondition, Files!TypeOK
<1>10. CASE Files!ReadLatitude
  <2>1. Files!Reading([kind |-> "latitude", code |-> Files!Nil])
    BY <1>10 DEF Files!ReadLatitude
  <2> QED BY <1>0, <1>1, <1>3, <1>4, <1>5, <1>10, <2>1 DEF Files!ReadLatitude, Files!TypeOK
<1>11. CASE Files!ReadDetail
  <2>1. PICK line \in Files!Lines :
          /\ line.kind \in {"runway", "controller", "longitude", "code"}
          /\ Files!Reading(line)
          /\ \/ current = Files!NoAirport /\ Files!Crash
             \/ /\ current # Files!NoAirport
                /\ current' =
                     CASE line.kind = "runway" ->
                            [current EXCEPT !.runways = Append(@, n)]
                       [] line.kind = "controller" ->
                            [current EXCEPT !.controllers = Append(@, n)]
                       [] line.kind = "longitude" ->
                            [current EXCEPT !.lat = currentLat, !.lon = n]
                       [] line.kind = "code" ->
                            [current EXCEPT !.code = line.code]
                /\ UNCHANGED <<loading, currentLat, rule, hasRule, airportList,
                               byCode>>
    BY <1>1, <1>11 DEF Files!ReadDetail
  <2>2. line.kind = "code" => line.code \in Codes
    BY DEF Files!Lines, Files!Kinds
  <2>3. current' \in Files!Airport
    <3>1. CASE current = Files!NoAirport /\ Files!Crash
      BY <3>1 DEF Files!Crash, Files!TypeOK
    <3>2. CASE current # Files!NoAirport
      <4>1. CASE line.kind = "runway"
        BY <1>1, <2>1, <3>2, <4>1, AirportsOfLines
      <4>2. CASE line.kind = "controller"
        BY <1>1, <2>1, <3>2, <4>2, AirportsOfLines
      <4>3. CASE line.kind = "longitude"
        BY <1>1, <2>1, <3>2, <4>3, AirportsOfLines
      <4>4. CASE line.kind = "code"
        BY <1>1, <2>1, <2>2, <3>2, <4>4, AirportsOfLines
      <4> QED BY <2>1, <4>1, <4>2, <4>3, <4>4
    <3> QED BY <2>1, <3>1, <3>2
  <2>4. /\ loading' = loading \/ loading' = "crashed"
        /\ UNCHANGED <<currentLat, rule, hasRule, airportList, byCode>>
    BY <2>1 DEF Files!Crash
  <2> QED BY <1>0, <1>3, <2>1, <2>3, <2>4 DEF Files!TypeOK
<1>12. CASE Files!EndOfAirports
  <2>1. /\ airportList' \in Seq(Files!Airport)
        /\ \A c \in DOMAIN byCode' : c \in Codes /\ byCode'[c] \in Files!Airport
    BY <1>12, AirportsAdded DEF Files!EndOfAirports
  <2> QED BY <1>0, <1>12, <2>1 DEF Files!EndOfAirports, Files!TypeOK
<1>13. CASE Files!GetNavAids
  BY <1>0, <1>13 DEF Files!GetNavAids, Files!fileVars, Files!TypeOK
<1>14. CASE Files!LoadNavAids
  BY <1>0, <1>14 DEF Files!LoadNavAids, Files!fileVars, Files!TypeOK
<1>15. CASE Files!ReadingFails
  <2>1. loading' \in {"threw", "aborted"}
    BY <1>15 DEF Files!ReadingFails
  <2>2. UNCHANGED <<file, current, currentLat, rule, hasRule, airportList, byCode,
                    airports, navAids, answer, loads>>
    BY <1>15 DEF Files!ReadingFails, Files!fileVars, Files!cacheVars
  <2> QED BY <1>0, <2>1, <2>2 DEF Files!TypeOK
<1>16. CASE UNCHANGED Files!navVars
  BY <1>16 DEF Files!navVars, Files!TypeOK
<1> QED BY <1>6, <1>7, <1>8, <1>9, <1>10, <1>11, <1>12, <1>13, <1>14, <1>15, <1>16
        DEF Files!Next

-----------------------------------------------------------------------------
(* What has been read is kept as it is written.                             *)

RulesWritten(lines, n, rules) ==
  /\ Files!Lists(Files!LinesOfAll(rules), Files!Part(lines, "rule", n))
  /\ \A i \in DOMAIN rules :
       Files!Lists(rules[i].conditions, Files!Conditions(lines, rules[i].line))

(* The airports on the lines before n, and how they are found.              *)
Listed(lines, list, codes, n) ==
  /\ Files!Lists(Files!LinesOfAll(list),
           {m \in Files!LinesOf(lines, "airport") : Files!HasPlace(lines, m) /\ m < n})
  /\ \A i \in DOMAIN list : Files!AsWritten(lines, list[i])
  /\ \A c \in DOMAIN codes : \E i \in DOMAIN list :
       /\ codes[c] = list[i] /\ list[i].code = c
       /\ \A j \in 1..(i - 1) : list[j].code # c
  /\ \A i \in DOMAIN list : list[i].code \in DOMAIN codes \cup {Files!Nil}

(* The airport being read, with the rule being read.                        *)
CurrentInv ==
  /\ Files!IsLast(current.line, Files!LinesOf(file, "airport"))
  /\ current.line = 0 => current = Files!NoAirport
  /\ current # Files!NoAirport =>
       /\ Files!AsWritten(file, Files!WithRule)
       /\ Files!IsLast(currentLat, Files!Part(file, "latitude", current.line))
       /\ ~hasRule => current.rules = << >>

ReadingInv ==
  /\ loading = "airports" =>
       airports = Files!Nil /\ CurrentInv /\ Listed(file, airportList, byCode, current.line)
  /\ airports # Files!Nil => Listed(file, airportList, byCode, Len(file) + 1)
  /\ loading = "crashed" => airports = Files!Nil /\ Files!LinesOf(file, "airport") = {}

FilesInv == Files!TypeOK /\ ReadingInv

(* ----- A file and the line that is read next *)
LEMMA OneLineMore ==
  ASSUME NEW S, NEW lines \in Seq(S), NEW l \in S
  PROVE  LET more == Append(lines, l)
             n == Len(lines) + 1
         IN  /\ Len(lines) \in Nat /\ DOMAIN lines = 1..Len(lines)
             /\ more \in Seq(S) /\ Len(more) = n /\ DOMAIN more = 1..n
             /\ more[n] = l /\ \A k \in 1..Len(lines) : more[k] = lines[k]
OBVIOUS

LEMMA UnderAppend ==
  ASSUME NEW S, NEW lines \in Seq(S), NEW l \in S, NEW kinds,
         NEW n \in Nat, n <= Len(lines)
  PROVE  Files!Under(Append(lines, l), kinds, n) =
           IF l.kind \in kinds \/ \E k \in n + 1..Len(lines) : lines[k].kind \in kinds
           THEN Files!Under(lines, kinds, n)
           ELSE Files!Under(lines, kinds, n) \cup {Len(lines) + 1}
<1> DEFINE more == Append(lines, l)
           last == Len(lines) + 1
<1>1. /\ Len(lines) \in Nat /\ DOMAIN lines = 1..Len(lines) /\ DOMAIN more = 1..last
      /\ more[last] = l /\ \A k \in 1..Len(lines) : more[k] = lines[k]
  BY OneLineMore
<1> HIDE DEF more
<1>2. ASSUME NEW m \in 1..Len(lines)
      PROVE  m \in Files!Under(more, kinds, n) <=> m \in Files!Under(lines, kinds, n)
  <2>1. \A k \in n + 1..m : k \in 1..Len(lines) /\ more[k] = lines[k]
    BY <1>1
  <2> QED BY <1>1, <2>1 DEF Files!Under
<1>3. last \in Files!Under(more, kinds, n) <=>
        ~(l.kind \in kinds \/ \E k \in n + 1..Len(lines) : lines[k].kind \in kinds)
  <2>1. n < last /\ last \in DOMAIN more /\ last \in n + 1..last
    BY <1>1
  <2>2. \A k \in n + 1..Len(lines) : k \in n + 1..last /\ more[k] = lines[k]
    BY <1>1
  <2>3. \A k \in n + 1..last : k = last \/ k \in n + 1..Len(lines)
    BY <1>1
  <2> QED BY <1>1, <2>1, <2>2, <2>3 DEF Files!Under
<1>4. Files!Under(more, kinds, n) \subseteq 1..Len(lines) \cup {last}
  BY <1>1 DEF Files!Under
<1>5. Files!Under(lines, kinds, n) \subseteq 1..Len(lines)
  BY <1>1 DEF Files!Under
<1>6. last \notin 1..Len(lines)
  BY <1>1
<1> HIDE DEF last
<1>7. Files!Under(more, kinds, n) =
        IF l.kind \in kinds \/ \E k \in n + 1..Len(lines) : lines[k].kind \in kinds
        THEN Files!Under(lines, kinds, n)
        ELSE Files!Under(lines, kinds, n) \cup {last}
  <2>1. CASE last \in Files!Under(more, kinds, n)
    BY <1>2, <1>3, <1>4, <1>5, <1>6, <2>1
  <2>2. CASE last \notin Files!Under(more, kinds, n)
    <3>1. Files!Under(more, kinds, n) = Files!Under(lines, kinds, n)
      BY <1>2, <1>4, <1>5, <2>2
    <3> QED BY <1>3, <2>2, <3>1
  <2> QED BY <2>1, <2>2
<1> QED BY <1>7, Zenon DEF more, last

(* An airport is closed by the next one's line.                             *)
Closed(lines, l, n) ==
  l.kind = "airport" \/ \E k \in n + 1..Len(lines) : lines[k].kind = "airport"

LEMMA PartAppend ==
  ASSUME NEW S, NEW lines \in Seq(S), NEW l \in S, NEW kind,
         NEW n \in Nat, n <= Len(lines)
  PROVE  Files!Part(Append(lines, l), kind, n) =
           IF Closed(lines, l, n) \/ l.kind # kind
           THEN Files!Part(lines, kind, n)
           ELSE Files!Part(lines, kind, n) \cup {Len(lines) + 1}
<1> DEFINE more == Append(lines, l)
           last == Len(lines) + 1
<1>1. /\ Len(lines) \in Nat /\ DOMAIN lines = 1..Len(lines)
      /\ more[last] = l /\ \A k \in 1..Len(lines) : more[k] = lines[k]
  BY OneLineMore
<1> HIDE DEF more, last
<1>2. Files!Under(more, {"airport"}, n) =
        IF Closed(lines, l, n) THEN Files!Under(lines, {"airport"}, n)
        ELSE Files!Under(lines, {"airport"}, n) \cup {last}
  <2>1. PICK kinds : kinds = {"airport"}
    OBVIOUS
  <2>2. Files!Under(Append(lines, l), kinds, n) =
          IF l.kind \in kinds \/ \E k \in n + 1..Len(lines) : lines[k].kind \in kinds
          THEN Files!Under(lines, kinds, n)
          ELSE Files!Under(lines, kinds, n) \cup {Len(lines) + 1}
    BY UnderAppend
  <2>3. \A kd : kd \in kinds <=> kd = "airport"
    BY <2>1
  <2>4. Files!Under(more, kinds, n) =
          IF Closed(lines, l, n) THEN Files!Under(lines, kinds, n)
          ELSE Files!Under(lines, kinds, n) \cup {last}
    BY <2>2, <2>3 DEF Closed, more, last
  <2> QED BY <2>1, <2>4
<1>3. \A m \in Files!Under(lines, {"airport"}, n) : more[m] = lines[m]
  BY <1>1 DEF Files!Under
<1>4. Files!Part(more, kind, n) =
        IF Closed(lines, l, n) \/ l.kind # kind
        THEN Files!Part(lines, kind, n) ELSE Files!Part(lines, kind, n) \cup {last}
  BY <1>1, <1>2, <1>3 DEF Files!Part
<1> QED BY <1>4 DEF more, last

LEMMA ConditionsAppend ==
  ASSUME NEW S, NEW lines \in Seq(S), NEW l \in S,
         NEW n \in Nat, n <= Len(lines)
  PROVE  Files!Conditions(Append(lines, l), n) =
           IF l.kind # "condition"
                \/ \E k \in n + 1..Len(lines) : lines[k].kind \in {"rule", "airport"}
           THEN Files!Conditions(lines, n)
           ELSE Files!Conditions(lines, n) \cup {Len(lines) + 1}
<1> DEFINE more == Append(lines, l)
           last == Len(lines) + 1
           kinds == {"rule", "airport"}
<1>1. /\ Len(lines) \in Nat /\ DOMAIN lines = 1..Len(lines)
      /\ more[last] = l /\ \A k \in 1..Len(lines) : more[k] = lines[k]
  BY OneLineMore
<1> HIDE DEF more, last
<1>2. Files!Under(more, kinds, n) =
        IF l.kind \in kinds \/ \E k \in n + 1..Len(lines) : lines[k].kind \in kinds
        THEN Files!Under(lines, kinds, n)
        ELSE Files!Under(lines, kinds, n) \cup {last}
  <2>1. Files!Under(Append(lines, l), kinds, n) =
          IF l.kind \in kinds \/ \E k \in n + 1..Len(lines) : lines[k].kind \in kinds
          THEN Files!Under(lines, kinds, n)
          ELSE Files!Under(lines, kinds, n) \cup {Len(lines) + 1}
    <3> HIDE DEF kinds
    <3> QED BY UnderAppend
  <2> QED BY <2>1 DEF more, last
<1>3. \A m \in Files!Under(lines, kinds, n) : more[m] = lines[m]
  BY <1>1 DEF Files!Under
<1>4. l.kind \in kinds => l.kind # "condition"
  OBVIOUS
<1>5. Files!Conditions(more, n) =
        IF l.kind # "condition"
             \/ \E k \in n + 1..Len(lines) : lines[k].kind \in kinds
        THEN Files!Conditions(lines, n) ELSE Files!Conditions(lines, n) \cup {last}
  BY <1>1, <1>2, <1>3, <1>4 DEF Files!Conditions
<1> QED BY <1>5 DEF more, last

LEMMA PartIn ==
  ASSUME NEW lines, NEW kind, NEW n, NEW m \in Files!Part(lines, kind, n)
  PROVE  /\ m \in DOMAIN lines /\ n < m /\ lines[m].kind = kind
         /\ \A k \in n + 1..m : lines[k].kind # "airport"
BY DEF Files!Part, Files!Under

(* ----- Increasing lists of numbers *)
LEMMA ListsAppend ==
  ASSUME NEW s \in Seq(Nat), NEW N, Files!Lists(s, N), NEW x \in Nat, \A y \in N : y < x
  PROVE  Files!Lists(Append(s, x), N \cup {x})
<1> DEFINE t == Append(s, x)
           n == Len(s) + 1
<1>1. /\ Len(s) \in Nat /\ DOMAIN s = 1..Len(s) /\ DOMAIN t = 1..n
      /\ t[n] = x /\ \A k \in 1..Len(s) : t[k] = s[k] /\ s[k] \in Nat
  BY OneLineMore
<1> HIDE DEF t
<1>2. \A k \in 1..Len(s) : s[k] \in N
  BY <1>1 DEF Files!Lists
<1>3. \A k \in 1..n : k = n \/ k \in 1..Len(s)
  BY <1>1
<1>4. \A i, j \in 1..n : i < j => t[i] < t[j]
  <2> SUFFICES ASSUME NEW i \in 1..n, NEW j \in 1..n, i < j PROVE t[i] < t[j]
    OBVIOUS
  <2>1. i \in 1..Len(s)
    BY <1>1
  <2>2. CASE j = n
    BY <1>1, <1>2, <2>1, <2>2
  <2>3. CASE j \in 1..Len(s)
    BY <1>1, <2>1, <2>3 DEF Files!Lists
  <2> QED BY <1>3, <2>2, <2>3
<1>5. {t[i] : i \in 1..n} = N \cup {x}
  <2>1. \A y \in N : \E i \in 1..Len(s) : y = s[i]
    BY <1>1 DEF Files!Lists
  <2>2. n \in 1..n /\ \A i \in 1..Len(s) : i \in 1..n
    BY <1>1
  <2> QED BY <1>1, <1>2, <1>3, <2>1, <2>2
<1> QED BY <1>1, <1>4, <1>5 DEF Files!Lists, t

LEMMA ListsNothing ==
  ASSUME NEW s, NEW S, s \in Seq(S), Files!Lists(s, {})
  PROVE  s = << >>
<1>1. \A i \in DOMAIN s : FALSE
  BY DEF Files!Lists
<1>2. Len(s) \in Nat /\ DOMAIN s = 1..Len(s)
  OBVIOUS
<1>3. Len(s) = 0
  <2>1. Len(s) # 0 => 1 \in 1..Len(s)
    BY <1>2
  <2> QED BY <1>1, <1>2, <2>1
<1> QED BY <1>3

LEMMA NothingListed == Files!Lists(<< >>, {})
BY DEF Files!Lists

(* ----- An airport and the line that is read next *)
LEMMA AirportFields ==
  ASSUME NEW a \in Files!Airport
  PROVE  /\ a.line \in Nat /\ a.lat \in Nat /\ a.lon \in Nat
         /\ a.code \in Codes \cup {Files!Nil} /\ a.runways \in Seq(Nat)
         /\ a.controllers \in Seq(Nat) /\ a.rules \in Seq(Files!Rule)
BY DEF Files!Airport

LEMMA RuleFields ==
  ASSUME NEW rules \in Seq(Files!Rule)
  PROVE  /\ Len(rules) \in Nat /\ DOMAIN rules = 1..Len(rules)
         /\ \A i \in DOMAIN rules :
              rules[i].line \in Nat /\ rules[i].conditions \in Seq(Nat)
<1>1. \A T : \A s \in Seq(T) : /\ Len(s) \in Nat /\ DOMAIN s = 1..Len(s)
                              /\ \A i \in DOMAIN s : s[i] \in T
  OBVIOUS
<1>2. /\ Len(rules) \in Nat /\ DOMAIN rules = 1..Len(rules)
      /\ \A i \in DOMAIN rules : rules[i] \in Files!Rule
  BY <1>1, Zenon
<1>3. \A r \in Files!Rule : r.line \in Nat /\ r.conditions \in Seq(Nat)
  BY DEF Files!Rule
<1> QED BY <1>2, <1>3, Zenon

LEMMA RulesUnder ==
  ASSUME NEW lines, NEW n, NEW rules, RulesWritten(lines, n, rules),
         NEW i \in DOMAIN rules
  PROVE  rules[i].line \in Files!Part(lines, "rule", n)
BY DEF RulesWritten, Files!Lists, Files!LinesOfAll

LEMMA WrittenRules ==
  ASSUME NEW lines, NEW a, Files!AsWritten(lines, a)
  PROVE  RulesWritten(lines, a.line, a.rules)
BY DEF Files!AsWritten, RulesWritten

(* The rules of an airport when a line is read that is neither a rule nor   *)
(* the condition of one, or that does not belong to the airport.            *)
LEMMA RulesKept ==
  ASSUME NEW S, NEW lines \in Seq(S), NEW l \in S, NEW n \in Nat, n <= Len(lines),
         NEW rules \in Seq(Files!Rule), RulesWritten(lines, n, rules),
         Closed(lines, l, n) \/ l.kind \notin {"rule", "condition"}
  PROVE  RulesWritten(Append(lines, l), n, rules)
<1>1. Len(lines) \in Nat /\ DOMAIN lines = 1..Len(lines)
  BY OneLineMore
<1>2. Files!Part(Append(lines, l), "rule", n) = Files!Part(lines, "rule", n)
  <2>1. Closed(lines, l, n) \/ l.kind # "rule"
    OBVIOUS
  <2> QED BY <2>1, PartAppend
<1>3. ASSUME NEW i \in DOMAIN rules
      PROVE  Files!Conditions(Append(lines, l), rules[i].line) = Files!Conditions(lines, rules[i].line)
  <2>1. PICK m \in Nat : m = rules[i].line
    BY <1>3, RuleFields
  <2>2. m \in Files!Part(lines, "rule", n)
    BY <1>3, <2>1, RulesUnder
  <2>3. m \in 1..Len(lines) /\ \A k \in n + 1..m : lines[k].kind # "airport"
    BY <1>1, <2>2, PartIn
  <2>4. l.kind # "condition"
          \/ \E k \in m + 1..Len(lines) : lines[k].kind \in {"rule", "airport"}
    <3>1. CASE l.kind = "condition"
      <4>1. PICK k \in n + 1..Len(lines) : lines[k].kind = "airport"
        BY <3>1 DEF Closed
      <4>2. ~(k <= m)
        <5>1. k <= m => k \in n + 1..m
          BY <1>1, <2>1, <4>1
        <5> QED BY <2>3, <4>1, <5>1
      <4>3. k \in m + 1..Len(lines)
        BY <1>1, <2>1, <4>1, <4>2
      <4> QED BY <4>1, <4>3
    <3> QED BY <3>1
  <2>5. m <= Len(lines)
    BY <2>3
  <2> QED BY <2>1, <2>4, <2>5, ConditionsAppend
<1> QED BY <1>2, <1>3 DEF RulesWritten

LEMMA LinesOfAppend ==
  ASSUME NEW T, \A x \in T : x.line \in Nat, NEW rules \in Seq(T), NEW r \in T
  PROVE  /\ Files!LinesOfAll(Append(rules, r)) = Append(Files!LinesOfAll(rules), r.line)
         /\ Files!LinesOfAll(rules) \in Seq(Nat) /\ r.line \in Nat
         /\ DOMAIN Files!LinesOfAll(rules) = DOMAIN rules
<1> DEFINE n == Len(rules)
           s == Files!LinesOfAll(rules)
           t == Files!LinesOfAll(Append(rules, r))
           more == Append(rules, r)
<1>1. /\ n \in Nat /\ DOMAIN rules = 1..n /\ DOMAIN more = 1..n + 1
      /\ more[n + 1] = r /\ \A k \in 1..n : more[k] = rules[k]
  BY OneLineMore
<1>2. r.line \in Nat
  OBVIOUS
<1>3. \A k \in 1..n : rules[k].line \in Nat
  <2>1. \A k \in 1..n : rules[k] \in T
    BY <1>1
  <2> QED BY <2>1
<1>4. /\ s = [k \in 1..n |-> rules[k].line]
      /\ t = [k \in 1..n + 1 |-> more[k].line]
  BY <1>1 DEF Files!LinesOfAll
<1> HIDE DEF more, s, t, n
<1>5. s \in Seq(Nat) /\ Len(s) = n
  BY <1>1, <1>3, <1>4
<1>6. t = Append(s, r.line)
  <2>1. /\ DOMAIN Append(s, r.line) = 1..n + 1 /\ Append(s, r.line)[n + 1] = r.line
        /\ \A k \in 1..n : Append(s, r.line)[k] = s[k]
        /\ Append(s, r.line) = [k \in 1..n + 1 |-> Append(s, r.line)[k]]
    <3>1. Append(s, r.line) \in Seq(Nat)
      BY <1>2, <1>5
    <3> QED BY <1>1, <1>2, <1>5, <3>1
  <2>2. \A k \in 1..n + 1 : k = n + 1 \/ k \in 1..n
    BY <1>1
  <2>3. \A k \in 1..n + 1 : Append(s, r.line)[k] = more[k].line
    BY <1>1, <1>4, <2>1, <2>2
  <2> QED BY <1>4, <2>1, <2>3
<1>7. DOMAIN s = DOMAIN rules
  BY <1>1, <1>4
<1> QED BY <1>2, <1>5, <1>6, <1>7 DEF s, t

(* A rule's line begins a rule without conditions.                          *)
LEMMA RuleRead ==
  ASSUME NEW S, NEW lines \in Seq(S), NEW l \in S, NEW n \in Nat, n <= Len(lines),
         NEW rules \in Seq(Files!Rule), RulesWritten(lines, n, rules),
         ~Closed(lines, l, n), l.kind = "rule",
         NEW r \in Files!Rule, r.line = Len(lines) + 1, r.conditions = << >>
  PROVE  RulesWritten(Append(lines, l), n, Append(rules, r))
<1> DEFINE last == Len(lines) + 1
           more == Append(lines, l)
           all == Append(rules, r)
<1>0. \A x \in Files!Rule : x.line \in Nat
  BY DEF Files!Rule
<1>1. /\ Len(lines) \in Nat /\ DOMAIN lines = 1..Len(lines) /\ DOMAIN more = 1..last
      /\ last \in Nat
  BY OneLineMore
<1>2. Files!Part(more, "rule", n) = Files!Part(lines, "rule", n) \cup {last}
  BY PartAppend
<1>3. Files!Lists(Files!LinesOfAll(all), Files!Part(more, "rule", n))
  <2>1. \A y \in Files!Part(lines, "rule", n) : y < last
    BY <1>1, PartIn
  <2>2. Files!Lists(Files!LinesOfAll(rules), Files!Part(lines, "rule", n))
    BY DEF RulesWritten
  <2>3. Files!Lists(Append(Files!LinesOfAll(rules), last), Files!Part(lines, "rule", n) \cup {last})
    BY <1>0, <1>1, <2>1, <2>2, LinesOfAppend, ListsAppend
  <2> QED BY <1>0, <1>2, <2>3, LinesOfAppend
<1>4. /\ DOMAIN rules = 1..Len(rules) /\ Len(rules) \in Nat
      /\ DOMAIN all = 1..Len(rules) + 1
      /\ all[Len(rules) + 1] = r /\ \A i \in 1..Len(rules) : all[i] = rules[i]
  BY OneLineMore
<1> HIDE DEF more, all, last
<1>5. ASSUME NEW i \in DOMAIN rules
      PROVE  Files!Lists(rules[i].conditions, Files!Conditions(more, rules[i].line))
  <2>1. PICK m \in Nat : m = rules[i].line
    BY <1>5, RuleFields
  <2>2. m \in Files!Part(lines, "rule", n)
    BY <1>5, <2>1, RulesUnder
  <2>3. m <= Len(lines) /\ l.kind # "condition"
    BY <1>1, <2>2, PartIn
  <2>4. Files!Conditions(more, m) = Files!Conditions(lines, m)
    BY <2>3, ConditionsAppend DEF more
  <2> QED BY <2>1, <2>4, <1>5 DEF RulesWritten
<1>6. Files!Conditions(more, last) = {}
  BY <1>1 DEF Files!Conditions, Files!Under
<1>7. \A i \in DOMAIN all : Files!Lists(all[i].conditions, Files!Conditions(more, all[i].line))
  <2> SUFFICES ASSUME NEW i \in DOMAIN all
               PROVE  Files!Lists(all[i].conditions, Files!Conditions(more, all[i].line))
    OBVIOUS
  <2>1. CASE i = Len(rules) + 1
    BY <1>4, <1>6, <2>1, NothingListed DEF last
  <2>2. CASE i # Len(rules) + 1
    BY <1>4, <1>5, <2>2
  <2> QED BY <2>1, <2>2
<1> QED BY <1>3, <1>7 DEF RulesWritten, more, all

(* A condition belongs to the last rule; the others end where the next one  *)
(* begins.                                                                  *)
LEMMA ConditionRead ==
  ASSUME NEW S, NEW lines \in Seq(S), NEW l \in S, NEW n \in Nat, n <= Len(lines),
         NEW rules \in Seq(Files!Rule), NEW r \in Files!Rule, NEW r2 \in Files!Rule,
         RulesWritten(lines, n, Append(rules, r)),
         ~Closed(lines, l, n), l.kind = "condition",
         r2.line = r.line, r2.conditions = Append(r.conditions, Len(lines) + 1)
  PROVE  RulesWritten(Append(lines, l), n, Append(rules, r2))
<1> DEFINE last == Len(lines) + 1
           more == Append(lines, l)
           before == Append(rules, r)
           after == Append(rules, r2)
           k == Len(rules) + 1
<1>1. /\ Len(lines) \in Nat /\ DOMAIN lines = 1..Len(lines) /\ last \in Nat
  BY OneLineMore
<1>2. /\ Len(rules) \in Nat /\ DOMAIN rules = 1..Len(rules)
      /\ DOMAIN before = 1..k /\ DOMAIN after = 1..k
      /\ before[k] = r /\ after[k] = r2
      /\ \A i \in 1..Len(rules) : before[i] = rules[i] /\ after[i] = rules[i]
      /\ k \in 1..k /\ \A i \in 1..k : i = k \/ i \in 1..Len(rules)
      /\ \A i \in 1..Len(rules) : i \in 1..k /\ i < k
  BY OneLineMore
<1>3. Files!LinesOfAll(after) = Files!LinesOfAll(before)
  <2>1. \A x \in Files!Rule : x.line \in Nat
    BY DEF Files!Rule
  <2> QED BY <2>1, LinesOfAppend
<1>4. Files!Part(more, "rule", n) = Files!Part(lines, "rule", n)
  BY PartAppend
<1>5. \A i \in 1..k : before[i].line \in Files!Part(lines, "rule", n)
  BY <1>2, RulesUnder
<1>6. Files!LinesOfAll(before) = [i \in 1..k |-> before[i].line]
  BY <1>2 DEF Files!LinesOfAll
<1>7. /\ Files!Lists(Files!LinesOfAll(before), Files!Part(lines, "rule", n))
      /\ \A i \in 1..k : Files!Lists(before[i].conditions, Files!Conditions(lines, before[i].line))
  BY <1>2 DEF RulesWritten
<1> HIDE DEF more, before, after, last, k
<1>8. \A i \in 1..Len(rules) : before[i].line < r.line
  BY <1>2, <1>6, <1>7 DEF Files!Lists
<1>9. r.line \in Nat /\ r.conditions \in Seq(Nat) /\ r.line \in Files!Part(lines, "rule", n)
  BY <1>2, <1>5 DEF Files!Rule
<1>10. /\ r.line <= Len(lines) /\ n < r.line
       /\ \A j \in n + 1..r.line : lines[j].kind # "airport"
       /\ r.line \in 1..Len(lines) /\ lines[r.line].kind = "rule"
  <2>1. PICK m : m = r.line
    OBVIOUS
  <2>2. m \in Files!Part(lines, "rule", n) /\ m \in Nat
    BY <1>9, <2>1
  <2>3. /\ m \in DOMAIN lines /\ n < m /\ lines[m].kind = "rule"
        /\ \A j \in n + 1..m : lines[j].kind # "airport"
    BY <2>2, PartIn
  <2>4. m <= Len(lines)
    BY <1>1, <2>2, <2>3
  <2> QED BY <1>1, <2>1, <2>3, <2>4, Zenon
<1>11. ASSUME NEW i \in 1..Len(rules)
       PROVE  Files!Lists(after[i].conditions, Files!Conditions(more, after[i].line))
  <2>1. PICK m \in Nat : m = rules[i].line
    BY <1>2, RuleFields
  <2>2. m < r.line
    BY <1>2, <1>8, <2>1
  <2>3. r.line \in m + 1..Len(lines)
    BY <1>1, <1>9, <1>10, <2>2
  <2>4. Files!Conditions(more, m) = Files!Conditions(lines, m)
    <3>1. m <= Len(lines)
      BY <1>1, <1>9, <1>10, <2>2
    <3>2. lines[r.line].kind \in {"rule", "airport"}
      BY <1>10
    <3>3. \E j \in m + 1..Len(lines) : lines[j].kind \in {"rule", "airport"}
      BY <2>3, <3>2, Zenon
    <3> QED BY <3>1, <3>3, ConditionsAppend DEF more
  <2> QED BY <1>2, <1>7, <2>1, <2>4
<1>12. Files!Lists(r2.conditions, Files!Conditions(more, r.line))
  <2>1. ~\E j \in r.line + 1..Len(lines) : lines[j].kind \in {"rule", "airport"}
    <3> SUFFICES ASSUME NEW j \in r.line + 1..Len(lines),
                        lines[j].kind \in {"rule", "airport"}
                 PROVE  FALSE
      OBVIOUS
    <3>1. j \in n + 1..Len(lines) /\ j \in 1..Len(lines) /\ n < j
      BY <1>1, <1>9, <1>10
    <3>2. lines[j].kind = "rule"
      BY <3>1 DEF Closed
    <3>3. \A i \in n + 1..j : lines[i].kind # "airport"
      <4>1. \A i \in n + 1..j : i \in n + 1..Len(lines)
        BY <1>1, <3>1
      <4> QED BY <4>1 DEF Closed
    <3>4. j \in Files!Part(lines, "rule", n)
      BY <1>1, <3>1, <3>2, <3>3 DEF Files!Part, Files!Under
    <3>5. PICK i \in 1..k : before[i].line = j
      BY <1>6, <1>7, <3>4 DEF Files!Lists
    <3>6. before[i].line <= r.line
      <4>1. CASE i = k
        BY <1>2, <1>9, <4>1
      <4>2. CASE i \in 1..Len(rules)
        <5>1. before[i].line < r.line
          BY <1>8, <4>2
        <5> QED BY <1>9, <3>1, <3>5, <5>1
      <4> QED BY <1>2, <3>5, <4>1, <4>2
    <3> QED BY <1>1, <1>9, <3>1, <3>5, <3>6
  <2>2. Files!Conditions(more, r.line) = Files!Conditions(lines, r.line) \cup {last}
    <3>1. PICK m \in Nat : m = r.line
      BY <1>9
    <3>2. m <= Len(lines) /\ ~\E j \in m + 1..Len(lines) :
                                 lines[j].kind \in {"rule", "airport"}
      BY <1>10, <2>1, <3>1
    <3>3. Files!Conditions(Append(lines, l), m) = Files!Conditions(lines, m) \cup {Len(lines) + 1}
      BY <3>2, ConditionsAppend
    <3> QED BY <3>1, <3>3 DEF more, last
  <2>3. \A y \in Files!Conditions(lines, r.line) : y < last
    BY <1>1 DEF Files!Conditions, Files!Under, last
  <2>4. Files!Lists(r.conditions, Files!Conditions(lines, r.line))
    BY <1>2, <1>7
  <2>5. Files!Lists(Append(r.conditions, last), Files!Conditions(lines, r.line) \cup {last})
    BY <1>1, <1>9, <2>3, <2>4, ListsAppend
  <2> QED BY <2>2, <2>5 DEF last
<1>13. \A i \in DOMAIN after : Files!Lists(after[i].conditions, Files!Conditions(more, after[i].line))
  BY <1>2, <1>11, <1>12
<1>14. RulesWritten(more, n, after)
  BY <1>3, <1>4, <1>7, <1>13 DEF RulesWritten
<1> QED BY <1>14 DEF more, after

(* An airport that is closed stays as it is written.                        *)
LEMMA ClosedKept ==
  ASSUME NEW S, NEW lines \in Seq(S), NEW l \in S, NEW a \in Files!Airport,
         Files!AsWritten(lines, a), a.line <= Len(lines), Closed(lines, l, a.line)
  PROVE  Files!AsWritten(Append(lines, l), a)
<1> DEFINE more == Append(lines, l)
           n == a.line
<1>0. n \in Nat
  BY AirportFields
<1>1. /\ Len(lines) \in Nat /\ DOMAIN lines = 1..Len(lines)
      /\ Len(more) = Len(lines) + 1 /\ \A k \in 1..Len(lines) : more[k] = lines[k]
  BY OneLineMore
<1>2. \A kind : Files!Part(more, kind, n) = Files!Part(lines, kind, n)
  BY <1>0, PartAppend
<1>3. RulesWritten(more, n, a.rules)
  BY <1>0, RulesKept, WrittenRules, AirportFields
<1> HIDE DEF more
<1>4. PICK c \in 0..Len(lines) :
        /\ Files!IsLast(c, Files!Part(lines, "code", n))
        /\ a.code = IF c = 0 THEN Files!Nil ELSE lines[c].code
  BY DEF Files!AsWritten
<1>5. c \in 0..Len(more) /\ (c # 0 => more[c] = lines[c])
  BY <1>1, <1>4
<1>6. \E d \in 0..Len(more) :
        /\ Files!IsLast(d, Files!Part(more, "code", n))
        /\ a.code = IF d = 0 THEN Files!Nil ELSE more[d].code
  BY <1>2, <1>4, <1>5
<1>7. Files!AsWritten(more, a)
  BY <1>2, <1>3, <1>6 DEF Files!AsWritten, RulesWritten
<1> QED BY <1>7 DEF more

LEMMA LastGrows ==
  ASSUME NEW N, NEW x \in Nat, \A y \in N : y \in Nat /\ y < x
  PROVE  Files!IsLast(x, N \cup {x})
<1>1. N \cup {x} # {} /\ \A m \in N \cup {x} : m <= x
  OBVIOUS
<1> QED BY <1>1 DEF Files!IsLast

(* A line under the airport is one line more in its place.                  *)
LEMMA LineUnder ==
  ASSUME NEW S, NEW lines \in Seq(S), NEW l \in S, NEW a \in Files!Airport,
         NEW b \in Files!Airport, Files!AsWritten(lines, a), b.line = a.line,
         a.line <= Len(lines), ~Closed(lines, l, a.line),
         b.lon = IF l.kind = "longitude" THEN Len(lines) + 1 ELSE a.lon,
         IF l.kind = "longitude"
           THEN Files!IsLast(b.lat, Files!Part(lines, "latitude", a.line)) ELSE b.lat = a.lat,
         b.code = IF l.kind = "code" THEN l.code ELSE a.code,
         b.runways = IF l.kind = "runway" THEN Append(a.runways, Len(lines) + 1)
                     ELSE a.runways,
         b.controllers = IF l.kind = "controller"
                         THEN Append(a.controllers, Len(lines) + 1)
                         ELSE a.controllers,
         RulesWritten(Append(lines, l), a.line, b.rules)
  PROVE  Files!AsWritten(Append(lines, l), b)
<1> DEFINE more == Append(lines, l)
           n == a.line
           last == Len(lines) + 1
<1>0. n \in Nat /\ a.runways \in Seq(Nat) /\ a.controllers \in Seq(Nat)
        /\ a.lon \in Nat /\ a.lat \in Nat
  BY AirportFields
<1>1. /\ Len(lines) \in Nat /\ DOMAIN lines = 1..Len(lines) /\ last \in Nat
      /\ Len(more) = last /\ \A k \in 1..Len(lines) : more[k] = lines[k]
      /\ more[last] = l
  BY OneLineMore
<1>2. \A kind : Files!Part(more, kind, n) =
        IF l.kind # kind THEN Files!Part(lines, kind, n) ELSE Files!Part(lines, kind, n) \cup {last}
  <2> SUFFICES ASSUME NEW kind
               PROVE  Files!Part(more, kind, n) =
                        IF l.kind # kind THEN Files!Part(lines, kind, n)
                        ELSE Files!Part(lines, kind, n) \cup {last}
    OBVIOUS
  <2>1. Files!Part(Append(lines, l), kind, n) =
          IF Closed(lines, l, n) \/ l.kind # kind
          THEN Files!Part(lines, kind, n)
          ELSE Files!Part(lines, kind, n) \cup {Len(lines) + 1}
    <3>1. PICK p \in Nat : p = n
      BY <1>0
    <3>2. Files!Part(Append(lines, l), kind, p) =
            IF Closed(lines, l, p) \/ l.kind # kind
            THEN Files!Part(lines, kind, p)
            ELSE Files!Part(lines, kind, p) \cup {Len(lines) + 1}
      <4>1. p <= Len(lines)
        BY <3>1
      <4> QED BY <4>1, PartAppend
    <3> QED BY <3>1, <3>2
  <2> QED BY <2>1
<1>3. \A kind : \A y \in Files!Part(lines, kind, n) : y \in Nat /\ y < last
  BY <1>1, PartIn
<1> HIDE DEF more, last
<1>4. /\ Files!IsLast(a.lon, Files!Part(lines, "longitude", n))
      /\ Files!Lists(a.runways, Files!Part(lines, "runway", n))
      /\ Files!Lists(a.controllers, Files!Part(lines, "controller", n))
      /\ IF a.lon = 0 THEN a.lat = 0
         ELSE Files!IsLast(a.lat, {m \in Files!Part(lines, "latitude", n) : m < a.lon})
  BY DEF Files!AsWritten
<1>5. Files!IsLast(b.lon, Files!Part(more, "longitude", n))
  <2>1. CASE l.kind = "longitude"
    <3>1. Files!IsLast(last, Files!Part(lines, "longitude", n) \cup {last})
      BY <1>1, <1>3, LastGrows
    <3> QED BY <1>2, <2>1, <3>1 DEF last
  <2>2. CASE l.kind # "longitude"
    BY <1>2, <1>4, <2>2
  <2> QED BY <2>1, <2>2
<1>6. IF b.lon = 0 THEN b.lat = 0
      ELSE Files!IsLast(b.lat, {m \in Files!Part(more, "latitude", n) : m < b.lon})
  <2>1. CASE l.kind = "longitude"
    <3>1. {m \in Files!Part(more, "latitude", n) : m < last} = Files!Part(lines, "latitude", n)
      BY <1>2, <1>3, <2>1
    <3>2. b.lon = last /\ Files!IsLast(b.lat, Files!Part(lines, "latitude", n)) /\ last # 0
      BY <1>1, <2>1 DEF last
    <3> QED BY <3>1, <3>2
  <2>2. CASE l.kind # "longitude"
    <3>1. b.lon = a.lon /\ b.lat = a.lat
      BY <2>2
    <3>2. a.lon <= last
      BY <1>0, <1>1, <1>3, <1>4 DEF Files!IsLast
    <3>3. {m \in Files!Part(more, "latitude", n) : m < a.lon}
            = {m \in Files!Part(lines, "latitude", n) : m < a.lon}
      <4>1. Files!Part(more, "latitude", n) \subseteq Files!Part(lines, "latitude", n) \cup {last}
              /\ Files!Part(lines, "latitude", n) \subseteq Files!Part(more, "latitude", n)
        BY <1>2
      <4>2. ~(last < a.lon)
        BY <1>0, <1>1, <3>2
      <4> QED BY <4>1, <4>2
    <3> QED BY <1>4, <3>1, <3>3
  <2> QED BY <2>1, <2>2
<1>7. \E d \in 0..Len(more) :
        /\ Files!IsLast(d, Files!Part(more, "code", n))
        /\ b.code = IF d = 0 THEN Files!Nil ELSE more[d].code
  <2>1. CASE l.kind = "code"
    <3>1. Files!IsLast(last, Files!Part(more, "code", n))
      <4>1. Files!IsLast(last, Files!Part(lines, "code", n) \cup {last})
        BY <1>1, <1>3, LastGrows
      <4> QED BY <1>2, <2>1, <4>1
    <3>2. b.code = more[last].code /\ last # 0 /\ last \in 0..Len(more)
      BY <1>1, <2>1 DEF last
    <3> QED BY <3>1, <3>2
  <2>2. CASE l.kind # "code"
    <3>1. PICK c \in 0..Len(lines) :
            /\ Files!IsLast(c, Files!Part(lines, "code", n))
            /\ a.code = IF c = 0 THEN Files!Nil ELSE lines[c].code
      BY DEF Files!AsWritten
    <3>2. c \in 0..Len(more) /\ (c # 0 => more[c] = lines[c])
      BY <1>1, <3>1 DEF last
    <3> QED BY <1>2, <2>2, <3>1, <3>2
  <2> QED BY <2>1, <2>2
<1>8. Files!Lists(b.runways, Files!Part(more, "runway", n))
  <2>1. Files!Lists(Append(a.runways, last), Files!Part(lines, "runway", n) \cup {last})
    BY <1>0, <1>1, <1>3, <1>4, ListsAppend
  <2>2. b.runways = IF l.kind = "runway" THEN Append(a.runways, last) ELSE a.runways
    BY DEF last
  <2> QED BY <1>2, <1>4, <2>1, <2>2
<1>9. Files!Lists(b.controllers, Files!Part(more, "controller", n))
  <2>1. Files!Lists(Append(a.controllers, last), Files!Part(lines, "controller", n) \cup {last})
    BY <1>0, <1>1, <1>3, <1>4, ListsAppend
  <2>2. b.controllers = IF l.kind = "controller" THEN Append(a.controllers, last) ELSE a.controllers
    BY DEF last
  <2> QED BY <1>2, <1>4, <2>1, <2>2
<1>10. RulesWritten(more, n, b.rules)
  BY DEF more
<1>11. Files!AsWritten(more, b)
  BY <1>5, <1>6, <1>7, <1>8, <1>9, <1>10 DEF Files!AsWritten, RulesWritten
<1> QED BY <1>11 DEF more

(* Conditions before any rule are in none.                                  *)
LEMMA NoRulesKept ==
  ASSUME NEW S, NEW lines \in Seq(S), NEW l \in S, NEW n \in Nat, n <= Len(lines),
         RulesWritten(lines, n, << >>), l.kind # "rule"
  PROVE  RulesWritten(Append(lines, l), n, << >>)
<1>1. Files!Part(Append(lines, l), "rule", n) = Files!Part(lines, "rule", n)
  BY PartAppend
<1>2. \A rules : rules = << >> => DOMAIN rules = {}
  OBVIOUS
<1> QED BY <1>1, <1>2 DEF RulesWritten

(* An airport's line begins an airport without a place.                     *)
LEMMA NothingUnder ==
  ASSUME NEW S, NEW lines \in Seq(S)
  PROVE  \A kind : Files!Part(lines, kind, Len(lines)) = {}
BY DEF Files!Part, Files!Under

LEMMA NewAirportIs ==
  ASSUME NEW S, NEW lines \in Seq(S), NEW n \in Nat, n = Len(lines)
  PROVE  Files!AsWritten(lines, Files!NewAirport(n))
<1>1. PICK a : a = Files!NewAirport(n)
  OBVIOUS
<1>2. /\ a.line = n /\ a.lat = 0 /\ a.lon = 0 /\ a.code = Files!Nil /\ a.runways = << >>
      /\ a.rules = << >> /\ a.controllers = << >>
  BY <1>1 DEF Files!NewAirport
<1>3. \A kind : Files!Part(lines, kind, a.line) = {}
  BY <1>2, NothingUnder
<1>4. Files!IsLast(0, {}) /\ 0 \in 0..Len(lines)
  BY DEF Files!IsLast
<1>5. Files!LinesOfAll(<< >>) = << >> /\ \A rules : rules = << >> => DOMAIN rules = {}
  BY DEF Files!LinesOfAll
<1>6. Files!AsWritten(lines, a)
  BY <1>2, <1>3, <1>4, <1>5, NothingListed, Zenon DEF Files!AsWritten
<1> QED BY <1>1, <1>6

(* ----- The airports that have been kept *)
LEMMA AirportLine == \A a \in Files!Airport : a.line \in Nat
BY DEF Files!Airport

LEMMA LinesMore ==
  ASSUME NEW S, NEW lines \in Seq(S), NEW l \in S, NEW kind
  PROVE  Files!LinesOf(Append(lines, l), kind) =
           IF l.kind = kind THEN Files!LinesOf(lines, kind) \cup {Len(lines) + 1}
           ELSE Files!LinesOf(lines, kind)
<1> DEFINE more == Append(lines, l)
           last == Len(lines) + 1
<1>1. /\ Len(lines) \in Nat /\ DOMAIN lines = 1..Len(lines) /\ DOMAIN more = 1..last
      /\ more[last] = l /\ \A k \in 1..Len(lines) : more[k] = lines[k]
      /\ 1..last = 1..Len(lines) \cup {last}
  BY OneLineMore
<1> HIDE DEF more, last
<1>2. Files!LinesOf(more, kind) = IF l.kind = kind THEN Files!LinesOf(lines, kind) \cup {last}
                            ELSE Files!LinesOf(lines, kind)
  BY <1>1 DEF Files!LinesOf
<1> QED BY <1>2, Zenon DEF more, last

LEMMA ListedLine ==
  ASSUME NEW lines, NEW list \in Seq(Files!Airport), NEW codes, NEW n,
         Listed(lines, list, codes, n), NEW i \in DOMAIN list
  PROVE  /\ list[i] \in Files!Airport /\ Files!AsWritten(lines, list[i])
         /\ list[i].line \in Files!LinesOf(lines, "airport") /\ list[i].line < n
<1>1. list[i] \in Files!Airport
  OBVIOUS
<1>2. list[i].line \in {m \in Files!LinesOf(lines, "airport") : Files!HasPlace(lines, m) /\ m < n}
  BY DEF Listed, Files!Lists, Files!LinesOfAll
<1> QED BY <1>1, <1>2 DEF Listed

(* They stay as they are written, as another airport's line follows.        *)
LEMMA ListedAppend ==
  ASSUME NEW S, NEW lines \in Seq(S), NEW l \in S, NEW list \in Seq(Files!Airport), NEW codes,
         NEW n \in Nat, Listed(lines, list, codes, n),
         \/ l.kind = "airport" /\ n = Len(lines) + 1
         \/ n = 0 \/ n \in Files!LinesOf(lines, "airport")
  PROVE  Listed(Append(lines, l), list, codes, n)
<1> DEFINE more == Append(lines, l)
           last == Len(lines) + 1
<1>1. Len(lines) \in Nat /\ DOMAIN lines = 1..Len(lines) /\ last \in Nat
  BY OneLineMore
<1>2. n <= last /\ \A m \in Files!LinesOf(lines, "airport") :
                     m \in 1..Len(lines) /\ m \in Nat /\ m <= Len(lines) /\ m # 0
  BY <1>1 DEF Files!LinesOf
<1>3. ASSUME NEW m \in Files!LinesOf(lines, "airport"), m < n
      PROVE  Closed(lines, l, m)
  <2>1. CASE l.kind = "airport"
    BY <2>1 DEF Closed
  <2>2. CASE n \in Files!LinesOf(lines, "airport")
    <3>1. n \in m + 1..Len(lines) /\ lines[n].kind = "airport"
      BY <1>1, <1>2, <1>3, <2>2 DEF Files!LinesOf
    <3> QED BY <3>1 DEF Closed
  <2>3. n # 0
    BY <1>2, <1>3
  <2> QED BY <2>1, <2>2, <2>3
<1>4. ASSUME NEW m \in Files!LinesOf(lines, "airport"), m < n
      PROVE  Files!HasPlace(more, m) <=> Files!HasPlace(lines, m)
  <2>1. Files!Part(Append(lines, l), "longitude", m) = Files!Part(lines, "longitude", m)
    BY <1>2, <1>3, <1>4, PartAppend
  <2> QED BY <2>1 DEF Files!HasPlace
<1>5. Files!LinesOf(more, "airport") =
        IF l.kind = "airport" THEN Files!LinesOf(lines, "airport") \cup {last}
        ELSE Files!LinesOf(lines, "airport")
  BY LinesMore
<1>6. {m \in Files!LinesOf(more, "airport") : Files!HasPlace(more, m) /\ m < n}
        = {m \in Files!LinesOf(lines, "airport") : Files!HasPlace(lines, m) /\ m < n}
  <2>1. ~(last < n)
    BY <1>1, <1>2
  <2> HIDE DEF more, last
  <2> QED BY <1>4, <1>5, <2>1
<1>7. ASSUME NEW i \in DOMAIN list
      PROVE  Files!AsWritten(more, list[i])
  <2>1. PICK a \in Files!Airport : a = list[i]
    OBVIOUS
  <2>2. Files!AsWritten(lines, a) /\ a.line \in Files!LinesOf(lines, "airport") /\ a.line < n
    BY <2>1, ListedLine
  <2>3. Files!AsWritten(Append(lines, l), a)
    BY <1>2, <1>3, <2>2, ClosedKept
  <2> QED BY <2>1, <2>3
<1> HIDE DEF more, last
<1>8. Listed(more, list, codes, n)
  BY <1>6, <1>7 DEF Listed
<1> QED BY <1>8 DEF more

(* An airport that has ended is found by its code unless an earlier one is. *)
CodesWith(codes, a) ==
  IF a.code = Files!Nil \/ a.code \in DOMAIN codes THEN codes
  ELSE [c \in DOMAIN codes \cup {a.code} |-> IF c = a.code THEN a ELSE codes[c]]

LEMMA CodeAdded ==
  ASSUME NEW list \in Seq(Files!Airport), NEW codes, NEW a \in Files!Airport,
         \A c \in DOMAIN codes : \E i \in DOMAIN list :
           /\ codes[c] = list[i] /\ list[i].code = c
           /\ \A j \in 1..(i - 1) : list[j].code # c,
         \A i \in DOMAIN list : list[i].code \in DOMAIN codes \cup {Files!Nil}
  PROVE  /\ \A c \in DOMAIN CodesWith(codes, a) : \E i \in DOMAIN Append(list, a) :
              /\ CodesWith(codes, a)[c] = Append(list, a)[i]
              /\ Append(list, a)[i].code = c
              /\ \A j \in 1..(i - 1) : Append(list, a)[j].code # c
         /\ \A i \in DOMAIN Append(list, a) :
              Append(list, a)[i].code \in DOMAIN CodesWith(codes, a) \cup {Files!Nil}
<1> DEFINE more == Append(list, a)
           n == Len(list) + 1
           found == CodesWith(codes, a)
<1>1. /\ Len(list) \in Nat /\ DOMAIN list = 1..Len(list) /\ DOMAIN more = 1..n
      /\ more[n] = a /\ \A k \in 1..Len(list) : more[k] = list[k]
      /\ n \in 1..n /\ n - 1 = Len(list)
      /\ \A k \in 1..n : k = n \/ k \in 1..Len(list)
      /\ \A k \in 1..Len(list) : k \in 1..n
      /\ \A k \in 1..Len(list) : \A j \in 1..(k - 1) : j \in 1..Len(list)
  BY OneLineMore
<1>2. /\ \A c \in DOMAIN found : c \in DOMAIN codes \/ c = a.code
      /\ \A c \in DOMAIN codes : c \in DOMAIN found
      /\ \A c \in DOMAIN codes : found[c] = codes[c]
      /\ a.code \in DOMAIN found \cup {Files!Nil}
      /\ a.code \in DOMAIN found => a.code \in DOMAIN codes
           \/ (a.code # Files!Nil /\ found[a.code] = a)
  BY DEF CodesWith
<1> HIDE DEF more, found, n
<1>3. ASSUME NEW c \in DOMAIN found
      PROVE  \E i \in DOMAIN more : /\ found[c] = more[i] /\ more[i].code = c
                                    /\ \A j \in 1..(i - 1) : more[j].code # c
  <2>1. CASE c \in DOMAIN codes
    <3>1. PICK i \in DOMAIN list :
            /\ codes[c] = list[i] /\ list[i].code = c
            /\ \A j \in 1..(i - 1) : list[j].code # c
      BY <2>1
    <3>2. i \in DOMAIN more /\ found[c] = more[i] /\ more[i].code = c
      BY <1>1, <1>2, <2>1, <3>1
    <3>3. \A j \in 1..(i - 1) : more[j].code # c
      BY <1>1, <3>1
    <3> QED BY <3>2, <3>3
  <2>2. CASE c \notin DOMAIN codes
    <3>1. c = a.code /\ c # Files!Nil /\ found[c] = a
      BY <1>2, <1>3, <2>2
    <3>2. \A j \in 1..Len(list) : more[j].code # c
      BY <1>1, <2>2, <3>1
    <3> QED BY <1>1, <3>1, <3>2
  <2> QED BY <2>1, <2>2
<1>4. \A i \in DOMAIN more : more[i].code \in DOMAIN found \cup {Files!Nil}
  <2> SUFFICES ASSUME NEW i \in DOMAIN more
               PROVE  more[i].code \in DOMAIN found \cup {Files!Nil}
    OBVIOUS
  <2>1. CASE i = n
    BY <1>1, <1>2, <2>1
  <2>2. CASE i \in 1..Len(list)
    BY <1>1, <1>2, <2>2
  <2> QED BY <1>1, <2>1, <2>2
<1> QED BY <1>3, <1>4 DEF more, found

LEMMA WithRuleIs ==
  ASSUME NEW a \in Files!Airport, NEW r \in Files!Rule, NEW has \in BOOLEAN, NEW b,
         b = IF has THEN [a EXCEPT !.rules = Append(@, r)] ELSE a
  PROVE  /\ b \in Files!Airport /\ b.line = a.line /\ b.lat = a.lat /\ b.lon = a.lon
         /\ b.code = a.code /\ b.runways = a.runways /\ b.controllers = a.controllers
         /\ b.rules = IF has THEN Append(a.rules, r) ELSE a.rules
<1>1. /\ a.line \in Nat /\ a.lat \in Nat /\ a.lon \in Nat /\ a.code \in Codes \cup {Files!Nil}
      /\ a.runways \in Seq(Nat) /\ a.rules \in Seq(Files!Rule) /\ a.controllers \in Seq(Nat)
      /\ a = [line |-> a.line, lat |-> a.lat, lon |-> a.lon, code |-> a.code,
              runways |-> a.runways, rules |-> a.rules, controllers |-> a.controllers]
  BY DEF Files!Airport
<1>2. Append(a.rules, r) \in Seq(Files!Rule)
  BY <1>1
<1>3. CASE has
  <2>1. b = [line |-> a.line, lat |-> a.lat, lon |-> a.lon, code |-> a.code,
             runways |-> a.runways, rules |-> Append(a.rules, r),
             controllers |-> a.controllers]
    BY <1>1, <1>3
  <2> QED BY <1>1, <1>2, <1>3, <2>1 DEF Files!Airport
<1>4. CASE ~has
  BY <1>4
<1> QED BY <1>3, <1>4

LEMMA ListedUpTo ==
  ASSUME NEW lines, NEW list, NEW codes, NEW n, NEW m, Listed(lines, list, codes, n),
         {k \in Files!LinesOf(lines, "airport") : Files!HasPlace(lines, k) /\ k < m}
           = {k \in Files!LinesOf(lines, "airport") : Files!HasPlace(lines, k) /\ k < n}
  PROVE  Listed(lines, list, codes, m)
BY DEF Listed

(* The airport that is being read is kept when it has ended.                *)
LEMMA AirportFlushed ==
  ASSUME Files!TypeOK, CurrentInv, Listed(file, airportList, byCode, current.line),
         Files!FlushAirport
  PROVE  Listed(file, airportList', byCode', Len(file) + 1)
<1> DEFINE last == Len(file) + 1
           ended == Files!LinesOf(file, "airport")
           kept(n) == {m \in ended : Files!HasPlace(file, m) /\ m < n}
<1>1. /\ Len(file) \in Nat /\ DOMAIN file = 1..Len(file) /\ airportList \in Seq(Files!Airport)
      /\ current \in Files!Airport /\ rule \in Files!Rule /\ hasRule \in BOOLEAN
      /\ file \in Seq(Files!Lines)
  BY DEF Files!TypeOK
<1>2. \A m \in ended : m \in Nat /\ m < last /\ m # 0
  BY <1>1 DEF Files!LinesOf
<1> HIDE DEF ended, last
<1>3. CASE current = Files!NoAirport
  <2>1. current.line = 0
    BY <1>3 DEF Files!NoAirport, Files!NewAirport
  <2>2. ended = {}
    BY <1>2, <2>1 DEF CurrentInv, Files!IsLast, ended
  <2>3. kept(last) = kept(current.line)
    BY <2>2
  <2>4. airportList' = airportList /\ byCode' = byCode
    BY <1>3 DEF Files!FlushAirport
  <2>5. Listed(file, airportList, byCode, last)
    BY <2>3, ListedUpTo DEF ended
  <2> QED BY <2>4, <2>5 DEF last
<1>4. CASE current # Files!NoAirport
  <2>1. PICK a : a = Files!WithRule
    OBVIOUS
  <2>2. a \in Files!Airport /\ a.line = current.line /\ Files!AsWritten(file, a)
    <3>1. Files!AsWritten(file, a)
      BY <1>4, <2>1 DEF CurrentInv
    <3>2. a \in Files!Airport /\ a.line = current.line
      BY <1>1, <2>1, WithRuleIs DEF Files!WithRule
    <3> QED BY <3>1, <3>2
  <2> PICK n : n = current.line
    OBVIOUS
  <2>3. n \in ended /\ \A m \in ended : m <= n
    BY <1>4 DEF CurrentInv, Files!IsLast, ended
  <2>4. (a.lat = 0 /\ a.lon = 0) <=> ~Files!HasPlace(file, n)
    <3>1. Files!IsLast(a.lon, Files!Part(file, "longitude", n)) /\ (a.lon = 0 => a.lat = 0)
      BY <2>2 DEF Files!AsWritten
    <3>2. 0 \notin Files!Part(file, "longitude", n)
      BY <1>1, PartIn
    <3> QED BY <3>1, <3>2 DEF Files!IsLast, Files!HasPlace
  <2>5. kept(last) = IF Files!HasPlace(file, n) THEN kept(n) \cup {n} ELSE kept(n)
    <3>1. \A m \in ended : m < last /\ (m < n \/ m = n)
      BY <1>2, <2>3
    <3>2. n \in ended /\ n < last /\ ~(n < n)
      BY <1>2, <2>3
    <3> QED BY <3>1, <3>2
  <2>6. Listed(file, airportList, byCode, n)
    OBVIOUS
  <2>7. CASE ~Files!HasPlace(file, n)
    <3>1. airportList' = airportList /\ byCode' = byCode
      BY <1>4, <2>1, <2>4, <2>7 DEF Files!FlushAirport, Files!AddAirport
    <3>2. kept(last) = kept(n)
      BY <2>5, <2>7
    <3>3. Listed(file, airportList, byCode, last)
      BY <2>6, <3>2, ListedUpTo DEF ended
    <3> QED BY <3>1, <3>3 DEF last
  <2>8. CASE Files!HasPlace(file, n)
    <3>1. airportList' = Append(airportList, a) /\ byCode' = CodesWith(byCode, a)
      BY <1>4, <2>1, <2>4, <2>8 DEF Files!FlushAirport, Files!AddAirport, CodesWith
    <3>2. Files!Lists(Files!LinesOfAll(airportList'), kept(last))
      <4>1. Files!Lists(Files!LinesOfAll(airportList), kept(n))
        BY <2>6 DEF Listed, ended
      <4>2. /\ Files!LinesOfAll(Append(airportList, a)) = Append(Files!LinesOfAll(airportList), a.line)
            /\ Files!LinesOfAll(airportList) \in Seq(Nat) /\ a.line \in Nat
        BY <1>1, <2>2, LinesOfAppend, AirportLine
      <4>3. \A y \in kept(n) : y < n
        OBVIOUS
      <4> HIDE DEF kept
      <4>4. Files!Lists(Append(Files!LinesOfAll(airportList), n), kept(n) \cup {n})
        BY <2>2, <4>1, <4>2, <4>3, ListsAppend
      <4> QED BY <2>2, <2>5, <2>8, <3>1, <4>2, <4>4
    <3>3. \A i \in DOMAIN airportList' : Files!AsWritten(file, airportList'[i])
      <4>1. /\ DOMAIN airportList = 1..Len(airportList)
            /\ DOMAIN Append(airportList, a) = 1..Len(airportList) + 1
            /\ Append(airportList, a)[Len(airportList) + 1] = a
            /\ \A k \in 1..Len(airportList) : Append(airportList, a)[k] = airportList[k]
            /\ Len(airportList) \in Nat
        BY <1>1, <2>2, OneLineMore
      <4>2. \A i \in DOMAIN airportList : Files!AsWritten(file, airportList[i])
        BY <2>6 DEF Listed
      <4>3. \A k \in 1..Len(airportList) + 1 :
              k = Len(airportList) + 1 \/ k \in 1..Len(airportList)
        BY <4>1
      <4> QED BY <2>2, <3>1, <4>1, <4>2, <4>3
    <3>4. /\ \A c \in DOMAIN byCode' : \E i \in DOMAIN airportList' :
               /\ byCode'[c] = airportList'[i] /\ airportList'[i].code = c
               /\ \A j \in 1..(i - 1) : airportList'[j].code # c
          /\ \A i \in DOMAIN airportList' :
               airportList'[i].code \in DOMAIN byCode' \cup {Files!Nil}
      <4>1. /\ \A c \in DOMAIN byCode : \E i \in DOMAIN airportList :
                 /\ byCode[c] = airportList[i] /\ airportList[i].code = c
                 /\ \A j \in 1..(i - 1) : airportList[j].code # c
            /\ \A i \in DOMAIN airportList :
                 airportList[i].code \in DOMAIN byCode \cup {Files!Nil}
        BY <2>6 DEF Listed
      <4>2. PICK list : list = airportList
        OBVIOUS
      <4>3. PICK codes : codes = byCode
        OBVIOUS
      <4>4. /\ \A c \in DOMAIN CodesWith(codes, a) : \E i \in DOMAIN Append(list, a) :
                 /\ CodesWith(codes, a)[c] = Append(list, a)[i]
                 /\ Append(list, a)[i].code = c
                 /\ \A j \in 1..(i - 1) : Append(list, a)[j].code # c
            /\ \A i \in DOMAIN Append(list, a) :
                 Append(list, a)[i].code \in DOMAIN CodesWith(codes, a) \cup {Files!Nil}
        <5>1. list \in Seq(Files!Airport)
          BY <1>1, <4>2
        <5>2. /\ \A c \in DOMAIN codes : \E i \in DOMAIN list :
                   /\ codes[c] = list[i] /\ list[i].code = c
                   /\ \A j \in 1..(i - 1) : list[j].code # c
              /\ \A i \in DOMAIN list : list[i].code \in DOMAIN codes \cup {Files!Nil}
          BY <4>1, <4>2, <4>3
        <5> QED BY <2>2, <5>1, <5>2, CodeAdded
      <4> QED BY <3>1, <4>2, <4>3, <4>4
    <3> QED BY <3>2, <3>3, <3>4 DEF Listed, last, ended
  <2> QED BY <2>7, <2>8
<1> QED BY <1>3, <1>4

(* A line that is not an airport's.                                         *)
LEMMA LineRead ==
  ASSUME FilesInv, loading = "airports", NEW l \in Files!Lines, l.kind # "airport",
         file' = Append(file, l), UNCHANGED <<loading, airports, airportList, byCode>>,
         current'.line = current.line, current = Files!NoAirport => current' = Files!NoAirport,
         current # Files!NoAirport =>
           /\ currentLat' = IF l.kind = "latitude" THEN Len(file) + 1 ELSE currentLat
           /\ Files!AsWritten(file', Files!WithRule')
           /\ ~hasRule' => current'.rules = << >>
  PROVE  ReadingInv'
<1> DEFINE n == current.line
<1>1. /\ Len(file) \in Nat /\ DOMAIN file = 1..Len(file) /\ file \in Seq(Files!Lines)
      /\ airportList \in Seq(Files!Airport) /\ n \in Nat
  BY AirportLine DEF FilesInv, Files!TypeOK
<1>2. CurrentInv /\ Listed(file, airportList, byCode, n) /\ airports = Files!Nil
  BY DEF FilesInv, ReadingInv
<1>3. Files!LinesOf(file', "airport") = Files!LinesOf(file, "airport")
  BY <1>1, LinesMore
<1>4. Files!IsLast(n, Files!LinesOf(file, "airport")) /\ (n = 0 => current = Files!NoAirport)
  BY <1>2 DEF CurrentInv
<1>5. n = 0 \/ n \in Files!LinesOf(file, "airport")
  BY <1>4 DEF Files!IsLast
<1>6. Listed(file', airportList', byCode', current'.line)
  <2>1. Listed(Append(file, l), airportList, byCode, n)
    BY <1>1, <1>2, <1>5, ListedAppend
  <2> QED BY <2>1
<1>7. current' # Files!NoAirport => Files!IsLast(currentLat', Files!Part(file', "latitude", current'.line))
  <2> SUFFICES ASSUME current' # Files!NoAirport
               PROVE  Files!IsLast(currentLat', Files!Part(file', "latitude", n))
    OBVIOUS
  <2>1. n \in Files!LinesOf(file, "airport") /\ n <= Len(file)
    BY <1>1, <1>4, <1>5 DEF Files!LinesOf
  <2>2. ~Closed(file, l, n)
    <3>1. \A k \in n + 1..Len(file) : k \in DOMAIN file /\ ~(k <= n)
      BY <1>1
    <3>2. \A k \in Files!LinesOf(file, "airport") : k <= n
      BY <1>4, <2>1 DEF Files!IsLast
    <3> QED BY <3>1, <3>2 DEF Closed, Files!LinesOf
  <2>3. PICK p \in Nat : p = n
    BY <1>1
  <2>4. Files!Part(Append(file, l), "latitude", p) =
          IF Closed(file, l, p) \/ l.kind # "latitude"
          THEN Files!Part(file, "latitude", p)
          ELSE Files!Part(file, "latitude", p) \cup {Len(file) + 1}
    <3>1. p <= Len(file)
      BY <2>1, <2>3
    <3>2. PICK kind : kind = "latitude"
      OBVIOUS
    <3>3. Files!Part(Append(file, l), kind, p) =
            IF Closed(file, l, p) \/ l.kind # kind
            THEN Files!Part(file, kind, p) ELSE Files!Part(file, kind, p) \cup {Len(file) + 1}
      BY <1>1, <3>1, PartAppend
    <3> QED BY <3>2, <3>3
  <2>5. Files!IsLast(currentLat, Files!Part(file, "latitude", n))
    BY <1>2 DEF CurrentInv
  <2>6. CASE l.kind = "latitude"
    <3>1. \A y \in Files!Part(file, "latitude", n) : y \in Nat /\ y < Len(file) + 1
      BY <1>1, PartIn
    <3>2. Files!IsLast(Len(file) + 1, Files!Part(file, "latitude", n) \cup {Len(file) + 1})
      <4>1. PICK N : N = Files!Part(file, "latitude", n)
        OBVIOUS
      <4>2. PICK x \in Nat : x = Len(file) + 1
        BY <1>1
      <4>3. Files!IsLast(x, N \cup {x})
        BY <3>1, <4>1, <4>2, LastGrows
      <4> QED BY <4>1, <4>2, <4>3
    <3> QED BY <2>2, <2>3, <2>4, <2>6, <3>2
  <2>7. CASE l.kind # "latitude"
    BY <2>3, <2>4, <2>5, <2>7
  <2> QED BY <2>6, <2>7
<1>8. CurrentInv'
  BY <1>3, <1>4, <1>7 DEF CurrentInv
<1> QED BY <1>2, <1>6, <1>8 DEF ReadingInv

(* One that needs an airport where there is none.                           *)
LEMMA LineCrashes ==
  ASSUME FilesInv, loading = "airports", NEW l \in Files!Lines, l.kind # "airport",
         file' = Append(file, l), Files!Crash, airports' = airports, current = Files!NoAirport
  PROVE  ReadingInv'
<1>1. Files!LinesOf(file', "airport") = Files!LinesOf(file, "airport")
  BY LinesMore DEF FilesInv, Files!TypeOK
<1>2. CurrentInv /\ airports = Files!Nil
  BY DEF FilesInv, ReadingInv
<1>3. current.line = 0
  BY DEF Files!NoAirport, Files!NewAirport
<1>4. 0 \notin Files!LinesOf(file, "airport")
  <2>1. DOMAIN file = 1..Len(file) /\ Len(file) \in Nat
    BY DEF FilesInv, Files!TypeOK
  <2> QED BY <2>1 DEF Files!LinesOf
<1>5. Files!LinesOf(file', "airport") = {}
  BY <1>1, <1>2, <1>3, <1>4 DEF CurrentInv, Files!IsLast
<1> QED BY <1>2, <1>5 DEF Files!Crash, ReadingInv

LEMMA CurrentIsOpen ==
  ASSUME FilesInv, loading = "airports", current # Files!NoAirport,
         NEW l \in Files!Lines, l.kind # "airport"
  PROVE  /\ current.line \in Nat /\ current.line <= Len(file)
         /\ ~Closed(file, l, current.line)
<1>1. Len(file) \in Nat /\ DOMAIN file = 1..Len(file) /\ current.line \in Nat
  BY AirportLine DEF FilesInv, Files!TypeOK
<1>2. Files!IsLast(current.line, Files!LinesOf(file, "airport")) /\ current.line # 0
  BY DEF FilesInv, ReadingInv, CurrentInv
<1>3. current.line \in Files!LinesOf(file, "airport")
        /\ \A k \in Files!LinesOf(file, "airport") : k <= current.line
  BY <1>2 DEF Files!IsLast
<1>4. \A k \in current.line + 1..Len(file) : k \in DOMAIN file /\ ~(k <= current.line)
  BY <1>1
<1> QED BY <1>1, <1>3, <1>4 DEF Closed, Files!LinesOf

LEMMA LineOfCurrent ==
  ASSUME FilesInv, loading = "airports", current # Files!NoAirport,
         NEW l \in Files!Lines, l.kind # "airport", NEW a, a = Files!WithRule, NEW b \in Files!Airport,
         b.line = a.line,
         b.lon = IF l.kind = "longitude" THEN Len(file) + 1 ELSE a.lon,
         b.lat = IF l.kind = "longitude" THEN currentLat ELSE a.lat,
         b.code = IF l.kind = "code" THEN l.code ELSE a.code,
         b.runways = IF l.kind = "runway" THEN Append(a.runways, Len(file) + 1)
                     ELSE a.runways,
         b.controllers = IF l.kind = "controller"
                         THEN Append(a.controllers, Len(file) + 1)
                         ELSE a.controllers,
         l.kind = "rule" =>
           \E r \in Files!Rule : /\ r.line = Len(file) + 1 /\ r.conditions = << >>
                           /\ b.rules = Append(a.rules, r),
         l.kind = "condition" =>
           \E r \in Files!Rule : /\ r.line = rule.line
                           /\ r.conditions = Append(rule.conditions, Len(file) + 1)
                           /\ b.rules = IF hasRule THEN Append(current.rules, r)
                                        ELSE current.rules,
         l.kind \notin {"rule", "condition"} => b.rules = a.rules
  PROVE  Files!AsWritten(Append(file, l), b)
<1> DEFINE more == Append(file, l)
           n == current.line
<1>1. /\ current \in Files!Airport /\ rule \in Files!Rule /\ hasRule \in BOOLEAN
      /\ file \in Seq(Files!Lines)
  BY DEF FilesInv, Files!TypeOK
<1>2. /\ a \in Files!Airport /\ a.line = n
      /\ a.rules = IF hasRule THEN Append(current.rules, rule) ELSE current.rules
  BY <1>1, WithRuleIs DEF Files!WithRule
<1>3. n \in Nat /\ n <= Len(file) /\ ~Closed(file, l, n)
  BY CurrentIsOpen
<1>4. /\ Files!AsWritten(file, a) /\ (~hasRule => current.rules = << >>)
      /\ Files!IsLast(currentLat, Files!Part(file, "latitude", n))
  BY DEF FilesInv, ReadingInv, CurrentInv
<1>5. RulesWritten(file, n, a.rules) /\ a.rules \in Seq(Files!Rule) /\ current.rules \in Seq(Files!Rule)
  BY <1>1, <1>2, <1>4, WrittenRules, AirportFields
<1>6. RulesWritten(more, n, b.rules)
  <2> PICK p \in Nat : p = n
    BY <1>3
  <2> PICK rules \in Seq(Files!Rule) : rules = a.rules
    BY <1>5
  <2>1. p <= Len(file) /\ ~Closed(file, l, p) /\ RulesWritten(file, p, rules)
    BY <1>3, <1>5
  <2>2. CASE l.kind = "rule"
    <3>1. PICK r \in Files!Rule : /\ r.line = Len(file) + 1 /\ r.conditions = << >>
                            /\ b.rules = Append(a.rules, r)
      BY <2>2
    <3>2. RulesWritten(Append(file, l), p, Append(rules, r))
      BY <1>1, <2>1, <2>2, <3>1, RuleRead
    <3> QED BY <3>1, <3>2
  <2>3. CASE l.kind = "condition"
    <3>1. PICK r \in Files!Rule : /\ r.line = rule.line
                            /\ r.conditions = Append(rule.conditions, Len(file) + 1)
                            /\ b.rules = IF hasRule THEN Append(current.rules, r)
                                         ELSE current.rules
      BY <2>3
    <3>2. CASE hasRule
      <4> PICK before \in Seq(Files!Rule) : before = current.rules
        BY <1>5
      <4> PICK r0 \in Files!Rule : r0 = rule
        BY <1>1
      <4>1. RulesWritten(file, p, Append(before, r0))
        BY <1>2, <2>1, <3>2
      <4>2. RulesWritten(Append(file, l), p, Append(before, r))
        <5>1. r.line = r0.line /\ r.conditions = Append(r0.conditions, Len(file) + 1)
          BY <3>1
        <5> QED BY <1>1, <2>1, <2>3, <4>1, <5>1, ConditionRead
      <4> QED BY <3>1, <3>2, <4>2
    <3>3. CASE ~hasRule
      <4>1. rules = << >> /\ b.rules = << >>
        BY <1>2, <1>4, <3>1, <3>3
      <4>2. RulesWritten(Append(file, l), p, << >>)
        BY <1>1, <2>1, <2>3, <4>1, NoRulesKept
      <4> QED BY <4>1, <4>2
    <3> QED BY <3>2, <3>3
  <2>4. CASE l.kind \notin {"rule", "condition"}
    <3>1. RulesWritten(Append(file, l), p, rules)
      BY <1>1, <2>1, <2>4, RulesKept
    <3> QED BY <2>4, <3>1
  <2> QED BY <2>2, <2>3, <2>4
<1>7. IF l.kind = "longitude" THEN Files!IsLast(b.lat, Files!Part(file, "latitude", a.line))
      ELSE b.lat = a.lat
  BY <1>2, <1>4
<1> HIDE DEF more, n
<1>8. /\ a.line <= Len(file) /\ ~Closed(file, l, a.line)
      /\ RulesWritten(Append(file, l), a.line, b.rules)
  BY <1>2, <1>3, <1>6 DEF more
<1> QED BY <1>1, <1>2, <1>4, <1>7, <1>8, LineUnder

(* What a reading makes is written as the file is.                          *)
LEMMA ReadingInit == Files!Init => ReadingInv
BY DEF Files!Init, ReadingInv, Files!Nil

LEMMA FilesRead == FilesInv /\ [Files!Next]_(Files!navVars) => ReadingInv'
<1> SUFFICES ASSUME FilesInv, [Files!Next]_(Files!navVars) PROVE ReadingInv'
  OBVIOUS
<1>0. Files!TypeOK /\ Files!TypeOK' /\ ReadingInv
  BY FilesStep DEF FilesInv
<1>1. /\ Len(file) \in Nat /\ file \in Seq(Files!Lines) /\ Files!LineNo = Len(file) + 1
      /\ Files!LineNo \in Nat
      /\ current \in Files!Airport /\ rule \in Files!Rule /\ hasRule \in BOOLEAN
      /\ current' \in Files!Airport /\ rule' \in Files!Rule /\ hasRule' \in BOOLEAN
  BY <1>0 DEF Files!TypeOK, Files!LineNo
<1> PICK last : last = Len(file) + 1
  OBVIOUS
<1> PICK a : a = Files!WithRule
  OBVIOUS
<1> PICK b : b = Files!WithRule'
  OBVIOUS
<1>2. /\ a \in Files!Airport /\ a.line = current.line /\ a.lat = current.lat
      /\ a.lon = current.lon /\ a.code = current.code /\ a.runways = current.runways
      /\ a.controllers = current.controllers
      /\ a.rules = IF hasRule THEN Append(current.rules, rule) ELSE current.rules
  BY <1>1, WithRuleIs DEF Files!WithRule
<1>3. /\ b \in Files!Airport /\ b.line = current'.line /\ b.lat = current'.lat
      /\ b.lon = current'.lon /\ b.code = current'.code /\ b.runways = current'.runways
      /\ b.controllers = current'.controllers
      /\ b.rules = IF hasRule' THEN Append(current'.rules, rule') ELSE current'.rules
  <2>1. b = IF hasRule' THEN [current' EXCEPT !.rules = Append(@, rule')] ELSE current'
    BY DEF Files!WithRule
  <2> PICK a2 \in Files!Airport : a2 = current'
    BY <1>1
  <2> PICK r2 \in Files!Rule : r2 = rule'
    BY <1>1
  <2> PICK has \in BOOLEAN : has = hasRule'
    BY <1>1
  <2>2. b = IF has THEN [a2 EXCEPT !.rules = Append(@, r2)] ELSE a2
    BY <2>1, Zenon
  <2>3. /\ b \in Files!Airport /\ b.line = a2.line /\ b.lat = a2.lat
        /\ b.lon = a2.lon /\ b.code = a2.code /\ b.runways = a2.runways
        /\ b.controllers = a2.controllers
        /\ b.rules = IF has THEN Append(a2.rules, r2) ELSE a2.rules
    BY <2>2, WithRuleIs
  <2> QED BY <2>3
<1>4. ASSUME NEW line \in Files!Lines, Files!Reading(line)
      PROVE  /\ loading = "airports" /\ file' = Append(file, line) /\ airports' = airports
  BY <1>4 DEF Files!Reading, Files!cacheVars
<1>5. /\ \A kind \in Files!Kinds : [kind |-> kind, code |-> Files!Nil] \in Files!Lines
      /\ {"airport", "rule", "condition", "latitude"} \subseteq Files!Kinds
  <2>1. \A kind \in Files!Kinds : [kind |-> kind, code |-> Files!Nil] \in Files!Lines
    BY Zenon DEF Files!Lines
  <2> QED BY <2>1 DEF Files!Kinds
<1>6. ~hasRule /\ loading = "airports" /\ current # Files!NoAirport => current.rules = << >>
  BY <1>0 DEF ReadingInv, CurrentInv
<1>7. CASE Files!GetAirports
  <2>1. CASE loading' # "airports"
    <3>1. UNCHANGED <<file, current, currentLat, rule, hasRule, airportList, byCode>>
      BY <1>7, <2>1 DEF Files!GetAirports, Files!fileVars
    <3>2. loading' = "idle" /\ airports' = airports
      BY <1>7, <2>1 DEF Files!GetAirports
    <3> QED BY <1>0, <3>1, <3>2 DEF ReadingInv
  <2>2. CASE loading' = "airports"
    <3>1. /\ airports = Files!Nil /\ airports' = Files!Nil /\ loading' = "airports"
          /\ file' = << >> /\ current' = Files!NoAirport
          /\ airportList' = << >> /\ byCode' = << >>
      BY <1>7, <2>2 DEF Files!GetAirports
    <3>2. current'.line = 0 /\ Files!LinesOf(file', "airport") = {}
      BY <3>1 DEF Files!NoAirport, Files!NewAirport, Files!LinesOf
    <3>3. CurrentInv'
      BY <3>1, <3>2 DEF CurrentInv, Files!IsLast
    <3>4. Listed(file', airportList', byCode', current'.line)
      <4>1. Files!LinesOfAll(<< >>) = << >> /\ \A s : s = << >> => DOMAIN s = {}
        BY DEF Files!LinesOfAll
      <4> QED BY <3>1, <3>2, <4>1, NothingListed DEF Listed
    <3> QED BY <3>1, <3>3, <3>4 DEF ReadingInv, Files!Nil
  <2> QED BY <2>1, <2>2
<1>8. CASE Files!ReadAirport
  <2> PICK l \in Files!Lines : l = [kind |-> "airport", code |-> Files!Nil]
    BY <1>5
  <2>1. /\ l.kind = "airport" /\ Files!Reading(l) /\ Files!FlushAirport
        /\ current' = Files!NewAirport(last) /\ currentLat' = 0
        /\ rule' = Files!NoRule /\ hasRule' = FALSE /\ loading' = loading
    BY <1>1, <1>8 DEF Files!ReadAirport
  <2>2. loading = "airports" /\ file' = Append(file, l) /\ airports' = airports
    BY <1>4, <2>1
  <2>3. airports = Files!Nil /\ CurrentInv /\ Listed(file, airportList, byCode, current.line)
    BY <1>0, <2>2 DEF ReadingInv
  <2>4. Listed(file, airportList', byCode', last)
    BY <1>0, <2>1, <2>3, AirportFlushed
  <2>5. Listed(Append(file, l), airportList', byCode', last)
    <3>1. airportList' \in Seq(Files!Airport) /\ last \in Nat
      BY <1>0, <1>1 DEF Files!TypeOK
    <3> QED BY <1>1, <2>1, <2>4, <3>1, ListedAppend
  <2>6. /\ current'.line = last /\ b = Files!NewAirport(last) /\ current'.rules = << >>
        /\ last # 0
    BY <1>1, <2>1 DEF Files!NewAirport, Files!WithRule
  <2>7. file' \in Seq(Files!Lines) /\ Len(file') = last
    BY <1>1, <2>2
  <2>8. Files!AsWritten(file', b)
    BY <1>1, <2>6, <2>7, NewAirportIs
  <2>9. Files!LinesOf(file', "airport") = Files!LinesOf(file, "airport") \cup {last}
    BY <1>1, <2>1, <2>2, LinesMore
  <2>10. Files!IsLast(last, Files!LinesOf(file', "airport"))
    <3>1. \A m \in Files!LinesOf(file, "airport") : m \in Nat /\ m < last
      BY <1>1 DEF Files!LinesOf
    <3> QED BY <1>1, <2>9, <3>1, LastGrows
  <2>11. Files!IsLast(currentLat', Files!Part(file', "latitude", current'.line))
    <3>1. Files!Part(file', "latitude", Len(file')) = {}
      BY <2>7, NothingUnder
    <3> QED BY <2>1, <2>6, <2>7, <3>1 DEF Files!IsLast
  <2>12. CurrentInv'
    BY <2>6, <2>8, <2>10, <2>11 DEF CurrentInv
  <2> QED BY <2>1, <2>2, <2>3, <2>5, <2>6, <2>12 DEF ReadingInv, Files!Nil
<1>9. CASE Files!ReadRule
  <2> PICK l \in Files!Lines : l = [kind |-> "rule", code |-> Files!Nil]
    BY <1>5
  <2>1. l.kind = "rule" /\ Files!Reading(l)
    BY <1>9 DEF Files!ReadRule
  <2>2. loading = "airports" /\ file' = Append(file, l) /\ airports' = airports
    BY <1>4, <2>1
  <2>3. CASE hasRule /\ current = Files!NoAirport
    BY <1>9, <2>1, <2>2, <2>3, LineCrashes DEF Files!ReadRule
  <2>4. CASE ~(hasRule /\ current = Files!NoAirport)
    <3>1. /\ current' = a /\ rule' = [line |-> last, conditions |-> << >>]
          /\ hasRule' = TRUE
          /\ UNCHANGED <<loading, currentLat, airportList, byCode>>
      BY <1>1, <1>9, <2>4 DEF Files!ReadRule, Files!WithRule
    <3>2. current = Files!NoAirport => current' = Files!NoAirport
      BY <2>4, <3>1 DEF Files!WithRule
    <3>3. /\ b.line = a.line /\ b.lon = a.lon /\ b.lat = a.lat /\ b.code = a.code
          /\ b.runways = a.runways /\ b.controllers = a.controllers
          /\ rule'.line = last /\ rule'.conditions = << >>
          /\ b.rules = Append(a.rules, rule')
      BY <1>3, <3>1
    <3>4. current # Files!NoAirport => Files!AsWritten(Append(file, l), b)
      BY <1>1, <1>3, <2>1, <2>2, <3>3, LineOfCurrent
    <3> QED BY <1>2, <2>1, <2>2, <3>1, <3>2, <3>4, LineRead
  <2> QED BY <2>3, <2>4
<1>10. CASE Files!ReadCondition
  <2> PICK l \in Files!Lines : l = [kind |-> "condition", code |-> Files!Nil]
    BY <1>5
  <2>1. /\ l.kind = "condition" /\ Files!Reading(l)
        /\ rule' = [rule EXCEPT !.conditions = Append(@, last)]
        /\ UNCHANGED <<loading, current, currentLat, hasRule, airportList, byCode>>
    BY <1>1, <1>10 DEF Files!ReadCondition
  <2>2. loading = "airports" /\ file' = Append(file, l) /\ airports' = airports
    BY <1>4, <2>1
  <2>3. rule'.line = rule.line /\ rule'.conditions = Append(rule.conditions, last)
    <3>1. rule = [line |-> rule.line, conditions |-> rule.conditions]
      BY <1>1 DEF Files!Rule
    <3> QED BY <2>1, <3>1
  <2>4. /\ b.line = a.line /\ b.lon = a.lon /\ b.lat = a.lat /\ b.code = a.code
        /\ b.runways = a.runways /\ b.controllers = a.controllers
        /\ b.rules = IF hasRule THEN Append(current.rules, rule') ELSE current.rules
    BY <1>2, <1>3, <2>1
  <2>5. current # Files!NoAirport => Files!AsWritten(Append(file, l), b)
    <3>1. /\ l.kind # "airport" /\ l.kind # "longitude" /\ l.kind # "code"
          /\ l.kind # "runway" /\ l.kind # "controller" /\ l.kind # "rule"
      BY <2>1
    <3>2. PICK r \in Files!Rule : r = rule'
      BY <1>1
    <3>3. \E r0 \in Files!Rule : /\ r0.line = rule.line
                          /\ r0.conditions = Append(rule.conditions, last)
                          /\ b.rules = IF hasRule THEN Append(current.rules, r0)
                                       ELSE current.rules
      BY <2>3, <2>4, <3>2
    <3> QED BY <1>3, <2>1, <2>2, <2>4, <3>1, <3>3, LineOfCurrent
  <2> QED BY <1>6, <2>1, <2>2, <2>5, LineRead
<1>11. CASE Files!ReadLatitude
  <2> PICK l \in Files!Lines : l = [kind |-> "latitude", code |-> Files!Nil]
    BY <1>5
  <2>1. /\ l.kind = "latitude" /\ Files!Reading(l) /\ currentLat' = last
        /\ UNCHANGED <<loading, current, rule, hasRule, airportList, byCode>>
    BY <1>1, <1>11 DEF Files!ReadLatitude
  <2>2. loading = "airports" /\ file' = Append(file, l) /\ airports' = airports
    BY <1>4, <2>1
  <2>3. b = a
    BY <2>1 DEF Files!WithRule
  <2>4. current # Files!NoAirport => Files!AsWritten(Append(file, l), b)
    BY <1>1, <1>3, <2>1, <2>2, <2>3, LineOfCurrent
  <2> QED BY <1>6, <2>1, <2>2, <2>4, LineRead
<1>12. CASE Files!ReadDetail
  <2>1. PICK l \in Files!Lines :
          /\ l.kind \in {"runway", "controller", "longitude", "code"}
          /\ Files!Reading(l)
          /\ \/ current = Files!NoAirport /\ Files!Crash
             \/ /\ current # Files!NoAirport
                /\ current' =
                     CASE l.kind = "runway" ->
                            [current EXCEPT !.runways = Append(@, last)]
                       [] l.kind = "controller" ->
                            [current EXCEPT !.controllers = Append(@, last)]
                       [] l.kind = "longitude" ->
                            [current EXCEPT !.lat = currentLat, !.lon = last]
                       [] l.kind = "code" ->
                            [current EXCEPT !.code = l.code]
                /\ UNCHANGED <<loading, currentLat, rule, hasRule, airportList,
                               byCode>>
    BY <1>1, <1>12 DEF Files!ReadDetail
  <2>2. loading = "airports" /\ file' = Append(file, l) /\ airports' = airports
    BY <1>4, <2>1
  <2>3. CASE current = Files!NoAirport /\ Files!Crash
    BY <2>1, <2>2, <2>3, LineCrashes
  <2>4. CASE current # Files!NoAirport
    <3>1. UNCHANGED <<loading, currentLat, rule, hasRule, airportList, byCode>>
      BY <2>1, <2>4
    <3>2. /\ current'.line = current.line /\ current'.rules = current.rules
          /\ current'.lon = IF l.kind = "longitude" THEN last ELSE current.lon
          /\ current'.lat = IF l.kind = "longitude" THEN currentLat ELSE current.lat
          /\ current'.code = IF l.kind = "code" THEN l.code ELSE current.code
          /\ current'.runways = IF l.kind = "runway" THEN Append(current.runways, last)
                                ELSE current.runways
          /\ current'.controllers = IF l.kind = "controller"
                                    THEN Append(current.controllers, last)
                                    ELSE current.controllers
      <4>1. current = [line |-> current.line, lat |-> current.lat, lon |-> current.lon,
                       code |-> current.code, runways |-> current.runways,
                       rules |-> current.rules, controllers |-> current.controllers]
        BY <1>1 DEF Files!Airport
      <4>2. CASE l.kind = "runway"
        BY <2>1, <2>4, <4>1, <4>2
      <4>3. CASE l.kind = "controller"
        BY <2>1, <2>4, <4>1, <4>3
      <4>4. CASE l.kind = "longitude"
        <5>1. current' = [[current EXCEPT !.lat = currentLat] EXCEPT !.lon = last]
          <6>1. current' = [current EXCEPT !.lat = currentLat, !.lon = last]
            BY <2>1, <2>4, <4>4
          <6> QED BY <6>1, Zenon
        <5> PICK c : c = [line |-> current.line, lat |-> currentLat,
                          lon |-> current.lon, code |-> current.code,
                          runways |-> current.runways, rules |-> current.rules,
                          controllers |-> current.controllers]
          OBVIOUS
        <5>2. c = [current EXCEPT !.lat = currentLat]
          BY <4>1
        <5>3. current' = [c EXCEPT !.lon = last]
          BY <5>1, <5>2, Zenon
        <5> QED BY <4>4, <5>3
      <4>5. CASE l.kind = "code"
        BY <2>1, <2>4, <4>1, <4>5
      <4> QED BY <2>1, <4>2, <4>3, <4>4, <4>5
    <3>3. l.kind \notin {"airport", "rule", "condition", "latitude"}
      BY <2>1
    <3>4. /\ b.line = a.line
          /\ b.lon = IF l.kind = "longitude" THEN last ELSE a.lon
          /\ b.lat = IF l.kind = "longitude" THEN currentLat ELSE a.lat
          /\ b.code = IF l.kind = "code" THEN l.code ELSE a.code
          /\ b.runways = IF l.kind = "runway" THEN Append(a.runways, last)
                         ELSE a.runways
          /\ b.controllers = IF l.kind = "controller" THEN Append(a.controllers, last)
                             ELSE a.controllers
          /\ b.rules = a.rules
      BY <1>2, <1>3, <3>1, <3>2
    <3>5. Files!AsWritten(Append(file, l), b)
      BY <1>3, <2>2, <2>4, <3>3, <3>4, LineOfCurrent
    <3> QED BY <1>6, <2>2, <2>4, <3>1, <3>2, <3>3, <3>5, LineRead
  <2> QED BY <2>1, <2>3, <2>4
<1>13. CASE Files!EndOfAirports
  <2>1. /\ loading = "airports" /\ Files!FlushAirport /\ loading' = "idle" /\ file' = file
    BY <1>13 DEF Files!EndOfAirports
  <2>2. CurrentInv /\ Listed(file, airportList, byCode, current.line)
    BY <1>0, <2>1 DEF ReadingInv
  <2>3. Listed(file, airportList', byCode', Len(file) + 1)
    BY <1>0, <2>1, <2>2, AirportFlushed
  <2> QED BY <2>1, <2>3 DEF ReadingInv
<1>14. CASE Files!GetNavAids \/ Files!LoadNavAids
  <2>1. UNCHANGED <<file, current, currentLat, rule, hasRule, airportList, byCode>>
    BY <1>14 DEF Files!GetNavAids, Files!LoadNavAids, Files!fileVars
  <2>2. airports' = airports /\ loading' \in {"idle", "fixes", "navaids"}
    BY <1>14 DEF Files!GetNavAids, Files!LoadNavAids
  <2> QED BY <1>0, <2>1, <2>2 DEF ReadingInv
<1>15. CASE Files!ReadingFails
  <2>1. loading = "airports" /\ loading' \in {"threw", "aborted"}
    BY <1>15 DEF Files!ReadingFails
  <2>2. UNCHANGED <<file, airportList, byCode, airports>>
    BY <1>15 DEF Files!ReadingFails, Files!fileVars, Files!cacheVars
  <2> QED BY <1>0, <2>1, <2>2 DEF ReadingInv
<1>16. CASE UNCHANGED Files!navVars
  <2>1. UNCHANGED <<loading, file, current, currentLat, rule, hasRule, airportList,
                    byCode, airports>>
    BY <1>16 DEF Files!navVars
  <2> QED BY <1>0, <2>1 DEF ReadingInv, CurrentInv, Files!WithRule
<1> QED BY <1>7, <1>8, <1>9, <1>10, <1>11, <1>12, <1>13, <1>14, <1>15, <1>16
        DEF Files!Next

LEMMA FilesInvInit == Files!Init => FilesInv
BY FilesInit, ReadingInit DEF FilesInv

LEMMA FilesInvStep == FilesInv /\ [Files!Next]_(Files!navVars) => FilesInv'
BY FilesStep, FilesRead DEF FilesInv

LEMMA AirportsKept == FilesInv => Files!AirportsAreAsWritten
<1> SUFFICES ASSUME FilesInv PROVE Files!AirportsAreAsWritten
  OBVIOUS
<1>1. CASE airports # Files!Nil
  <2>1. Listed(file, airportList, byCode, Len(file) + 1)
    BY <1>1 DEF FilesInv, ReadingInv
  <2>2. {m \in Files!LinesOf(file, "airport") : Files!HasPlace(file, m) /\ m < Len(file) + 1}
          = {m \in Files!LinesOf(file, "airport") : Files!HasPlace(file, m)}
    <3>1. \A m \in Files!LinesOf(file, "airport") : m < Len(file) + 1
      <4>1. DOMAIN file = 1..Len(file) /\ Len(file) \in Nat
        BY DEF FilesInv, Files!TypeOK
      <4> QED BY <4>1 DEF Files!LinesOf
    <3> QED BY <3>1
  <2>3. loading # "crashed"
    BY <1>1 DEF FilesInv, ReadingInv
  <2>4. /\ Files!Lists(Files!LinesOfAll(airportList),
                 {m \in Files!LinesOf(file, "airport") : Files!HasPlace(file, m)})
        /\ \A i \in DOMAIN airportList : Files!AsWritten(file, airportList[i])
        /\ \A c \in DOMAIN byCode : \E i \in DOMAIN airportList :
             /\ byCode[c] = airportList[i] /\ airportList[i].code = c
             /\ \A j \in 1..(i - 1) : airportList[j].code # c
        /\ \A i \in DOMAIN airportList :
             airportList[i].code \in DOMAIN byCode \cup {Files!Nil}
    BY <2>1, <2>2, Zenon DEF Listed
  <2> QED BY <2>3, <2>4, Zenon DEF Files!AirportsAreAsWritten
<1>2. CASE airports = Files!Nil
  <2>1. loading = "crashed" => Files!LinesOf(file, "airport") = {}
    BY DEF FilesInv, ReadingInv
  <2> QED BY <1>2, <2>1, Zenon DEF Files!AirportsAreAsWritten
<1> QED BY <1>1, <1>2

Longitudes == -179..179

LEMMA Quotient ==
  ASSUME NEW y \in Int, NEW m \in Nat, m > 0
  PROVE  /\ y \div m \in Int
         /\ (y \div m) * m <= y /\ y < (y \div m) * m + m
<1>1. y = m * (y \div m) + (y % m) /\ y % m \in 0..m - 1 /\ y \div m \in Int
  OBVIOUS
<1> PICK q \in Int : q = y \div m
  BY <1>1
<1> PICK r \in 0..m - 1 : r = y % m
  BY <1>1
<1>2. y = m * q + r
  BY <1>1
<1>3. q * m = m * q
  OBVIOUS
<1> QED BY <1>2, <1>3

LEMMA QuotientIs ==
  ASSUME NEW y \in Int, NEW m \in Nat, m > 0, NEW q \in Int, q * m <= y, y < q * m + m
  PROVE  y \div m = q
<1> PICK p \in Int : p = y \div m /\ p * m <= y /\ y < p * m + m
  BY Quotient
<1>1. CASE p < q
  <2>1. (p + 1) * m <= q * m
    BY <1>1
  <2>2. (p + 1) * m = p * m + m
    OBVIOUS
  <2> QED BY <2>1, <2>2
<1>2. CASE q < p
  <2>1. (q + 1) * m <= p * m
    BY <1>2
  <2>2. (q + 1) * m = q * m + m
    OBVIOUS
  <2> QED BY <2>1, <2>2
<1> QED BY <1>1, <1>2

(* A step of at most two divisors. *)
LEMMA QuotientStep ==
  ASSUME NEW y \in Int, NEW t \in Int, NEW m \in Nat, m > 0
  PROVE  /\ 0 <= t /\ t <= 2 * m =>
              y \div m <= (y + t) \div m /\ (y + t) \div m <= (y \div m) + 2
         /\ t <= 0 /\ -(2 * m) <= t =>
              (y + t) \div m <= y \div m /\ (y \div m) - 2 <= (y + t) \div m
<1> PICK q \in Int : q = y \div m /\ q * m <= y /\ y < q * m + m
  BY Quotient
<1> PICK p \in Int : p = (y + t) \div m /\ p * m <= y + t /\ y + t < p * m + m
  BY Quotient
<1>1. ASSUME NEW u \in Int, NEW v \in Int, u * m < v * m + m PROVE u <= v
  <2>1. SUFFICES ASSUME u >= v + 1 PROVE FALSE
    OBVIOUS
  <2>2. (v + 1) * m <= u * m /\ (v + 1) * m = v * m + m
    BY <2>1
  <2> QED BY <1>1, <2>2
<1>2. (q + 2) * m = q * m + 2 * m /\ (p + 2) * m = p * m + 2 * m
  OBVIOUS
<1>3. ASSUME 0 <= t, t <= 2 * m PROVE q <= p /\ p <= q + 2
  <2>1. q * m < p * m + m /\ p * m < (q + 2) * m + m
    BY <1>2, <1>3
  <2> QED BY <1>1, <2>1
<1>4. ASSUME t <= 0, -(2 * m) <= t PROVE p <= q /\ q <= p + 2
  <2>1. p * m < q * m + m /\ q * m < (p + 2) * m + m
    BY <1>2, <1>4
  <2> QED BY <1>1, <2>1
<1> QED BY <1>3, <1>4

LEMMA NormaliseIs ==
  /\ \A x \in -180..179 : Route!Normalise(x) = x
  /\ \A x \in 180..539 : Route!Normalise(x) = x - 360
  /\ \A x \in -540..-181 : Route!Normalise(x) = x + 360
<1>1. ASSUME NEW x \in -180..179 PROVE Route!Normalise(x) = x
  BY DEF Route!Normalise
<1>2. ASSUME NEW x \in 180..539 PROVE Route!Normalise(x) = x - 360
  BY DEF Route!Normalise
<1>3. ASSUME NEW x \in -540..-181 PROVE Route!Normalise(x) = x + 360
  BY DEF Route!Normalise
<1> QED BY <1>1, <1>2, <1>3

LEMMA LegIs ==
  ASSUME NEW a \in Longitudes, NEW b \in Longitudes, Route!AbsDiff(a, b) # 180,
         Route!DistanceDegrees(a, b) >= Route!LongLeg,
         NEW n, n = Route!PointsOf(Route!DistanceDegrees(a, b)), NEW t, t = Route!Towards(a, b)
  PROVE  /\ n \in Nat /\ n >= 3 /\ t \in Int
         /\ t <= 2 * (n - 1) /\ -(2 * (n - 1)) <= t
         /\ \/ Route!AbsDiff(a, b) < 180 /\ a + t = b
            \/ Route!AbsDiff(a, b) > 180 /\ t > 0 /\ a + t = b + 360
            \/ Route!AbsDiff(a, b) > 180 /\ t < 0 /\ a + t = b - 360
<1> PICK d \in Nat : d = Route!DistanceDegrees(a, b) /\ d >= 3 /\ d < 180
  <2>1. a \in Int /\ b \in Int /\ -179 <= a /\ a <= 179 /\ -179 <= b /\ b <= 179
    BY DEF Longitudes
  <2>2. Route!AbsDiff(a, b) \in Nat /\ Route!AbsDiff(a, b) <= 358
    BY <2>1 DEF Route!AbsDiff
  <2> PICK e \in Nat : e = Route!AbsDiff(a, b) /\ e # 180 /\ e <= 358
    BY <2>2
  <2>3. Route!DistanceDegrees(a, b) = IF e <= 180 THEN e ELSE 360 - e
    BY DEF Route!DistanceDegrees
  <2> QED BY <2>3 DEF Route!LongLeg
<1>1. /\ n \in Nat /\ n >= 3 /\ d <= 2 * (n - 1)
  <2>1. n = (d * 11119) \div 10000
    BY DEF Route!PointsOf
  <2> PICK k : k = 10000
    OBVIOUS
  <2> QED BY <2>1, SMT
<1>2. /\ t \in Int
      /\ \/ Route!AbsDiff(a, b) < 180 /\ a + t = b /\ (t = d \/ t = -d)
         \/ Route!AbsDiff(a, b) > 180 /\ t = d /\ a + t = b + 360
         \/ Route!AbsDiff(a, b) > 180 /\ t = -d /\ a + t = b - 360
  <2>1. t = Route!Normalise(b - a)
    BY DEF Route!Towards
  <2>2. CASE b - a \in -179..179
    <3>1. t = b - a
      BY <2>1, <2>2, NormaliseIs
    <3> QED BY <2>2, <3>1 DEF Route!DistanceDegrees, Route!AbsDiff, Longitudes
  <2>3. CASE b - a > 180
    <3>1. b - a \in 180..539
      BY <2>3 DEF Longitudes
    <3>2. t = b - a - 360
      BY <2>1, <3>1, NormaliseIs
    <3> QED BY <2>3, <3>2 DEF Route!DistanceDegrees, Route!AbsDiff, Longitudes
  <2>4. CASE b - a < -180
    <3>1. b - a \in -540..-181
      BY <2>4 DEF Longitudes
    <3>2. t = b - a + 360
      BY <2>1, <3>1, NormaliseIs
    <3> QED BY <2>4, <3>2 DEF Route!DistanceDegrees, Route!AbsDiff, Longitudes
  <2> QED BY <2>2, <2>3, <2>4 DEF Route!AbsDiff, Longitudes
<1> QED BY <1>1, <1>2

(* The points before they are brought back between -180 and 180. *)
Unwrapped(a, t, n) == [i \in 1..n |-> a + ((t * (i - 1)) \div (n - 1))]

Between(u, n, low, high) == \A i \in 1..n : low <= u[i] /\ u[i] <= high
SmallStepsUp(u, n) == \A i \in 2..n : u[i - 1] <= u[i] /\ u[i] <= u[i - 1] + 2
SmallStepsDown(u, n) == \A i \in 2..n : u[i] <= u[i - 1] /\ u[i - 1] <= u[i] + 2

IsWay(u, n, a, t) ==
  /\ u \in [1..n -> Int] /\ u[1] = a /\ u[n] = a + t
  /\ (0 <= t => Between(u, n, a, a + t) /\ SmallStepsUp(u, n))
  /\ (t <= 0 => Between(u, n, a + t, a) /\ SmallStepsDown(u, n))

LEMMA UnwrappedIs ==
  ASSUME NEW a \in Int, NEW t \in Int, NEW n \in Nat, n >= 3,
         t <= 2 * (n - 1), -(2 * (n - 1)) <= t, NEW u, u = Unwrapped(a, t, n)
  PROVE  IsWay(u, n, a, t)
<1> PICK m \in Nat : m = n - 1 /\ m > 0
  OBVIOUS
<1>0. /\ DOMAIN u = 1..n
      /\ \A i \in 1..n : u[i] = a + ((t * (i - 1)) \div m)
  BY DEF Unwrapped
<1>1. ASSUME NEW i \in 1..n PROVE u[i] \in Int
  <2>1. t * (i - 1) \in Int
    OBVIOUS
  <2>2. (t * (i - 1)) \div m \in Int
    BY <2>1, Quotient
  <2> QED BY <1>0, <2>2
<1>2. u[1] = a
  <2>1. t * (1 - 1) = 0 /\ 0 * m = 0
    OBVIOUS
  <2>2. 0 \div m = 0
    BY <2>1, QuotientIs
  <2> PICK one : one = 1
    OBVIOUS
  <2>3. u[one] = a + ((t * (one - 1)) \div m)
    <3>1. one \in 1..n
      OBVIOUS
    <3> QED BY <1>0, <3>1, Zenon
  <2>4. u[1] = a + ((t * (1 - 1)) \div m)
    BY <2>3
  <2> QED BY <2>1, <2>2, <2>4
<1>3. u[n] = a + t
  <2>1. (t * m) \div m = t
    BY QuotientIs
  <2>2. u[n] = a + ((t * (n - 1)) \div m)
    <3>1. n \in 1..n
      OBVIOUS
    <3> QED BY <1>0, <3>1, Zenon
  <2> QED BY <2>1, <2>2
<1>4. ASSUME NEW i \in 2..n
      PROVE  /\ 0 <= t => u[i - 1] <= u[i] /\ u[i] <= u[i - 1] + 2
             /\ t <= 0 => u[i] <= u[i - 1] /\ u[i - 1] <= u[i] + 2
  <2> PICK y \in Int : y = t * (i - 2)
    OBVIOUS
  <2>1. t * (i - 1) = y + t /\ t * (i - 1 - 1) = y
    OBVIOUS
  <2>2. i \in 1..n /\ i - 1 \in 1..n
    OBVIOUS
  <2>3. u[i] = a + ((y + t) \div m) /\ u[i - 1] = a + (y \div m)
    BY <1>0, <2>1, <2>2
  <2>4. y \div m \in Int /\ (y + t) \div m \in Int
    BY Quotient
  <2> PICK q \in Int, p \in Int : q = y \div m /\ p = (y + t) \div m
    BY <2>4
  <2>5. /\ 0 <= t => q <= p /\ p <= q + 2
        /\ t <= 0 => p <= q /\ q - 2 <= p
    BY QuotientStep
  <2> QED BY <2>3, <2>5
<1>5. ASSUME NEW i \in 1..n
      PROVE  /\ 0 <= t => a <= u[i] /\ u[i] <= a + t
             /\ t <= 0 => a + t <= u[i] /\ u[i] <= a
  <2> PICK j \in 0..m : j = i - 1
    OBVIOUS
  <2> PICK y \in Int : y = t * j
    OBVIOUS
  <2> PICK q \in Int : q = y \div m /\ q * m <= y /\ y < q * m + m
    BY Quotient
  <2>1. u[i] = a + q
    BY <1>0
  <2>2. ASSUME 0 <= t PROVE 0 <= q /\ q <= t
    <3>1. 0 <= y /\ y <= t * m
      BY <2>2
    <3>2. CASE q < 0
      <4>1. (q + 1) * m <= 0 /\ (q + 1) * m = q * m + m
        BY <3>2
      <4> QED BY <3>1, <4>1
    <3>3. CASE q > t
      <4>1. (t + 1) * m <= q * m /\ (t + 1) * m = t * m + m
        BY <3>3
      <4> QED BY <3>1, <4>1
    <3> QED BY <3>2, <3>3
  <2>3. ASSUME t <= 0 PROVE t <= q /\ q <= 0
    <3>1. y <= 0 /\ t * m <= y
      BY <2>3
    <3>2. CASE q > 0
      <4>1. m <= q * m
        BY <3>2
      <4> QED BY <3>1, <4>1
    <3>3. CASE q < t
      <4>1. (q + 1) * m <= t * m /\ (q + 1) * m = q * m + m
        BY <3>3
      <4> QED BY <3>1, <4>1
    <3> QED BY <3>2, <3>3
  <2> QED BY <2>1, <2>2, <2>3
<1>6. u \in [1..n -> Int]
  BY <1>0, <1>1 DEF Unwrapped
<1> QED BY <1>2, <1>3, <1>4, <1>5, <1>6 DEF IsWay, Between, SmallStepsUp, SmallStepsDown

(* The first of some naturals. *)
(* A small step on the unwrapped line. *)
LEMMA SmallStep ==
  ASSUME NEW x \in Int, NEW y \in Int, x <= 539, y <= 539, -540 <= x, -540 <= y,
         \/ /\ x <= y /\ y <= x + 2 /\ -180 <= x /\ -180 <= y
         \/ /\ y <= x /\ x <= y + 2 /\ x <= 179 /\ y <= 179
  PROVE  /\ (-180 <= x /\ x <= 179) /\ ~(-180 <= y /\ y <= 179) =>
              Route!CrossesDateLine(Route!Normalise(x), Route!Normalise(y))
         /\ (-180 <= x /\ x <= 179) /\ (-180 <= y /\ y <= 179) =>
              Route!AbsDiff(Route!Normalise(x), Route!Normalise(y)) < Route!DateLineOffset
         /\ ~(-180 <= x /\ x <= 179) =>
              /\ ~(-180 <= y /\ y <= 179)
              /\ Route!AbsDiff(Route!Normalise(x), Route!Normalise(y)) < Route!DateLineOffset
<1>1. ASSUME NEW z \in Int, z <= 539, -540 <= z
      PROVE  \/ -180 <= z /\ z <= 179 /\ Route!Normalise(z) = z
             \/ 180 <= z /\ Route!Normalise(z) = z - 360
             \/ z <= -181 /\ Route!Normalise(z) = z + 360
  <2>1. z \in -180..179 \/ z \in 180..539 \/ z \in -540..-181
    BY <1>1
  <2> QED BY <2>1, NormaliseIs
<1> PICK p : p = Route!Normalise(x)
  OBVIOUS
<1> PICK q : q = Route!Normalise(y)
  OBVIOUS
<1>2. /\ \/ -180 <= x /\ x <= 179 /\ p = x
         \/ 180 <= x /\ p = x - 360
         \/ x <= -181 /\ p = x + 360
      /\ \/ -180 <= y /\ y <= 179 /\ q = y
         \/ 180 <= y /\ q = y - 360
         \/ y <= -181 /\ q = y + 360
  BY <1>1
<1>3. /\ (-180 <= x /\ x <= 179) /\ ~(-180 <= y /\ y <= 179) => Route!CrossesDateLine(p, q)
      /\ (-180 <= x /\ x <= 179) /\ (-180 <= y /\ y <= 179) => Route!AbsDiff(p, q) < Route!DateLineOffset
      /\ ~(-180 <= x /\ x <= 179) =>
           ~(-180 <= y /\ y <= 179) /\ Route!AbsDiff(p, q) < Route!DateLineOffset
  BY <1>2 DEF Route!CrossesDateLine, Route!AbsDiff, Route!DateLineOffset
<1> QED BY <1>3

(* A leg that does not cross the date line has points from its one end to   *)
(* the other; of one that does nothing is left.                             *)
LEMMA ArcIs ==
  ASSUME NEW a \in Longitudes, NEW b \in Longitudes, Route!AbsDiff(a, b) # 180,
         Route!DistanceDegrees(a, b) >= Route!LongLeg,
         NEW n, n = Route!PointsOf(Route!DistanceDegrees(a, b)), NEW arc, arc = Route!Arc(a, b, n)
  PROVE  /\ Route!AbsDiff(a, b) > 180 => arc = << >>
         /\ Route!AbsDiff(a, b) < 180 =>
              /\ n \in Nat /\ n >= 3 /\ arc \in [1..n -> Longitudes]
              /\ arc[1] = a /\ arc[n] = b
              /\ \A i \in 2..n : Route!DistanceDegrees(arc[i - 1], arc[i]) < Route!LongLeg
<1> PICK t : t = Route!Towards(a, b)
  OBVIOUS
<1> PICK u : u = Unwrapped(a, t, n)
  OBVIOUS
<1> PICK path : path = Route!FirstPass(a, b, n)
  OBVIOUS
<1>1. /\ n \in Nat /\ n >= 3 /\ t \in Int
      /\ t <= 2 * (n - 1) /\ -(2 * (n - 1)) <= t
      /\ \/ Route!AbsDiff(a, b) < 180 /\ a + t = b
         \/ Route!AbsDiff(a, b) > 180 /\ t > 0 /\ a + t = b + 360
         \/ Route!AbsDiff(a, b) > 180 /\ t < 0 /\ a + t = b - 360
  BY LegIs
<1>2. /\ a \in Int /\ b \in Int /\ -179 <= a /\ a <= 179 /\ -179 <= b /\ b <= 179
      /\ Route!AbsDiff(a, b) \in Nat
  BY DEF Longitudes, Route!AbsDiff
<1>3. /\ u \in [1..n -> Int] /\ u[1] = a /\ u[n] = a + t
      /\ (0 <= t => Between(u, n, a, a + t) /\ SmallStepsUp(u, n))
      /\ (t <= 0 => Between(u, n, a + t, a) /\ SmallStepsDown(u, n))
  <2>1. IsWay(u, n, a, t)
    BY <1>1, <1>2, UnwrappedIs
  <2> QED BY <2>1, Zenon DEF IsWay
<1>4. /\ DOMAIN path = 1..n /\ Len(path) = n
      /\ \A i \in 1..n : path[i] = Route!Normalise(u[i])
  <2>1. path = [i \in 1..n |-> Route!Normalise(u[i])]
    BY DEF Route!FirstPass, Route!Interpolate, Unwrapped
  <2> QED BY <1>1, <2>1
<1>5. arc = IF Route!HasBigDiff(path) /\ Route!SmallDiffsBelow(path, Route!DateLineOffset)
              THEN << >> ELSE path
  BY DEF Route!Arc, Route!HandleBigDifference
<1>6. \A i \in 2..n : i \in 1..n /\ i - 1 \in 1..n
  BY <1>1
<1>7. CASE Route!AbsDiff(a, b) < 180
  <2>1. \A i \in 1..n : u[i] \in Longitudes
    <3>1. (0 <= t \/ t <= 0) /\ \A i \in 1..n : u[i] \in Int
      BY <1>1, <1>3
    <3>2. ASSUME NEW i \in 1..n PROVE -179 <= u[i] /\ u[i] <= 179
      <4>1. CASE 0 <= t
        <5>1. a <= u[i] /\ u[i] <= a + t
          BY <1>3, <4>1 DEF Between
        <5> QED BY <1>1, <1>2, <1>7, <3>1, <5>1
      <4>2. CASE t <= 0
        <5>1. a + t <= u[i] /\ u[i] <= a
          BY <1>3, <4>2 DEF Between
        <5> QED BY <1>1, <1>2, <1>7, <3>1, <5>1
      <4> QED BY <3>1, <4>1, <4>2
    <3> QED BY <3>1, <3>2 DEF Longitudes
  <2>2. \A i \in 1..n : path[i] = u[i]
    <3> SUFFICES ASSUME NEW i \in 1..n PROVE path[i] = u[i]
      OBVIOUS
    <3>1. u[i] \in -180..179
      BY <2>1 DEF Longitudes
    <3> QED BY <1>4, <3>1, NormaliseIs
  <2>3. ASSUME NEW i \in 2..n
        PROVE  /\ Route!DistanceDegrees(path[i - 1], path[i]) < Route!LongLeg
               /\ ~Route!CrossesDateLine(path[i - 1], path[i])
    <3>1. u[i - 1] \in Int /\ u[i] \in Int /\ u[i - 1] <= u[i] + 2 /\ u[i] <= u[i - 1] + 2
      <4>1. u[i - 1] \in Int /\ u[i] \in Int
        BY <1>3, <1>6
      <4>2. 0 <= t \/ t <= 0
        BY <1>1
      <4> QED BY <1>3, <4>1, <4>2 DEF SmallStepsUp, SmallStepsDown
    <3>2. Route!AbsDiff(u[i - 1], u[i]) <= 2
      BY <3>1 DEF Route!AbsDiff
    <3>3. Route!AbsDiff(u[i - 1], u[i]) \in Int
      BY <3>1 DEF Route!AbsDiff
    <3> QED BY <1>6, <2>2, <3>2, <3>3 DEF Route!DistanceDegrees, Route!LongLeg, Route!CrossesDateLine, Route!DateLineOffset
  <2>4. ~Route!HasBigDiff(path)
    BY <1>4, <2>3 DEF Route!HasBigDiff
  <2>5. arc = path
    BY <1>5, <2>4
  <2>6. path \in [1..n -> Longitudes]
    <3>1. path = [i \in 1..n |-> Route!Normalise(u[i])]
      BY DEF Route!FirstPass, Route!Interpolate, Unwrapped
    <3>2. \A i \in 1..n : Route!Normalise(u[i]) \in Longitudes
      BY <2>1, <2>2, <1>4
    <3> QED BY <3>1, <3>2
  <2>7. path[1] = a /\ path[n] = b
    <3>1. 1 \in 1..n /\ n \in 1..n /\ a + t = b
      BY <1>1, <1>2, <1>7
    <3>2. u[1] = a /\ u[n] = b
      BY <1>3, <3>1
    <3> QED BY <2>2, <3>1, <3>2
  <2>8. ~(Route!AbsDiff(a, b) > 180)
    BY <1>2, <1>7 DEF Route!AbsDiff
  <2>9. \A i \in 2..n : Route!DistanceDegrees(arc[i - 1], arc[i]) < Route!LongLeg
    BY <2>3, <2>5
  <2> QED BY <1>1, <2>5, <2>6, <2>7, <2>8, <2>9
<1>8. CASE Route!AbsDiff(a, b) > 180
  <2> DEFINE Home(x) == -180 <= x /\ x <= 179
  <2>1. /\ Home(u[1]) /\ ~Home(u[n])
        /\ \A i \in 1..n : u[i] \in Int /\ u[i] <= 539 /\ -540 <= u[i]
    <3>1. ~(Route!AbsDiff(a, b) < 180)
      BY <1>2, <1>8 DEF Route!AbsDiff
    <3>2. (t > 0 /\ a + t = b + 360) \/ (t < 0 /\ a + t = b - 360)
      BY <1>1, <3>1
    <3>3. Home(a) /\ ~Home(a + t)
      BY <1>1, <1>2, <3>2
    <3>4. ASSUME NEW i \in 1..n PROVE u[i] \in Int /\ u[i] <= 539 /\ -540 <= u[i]
      <4>1. u[i] \in Int
        BY <1>3
      <4>2. CASE t > 0 /\ a + t = b + 360
        <5>1. a <= u[i] /\ u[i] <= a + t
          BY <1>1, <1>3, <4>2 DEF Between
        <5> QED BY <1>1, <1>2, <4>1, <4>2, <5>1
      <4>3. CASE t < 0 /\ a + t = b - 360
        <5>1. a + t <= u[i] /\ u[i] <= a
          BY <1>1, <1>3, <4>3 DEF Between
        <5> QED BY <1>1, <1>2, <4>1, <4>3, <5>1
      <4> QED BY <3>2, <4>2, <4>3
    <3> QED BY <1>3, <3>3, <3>4
  <2>2. ASSUME NEW i \in 2..n
        PROVE  /\ Home(u[i - 1]) /\ ~Home(u[i]) => Route!CrossesDateLine(path[i - 1], path[i])
               /\ Home(u[i - 1]) /\ Home(u[i]) => Route!AbsDiff(path[i - 1], path[i]) < Route!DateLineOffset
               /\ ~Home(u[i - 1]) =>
                    ~Home(u[i]) /\ Route!AbsDiff(path[i - 1], path[i]) < Route!DateLineOffset
    <3> PICK x \in Int, y \in Int : x = u[i - 1] /\ y = u[i]
      BY <1>6, <2>1
    <3>1. /\ x <= 539 /\ y <= 539 /\ -540 <= x /\ -540 <= y
          /\ path[i - 1] = Route!Normalise(x) /\ path[i] = Route!Normalise(y)
      BY <1>4, <1>6, <2>1
    <3>2. \/ /\ x <= y /\ y <= x + 2 /\ -180 <= x /\ -180 <= y
          \/ /\ y <= x /\ x <= y + 2 /\ x <= 179 /\ y <= 179
      <4>1. i - 1 \in 1..n /\ i \in 1..n
        BY <1>6
      <4>2. CASE 0 <= t
        <5>1. u[i - 1] <= u[i] /\ u[i] <= u[i - 1] + 2 /\ a <= u[i - 1] /\ a <= u[i]
          BY <1>3, <4>1, <4>2 DEF Between, SmallStepsUp
        <5> QED BY <1>2, <5>1
      <4>3. CASE t <= 0
        <5>1. u[i] <= u[i - 1] /\ u[i - 1] <= u[i] + 2 /\ u[i - 1] <= a /\ u[i] <= a
          BY <1>3, <4>1, <4>3 DEF Between, SmallStepsDown
        <5> QED BY <1>2, <5>1
      <4> QED BY <1>1, <4>2, <4>3
    <3>3. /\ Home(x) /\ ~Home(y) => Route!CrossesDateLine(Route!Normalise(x), Route!Normalise(y))
          /\ Home(x) /\ Home(y) => Route!AbsDiff(Route!Normalise(x), Route!Normalise(y)) < Route!DateLineOffset
          /\ ~Home(x) => ~Home(y) /\ Route!AbsDiff(Route!Normalise(x), Route!Normalise(y)) < Route!DateLineOffset
      BY <3>1, <3>2, SmallStep
    <3> QED BY <3>1, <3>3
  <2> HIDE DEF Home
  <2>3. Route!SmallDiffsBelow(path, Route!DateLineOffset)
    BY <1>4, <2>2 DEF Route!SmallDiffsBelow
  <2>4. Route!HasBigDiff(path)
    <3> PICK i \in {j \in 1..n : ~Home(u[j])} : \A j \in {k \in 1..n : ~Home(u[k])} : i <= j
      <4>1. n \in {j \in 1..n : ~Home(u[j])} /\ {j \in 1..n : ~Home(u[j])} \subseteq Nat
        BY <1>1, <2>1
      <4> QED BY <4>1, FirstOf
    <3>1. i \in 2..n
      BY <1>1, <2>1
    <3>2. i - 1 \in 1..n /\ ~(i <= i - 1)
      BY <1>1, <3>1
    <3>3. Home(u[i - 1])
      BY <3>2
    <3>4. Route!CrossesDateLine(path[i - 1], path[i])
      BY <2>2, <3>1, <3>3
    <3> QED BY <1>4, <3>1, <3>4 DEF Route!HasBigDiff
  <2>5. ~(Route!AbsDiff(a, b) < 180)
    BY <1>2, <1>8 DEF Route!AbsDiff
  <2>6. arc = << >>
    BY <1>5, <2>3, <2>4
  <2> QED BY <2>5, <2>6
<1>9. Route!AbsDiff(a, b) < 180 \/ Route!AbsDiff(a, b) > 180
  BY <1>1
<1> QED BY <1>7, <1>8, <1>9

(* Among finitely many or infinitely many naturals there is a least one. *)

WayPointSet == [name : Route!PointNames, at : Route!RoutePlaces]
PointSet == [name : Route!PointNames \cup {Route!NoName}, at : -180..179]

(* Where the route is: at the last way point, at first at the origin that   *)
(* was given, or at 0, 0 when there is none.                                *)
Start == IF Route!Found(given[1]) = Route!Nowhere THEN 0 ELSE AirportAt[given[1]]
LastOf(path) == IF path = << >> THEN Start ELSE path[Len(path)].at

(* A point that a nav aid's name stands for is the nearest to the place     *)
(* where the route was.                                                     *)
IsNearest(point, near) ==
  point.name \in DOMAIN NavAidsAt =>
    \A n \in DOMAIN NavAidsAt[point.name] :
      Route!DistanceDegrees(point.at, near) <= Route!DistanceDegrees(NavAidsAt[point.name][n], near)
NearPoints(path) ==
  \A i \in DOMAIN path :
    IsNearest(path[i], IF i = 1 THEN Start ELSE path[i - 1].at)

WordsInv ==
  /\ wayPoints \in Seq(WayPointSet)
  /\ routePhase \in {"parse", "crashed"} =>
       NearPoints(wayPoints) /\ lastCoord = LastOf(wayPoints)
  /\ routePhase \in {"great circle", "loaded"} =>
       /\ Len(wayPoints) >= 2
       /\ NearPoints(SubSeq(wayPoints, 2, Len(wayPoints) - 1))

(* An airport is missing as long as none was given. *)
AirportsInv ==
  /\ given \in (DOMAIN AirportAt \cup {Route!Nowhere}) \X (DOMAIN AirportAt \cup {Route!Nowhere})
  /\ origin = Route!Nowhere <=> given[1] = Route!Nowhere
  /\ dest = Route!Nowhere <=> given[2] = Route!Nowhere
  /\ routePhase \in {"great circle", "loaded"} => origin # Route!Nowhere /\ dest # Route!Nowhere
  /\ routePhase = "crashed" => origin = Route!Nowhere \/ dest = Route!Nowhere

(* The route as far as it has been made, of the points that have been added.*)
Added == 1..Len(reached)
KeptSoFar == {i \in Added : ~Route!OverDateLine(i)}
PathInv ==
  /\ Len(reached) <= Len(wayPoints)
  /\ \A i, j \in KeptSoFar : i < j => reached[i] < reached[j]
  /\ \A i \in KeptSoFar :
       reached[i] \in DOMAIN flightRoute /\ flightRoute[reached[i]] = wayPoints[i]
  /\ \A n \in DOMAIN flightRoute :
       flightRoute[n].name # Route!NoName => \E i \in KeptSoFar : n = reached[i]
  /\ reached = << >> => flightRoute = << >>
  /\ reached # << >> => reached[Len(reached)] = Len(flightRoute)
  /\ KeptSoFar = Added =>
       \A n \in 2..Len(flightRoute) :
         Route!DistanceDegrees(flightRoute[n - 1].at, flightRoute[n].at) < Route!LongLeg

RouteInv ==
  /\ Route!TypeOK /\ WordsInv /\ AirportsInv
  /\ routePhase \in {"parse", "crashed"} => flightRoute = << >> /\ reached = << >>
  /\ routePhase \in {"great circle", "loaded"} => PathInv
  /\ routePhase = "loaded" => Len(reached) = Len(wayPoints)

-----------------------------------------------------------------------------
LEMMA SubsetSeq == \A S, T : S \subseteq T => Seq(S) \subseteq Seq(T)
<1> SUFFICES ASSUME NEW S, NEW T, S \subseteq T, NEW s \in Seq(S) PROVE s \in Seq(T)
  OBVIOUS
<1> QED OBVIOUS

LEMMA PlacesTypes ==
  /\ Route!RoutePlaces \subseteq -179..179
  /\ \A code \in DOMAIN AirportAt : AirportAt[code] \in Route!RoutePlaces
  /\ \A word \in DOMAIN LatLonAt : LatLonAt[word] \in Route!RoutePlaces
  /\ \A id \in DOMAIN NavAidsAt :
       /\ NavAidsAt[id] \in Seq(-179..179) /\ NavAidsAt[id] # << >>
       /\ \A n \in DOMAIN NavAidsAt[id] : NavAidsAt[id][n] \in Route!RoutePlaces
<1>1. Route!RoutePlaces \subseteq -179..179
  BY RouteAssumption DEF Route!RouteTextConstants
<1>2. /\ \A code \in DOMAIN AirportAt : AirportAt[code] \in Route!RoutePlaces
      /\ \A word \in DOMAIN LatLonAt : LatLonAt[word] \in Route!RoutePlaces
  BY DEF Route!RoutePlaces, Route!PlacesOf
<1>3. ASSUME NEW id \in DOMAIN NavAidsAt
      PROVE  NavAidsAt[id] \in Seq(-179..179) /\ NavAidsAt[id] # << >>
  BY RouteAssumption DEF Route!RouteTextConstants
<1>4. ASSUME NEW id \in DOMAIN NavAidsAt, NEW n \in DOMAIN NavAidsAt[id]
      PROVE  NavAidsAt[id][n] \in Route!RoutePlaces
  <2>1. NavAidsAt[id][n] \in -179..179
    <3>1. \A S : NavAidsAt[id] \in Seq(S) => NavAidsAt[id][n] \in S
      OBVIOUS
    <3> QED BY <1>3, <3>1
  <2>2. NavAidsAt[id][n] \in Route!PlacesOf(NavAidsAt[id])
    BY DEF Route!PlacesOf
  <2> QED BY <2>1, <2>2 DEF Route!RoutePlaces
<1> QED BY <1>1, <1>2, <1>3, <1>4

LEMMA WayPointsAre ==
  \A s \in Seq(WayPointSet) : s \in Seq([name : Route!PointNames, at : -179..179])
<1>1. WayPointSet \subseteq [name : Route!PointNames, at : -179..179]
  BY PlacesTypes DEF WayPointSet
<1>2. PICK R : /\ WayPointSet \subseteq R
               /\ \A s \in Seq(R) : s \in Seq([name : Route!PointNames, at : -179..179])
  BY <1>1, Zenon
<1>3. Seq(WayPointSet) \subseteq Seq(R)
  BY <1>2, SubsetSeq, Zenon
<1> QED BY <1>2, <1>3, Zenon

LEMMA DistanceIs ==
  ASSUME NEW a \in -180..179, NEW b \in -180..179
  PROVE  Route!DistanceDegrees(a, b) \in Nat
BY DEF Route!DistanceDegrees, Route!AbsDiff

LEMMA NearestAtIs ==
  ASSUME NEW id \in DOMAIN NavAidsAt, NEW near \in -179..179
  PROVE  /\ Route!NearestAt(id, near) \in Route!RoutePlaces
         /\ \A n \in DOMAIN NavAidsAt[id] :
              Route!DistanceDegrees(Route!NearestAt(id, near), near)
                <= Route!DistanceDegrees(NavAidsAt[id][n], near)
<1> PICK places : places = NavAidsAt[id]
  OBVIOUS
<1>1. /\ places \in Seq(-179..179) /\ places # << >>
      /\ \A n \in DOMAIN places : places[n] \in Route!RoutePlaces
  BY PlacesTypes
<1>2. DOMAIN places = 1..Len(places) /\ 1 \in DOMAIN places /\ DOMAIN places \subseteq Nat
  BY <1>1
<1> PICK D : D = [n \in DOMAIN places |-> Route!DistanceDegrees(places[n], near)]
  OBVIOUS
<1>3. ASSUME NEW n \in DOMAIN places
      PROVE  D[n] \in Nat /\ D[n] = Route!DistanceDegrees(places[n], near)
  <2>1. places[n] \in -179..179
    BY <1>1, PlacesTypes
  <2>2. places[n] \in -180..179 /\ near \in -180..179
    BY <2>1
  <2> QED BY <2>2, DistanceIs
<1>4. PICK a \in DOMAIN places : /\ \A m \in DOMAIN places : D[a] <= D[m]
                                 /\ \A m \in DOMAIN places : m < a => D[a] < D[m]
  <2>1. PICK S : S = DOMAIN places
    OBVIOUS
  <2>2. 1 \in S /\ S \subseteq Nat /\ \A n \in S : D[n] \in Nat
    BY <1>2, <1>3, <2>1
  <2>3. \E n \in S : /\ \A m \in S : D[n] <= D[m]
                     /\ \A m \in S : m < n => D[n] < D[m]
    BY <2>2, LeastOf
  <2> QED BY <2>1, <2>3
<1>5. \A m \in DOMAIN places :
        Route!DistanceDegrees(places[a], near) <= Route!DistanceDegrees(places[m], near)
  BY <1>3, <1>4
<1>6. ASSUME NEW m \in 1..(a - 1)
      PROVE  ~\A k \in DOMAIN places :
                Route!DistanceDegrees(places[m], near) <= Route!DistanceDegrees(places[k], near)
  <2>1. m \in DOMAIN places /\ m < a
    BY <1>2
  <2>2. D[a] < D[m] /\ D[a] \in Nat /\ D[m] \in Nat
    BY <1>3, <1>4, <2>1
  <2>3. ~(Route!DistanceDegrees(places[m], near) <= Route!DistanceDegrees(places[a], near))
    BY <1>3, <2>1, <2>2
  <2> QED BY <2>3
<1>7. \E n \in DOMAIN NavAidsAt[id] :
        /\ \A m \in DOMAIN NavAidsAt[id] :
             Route!DistanceDegrees(NavAidsAt[id][n], near) <= Route!DistanceDegrees(NavAidsAt[id][m], near)
        /\ \A m \in 1..(n - 1) :
             ~\A k \in DOMAIN NavAidsAt[id] :
                Route!DistanceDegrees(NavAidsAt[id][m], near)
                  <= Route!DistanceDegrees(NavAidsAt[id][k], near)
  BY <1>5, <1>6
<1>8. \E n \in DOMAIN places :
        /\ Route!NearestAt(id, near) = places[n]
        /\ \A m \in DOMAIN places :
             Route!DistanceDegrees(places[n], near) <= Route!DistanceDegrees(places[m], near)
  BY <1>7, Zenon DEF Route!NearestAt
<1> QED BY <1>1, <1>8

LEMMA RouteInit == Route!Init => RouteInv
<1> SUFFICES ASSUME Route!Init PROVE RouteInv
  OBVIOUS
<1>0. /\ navData \in {"littleNavMap", "base"} /\ route \in Routes
      /\ given \in (DOMAIN AirportAt \cup {Route!Nowhere}) \X (DOMAIN AirportAt \cup {Route!Nowhere})
      /\ routePhase = "parse" /\ routeState = "START"
      /\ origin = Route!Found(given[1]) /\ dest = Route!Found(given[2])
      /\ lastCoord = Start
      /\ wayPoints = << >> /\ flightRoute = << >> /\ reached = << >>
  BY DEF Route!Init, Start, Route!Found
<1>1. /\ given[1] \in DOMAIN AirportAt \cup {Route!Nowhere}
      /\ given[2] \in DOMAIN AirportAt \cup {Route!Nowhere}
      /\ Route!Nowhere \notin DOMAIN AirportAt
  BY <1>0, RouteAssumption DEF Route!RouteTextConstants
<1>2. /\ origin \in DOMAIN AirportAt \cup {Route!Nowhere} /\ dest \in DOMAIN AirportAt \cup {Route!Nowhere}
      /\ (origin = Route!Nowhere <=> given[1] = Route!Nowhere)
      /\ (dest = Route!Nowhere <=> given[2] = Route!Nowhere)
  BY <1>0, <1>1 DEF Route!Found
<1>3. lastCoord \in -179..179
  <2>1. CASE Route!Found(given[1]) = Route!Nowhere
    BY <1>0, <2>1 DEF Start
  <2>2. CASE Route!Found(given[1]) # Route!Nowhere
    <3>1. given[1] \in DOMAIN AirportAt
      BY <2>2 DEF Route!Found
    <3>2. AirportAt[given[1]] \in -179..179
      BY <3>1, PlacesTypes
    <3> QED BY <1>0, <2>2, <3>2 DEF Start
  <2> QED BY <2>1, <2>2
<1>4. Route!TypeOK
  BY <1>0, <1>2, <1>3 DEF Route!TypeOK
<1>5. WordsInv
  BY <1>0 DEF WordsInv, NearPoints, LastOf
<1>6. AirportsInv
  BY <1>0, <1>2 DEF AirportsInv
<1> QED BY <1>0, <1>4, <1>5, <1>6 DEF RouteInv

(* A word that is no way point. *)
LEMMA OtherWord ==
  ASSUME RouteInv, routePhase = "parse",
         UNCHANGED <<navData, route, given, wayPoints, lastCoord, flightRoute, reached>>,
         routePhase' \in {"parse", "crashed"},
         routeState' \in {"START", "EN_ROUTE", "END"},
         origin' \in DOMAIN AirportAt \cup {Route!Nowhere},
         dest' \in DOMAIN AirportAt \cup {Route!Nowhere},
         origin' = Route!Nowhere <=> origin = Route!Nowhere, dest' = Route!Nowhere <=> dest = Route!Nowhere,
         routePhase' = "crashed" => origin = Route!Nowhere \/ dest = Route!Nowhere
  PROVE  RouteInv'
<1>0. Route!TypeOK /\ WordsInv /\ AirportsInv /\ flightRoute = << >> /\ reached = << >>
  BY DEF RouteInv
<1>1. Route!TypeOK'
  BY <1>0 DEF Route!TypeOK
<1>2. WordsInv'
  <2>1. NearPoints(wayPoints)' = NearPoints(wayPoints) /\ LastOf(wayPoints)' = LastOf(wayPoints)
    BY DEF NearPoints, IsNearest, LastOf, Start
  <2> QED BY <1>0, <2>1 DEF WordsInv
<1>3. AirportsInv'
  BY <1>0 DEF AirportsInv
<1> QED BY <1>0, <1>1, <1>2, <1>3 DEF RouteInv

LEMMA WayPointStep == RouteInv /\ Route!WayPoint => RouteInv'
<1> SUFFICES ASSUME RouteInv, Route!WayPoint PROVE RouteInv'
  OBVIOUS
<1> PICK at : at = IF Route!IsNavAid THEN Route!NearestAt(Route!Word, lastCoord) ELSE LatLonAt[Route!Word]
  OBVIOUS
<1> PICK point : point = [name |-> Route!Word, at |-> at]
  OBVIOUS
<1>0. Route!TypeOK /\ WordsInv /\ AirportsInv
  BY DEF RouteInv
<1>1. /\ routePhase = "parse" /\ routePhase' = "parse" /\ routeState' = "EN_ROUTE"
      /\ Route!Word \in DOMAIN NavAidsAt \cup DOMAIN LatLonAt
      /\ wayPoints' = Append(wayPoints, point)
      /\ lastCoord' = at
      /\ UNCHANGED <<navData, route, given, origin, dest, flightRoute, reached>>
  BY DEF Route!WayPoint, Route!EnRoute, Route!Parsing
<1>2. lastCoord \in -179..179 /\ flightRoute = << >> /\ reached = << >>
  BY <1>0, <1>1 DEF Route!TypeOK, RouteInv
<1>3. at \in Route!RoutePlaces /\ IsNearest(point, lastCoord)
  <2>1. CASE Route!Word \in DOMAIN NavAidsAt
    <3>1. Route!Word \notin DOMAIN AirportAt
      BY <2>1, RouteAssumption DEF Route!RouteTextConstants
    <3>2. at = Route!NearestAt(Route!Word, lastCoord)
      BY <2>1, <3>1 DEF Route!IsNavAid, Route!IsAirport
    <3> QED BY <1>2, <2>1, <3>2, NearestAtIs DEF IsNearest
  <2>2. CASE Route!Word \notin DOMAIN NavAidsAt
    BY <1>1, <2>2, PlacesTypes DEF IsNearest, Route!IsNavAid
  <2> QED BY <2>1, <2>2
<1>4. /\ wayPoints \in Seq(WayPointSet) /\ Len(wayPoints) \in Nat
      /\ DOMAIN wayPoints = 1..Len(wayPoints)
      /\ NearPoints(wayPoints) /\ lastCoord = LastOf(wayPoints)
  BY <1>0, <1>1 DEF WordsInv
<1>5. point \in WayPointSet
  BY <1>1, <1>3 DEF WayPointSet, Route!PointNames
<1>6. /\ wayPoints' \in Seq(WayPointSet)
      /\ Len(wayPoints') = Len(wayPoints) + 1 /\ DOMAIN wayPoints' = 1..Len(wayPoints) + 1
      /\ wayPoints'[Len(wayPoints) + 1] = point
      /\ \A i \in 1..Len(wayPoints) : wayPoints'[i] = wayPoints[i]
  BY <1>1, <1>4, <1>5
<1>7. NearPoints(wayPoints')
  <2> SUFFICES ASSUME NEW i \in DOMAIN wayPoints'
               PROVE  IsNearest(wayPoints'[i], IF i = 1 THEN Start ELSE wayPoints'[i - 1].at)
    BY DEF NearPoints
  <2>1. CASE i \in DOMAIN wayPoints
    <3>1. i = 1 \/ i - 1 \in 1..Len(wayPoints)
      BY <1>4, <2>1
    <3> QED BY <1>4, <1>6, <2>1, <3>1 DEF NearPoints
  <2>2. CASE i = Len(wayPoints) + 1
    <3>1. lastCoord = IF i = 1 THEN Start ELSE wayPoints'[i - 1].at
      BY <1>4, <1>6, <2>2 DEF LastOf
    <3> QED BY <1>3, <1>6, <2>2, <3>1
  <2> QED BY <1>4, <1>6, <2>1, <2>2
<1>8. /\ Start' = Start /\ \A path : NearPoints(path)' = NearPoints(path)
      /\ \A path : LastOf(path)' = LastOf(path)
  BY <1>1 DEF Start, NearPoints, IsNearest, LastOf
<1>9. LastOf(wayPoints') = at
  BY <1>4, <1>6 DEF LastOf
<1>10. WordsInv'
  BY <1>1, <1>6, <1>7, <1>8, <1>9 DEF WordsInv
<1>11. Route!TypeOK'
  <2>1. at \in -179..179 /\ WayPointSet \subseteq [name : Route!PointNames, at : -179..179]
    BY <1>3, PlacesTypes DEF WayPointSet
  <2>2. wayPoints' \in Seq([name : Route!PointNames, at : -179..179])
    <3>1. wayPoints' \in Seq(WayPointSet)
      BY <1>6
    <3> QED BY <3>1, WayPointsAre
  <2> QED BY <1>0, <1>1, <2>1, <2>2 DEF Route!TypeOK
<1>12. AirportsInv'
  BY <1>0, <1>1 DEF AirportsInv
<1> QED BY <1>1, <1>2, <1>10, <1>11, <1>12 DEF RouteInv

LEMMA EndStep == RouteInv /\ Route!EndOfRoute => RouteInv'
<1> SUFFICES ASSUME RouteInv, Route!EndOfRoute PROVE RouteInv'
  OBVIOUS
<1>0. Route!TypeOK /\ WordsInv /\ AirportsInv
  BY DEF RouteInv
<1>1. CASE (origin = Route!Nowhere \/ dest = Route!Nowhere) /\ Route!Crash /\ routePhase = "parse"
  BY <1>0, <1>1, OtherWord DEF Route!Crash, Route!TypeOK
<1>2. CASE /\ origin # Route!Nowhere /\ dest # Route!Nowhere /\ routePhase = "parse"
           /\ routePhase' = "great circle"
           /\ wayPoints' = Route!Resolved
           /\ UNCHANGED <<navData, route, given, rest, routeState, origin, dest,
                          lastCoord, flightRoute, reached>>
  <2> PICK first : first = [name |-> origin, at |-> AirportAt[origin]]
    OBVIOUS
  <2> PICK last : last = [name |-> dest, at |-> AirportAt[dest]]
    OBVIOUS
  <2>1. origin \in DOMAIN AirportAt /\ dest \in DOMAIN AirportAt
    BY <1>0, <1>2 DEF Route!TypeOK
  <2>2. first \in WayPointSet /\ last \in WayPointSet
    BY <2>1, PlacesTypes DEF WayPointSet, Route!PointNames
  <2>3. wayPoints \in Seq(WayPointSet) /\ NearPoints(wayPoints)
    BY <1>0, <1>2 DEF WordsInv
  <2>4. wayPoints' = <<first>> \o wayPoints \o <<last>>
    BY <1>2 DEF Route!Resolved
  <2>5. /\ wayPoints' \in Seq(WayPointSet) /\ Len(wayPoints') = Len(wayPoints) + 2
        /\ \A i \in 1..Len(wayPoints) : wayPoints'[i + 1] = wayPoints[i]
    <3>1. <<first>> \in Seq(WayPointSet) /\ <<last>> \in Seq(WayPointSet)
      BY <2>2
    <3>2. /\ <<first>> \o wayPoints \in Seq(WayPointSet)
          /\ Len(<<first>> \o wayPoints) = Len(wayPoints) + 1
          /\ \A i \in 1..Len(wayPoints) : (<<first>> \o wayPoints)[i + 1] = wayPoints[i]
      BY <2>3, <3>1
    <3> QED BY <2>3, <2>4, <3>1, <3>2
  <2> PICK middle : middle = SubSeq(wayPoints', 2, Len(wayPoints') - 1)
    OBVIOUS
  <2>6. middle = wayPoints
    <3>1. Len(wayPoints') - 1 = Len(wayPoints) + 1 /\ Len(wayPoints) \in Nat
      BY <2>3, <2>5
    <3>2. middle \in Seq(WayPointSet) /\ Len(middle) = Len(wayPoints)
      BY <2>5, <3>1
    <3>3. \A i \in 1..Len(wayPoints) : middle[i] = wayPoints'[i + 1]
      BY <2>5, <3>1
    <3> QED BY <2>3, <2>5, <3>2, <3>3
  <2>7. \A path : NearPoints(path)' = NearPoints(path)
    BY <1>2 DEF Start, NearPoints, IsNearest
  <2>8. WordsInv'
    <3>1. Len(wayPoints') >= 2
      BY <2>3, <2>5
    <3>2. NearPoints(SubSeq(wayPoints, 2, Len(wayPoints) - 1))'
      <4>1. NearPoints(SubSeq(wayPoints', 2, Len(wayPoints') - 1))
        BY <2>3, <2>6
      <4>2. Start' = Start
        BY <1>2 DEF Start
      <4> QED BY <4>1, <4>2 DEF NearPoints, IsNearest
    <3> QED BY <1>2, <2>5, <3>1, <3>2 DEF WordsInv
  <2>9. Route!TypeOK'
    <3>1. wayPoints' \in Seq([name : Route!PointNames, at : -179..179])
      BY <2>5, WayPointsAre
    <3> QED BY <1>0, <1>2, <3>1 DEF Route!TypeOK
  <2>10. AirportsInv'
    BY <1>0, <1>2 DEF AirportsInv
  <2>11. flightRoute' = << >> /\ reached' = << >>
    BY <1>2 DEF RouteInv
  <2>12. PathInv'
    BY <2>5, <2>3, <2>11 DEF PathInv, KeptSoFar, Added
  <2> QED BY <1>2, <2>8, <2>9, <2>10, <2>12 DEF RouteInv
<1> QED BY <1>1, <1>2 DEF Route!EndOfRoute

LEMMA LongitudesAre == \A p \in Longitudes : p \in Int /\ p \in -180..179
BY DEF Longitudes

LEMMA ElementIs ==
  ASSUME NEW S, NEW s \in Seq(S), NEW i \in 1..Len(s)
  PROVE  s[i] \in S
OBVIOUS

LEMMA ConcatIs ==
  ASSUME NEW S, NEW s \in Seq(S), NEW t \in Seq(S)
  PROVE  /\ s \o t \in Seq(S) /\ Len(s \o t) = Len(s) + Len(t)
         /\ DOMAIN (s \o t) = 1..(Len(s) + Len(t))
         /\ \A n \in 1..Len(s) : (s \o t)[n] = s[n]
         /\ \A n \in 1..Len(t) : (s \o t)[Len(s) + n] = t[n]
OBVIOUS

LEMMA AppendIs ==
  ASSUME NEW S, NEW s \in Seq(S), NEW e \in S
  PROVE  /\ Append(s, e) \in Seq(S) /\ Len(Append(s, e)) = Len(s) + 1
         /\ Append(s, e)[Len(s) + 1] = e
         /\ \A n \in 1..Len(s) : Append(s, e)[n] = s[n]
OBVIOUS

LEMMA WayPointIs ==
  ASSUME NEW w \in WayPointSet
  PROVE  /\ w.name \in Route!PointNames /\ w.at \in Route!RoutePlaces /\ w.at \in -179..179
         /\ w = [name |-> w.name, at |-> w.at] /\ w \in PointSet
<1>1. /\ w.name \in Route!PointNames /\ w.at \in Route!RoutePlaces
      /\ w = [name |-> w.name, at |-> w.at]
  BY Zenon DEF WayPointSet
<1>2. w.at \in -179..179
  BY <1>1, PlacesTypes
<1>3. w.at \in -180..179
  BY <1>2
<1>4. \A name \in Route!PointNames \cup {Route!NoName}, at \in -180..179 :
        [name |-> name, at |-> at] \in PointSet
  BY Zenon DEF PointSet
<1>5. w.name \in Route!PointNames \cup {Route!NoName}
  BY <1>1
<1> QED BY <1>1, <1>2, <1>3, <1>4, <1>5, Zenon

(* What a way point adds to the route. *)
IsPath(s, i) ==
  /\ s \in Seq(PointSet)
  /\ Route!OverDateLine(i) => s = << >>
  /\ ~Route!OverDateLine(i) =>
       /\ Len(s) >= 1 /\ s[Len(s)] = wayPoints[i]
       /\ \A n \in 1..Len(s) - 1 : s[n].name = Route!NoName
       /\ \A n \in 2..Len(s) : Route!DistanceDegrees(s[n - 1].at, s[n].at) < Route!LongLeg
       /\ i > 1 => Route!DistanceDegrees(wayPoints[i - 1].at, s[1].at) < Route!LongLeg

LEMMA PointsToIs ==
  ASSUME wayPoints \in Seq(WayPointSet), NEW i \in 1..Len(wayPoints)
  PROVE  IsPath(Route!PointsTo(i), i)
<1> PICK s : s = Route!PointsTo(i)
  OBVIOUS
<1> PICK to : to = wayPoints[i]
  OBVIOUS
<1>0. \A j \in 1..Len(wayPoints) : wayPoints[j] \in WayPointSet
  BY ElementIs
<1>1. /\ i \in Nat /\ to \in WayPointSet /\ to.name \in Route!PointNames /\ to.at \in Route!RoutePlaces
      /\ to = [name |-> to.name, at |-> to.at]
  <2>1. to \in WayPointSet
    BY <1>0
  <2> QED BY <2>1, WayPointIs
<1>2. to.at \in -179..179
  BY <1>1, PlacesTypes
<1>3. to \in PointSet
  BY <1>1, WayPointIs
<1>4. CASE ~Route!IsLong(i)
  <2>1. s = <<to>> /\ ~Route!OverDateLine(i)
    BY <1>4 DEF Route!PointsTo, Route!OverDateLine
  <2>2. /\ s \in Seq(PointSet) /\ Len(s) = 1 /\ s[1] = to
    <3>1. \A S : \A e \in S : <<e>> \in Seq(S) /\ Len(<<e>>) = 1 /\ <<e>>[1] = e
      OBVIOUS
    <3> QED BY <1>3, <2>1, <3>1, Zenon
  <2>3. ASSUME i > 1 PROVE Route!DistanceDegrees(wayPoints[i - 1].at, s[1].at) < Route!LongLeg
    <3>1. i - 1 \in 1..Len(wayPoints)
      BY <2>3
    <3>2. wayPoints[i - 1].at \in -179..179
      BY <1>0, <3>1, WayPointIs
    <3>3. Route!DistanceDegrees(wayPoints[i - 1].at, to.at) \in Nat
      <4>1. wayPoints[i - 1].at \in -180..179 /\ to.at \in -180..179
        BY <1>2, <3>2
      <4> QED BY <4>1, DistanceIs
    <3>4. ~(Route!DistanceDegrees(wayPoints[i - 1].at, to.at) >= Route!LongLeg)
      BY <1>4, <2>3 DEF Route!IsLong
    <3>5. \A d \in Nat : ~(d >= Route!LongLeg) => d < Route!LongLeg
      BY DEF Route!LongLeg
    <3> QED BY <2>2, <3>3, <3>4, <3>5, Zenon
  <2>4. (\A n \in 1..Len(s) - 1 : FALSE) /\ \A n \in 2..Len(s) : FALSE
    BY <2>2
  <2> QED BY <2>1, <2>2, <2>3, <2>4 DEF IsPath
<1>5. CASE Route!IsLong(i)
  <2> PICK from : from = wayPoints[i - 1]
    OBVIOUS
  <2>1. i > 1 /\ i - 1 \in 1..Len(wayPoints)
    BY <1>5 DEF Route!IsLong
  <2>2. from.at \in Route!RoutePlaces
    BY <1>0, <2>1, WayPointIs
  <2>3. from.at \in Longitudes /\ to.at \in Longitudes
    <3>1. from.at \in -179..179
      BY <2>2, PlacesTypes
    <3> QED BY <1>2, <3>1 DEF Longitudes
  <2>4. Route!AbsDiff(from.at, to.at) # 180 /\ Route!AbsDiff(from.at, to.at) \in Int
    <3>1. Route!AbsDiff(from.at, to.at) # 180
      BY <1>1, <2>2, RouteAssumption DEF Route!RouteTextConstants
    <3>2. from.at \in Int /\ to.at \in Int
      BY <2>3, LongitudesAre, Zenon
    <3> QED BY <3>1, <3>2 DEF Route!AbsDiff
  <2>5. Route!DistanceDegrees(from.at, to.at) >= Route!LongLeg
    BY <1>5 DEF Route!IsLong
  <2> PICK n : n = Route!PointsOf(Route!DistanceDegrees(from.at, to.at))
    OBVIOUS
  <2> PICK arc : arc = Route!Arc(from.at, to.at, n)
    OBVIOUS
  <2>6. s = [j \in 1..Len(arc) |->
               [name |-> IF j = Len(arc) THEN to.name ELSE Route!NoName, at |-> arc[j]]]
    BY <1>5 DEF Route!PointsTo, Route!GreatCirclePath
  <2>7. Route!OverDateLine(i) <=> Route!AbsDiff(from.at, to.at) > 180
    BY <1>5 DEF Route!OverDateLine
  <2>8. CASE Route!OverDateLine(i)
    <3>1. arc = << >>
      BY <2>3, <2>4, <2>5, <2>7, <2>8, ArcIs
    <3>2. s = << >>
      BY <2>6, <3>1
    <3> QED BY <2>8, <3>2 DEF IsPath
  <2>9. CASE ~Route!OverDateLine(i)
    <3>1. Route!AbsDiff(from.at, to.at) < 180
      BY <2>4, <2>7, <2>9
    <3>2. /\ n \in Nat /\ n >= 3 /\ arc \in [1..n -> Longitudes]
          /\ arc[1] = from.at /\ arc[n] = to.at
          /\ \A j \in 2..n : Route!DistanceDegrees(arc[j - 1], arc[j]) < Route!LongLeg
      BY <2>3, <2>4, <2>5, <3>1, ArcIs
    <3>3. Len(arc) = n
      BY <3>2
    <3>4. /\ DOMAIN s = 1..n
          /\ \A j \in 1..n : s[j] = [name |-> IF j = n THEN to.name ELSE Route!NoName, at |-> arc[j]]
      BY <2>6, <3>3
    <3>5. s \in Seq(PointSet) /\ Len(s) = n
      <4>1. ASSUME NEW j \in 1..n PROVE s[j] \in PointSet
        <5>1. arc[j] \in -180..179
          <6>1. arc[j] \in Longitudes
            BY <3>2
          <6> QED BY <6>1, LongitudesAre, Zenon
        <5>2. \A name \in Route!PointNames \cup {Route!NoName} : [name |-> name, at |-> arc[j]] \in PointSet
          BY <5>1 DEF PointSet
        <5> QED BY <1>1, <3>4, <5>2
      <4>2. s \in [1..n -> PointSet]
        BY <2>6, <3>3, <3>4, <4>1
      <4>3. \A S : \A f \in [1..n -> S] : f \in Seq(S) /\ Len(f) = n
        BY <3>2
      <4> QED BY <4>2, <4>3, Zenon
    <3>6. /\ s[n] = to
          /\ \A j \in 1..n - 1 : s[j].name = Route!NoName
          /\ \A j \in 1..n : s[j].at = arc[j]
      <4>1. n \in 1..n
        BY <3>2
      <4>2. s[n] = to
        BY <1>1, <3>2, <3>4, <4>1
      <4>3. \A j \in 1..n - 1 : j \in 1..n /\ j # n
        BY <3>2
      <4> QED BY <3>4, <4>2, <4>3
    <3>7. \A j \in 2..n : Route!DistanceDegrees(s[j - 1].at, s[j].at) < Route!LongLeg
      <4>1. \A j \in 2..n : j \in 1..n /\ j - 1 \in 1..n
        BY <3>2
      <4> QED BY <3>2, <3>6, <4>1
    <3>8. Route!DistanceDegrees(wayPoints[i - 1].at, s[1].at) < Route!LongLeg
      <4>1. s[1].at = from.at
        BY <3>2, <3>6
      <4>2. \A p \in Int : Route!DistanceDegrees(p, p) < Route!LongLeg
        BY DEF Route!DistanceDegrees, Route!AbsDiff, Route!LongLeg
      <4>3. from.at \in Int
        BY <2>3 DEF Longitudes
      <4> QED BY <4>1, <4>2, <4>3
    <3> QED BY <2>9, <3>2, <3>5, <3>6, <3>7, <3>8 DEF IsPath
  <2> QED BY <2>8, <2>9
<1> QED BY <1>4, <1>5

LEMMA AddPointStep == RouteInv /\ Route!AddPoint => RouteInv'
<1> SUFFICES ASSUME RouteInv, Route!AddPoint PROVE RouteInv'
  OBVIOUS
<1> PICK k : k = Len(reached) + 1
  OBVIOUS
<1> PICK s : s = Route!PointsTo(k)
  OBVIOUS
<1> PICK size : size = Len(flightRoute)
  OBVIOUS
<1>0. Route!TypeOK /\ WordsInv /\ AirportsInv
  BY DEF RouteInv
<1>1. /\ routePhase = "great circle" /\ Len(reached) < Len(wayPoints)
      /\ flightRoute' = flightRoute \o s
      /\ reached' = Append(reached, Len(flightRoute'))
      /\ UNCHANGED <<navData, route, given, routePhase, rest, routeState, origin,
                     dest, lastCoord, wayPoints>>
  BY DEF Route!AddPoint
<1>2. PathInv
  BY <1>1 DEF RouteInv
<1>3. /\ wayPoints \in Seq(WayPointSet) /\ reached \in Seq(Nat) /\ flightRoute \in Seq(PointSet)
      /\ Len(reached) \in Nat /\ Len(wayPoints) \in Nat
      /\ size \in Nat /\ DOMAIN flightRoute = 1..size
  <2>1. /\ wayPoints \in Seq(WayPointSet) /\ reached \in Seq(Nat)
        /\ flightRoute \in Seq(PointSet)
    BY <1>0, Zenon DEF WordsInv, Route!TypeOK, PointSet
  <2>2. \A S : \A t \in Seq(S) : Len(t) \in Nat /\ DOMAIN t = 1..Len(t)
    OBVIOUS
  <2> QED BY <2>1, <2>2, Zenon
<1>4. k \in 1..Len(wayPoints) /\ k \in Nat /\ k > 0
  <2>1. \A m, n \in Nat : m < n => m + 1 \in 1..n /\ m + 1 \in Nat /\ m + 1 > 0
    OBVIOUS
  <2> QED BY <1>1, <1>3, <2>1, Zenon
<1>5. IsPath(s, k)
  BY <1>3, <1>4, PointsToIs
<1>6. s \in Seq(PointSet) /\ Len(s) \in Nat
  BY <1>5 DEF IsPath
<1>7. /\ flightRoute' \in Seq(PointSet) /\ Len(flightRoute') = size + Len(s)
      /\ DOMAIN flightRoute' = 1..(size + Len(s))
      /\ \A n \in 1..size : flightRoute'[n] = flightRoute[n]
      /\ \A n \in 1..Len(s) : flightRoute'[size + n] = s[n]
  <2>1. /\ flightRoute \o s \in Seq(PointSet) /\ Len(flightRoute \o s) = Len(flightRoute) + Len(s)
        /\ DOMAIN (flightRoute \o s) = 1..(Len(flightRoute) + Len(s))
        /\ \A n \in 1..Len(flightRoute) : (flightRoute \o s)[n] = flightRoute[n]
        /\ \A n \in 1..Len(s) : (flightRoute \o s)[Len(flightRoute) + n] = s[n]
    <3>1. flightRoute \in Seq(PointSet) /\ s \in Seq(PointSet)
      BY <1>3, <1>6
    <3> QED BY <3>1, ConcatIs
  <2>2. flightRoute' = flightRoute \o s /\ size = Len(flightRoute)
    BY <1>1
  <2> QED BY <2>1, <2>2, Zenon
<1>8. /\ reached' \in Seq(Nat) /\ Len(reached') = k /\ reached'[k] = size + Len(s)
      /\ \A i \in 1..k - 1 : reached'[i] = reached[i]
      /\ Len(reached) = k - 1
  <2>1. size + Len(s) \in Nat /\ Len(flightRoute') = size + Len(s) /\ Len(reached) = k - 1
    BY <1>3, <1>6, <1>7
  <2>2. reached' = Append(reached, size + Len(s))
    BY <1>1, <2>1, Zenon
  <2>3. Len(reached) + 1 = k
    BY <1>3, <2>1
  <2>4. /\ Append(reached, size + Len(s)) \in Seq(Nat)
        /\ Len(Append(reached, size + Len(s))) = Len(reached) + 1
        /\ Append(reached, size + Len(s))[Len(reached) + 1] = size + Len(s)
        /\ \A n \in 1..Len(reached) : Append(reached, size + Len(s))[n] = reached[n]
    BY <1>3, <2>1, AppendIs
  <2> QED BY <2>1, <2>2, <2>3, <2>4, Zenon
<1>9. /\ \A i : Route!OverDateLine(i)' = Route!OverDateLine(i)
      /\ KeptSoFar' = {i \in 1..k : ~Route!OverDateLine(i)}
      /\ KeptSoFar = {i \in 1..k - 1 : ~Route!OverDateLine(i)}
  <2>1. \A i : Route!OverDateLine(i)' = Route!OverDateLine(i)
    BY <1>1 DEF Route!OverDateLine, Route!IsLong
  <2> QED BY <1>8, <2>1 DEF KeptSoFar, Added
<1>10. ASSUME NEW i \in KeptSoFar' PROVE i \in KeptSoFar \/ (i = k /\ ~Route!OverDateLine(k))
  BY <1>4, <1>9
<1>11. KeptSoFar \subseteq KeptSoFar' /\ (~Route!OverDateLine(k) => k \in KeptSoFar')
  BY <1>4, <1>9
<1>12. ASSUME NEW i \in KeptSoFar
       PROVE  /\ i \in 1..k - 1 /\ reached'[i] = reached[i]
              /\ reached[i] \in 1..size /\ flightRoute'[reached[i]] = wayPoints[i]
  <2>1. i \in 1..k - 1
    BY <1>9
  <2>2. reached[i] \in 1..size /\ flightRoute[reached[i]] = wayPoints[i]
    BY <1>2, <1>3 DEF PathInv
  <2> QED BY <1>7, <1>8, <2>1, <2>2
<1>13. PathInv'
  <2>1. Len(reached') <= Len(wayPoints')
    <3>1. k <= Len(wayPoints)
      BY <1>3, <1>4
    <3> QED BY <1>1, <1>8, <3>1, Zenon
  <2>2. ASSUME NEW i \in KeptSoFar', NEW j \in KeptSoFar', i < j PROVE reached'[i] < reached'[j]
    <3>1. CASE i \in KeptSoFar /\ j \in KeptSoFar
      BY <1>2, <1>12, <2>2, <3>1 DEF PathInv
    <3>2. CASE i \in KeptSoFar /\ j = k /\ ~Route!OverDateLine(k)
      <4>1. Len(s) >= 1
        BY <1>5, <3>2 DEF IsPath
      <4>2. reached'[i] \in 1..size
        BY <1>12, <3>2
      <4> QED BY <1>3, <1>6, <1>8, <3>2, <4>1, <4>2
    <3>3. CASE i = k
      <4>1. j \in 1..k
        BY <1>9
      <4> QED BY <1>4, <2>2, <3>3, <4>1
    <3> QED BY <1>10, <3>1, <3>2, <3>3
  <2>3. ASSUME NEW i \in KeptSoFar'
        PROVE  reached'[i] \in DOMAIN flightRoute' /\ flightRoute'[reached'[i]] = wayPoints'[i]
    <3>1. CASE i \in KeptSoFar
      <4>1. \A n \in 1..size : n \in 1..(size + Len(s))
        BY <1>3, <1>6
      <4> QED BY <1>1, <1>7, <1>12, <3>1, <4>1, Zenon
    <3>2. CASE i = k /\ ~Route!OverDateLine(k)
      <4>1. Len(s) >= 1 /\ s[Len(s)] = wayPoints[k]
        BY <1>5, <3>2 DEF IsPath
      <4>2. size + Len(s) \in 1..(size + Len(s)) /\ Len(s) \in 1..Len(s)
        BY <1>3, <1>6, <4>1
      <4> QED BY <1>1, <1>7, <1>8, <3>2, <4>1, <4>2
    <3> QED BY <1>10, <3>1, <3>2
  <2>4. ASSUME NEW n \in DOMAIN flightRoute', flightRoute'[n].name # Route!NoName
        PROVE  \E i \in KeptSoFar' : n = reached'[i]
    <3>1. CASE n \in 1..size
      <4>1. PICK i \in KeptSoFar : n = reached[i]
        BY <1>2, <1>3, <1>7, <2>4, <3>1 DEF PathInv
      <4> QED BY <1>11, <1>12, <4>1
    <3>2. CASE n \notin 1..size
      <4>1. n - size \in 1..Len(s) /\ n = size + (n - size)
        BY <1>3, <1>6, <1>7, <3>2
      <4>2. flightRoute'[n] = s[n - size]
        BY <1>7, <4>1
      <4>3. ~Route!OverDateLine(k)
        <5>1. SUFFICES ASSUME Route!OverDateLine(k) PROVE FALSE
          OBVIOUS
        <5>2. s = << >>
          BY <1>5, <5>1 DEF IsPath
        <5> QED BY <4>1, <5>2
      <4>4. n - size = Len(s)
        <5>1. SUFFICES ASSUME n - size # Len(s) PROVE FALSE
          OBVIOUS
        <5>2. n - size \in 1..Len(s) - 1
          BY <1>6, <4>1, <5>1
        <5>3. s[n - size].name = Route!NoName
          BY <1>5, <4>3, <5>2 DEF IsPath
        <5> QED BY <2>4, <4>2, <5>3
      <4> QED BY <1>8, <1>11, <4>1, <4>3, <4>4
    <3> QED BY <3>1, <3>2
  <2>5. reached' # << >> /\ reached'[Len(reached')] = Len(flightRoute')
    BY <1>4, <1>7, <1>8
  <2>6. ASSUME KeptSoFar' = Added', NEW n \in 2..Len(flightRoute')
        PROVE  Route!DistanceDegrees(flightRoute'[n - 1].at, flightRoute'[n].at) < Route!LongLeg
    <3>1. \A i \in 1..k : ~Route!OverDateLine(i)
      BY <1>8, <1>9, <2>6 DEF Added
    <3>2. KeptSoFar = Added /\ ~Route!OverDateLine(k)
      <4>1. \A i \in 1..k - 1 : i \in 1..k
        BY <1>4
      <4>2. k \in 1..k
        BY <1>4
      <4> QED BY <1>8, <1>9, <3>1, <4>1, <4>2 DEF Added
    <3>3. n \in Nat /\ n >= 2 /\ n <= size + Len(s)
      BY <1>3, <1>6, <1>7
    <3>4. CASE n <= size
      <4>1. n \in 1..size /\ n - 1 \in 1..size /\ n \in 2..size
        BY <1>3, <3>3, <3>4
      <4> QED BY <1>2, <1>7, <3>2, <4>1 DEF PathInv
    <3>5. CASE n = size + 1
      <4>1. size \in 1..size /\ 1 \in 1..Len(s) /\ n - 1 = size
        BY <1>3, <1>6, <3>3, <3>5
      <4>2. reached # << >>
        BY <1>2, <3>5, <3>3, <1>3 DEF PathInv
      <4>3. k - 1 \in 1..k - 1 /\ k > 1
        BY <1>3, <1>4, <1>8, <4>2
      <4>4. reached[k - 1] = size /\ k - 1 \in KeptSoFar
        BY <1>2, <1>8, <3>2, <4>2, <4>3 DEF PathInv, Added
      <4>5. flightRoute'[n - 1] = wayPoints[k - 1]
        BY <1>12, <4>1, <4>4
      <4>6. flightRoute'[n] = s[1]
        BY <1>7, <3>5, <4>1
      <4>7. Route!DistanceDegrees(wayPoints[k - 1].at, s[1].at) < Route!LongLeg
        BY <1>5, <3>2, <4>3 DEF IsPath
      <4> QED BY <4>5, <4>6, <4>7
    <3>6. CASE n > size + 1
      <4>0. n - size \in 2..Len(s)
        BY <1>3, <1>6, <3>3, <3>6
      <4> PICK m \in 2..Len(s) : m = n - size
        BY <4>0, Zenon
      <4>1. m \in 1..Len(s) /\ m - 1 \in 1..Len(s) /\ n = size + m /\ n - 1 = size + (m - 1)
        BY <1>3, <1>6, <3>3
      <4>2. flightRoute'[n] = s[m] /\ flightRoute'[n - 1] = s[m - 1]
        BY <1>7, <4>1
      <4>3. Route!DistanceDegrees(s[m - 1].at, s[m].at) < Route!LongLeg
        BY <1>5, <3>2 DEF IsPath
      <4> QED BY <4>2, <4>3
    <3> QED BY <1>3, <3>3, <3>4, <3>5, <3>6
  <2> QED BY <2>1, <2>2, <2>3, <2>4, <2>5, <2>6 DEF PathInv
<1>14. Route!TypeOK'
  BY <1>0, <1>1, <1>7, <1>8 DEF Route!TypeOK, PointSet
<1>15. WordsInv'
  <2>1. \A path : NearPoints(path)' = NearPoints(path)
    BY <1>1 DEF Start, NearPoints, IsNearest
  <2> QED BY <1>0, <1>1, <2>1 DEF WordsInv
<1>16. AirportsInv'
  BY <1>0, <1>1 DEF AirportsInv
<1> QED BY <1>1, <1>13, <1>14, <1>15, <1>16 DEF RouteInv

LEMMA SetStep == RouteInv /\ (Route!SetRoute \/ UNCHANGED Route!routeVars) => RouteInv'
<1> SUFFICES ASSUME RouteInv, Route!SetRoute \/ UNCHANGED Route!routeVars PROVE RouteInv'
  OBVIOUS
<1>1. /\ \/ routePhase' = routePhase
         \/ routePhase = "great circle" /\ routePhase' = "loaded"
              /\ Len(reached) = Len(wayPoints)
      /\ UNCHANGED <<navData, route, given, rest, routeState, origin, dest,
                     lastCoord, wayPoints, flightRoute, reached>>
  BY DEF Route!SetRoute, Route!routeVars
<1>2. Route!TypeOK'
  BY <1>1 DEF RouteInv, Route!TypeOK
<1>3. WordsInv'
  <2>1. /\ Start' = Start
        /\ \A path : NearPoints(path)' = NearPoints(path)
        /\ \A path : LastOf(path)' = LastOf(path)
    BY <1>1 DEF Start, NearPoints, IsNearest, LastOf
  <2> QED BY <1>1, <2>1 DEF RouteInv, WordsInv
<1>4. AirportsInv'
  BY <1>1 DEF RouteInv, AirportsInv
<1>5. PathInv => PathInv'
  <2>1. KeptSoFar' = KeptSoFar /\ Added' = Added
    BY <1>1 DEF KeptSoFar, Added, Route!OverDateLine, Route!IsLong
  <2> QED BY <1>1, <2>1 DEF PathInv
<1> QED BY <1>1, <1>2, <1>3, <1>4, <1>5 DEF RouteInv

LEMMA RouteStep == RouteInv /\ [Route!Next]_(Route!routeVars) => RouteInv'
<1> SUFFICES ASSUME RouteInv, [Route!Next]_(Route!routeVars) PROVE RouteInv'
  OBVIOUS
<1>0. /\ routeState \in {"START", "EN_ROUTE", "END"}
      /\ origin \in DOMAIN AirportAt \cup {Route!Nowhere} /\ dest \in DOMAIN AirportAt \cup {Route!Nowhere}
      /\ Route!Nowhere \notin DOMAIN AirportAt
  BY RouteAssumption DEF RouteInv, Route!TypeOK, Route!RouteTextConstants
<1>1. CASE Route!SkipAirway
  BY <1>0, <1>1, OtherWord DEF Route!SkipAirway, Route!Parsing
<1>2. CASE Route!StartAirport
  <2>1. routePhase = "parse" /\ Route!Word \in DOMAIN AirportAt
    BY <1>2 DEF Route!StartAirport, Route!Parsing, Route!IsAirport
  <2>2. CASE origin = Route!Nowhere /\ Route!Crash
    BY <1>0, <2>1, <2>2, OtherWord DEF Route!Crash
  <2>3. CASE /\ origin # Route!Nowhere /\ origin' = Route!Word
             /\ UNCHANGED <<navData, route, given, routePhase, routeState, dest,
                            lastCoord, wayPoints, flightRoute, reached>>
    <3>1. origin' # Route!Nowhere
      BY <1>0, <2>1, <2>3
    <3> QED BY <1>0, <2>1, <2>3, <3>1, OtherWord
  <2> QED BY <1>2, <2>2, <2>3 DEF Route!StartAirport
<1>3. CASE Route!StartDeparture
  BY <1>0, <1>3, OtherWord DEF Route!StartDeparture, Route!Parsing
<1>4. CASE Route!WayPoint
  BY <1>4, WayPointStep
<1>5. CASE Route!Arrival
  BY <1>0, <1>5, OtherWord DEF Route!Arrival, Route!EnRoute, Route!Parsing
<1>6. CASE Route!DestinationAirport
  <2>1. routePhase = "parse" /\ Route!Word \in DOMAIN AirportAt
    BY <1>6 DEF Route!DestinationAirport, Route!EnRoute, Route!Parsing, Route!IsAirport
  <2>2. CASE dest = Route!Nowhere /\ Route!Crash
    BY <1>0, <2>1, <2>2, OtherWord DEF Route!Crash
  <2>3. CASE /\ dest # Route!Nowhere /\ dest' = Route!Word /\ routeState' = "END"
             /\ UNCHANGED <<navData, route, given, routePhase, origin, lastCoord,
                            wayPoints, flightRoute, reached>>
    <3>1. dest' # Route!Nowhere
      BY <1>0, <2>1, <2>3
    <3> QED BY <1>0, <2>1, <2>3, <3>1, OtherWord
  <2> QED BY <1>6, <2>2, <2>3 DEF Route!DestinationAirport
<1>7. CASE Route!UnknownWord
  BY <1>0, <1>7, OtherWord DEF Route!UnknownWord, Route!EnRoute, Route!Parsing
<1>8. CASE Route!AfterEnd
  BY <1>0, <1>8, OtherWord DEF Route!AfterEnd, Route!Parsing
<1>9. CASE Route!EndOfRoute
  BY <1>9, EndStep
<1>10. CASE Route!AddPoint
  BY <1>10, AddPointStep
<1>11. CASE Route!SetRoute \/ UNCHANGED Route!routeVars
  BY <1>11, SetStep
<1> QED BY <1>1, <1>2, <1>3, <1>4, <1>5, <1>6, <1>7, <1>8, <1>9, <1>10, <1>11 DEF Route!Next

-----------------------------------------------------------------------------
LEMMA RouteNearest == RouteInv => Route!NearestToPrevious
<1> SUFFICES ASSUME RouteInv PROVE Route!NearestToPrevious
  OBVIOUS
<1>1. NearPoints(Route!Parsed)
  BY DEF RouteInv, Route!TypeOK, WordsInv, Route!Parsed
<1> QED BY <1>1, Zenon DEF NearPoints, IsNearest, Route!NearestToPrevious, Start

LEMMA RouteWhole == RouteInv => Route!RoutesNeedAirports /\ Route!RouteIsWhole
<1> SUFFICES ASSUME RouteInv PROVE Route!RoutesNeedAirports /\ Route!RouteIsWhole
  OBVIOUS
<1>1. Route!RoutesNeedAirports
  BY DEF RouteInv, AirportsInv, Route!RoutesNeedAirports
<1>2. ASSUME routePhase = "loaded" PROVE Route!RouteIsWhole
  <2>1. PathInv /\ Len(reached) = Len(wayPoints) /\ Route!TypeOK
    BY <1>2 DEF RouteInv
  <2>2. DOMAIN reached = DOMAIN wayPoints /\ DOMAIN wayPoints = Added
    <3>1. DOMAIN reached = 1..Len(reached)
      BY <2>1, LenProperties DEF Route!TypeOK
    <3>2. DOMAIN wayPoints = 1..Len(wayPoints)
      BY LenProperties DEF RouteInv, WordsInv
    <3> QED BY <2>1, <3>1, <3>2 DEF Added
  <2>3. Route!Kept = KeptSoFar
    BY <2>2 DEF Route!Kept, KeptSoFar
  <2> QED BY <2>1, <2>2, <2>3 DEF PathInv, Route!RouteIsWhole
<1> QED BY <1>1, <1>2 DEF Route!RouteIsWhole

(* The reading of a plan: what has been read is in the points, and only a   *)
(* whole response is read.                                                  *)
ReadInv ==
  /\ planPhase \in {"idle", "fetch", "header"} => entries = << >> /\ points = << >>
  /\ planPhase \in {"load", "loaded"} => Plan!PointsAreEntries
  /\ planPhase \in {"idle", "header", "load", "loaded"} => pieces \in {0, MaxPieces}

PlanInv == Plan!TypeOK /\ ReadInv

EntrySet == Plan!Ends \cup Plan!Waypoints \cup Plan!Fixes
PlanPointSet == [name : Plan!Names \cup Plan!AidNames \cup {Plan!NoName}, at : Int]

IsOrder(order) ==
  /\ order \in [DOMAIN points -> {n \in DOMAIN entries : Plan!IsEnroute(entries[n])}]
  /\ \A i, j \in DOMAIN points : i < j => order[i] < order[j]
  /\ \A n \in DOMAIN entries :
       Plan!IsEnroute(entries[n]) => \E i \in DOMAIN points : order[i] = n
  /\ \A i \in DOMAIN points : Plan!IsPointOf(points[i], entries[order[i]])

LEMMA HasOrder == Plan!PointsAreEntries <=> \E order : IsOrder(order)
BY DEF Plan!PointsAreEntries, IsOrder

LEMMA NoPoints == ASSUME entries = << >>, points = << >> PROVE Plan!PointsAreEntries
<1>1. IsOrder(<< >>)
  BY DEF IsOrder
<1> QED BY <1>1, HasOrder

(* An entry that is not en route changes nothing. *)
LEMMA OrderStays ==
  ASSUME entries \in Seq(EntrySet), points \in Seq(PlanPointSet), Plan!PointsAreEntries,
         NEW e \in EntrySet, ~Plan!IsEnroute(e),
         entries' = Append(entries, e), points' = points
  PROVE  Plan!PointsAreEntries'
<1> PICK order : IsOrder(order)
  BY HasOrder
<1>1. /\ DOMAIN entries' = 1..Len(entries) + 1 /\ DOMAIN entries = 1..Len(entries)
      /\ Len(entries) \in Nat
      /\ entries'[Len(entries) + 1] = e
      /\ \A n \in DOMAIN entries : entries'[n] = entries[n]
  OBVIOUS
<1>2. \A n \in DOMAIN entries' : n \in DOMAIN entries \/ entries'[n] = e
  BY <1>1
<1>3. \A n \in DOMAIN entries : n \in DOMAIN entries' /\ entries'[n] = entries[n]
  BY <1>1
<1>4. {n \in DOMAIN entries : Plan!IsEnroute(entries[n])}
        = {n \in DOMAIN entries' : Plan!IsEnroute(entries'[n])}
  BY <1>2, <1>3
<1>5. \A i \in DOMAIN points : order[i] \in DOMAIN entries
  BY DEF IsOrder
<1>6. IsOrder(order)'
  BY <1>2, <1>3, <1>4, <1>5 DEF IsOrder
<1> QED BY <1>6 DEF Plan!PointsAreEntries, IsOrder


(* An entry en route, with its point. *)
LEMMA OrderGrows ==
  ASSUME entries \in Seq(EntrySet), points \in Seq(PlanPointSet), Plan!PointsAreEntries,
         NEW e \in EntrySet, Plan!IsEnroute(e), NEW p \in PlanPointSet, Plan!IsPointOf(p, e),
         entries' = Append(entries, e), points' = Append(points, p)
  PROVE  Plan!PointsAreEntries'
<1> PICK order : IsOrder(order)
  BY HasOrder
<1> PICK n : n = Len(entries) + 1
  OBVIOUS
<1> PICK m : m = Len(points) + 1
  OBVIOUS
<1>1. /\ n \in Nat /\ DOMAIN entries' = 1..n /\ DOMAIN entries = 1..n - 1
      /\ entries'[n] = e
      /\ \A i \in DOMAIN entries : i \in DOMAIN entries' /\ i < n /\ entries'[i] = entries[i]
      /\ n \in DOMAIN entries'
  OBVIOUS
<1>2. /\ m \in Nat /\ DOMAIN points' = 1..m /\ DOMAIN points = 1..m - 1
      /\ points'[m] = p
      /\ \A i \in DOMAIN points : i \in DOMAIN points' /\ i < m /\ points'[i] = points[i]
      /\ m \in DOMAIN points'
  OBVIOUS
<1>3. /\ \A i \in DOMAIN entries' : i \in DOMAIN entries \/ i = n
      /\ \A i \in DOMAIN points' : i \in DOMAIN points \/ i = m
  BY <1>1, <1>2
<1> PICK next : next = [i \in DOMAIN points' |-> IF i = m THEN n ELSE order[i]]
  OBVIOUS
<1>4. /\ DOMAIN next = DOMAIN points' /\ next[m] = n
      /\ \A i \in DOMAIN points : next[i] = order[i]
  BY <1>2
<1>5. \A i \in DOMAIN points :
        order[i] \in DOMAIN entries /\ Plan!IsEnroute(entries[order[i]])
  BY DEF IsOrder
<1>6. IsOrder(next)'
  <2>1. next \in [DOMAIN points' -> {i \in DOMAIN entries' : Plan!IsEnroute(entries'[i])}]
    <3>1. \A i \in DOMAIN points' : next[i] \in {k \in DOMAIN entries' : Plan!IsEnroute(entries'[k])}
      BY <1>1, <1>3, <1>4, <1>5
    <3> QED BY <1>4, <3>1
  <2>2. ASSUME NEW i \in DOMAIN points', NEW j \in DOMAIN points', i < j
        PROVE  next[i] < next[j]
    <3>1. i \in DOMAIN points
      BY <1>2, <2>2
    <3>2. CASE j \in DOMAIN points
      BY <1>4, <2>2, <3>1, <3>2 DEF IsOrder
    <3>3. CASE j = m
      BY <1>1, <1>4, <1>5, <3>1, <3>3
    <3> QED BY <1>3, <3>2, <3>3
  <2>3. ASSUME NEW i \in DOMAIN entries', Plan!IsEnroute(entries'[i])
        PROVE  \E k \in DOMAIN points' : next[k] = i
    <3>1. CASE i \in DOMAIN entries
      <4>1. PICK k \in DOMAIN points : order[k] = i
        BY <1>1, <2>3, <3>1 DEF IsOrder
      <4> QED BY <1>2, <1>4, <4>1
    <3>2. CASE i = n
      BY <1>2, <1>4, <3>2
    <3> QED BY <1>3, <3>1, <3>2
  <2>4. ASSUME NEW i \in DOMAIN points' PROVE Plan!IsPointOf(points'[i], entries'[next[i]])
    <3>1. CASE i \in DOMAIN points
      <4>1. points'[i] = points[i] /\ entries'[next[i]] = entries[order[i]]
        BY <1>1, <1>2, <1>4, <1>5, <3>1
      <4> QED BY <3>1, <4>1 DEF IsOrder
    <3>2. CASE i = m
      BY <1>1, <1>2, <1>4, <3>2
    <3> QED BY <1>3, <3>1, <3>2
  <2> HIDE DEF Plan!IsPointOf, Plan!IsEnroute
  <2> QED BY <2>1, <2>2, <2>3, <2>4 DEF IsOrder
<1> QED BY <1>6 DEF Plan!PointsAreEntries, IsOrder

LEMMA EnrouteKinds ==
  /\ \A e \in Plan!Ends : ~Plan!IsEnroute(e)
  /\ \A w \in Plan!Waypoints : Plan!IsEnroute(w) <=> ~Plan!Unhandled(w) /\ ~Plan!IsAirport(w)
  /\ \A fix \in Plan!Fixes : Plan!IsEnroute(fix) <=> ~Plan!Skipped(fix)
BY DEF Plan!IsEnroute, Plan!Ends, Plan!Waypoints, Plan!Fixes

(* Among finitely many or infinitely many naturals there is a least one. *)
LEMMA NearestIs ==
  ASSUME NEW id \in DOMAIN NavAidsOf, NEW at \in Int
  PROVE  \E n \in DOMAIN NavAidsOf[id] :
           /\ Plan!Nearest(id, at) = NavAidsOf[id][n]
           /\ NavAidsOf[id][n] \in [name : STRING, at : Int]
           /\ \A m \in DOMAIN NavAidsOf[id] :
                Plan!Apart(NavAidsOf[id][n].at, at) <= Plan!Apart(NavAidsOf[id][m].at, at)
<1> PICK found \in Seq([name : STRING, at : Int]) : found = NavAidsOf[id] /\ found # << >>
  BY PlanAssumption DEF Plan!FlightPlanConstants
<1>1. /\ DOMAIN found = 1..Len(found) /\ 1 \in DOMAIN found /\ DOMAIN found \subseteq Nat
      /\ \A n \in DOMAIN found : found[n] \in [name : STRING, at : Int]
  <2> DEFINE Aids == [name : STRING, at : Int]
  <2> PICK U : U = Aids
    OBVIOUS
  <2>1. found \in Seq(U) /\ found # << >>
    OBVIOUS
  <2> HIDE DEF Aids
  <2>2. /\ DOMAIN found = 1..Len(found) /\ 1 \in DOMAIN found /\ DOMAIN found \subseteq Nat
        /\ \A n \in DOMAIN found : found[n] \in U
    BY ONLY <2>1
  <2> QED BY <2>2 DEF Aids
<1> PICK D : D = [n \in DOMAIN found |-> Plan!Apart(found[n].at, at)]
  OBVIOUS
<1>2. \A n \in DOMAIN found : D[n] \in Nat /\ D[n] = Plan!Apart(found[n].at, at)
  <2>1. \A n \in DOMAIN found : found[n].at \in Int
    BY <1>1
  <2> QED BY <2>1 DEF Plan!Apart
<1>3. PICK a \in DOMAIN found : /\ \A m \in DOMAIN found : D[a] <= D[m]
                                /\ \A m \in DOMAIN found : m < a => D[a] < D[m]
  <2>1. PICK S : S = DOMAIN found
    OBVIOUS
  <2>2. 1 \in S /\ S \subseteq Nat /\ \A n \in S : D[n] \in Nat
    BY <1>1, <1>2, <2>1
  <2>3. \E n \in S : /\ \A m \in S : D[n] <= D[m]
                     /\ \A m \in S : m < n => D[n] < D[m]
    BY <2>2, LeastOf
  <2> QED BY <2>1, <2>3
<1>4. \A m \in DOMAIN found : Plan!Apart(found[a].at, at) <= Plan!Apart(found[m].at, at)
  BY <1>2, <1>3
<1>5. ASSUME NEW m \in 1..(a - 1)
      PROVE  ~\A k \in DOMAIN found : Plan!Apart(found[m].at, at) <= Plan!Apart(found[k].at, at)
  <2>1. m \in DOMAIN found /\ m < a
    BY <1>1
  <2>2. D[a] < D[m] /\ D[a] \in Nat /\ D[m] \in Nat
    BY <1>2, <1>3, <2>1
  <2>3. ~(Plan!Apart(found[m].at, at) <= Plan!Apart(found[a].at, at))
    BY <1>2, <2>1, <2>2
  <2> QED BY <2>3
<1>6. \E n \in DOMAIN NavAidsOf[id] :
        /\ \A m \in DOMAIN NavAidsOf[id] :
             Plan!Apart(NavAidsOf[id][n].at, at) <= Plan!Apart(NavAidsOf[id][m].at, at)
        /\ \A m \in 1..(n - 1) :
             ~\A k \in DOMAIN NavAidsOf[id] :
                Plan!Apart(NavAidsOf[id][m].at, at) <= Plan!Apart(NavAidsOf[id][k].at, at)
  BY <1>4, <1>5
<1>7. \E n \in DOMAIN NavAidsOf[id] :
        /\ Plan!Nearest(id, at) = NavAidsOf[id][n]
        /\ \A m \in DOMAIN NavAidsOf[id] :
             Plan!Apart(NavAidsOf[id][n].at, at) <= Plan!Apart(NavAidsOf[id][m].at, at)
  BY <1>6, Zenon DEF Plan!Nearest
<1> QED BY <1>1, <1>7

(* What a fix on the route is turned into. *)
LEMMA PointIs ==
  ASSUME NEW fix \in Plan!Fixes, ~Plan!Skipped(fix),
         ~(fix.type = "wpt" /\ fix.name \notin DOMAIN NavAidsOf)
  PROVE  Plan!PointOf(fix) \in PlanPointSet /\ Plan!IsPointOf(Plan!PointOf(fix), fix)
<1>1. /\ fix.type \in {"wpt", "ltlg", "apt"} /\ fix.name \in Plan!Names /\ fix.at \in Int
      /\ fix.kind = "fix"
  BY PlanAssumption DEF Plan!FlightPlanConstants, Plan!Fixes
<1>2. CASE fix.type = "wpt"
  <2>1. fix.name \in DOMAIN NavAidsOf
    BY <1>2
  <2> PICK p : p = Plan!PointOf(fix)
    OBVIOUS
  <2>2. p = Plan!Nearest(fix.name, fix.at)
    BY <1>2 DEF Plan!PointOf
  <2>3. PICK n \in DOMAIN NavAidsOf[fix.name] :
          /\ p = NavAidsOf[fix.name][n]
          /\ p \in [name : STRING, at : Int]
          /\ \A m \in DOMAIN NavAidsOf[fix.name] :
               Plan!Apart(p.at, fix.at) <= Plan!Apart(NavAidsOf[fix.name][m].at, fix.at)
    BY <1>1, <2>1, <2>2, NearestIs
  <2>4. p.name \in Plan!AidNames
    BY <2>1, <2>3 DEF Plan!AidNames
  <2>5. p \in PlanPointSet
    <3>1. p = [name |-> p.name, at |-> p.at] /\ p.at \in Int
      BY <2>3
    <3> QED BY <2>4, <3>1 DEF PlanPointSet
  <2>6. Plan!IsPointOf(p, fix)
    BY <1>1, <1>2, <2>3 DEF Plan!IsPointOf
  <2> QED BY <2>5, <2>6
<1>3. CASE fix.type = "ltlg"
  <2>1. Plan!PointOf(fix) = [name |-> fix.name, at |-> fix.at]
    BY <1>3 DEF Plan!PointOf
  <2> PICK p : p = Plan!PointOf(fix)
    OBVIOUS
  <2>2. Plan!IsPointOf(p, fix)
    BY <1>1, <1>3, <2>1 DEF Plan!IsPointOf
  <2> QED BY <1>1, <2>1, <2>2 DEF PlanPointSet
<1>4. CASE fix.type = "apt"
  <2>1. Plan!PointOf(fix) = [name |-> Plan!NoName, at |-> 0]
    BY <1>4 DEF Plan!PointOf
  <2> PICK p : p = Plan!PointOf(fix)
    OBVIOUS
  <2>2. Plan!IsPointOf(p, fix)
    BY <1>1, <1>4, <2>1 DEF Plan!IsPointOf
  <2> QED BY <1>1, <2>1, <2>2 DEF PlanPointSet
<1> QED BY <1>1, <1>2, <1>3, <1>4

(* What a line with a waypoint is turned into. *)
LEMMA WaypointIs ==
  ASSUME NEW w \in Plan!Waypoints
  PROVE  LET p == [name |-> w.name, at |-> Plan!DmmToDegrees(w)]
         IN  p \in PlanPointSet /\ Plan!IsPointOf(p, w)
<1>1. w.kind = "waypoint" /\ w.name \in Plan!Names /\ w.at \in Int
  BY PlanAssumption DEF Plan!FlightPlanConstants, Plan!Waypoints
<1>2. Plan!DmmToDegrees(w) \in Int /\ ("place" \notin w.blanks => Plan!DmmToDegrees(w) = w.at)
  BY <1>1 DEF Plan!DmmToDegrees, Plan!Apart
<1> PICK p : p = [name |-> w.name, at |-> Plan!DmmToDegrees(w)]
  OBVIOUS
<1>3. p \in PlanPointSet
  BY <1>1, <1>2 DEF PlanPointSet
<1>4. Plan!IsPointOf(p, w)
  BY <1>1, <1>2 DEF Plan!IsPointOf
<1> QED BY <1>3, <1>4

LEMMA PlanInit == Plan!Init => PlanInv
<1> SUFFICES ASSUME Plan!Init PROVE PlanInv
  OBVIOUS
<1>1. Plan!TypeOK
  BY PlanAssumption DEF Plan!Init, Plan!TypeOK, Plan!FlightPlanConstants
<1>2. ReadInv
  BY DEF Plan!Init, ReadInv
<1> QED BY <1>1, <1>2 DEF PlanInv

LEMMA PlanTypeStep == Plan!TypeOK /\ [Plan!Next]_(Plan!planVars) => Plan!TypeOK'
<1> SUFFICES ASSUME Plan!TypeOK, [Plan!Next]_(Plan!planVars) PROVE Plan!TypeOK'
  OBVIOUS
<1> DEFINE E == Plan!Ends \cup Plan!Waypoints \cup Plan!Fixes
           P == [name : Plan!Names \cup Plan!AidNames \cup {Plan!NoName}, at : Int]
           Pts(x) == x \in Seq(P)
           Read(x) == x \in Seq(E) /\ Len(x) <= MaxEntries
           W(w) == [name |-> w.name, at |-> Plan!DmmToDegrees(w)]
<1>0. /\ format \in {"msfs", "simbrief"} /\ pieces \in 0..MaxPieces /\ MaxPieces \in Nat
      /\ planPhase \in {"idle", "fetch", "header", "load", "loaded", "null", "threw", "crashed"}
      /\ Read(entries) /\ Pts(points)
      /\ ends \in [{"departure_id", "destination_id"} -> KnownAirports \cup {"null"}]
  BY PlanAssumption DEF Plan!TypeOK, Plan!FlightPlanConstants
<1>more. ASSUME Plan!Loading, NEW e \in E PROVE Read(Append(entries, e))
  <2> HIDE DEF E
  <2> QED BY <1>0, <1>more, PlanAssumption DEF Plan!Loading, Plan!FlightPlanConstants
<1>code. ASSUME NEW e \in Plan!Ends
         PROVE  /\ Plan!FindByCode(e.code) \in KnownAirports \cup {"null"}
                /\ Plan!AirportOf(e) \in KnownAirports \cup {"null"}
  BY DEF Plan!FindByCode, Plan!AirportOf
<1>point. ASSUME NEW p \in P PROVE Pts(Append(points, p))
  <2> HIDE DEF P
  <2> QED BY <1>0
<1> HIDE DEF Read, Pts
<1>typed. ASSUME format' \in {"msfs", "simbrief"}, pieces' \in 0..MaxPieces,
                 planPhase' \in {"idle", "fetch", "header", "load", "loaded", "null", "threw",
                                 "crashed"},
                 Read(entries'), Pts(points'),
                 ends' \in [{"departure_id", "destination_id"} -> KnownAirports \cup {"null"}]
          PROVE  Plan!TypeOK'
  BY <1>typed DEF Plan!TypeOK, Read, Pts
<1>1. CASE Plan!LoadFile
  BY <1>0, <1>1, <1>typed DEF Plan!LoadFile
<1>2. CASE Plan!Fetch
  BY <1>0, <1>2, <1>typed DEF Plan!Fetch
<1>3. CASE Plan!Fetched
  <2>1. planPhase' \in {"crashed", "header", "threw"}
    BY <1>3 DEF Plan!Fetched
  <2> QED BY <1>0, <1>3, <2>1, <1>typed DEF Plan!Fetched
<1>4. CASE Plan!ReadHeader
  <2>1. ends' \in [{"departure_id", "destination_id"} -> KnownAirports \cup {"null"}]
    <3>1. DOMAIN ends = {"departure_id", "destination_id"}
      BY <1>0
    <3>2. {Plan!FindByCode(e.code) : e \in Plan!Ends} \subseteq KnownAirports \cup {"null"}
      BY <1>code
    <3>3. ends' \in [{"departure_id", "destination_id"} -> {Plan!FindByCode(e.code) : e \in Plan!Ends}]
      BY <1>4, <3>1 DEF Plan!ReadHeader
    <3> QED BY <3>2, <3>3
  <2> QED BY <1>0, <1>4, <2>1, <1>typed DEF Plan!ReadHeader
<1>5. CASE Plan!ReadEnds
  <2>1. PICK e \in Plan!Ends :
          /\ entries' = Append(entries, e)
          /\ ends' = ends \/ ends' = [ends EXCEPT ![e.kind] = Plan!AirportOf(e)]
    BY <1>5 DEF Plan!ReadEnds
  <2>2. Read(entries')
    BY <1>5, <1>more, <2>1 DEF Plan!ReadEnds
  <2>3. ends' \in [{"departure_id", "destination_id"} -> KnownAirports \cup {"null"}]
    BY <1>0, <1>code, <2>1
  <2> QED BY <1>0, <1>5, <2>2, <2>3, <1>typed DEF Plan!ReadEnds
<1>6. CASE Plan!ReadWaypoint
  <2>1. PICK w \in Plan!Waypoints :
          /\ entries' = Append(entries, w)
          /\ planPhase' \in {"threw", "load"}
          /\ planPhase' = "load" => \/ ~Plan!IsEnroute(w) /\ points' = points
                                    \/ Plan!IsEnroute(w) /\ points' = Append(points, W(w))
          /\ planPhase' = "threw" => points' = points
    BY <1>6, EnrouteKinds DEF Plan!ReadWaypoint
  <2>2. Read(entries')
    BY <1>6, <1>more, <2>1 DEF Plan!ReadWaypoint
  <2>3. W(w) \in P
    BY WaypointIs DEF PlanPointSet
  <2>4. Pts(points')
    BY <1>0, <1>point, <2>1, <2>3
  <2> QED BY <1>0, <1>6, <2>1, <2>2, <2>4, <1>typed DEF Plan!ReadWaypoint
<1>7. CASE Plan!ReadFix
  <2>1. PICK fix \in Plan!Fixes :
          /\ entries' = Append(entries, fix)
          /\ \/ ~Plan!Skipped(fix) /\ fix.type = "wpt" /\ fix.name \notin DOMAIN NavAidsOf
                /\ planPhase' = "null" /\ points' = points
             \/ ~(~Plan!Skipped(fix) /\ fix.type = "wpt" /\ fix.name \notin DOMAIN NavAidsOf)
                /\ planPhase' = "load"
                /\ points' = IF Plan!Skipped(fix) THEN points ELSE Append(points, Plan!PointOf(fix))
    BY <1>7 DEF Plan!ReadFix
  <2>2. Read(entries')
    BY <1>7, <1>more, <2>1 DEF Plan!ReadFix
  <2>3. ASSUME ~Plan!Skipped(fix), ~(fix.type = "wpt" /\ fix.name \notin DOMAIN NavAidsOf)
        PROVE  Plan!PointOf(fix) \in P
    BY <2>3, PointIs DEF PlanPointSet
  <2>4. Pts(points')
    BY <1>0, <1>point, <2>1, <2>3
  <2> QED BY <1>0, <1>7, <2>1, <2>2, <2>4, <1>typed DEF Plan!ReadFix
<1>8. CASE Plan!Loaded
  BY <1>0, <1>8, <1>typed DEF Plan!Loaded
<1>9. CASE Plan!LoadFails
  <2>1. planPhase' \in {"threw", "crashed"}
    BY <1>9 DEF Plan!LoadFails
  <2> QED BY <1>0, <1>9, <2>1, <1>typed DEF Plan!LoadFails
<1>10. CASE UNCHANGED Plan!planVars
  BY <1>0, <1>10, <1>typed DEF Plan!planVars
<1> QED BY <1>1, <1>2, <1>3, <1>4, <1>5, <1>6, <1>7, <1>8, <1>9, <1>10 DEF Plan!Next

LEMMA PlanStep == PlanInv /\ [Plan!Next]_(Plan!planVars) => PlanInv'
<1> SUFFICES ASSUME PlanInv, [Plan!Next]_(Plan!planVars) PROVE PlanInv'
  OBVIOUS
<1> DEFINE W(w) == [name |-> w.name, at |-> Plan!DmmToDegrees(w)]
<1>0. Plan!TypeOK /\ ReadInv /\ Plan!TypeOK'
  BY PlanTypeStep DEF PlanInv
<1>types. entries \in Seq(EntrySet) /\ points \in Seq(PlanPointSet)
  BY <1>0 DEF Plan!TypeOK, EntrySet, PlanPointSet
<1>same. ASSUME UNCHANGED <<entries, points>> PROVE Plan!PointsAreEntries' = Plan!PointsAreEntries
  BY <1>same DEF Plan!PointsAreEntries
<1>1. CASE Plan!LoadFile
  <2>1. entries = << >> /\ points = << >> /\ pieces \in {0, MaxPieces}
    BY <1>0, <1>1 DEF ReadInv, Plan!LoadFile
  <2>2. Plan!PointsAreEntries
    BY <2>1, NoPoints
  <2>3. ReadInv'
    BY <1>1, <1>same, <2>1, <2>2 DEF ReadInv, Plan!LoadFile
  <2> QED BY <1>0, <2>3 DEF PlanInv
<1>2. CASE Plan!Fetch
  <2>1. ReadInv'
    BY <1>0, <1>2 DEF ReadInv, Plan!Fetch
  <2> QED BY <1>0, <2>1 DEF PlanInv
<1>3. CASE Plan!Fetched
  <2>1. planPhase' \in {"crashed", "header", "threw"} /\ (planPhase' = "header" => pieces = MaxPieces)
    BY <1>3 DEF Plan!Fetched
  <2>2. ReadInv'
    BY <1>0, <1>3, <2>1 DEF ReadInv, Plan!Fetched
  <2> QED BY <1>0, <2>2 DEF PlanInv
<1>4. CASE Plan!ReadHeader
  <2>1. entries = << >> /\ points = << >> /\ pieces \in {0, MaxPieces}
    BY <1>0, <1>4 DEF ReadInv, Plan!ReadHeader
  <2>2. Plan!PointsAreEntries
    BY <2>1, NoPoints
  <2>3. ReadInv'
    BY <1>4, <1>same, <2>1, <2>2 DEF ReadInv, Plan!ReadHeader
  <2> QED BY <1>0, <2>3 DEF PlanInv
<1>loads. ASSUME planPhase = "load", planPhase' \in {"load", "null", "threw", "crashed"},
                 pieces' = pieces, planPhase' = "load" => Plan!PointsAreEntries'
          PROVE  PlanInv'
  <2>1. ReadInv'
    BY <1>0, <1>loads DEF ReadInv
  <2> QED BY <1>0, <2>1 DEF PlanInv
<1>whole. planPhase = "load" => Plan!PointsAreEntries
  BY <1>0 DEF ReadInv
<1>5. CASE Plan!ReadEnds
  <2>1. PICK e \in Plan!Ends : entries' = Append(entries, e)
    BY <1>5 DEF Plan!ReadEnds
  <2>2. e \in EntrySet /\ ~Plan!IsEnroute(e) /\ planPhase = "load" /\ points' = points
    BY <1>5, EnrouteKinds DEF Plan!ReadEnds, EntrySet, Plan!Loading
  <2>3. Plan!PointsAreEntries'
    BY <1>types, <1>whole, <2>1, <2>2, OrderStays
  <2> QED BY <1>5, <1>loads, <2>2, <2>3 DEF Plan!ReadEnds
<1>6. CASE Plan!ReadWaypoint
  <2>1. PICK w \in Plan!Waypoints :
          /\ entries' = Append(entries, w)
          /\ planPhase' \in {"threw", "load"}
          /\ planPhase' = "load" => \/ ~Plan!IsEnroute(w) /\ points' = points
                                    \/ Plan!IsEnroute(w) /\ points' = Append(points, W(w))
          /\ planPhase' = "threw" => points' = points
    BY <1>6, EnrouteKinds DEF Plan!ReadWaypoint
  <2>2. w \in EntrySet /\ planPhase = "load" /\ pieces' = pieces
    BY <1>6 DEF Plan!ReadWaypoint, EntrySet, Plan!Loading
  <2>3. CASE planPhase' = "threw"
    BY <1>loads, <2>1, <2>2, <2>3
  <2>4. CASE planPhase' = "load" /\ ~Plan!IsEnroute(w) /\ points' = points
    <3>1. Plan!PointsAreEntries'
      BY <1>types, <1>whole, <2>1, <2>2, <2>4, OrderStays
    <3> QED BY <1>loads, <2>2, <2>4, <3>1
  <2>5. CASE planPhase' = "load" /\ Plan!IsEnroute(w) /\ points' = Append(points, W(w))
    <3> PICK p : p = W(w)
      OBVIOUS
    <3>1. p \in PlanPointSet /\ Plan!IsPointOf(p, w)
      BY WaypointIs
    <3>2. Plan!PointsAreEntries'
      BY <1>types, <1>whole, <2>1, <2>2, <2>5, <3>1, OrderGrows
    <3> QED BY <1>loads, <2>2, <2>5, <3>2
  <2> QED BY <2>1, <2>3, <2>4, <2>5
<1>7. CASE Plan!ReadFix
  <2>1. PICK fix \in Plan!Fixes :
          /\ entries' = Append(entries, fix)
          /\ \/ ~Plan!Skipped(fix) /\ fix.type = "wpt" /\ fix.name \notin DOMAIN NavAidsOf
                /\ planPhase' = "null" /\ points' = points
             \/ ~(~Plan!Skipped(fix) /\ fix.type = "wpt" /\ fix.name \notin DOMAIN NavAidsOf)
                /\ planPhase' = "load"
                /\ points' = IF Plan!Skipped(fix) THEN points ELSE Append(points, Plan!PointOf(fix))
    BY <1>7 DEF Plan!ReadFix
  <2>2. fix \in EntrySet /\ planPhase = "load" /\ pieces' = pieces
    BY <1>7 DEF Plan!ReadFix, EntrySet, Plan!Loading
  <2>3. CASE planPhase' = "null"
    BY <1>loads, <2>2, <2>3
  <2>4. CASE planPhase' = "load" /\ Plan!Skipped(fix)
    <3>1. Plan!PointsAreEntries'
      BY <1>types, <1>whole, <2>1, <2>2, <2>4, OrderStays, EnrouteKinds
    <3> QED BY <1>loads, <2>2, <2>4, <3>1
  <2>5. CASE planPhase' = "load" /\ ~Plan!Skipped(fix)
    <3>1. /\ ~(fix.type = "wpt" /\ fix.name \notin DOMAIN NavAidsOf)
          /\ points' = Append(points, Plan!PointOf(fix))
      BY <2>1, <2>5
    <3>2. Plan!PointOf(fix) \in PlanPointSet /\ Plan!IsPointOf(Plan!PointOf(fix), fix)
      BY <2>5, <3>1, PointIs DEF PlanPointSet
    <3>3. Plan!PointsAreEntries'
      BY <1>types, <1>whole, <2>1, <2>2, <2>5, <3>1, <3>2, OrderGrows, EnrouteKinds
    <3> QED BY <1>loads, <2>2, <2>5, <3>3
  <2> QED BY <2>1, <2>3, <2>4, <2>5
<1>8. CASE Plan!Loaded
  <2>1. ReadInv'
    BY <1>0, <1>8, <1>same DEF ReadInv, Plan!Loaded
  <2> QED BY <1>0, <2>1 DEF PlanInv
<1>9. CASE Plan!LoadFails
  <2>1. planPhase' \in {"threw", "crashed"}
    BY <1>9 DEF Plan!LoadFails
  <2>2. ReadInv'
    BY <2>1 DEF ReadInv
  <2> QED BY <1>0, <2>2 DEF PlanInv
<1>10. CASE UNCHANGED Plan!planVars
  <2>1. ReadInv'
    BY <1>0, <1>10, <1>same DEF ReadInv, Plan!planVars
  <2> QED BY <1>0, <2>1 DEF PlanInv
<1> QED BY <1>1, <1>2, <1>3, <1>4, <1>5, <1>6, <1>7, <1>8, <1>9, <1>10 DEF Plan!Next

LEMMA PlansWhole == PlanInv => Plan!PlansAreWhole
BY DEF PlanInv, ReadInv, Plan!PlansAreWhole

-----------------------------------------------------------------------------
(* The parts together. *)

NavigationInv ==
  /\ DatabaseInv /\ ProcInv /\ AidsInv /\ FilesInv /\ RouteInv /\ PlanInv

(* A step of the navigation is a step of one part, and none of the others.  *)
LEMMA StepsOfParts ==
  ASSUME [MCNext]_everything
  PROVE  /\ [Next]_vars /\ [Procs!Next]_(Procs!vars) /\ [Tree!Next]_(Tree!vars)
         /\ [Files!Next]_(Files!navVars) /\ [Route!Next]_(Route!routeVars)
         /\ [Plan!Next]_(Plan!planVars)
<1>1. /\ UNCHANGED procVars => UNCHANGED Procs!vars
      /\ UNCHANGED treeVars => UNCHANGED Tree!vars
      /\ UNCHANGED filesVars => UNCHANGED Files!navVars
      /\ UNCHANGED routeVars => UNCHANGED Route!routeVars
      /\ UNCHANGED planVars => UNCHANGED Plan!planVars
  BY DEF procVars, Procs!vars, Procs!cacheVars, treeVars, Tree!vars, filesVars,
         Files!navVars, routeVars, Route!routeVars, planVars, Plan!planVars
<1>2. CASE UNCHANGED everything
  <2>1. UNCHANGED <<vars, procVars, treeVars, filesVars, routeVars, planVars>>
    BY <1>2 DEF everything
  <2> QED BY <1>1, <2>1
<1>3. CASE DatabaseNext
  BY <1>1, <1>3 DEF DatabaseNext
<1>4. CASE ProceduresNext
  BY <1>1, <1>4 DEF ProceduresNext
<1>5. CASE TreeNext
  BY <1>1, <1>5 DEF TreeNext
<1>6. CASE FilesNext
  BY <1>1, <1>6 DEF FilesNext
<1>7. CASE RouteNext
  BY <1>1, <1>7 DEF RouteNext
<1>8. CASE PlanNext
  BY <1>1, <1>8 DEF PlanNext
<1> QED BY <1>2, <1>3, <1>4, <1>5, <1>6, <1>7, <1>8 DEF MCNext

(* The inductive invariants of the parts hold in every reachable state. *)
THEOREM Invariance == MCSpec => []NavigationInv
<1>1. MCInit => NavigationInv
  BY DatabaseInit, ProcInit, AidsInit, FilesInvInit, RouteInit, PlanInit
     DEF MCInit, NavigationInv
<1>2. NavigationInv /\ [MCNext]_everything => NavigationInv'
  <2> SUFFICES ASSUME NavigationInv, [MCNext]_everything PROVE NavigationInv'
    OBVIOUS
  <2>1. DatabaseInv'
    BY StepsOfParts, DatabaseStep DEF NavigationInv
  <2>2. ProcInv'
    BY StepsOfParts, ProcStep DEF NavigationInv
  <2>3. AidsInv'
    BY StepsOfParts, AidsStep DEF NavigationInv
  <2>4. FilesInv'
    BY StepsOfParts, FilesInvStep DEF NavigationInv
  <2>5. RouteInv'
    BY StepsOfParts, RouteStep DEF NavigationInv
  <2>6. PlanInv'
    BY StepsOfParts, PlanStep DEF NavigationInv
  <2> QED BY <2>1, <2>2, <2>3, <2>4, <2>5, <2>6 DEF NavigationInv
<1> QED BY <1>1, <1>2, PTL DEF MCSpec

(* Every variable stays in its domain. *)
THEOREM TypesCorrect == MCSpec => []TypesOK
<1>1. NavigationInv => TypesOK
  BY DEF NavigationInv, DatabaseInv, ProcInv, AidsInv, FilesInv, RouteInv,
     PlanInv, TypesOK
<1> QED BY <1>1, Invariance, PTL

(* Whatever is written, refused or lost, the writes of an outermost         *)
(* transaction that is neither rolled back on an error nor begun without a  *)
(* connection reach the file together, and not before its own end.          *)
THEOREM TransactionsWhole == MCSpec => []TransactionsAreWhole
<1>1. NavigationInv => TransactionsAreWhole
  BY DEF NavigationInv, DatabaseInv, Together, TransactionsAreWhole
<1> QED BY <1>1, Invariance, PTL

(* However the file is rewritten between two rows, what getProcedures()     *)
(* answers for an airport is the first rows of one version of the file, all *)
(* of them unless a row failed, each with the legs of its own rows, and a   *)
(* procedure is found by its name as it is in the list.                     *)
THEOREM AnswersWhole == MCSpec => []AnswersAreWhole
<1>1. NavigationInv => AnswersAreWhole
  BY NamesMatch DEF NavigationInv, ProcInv, AnswersAreWhole
<1> QED BY <1>1, Invariance, PTL

(* However the leaves of the quad tree were divided, a nav aid is in one    *)
(* leaf, the one that its place is in, and findNearest() and findById()     *)
(* find it.                                                                 *)
THEOREM AidsFound == MCSpec => []AidsAreFound
<1>1. NavigationInv => AidsAreFound
  BY OneLeaf, Found DEF NavigationInv, AidsAreFound
<1> QED BY <1>1, Invariance, PTL

(* Whatever the lines of apt.dat and their order, the airports that are     *)
(* kept are those of the file that have a place, each with the lines that   *)
(* stand under it and no others, each rule with its own conditions, and a   *)
(* code finds the first airport that has it.                                *)
THEOREM AirportsWritten == MCSpec => []AirportsAreAsWritten
<1>1. NavigationInv => AirportsAreAsWritten
  BY AirportsKept DEF NavigationInv, AirportsAreAsWritten
<1> QED BY <1>1, Invariance, PTL

(* For every route text, each name is resolved to the nav aid nearest to    *)
(* where the route is.                                                      *)
THEOREM NearestTaken == MCSpec => []NearestToPrevious
<1>1. NavigationInv => NearestToPrevious
  BY RouteNearest DEF NavigationInv, NearestToPrevious
<1> QED BY <1>1, Invariance, PTL

(* For every route text and any two airports, the route that is loaded has  *)
(* its points in their order, and its long legs, of any length but over the *)
(* date line, are divided into short ones.                                  *)
THEOREM RouteKept == MCSpec => []RouteIsWhole
<1>1. NavigationInv => RouteIsWhole
  BY RouteWhole DEF NavigationInv, RouteIsWhole
<1> QED BY <1>1, Invariance, PTL

(* A flight plan of any number of entries has a point for each of those en  *)
(* route, in their order, whatever the pieces that it came in.              *)
THEOREM PlansKept == MCSpec => []PlansAreWhole
<1>1. NavigationInv => PlansAreWhole
  BY PlansWhole DEF NavigationInv, PlansAreWhole
<1> QED BY <1>1, Invariance, PTL
=============================================================================
