------------------------------- MODULE Database -------------------------------
(***************************************************************************)
(* Database and PreparedStatement: the wrapper around SQLite.               *)
(*                                                                          *)
(* Transactions nest by counting: only the outermost pair reaches SQLite.   *)
(* Neither the result of BEGIN nor that of COMMIT is looked at.  A COMMIT   *)
(* that finds the file in use leaves the transaction open, and close() of a *)
(* connection with statements leaves the connection behind.                 *)
(*                                                                          *)
(* SQLite is external: one file, whose lock the connection shares with      *)
(* another program.  Reading takes a shared lock until the statement is     *)
(* done or reset; an uncommitted write a reserved one; a commit needs that  *)
(* nobody else holds any.  Rows are counted, a write is a model value.      *)
(***************************************************************************)
EXTENDS Naturals, FiniteSets

CONSTANTS
  Writes,      \* what the caller may write, each once
  Statements,  \* the PreparedStatement objects
  Tries,       \* how often step() tries a busy database
  Rows,        \* bound: rows a query has
  MaxDepth,    \* bound: nested transactions
  MaxOuter,    \* bound: outermost transactions
  MaxFailures  \* bound: I/O errors and crashes

ASSUME DatabaseConstants ==
  /\ Tries \in Nat \ {0} /\ Rows \in Nat
  /\ MaxDepth \in Nat /\ MaxOuter \in Nat /\ MaxFailures \in Nat

VARIABLES
  opened,      \* m_open
  connection,  \* m_db is an open connection
  depth,       \* m_inTransaction
  begun,       \* SQLite is in a transaction on m_db
  pending,     \* what it has written in it
  stored,      \* what the file holds
  left,        \* the connections left behind: the strongest lock they hold
  other,       \* the lock of the other program
  statement,   \* the place of each statement, and the rows it has still got
  tries,       \* how often step() of a statement has found the file busy
  failures,    \* how many I/O errors and crashes there have been
  outer,       \* the outermost transactions so far
  groupOf,     \* the outermost transaction of each write, 0 for none
  completed,   \* the outermost transactions that reached their end
  broken       \* the transactions never begun, or ended halfway

fileVars  == <<pending, stored, begun>>
openVars  == <<opened, connection, left>>
ghostVars == <<outer, groupOf, completed, broken>>
vars == <<openVars, depth, fileVars, other, statement, tries, failures,
          ghostVars>>

NoStatement == [at |-> "none", rows |-> 0]

(* The locks that we hold: an active statement reads, and a pending write   *)
(* keeps others from writing.                                               *)
Active == {s \in Statements : statement[s].at = "active"}
Live   == {s \in Statements : statement[s].at \in {"ready", "active"}}
Lock == IF pending # {} THEN "reserved"
        ELSE IF Active # {} THEN "shared" ELSE "none"

ReadBusy   == other = "exclusive" /\ Lock = "none"
WriteBusy  == other = "exclusive" \/ left = "reserved"
CommitBusy == other # "none" \/ left # "none"

Written == pending \cup stored \cup {w \in Writes : groupOf[w] # 0}

Init ==
  /\ opened = FALSE /\ connection = FALSE /\ left = "none"
  /\ depth = 0 /\ begun = FALSE /\ pending = {} /\ stored = {}
  /\ other = "none"
  /\ statement = [s \in Statements |-> NoStatement]
  /\ tries = [s \in Statements |-> 0]
  /\ failures = 0
  /\ outer = 0 /\ groupOf = [w \in Writes |-> 0] /\ completed = {} /\ broken = {}

(* A transaction that is lost, or split, while the caller is inside it.     *)
Breaks == broken' = IF depth > 0 THEN broken \cup {outer} ELSE broken

-----------------------------------------------------------------------------
(* The connection.                                                          *)

(* A connection left behind keeps its lock, and its statements with it.     *)
Open ==
  /\ ~opened
  /\ connection' = TRUE
  /\ opened' = TRUE
  /\ left' = IF connection /\ left # "reserved" /\ Lock # "none" THEN Lock ELSE left
  /\ statement' = [s \in Statements |->
       IF s \in Live THEN [at |-> "orphan", rows |-> 0] ELSE statement[s]]
  /\ begun' = FALSE /\ pending' = {}
  /\ IF connection THEN Breaks ELSE UNCHANGED broken
  /\ UNCHANGED <<depth, stored, other, tries, failures, outer, groupOf, completed>>

(* No directory, no permission, or no such file. *)
OpenFails ==
  /\ ~opened /\ ~connection /\ failures < MaxFailures
  /\ failures' = failures + 1
  /\ UNCHANGED <<openVars, depth, fileVars, other, statement, tries, ghostVars>>

(* sqlite3_close() rolls back, but refuses while there are statements. *)
Close ==
  /\ opened
  /\ opened' = FALSE
  /\ \/ /\ Live = {}
        /\ connection' = FALSE
        /\ begun' = FALSE /\ pending' = {}
        /\ Breaks
     \/ /\ Live # {}
        /\ UNCHANGED <<connection, begun, pending, broken>>
  /\ UNCHANGED <<depth, stored, left, other, statement, tries, failures,
                 outer, groupOf, completed>>

(* The program dies: SQLite's journal undoes what was not committed, and a  *)
(* new process opens the file.                                              *)
Crash ==
  /\ failures < MaxFailures
  /\ failures' = failures + 1
  /\ opened' = FALSE /\ connection' = FALSE /\ left' = "none"
  /\ depth' = 0 /\ begun' = FALSE /\ pending' = {}
  /\ statement' = [s \in Statements |-> NoStatement]
  /\ tries' = [s \in Statements |-> 0]
  /\ UNCHANGED <<stored, other, ghostVars>>

-----------------------------------------------------------------------------
(* Transactions.                                                            *)

(* Without a connection, or in a transaction, BEGIN fails unseen. *)
StartTransaction ==
  /\ depth < MaxDepth
  /\ depth = 0 => outer < MaxOuter
  /\ depth' = depth + 1
  /\ outer' = IF depth = 0 THEN outer + 1 ELSE outer
  /\ begun' = (begun \/ (depth = 0 /\ connection))
  /\ broken' = IF depth = 0 /\ ~connection THEN broken \cup {outer + 1} ELSE broken
  /\ UNCHANGED <<openVars, pending, stored, other, statement, tries, failures,
                 groupOf, completed>>

Commit ==
  \/ /\ begun /\ (pending # {} => ~CommitBusy)
     /\ stored' = stored \cup pending
     /\ pending' = {} /\ begun' = FALSE
  \/ /\ ~begun \/ (pending # {} /\ CommitBusy)
     /\ UNCHANGED fileVars

Completes ==
  completed' = IF depth = 1 THEN completed \cup {outer} ELSE completed

(* The bug of committing whenever a transaction ends, nested or not. *)
EndTransaction_Inner ==
  /\ depth' = IF depth > 1 THEN depth - 1 ELSE 0
  /\ Commit
  /\ Completes
  /\ UNCHANGED <<openVars, other, statement, tries, failures, outer, groupOf,
                 broken>>

EndTransaction ==
  /\ \/ /\ depth > 1
        /\ depth' = depth - 1
        /\ UNCHANGED fileVars
     \/ /\ depth <= 1
        /\ depth' = 0
        /\ Commit
  /\ Completes
  /\ UNCHANGED <<openVars, other, statement, tries, failures, outer, groupOf,
                 broken>>

-----------------------------------------------------------------------------
(* Database::execute(), which opens the database when it is not open, and   *)
(* PreparedStatement::execute(), which does not.                            *)

Execute(w) ==
  /\ connection /\ w \notin Written
  /\ IF begun
     THEN /\ ~WriteBusy
          /\ pending' = pending \cup {w}
          /\ UNCHANGED stored
     ELSE /\ ~CommitBusy
          /\ stored' = stored \cup {w}
          /\ UNCHANGED pending
  /\ groupOf' = [groupOf EXCEPT ![w] = IF depth > 0 THEN outer ELSE 0]
  /\ UNCHANGED <<openVars, begun, depth, other, statement, tries, failures,
                 outer, completed, broken>>

(* A full disk or an I/O error makes SQLite roll the transaction back. *)
ExecuteFails ==
  /\ connection /\ failures < MaxFailures
  /\ failures' = failures + 1
  /\ begun' = FALSE /\ pending' = {}
  /\ Breaks
  /\ UNCHANGED <<openVars, stored, depth, other, statement, tries, outer,
                 groupOf, completed>>

-----------------------------------------------------------------------------
(* Queries, by PreparedStatement or in one call of executeQuery().          *)

Goes(s, at, rows) == statement' = [statement EXCEPT ![s] = [at |-> at, rows |-> rows]]

QueryVars == <<openVars, depth, fileVars, other, failures, ghostVars>>

PrepareStatement(s) ==
  /\ connection /\ statement[s].at = "none"
  /\ Goes(s, "ready", 0)
  /\ UNCHANGED <<QueryVars, tries>>

(* The first step of a query decides how many rows it has. *)
Step(s) ==
  /\ \/ /\ statement[s].at = "ready" /\ ~ReadBusy
        /\ \/ \E n \in 0..Rows : n > 0 /\ Goes(s, "active", n - 1)
           \/ Goes(s, "ready", 0)
     \/ /\ statement[s].at = "active" /\ statement[s].rows > 0
        /\ Goes(s, "active", statement[s].rows - 1)
     \/ /\ statement[s].at = "active" /\ statement[s].rows = 0
        /\ Goes(s, "ready", 0)
  /\ tries' = [tries EXCEPT ![s] = 0]
  /\ UNCHANGED QueryVars

(* The bug of a loop that never gives up. *)
StepBusy_ForEver(s) ==
  /\ statement[s].at = "ready" /\ ReadBusy
  /\ tries' = [tries EXCEPT ![s] = @ + 1]
  /\ UNCHANGED <<QueryVars, statement>>

(* A busy database is tried again after a pause; the last try gives up. *)
StepBusy(s) ==
  /\ statement[s].at = "ready" /\ ReadBusy
  /\ tries' = [tries EXCEPT ![s] = (@ + 1) % Tries]
  /\ UNCHANGED <<QueryVars, statement>>

Reset(s) ==
  /\ statement[s].at = "active"
  /\ Goes(s, "ready", 0)
  /\ UNCHANGED <<QueryVars, tries>>

Finalize(s) ==
  /\ statement[s].at \in {"ready", "active"}
  /\ Goes(s, "none", 0)
  /\ tries' = [tries EXCEPT ![s] = 0]
  /\ UNCHANGED QueryVars

-----------------------------------------------------------------------------
(* The other program reads and writes when the locks allow it.              *)
OtherProgram ==
  /\ \/ other = "none" /\ other' = "shared"
     \/ other = "none" /\ Lock = "none" /\ left = "none" /\ other' = "exclusive"
     \/ other # "none" /\ other' = "none"
  /\ UNCHANGED <<openVars, depth, fileVars, statement, tries, failures, ghostVars>>

Next ==
  \/ Open \/ OpenFails \/ Close \/ Crash \/ StartTransaction \/ EndTransaction
  \/ \E w \in Writes : Execute(w)
  \/ ExecuteFails
  \/ \E s \in Statements :
       PrepareStatement(s) \/ Step(s) \/ StepBusy(s) \/ Reset(s) \/ Finalize(s)
  \/ OtherProgram

Spec == Init /\ [][Next]_vars

-----------------------------------------------------------------------------
(* Every variable stays in its domain, and SQLite is only in a transaction  *)
(* on an open connection.                                                   *)
TypeOK ==
  /\ opened \in BOOLEAN /\ connection \in BOOLEAN /\ (opened => connection)
  /\ depth \in 0..MaxDepth
  /\ begun \in BOOLEAN /\ (begun => connection)
  /\ pending \subseteq Writes /\ stored \subseteq Writes
  /\ (pending # {} => begun)
  /\ left \in {"none", "shared", "reserved"}
  /\ other \in {"none", "shared", "exclusive"}
  /\ statement \in [Statements -> [at : {"none", "ready", "active", "orphan"},
                                   rows : 0..Rows]]
  /\ tries \in [Statements -> 0..(Tries - 1)]
  /\ failures \in 0..MaxFailures
  /\ outer \in 0..MaxOuter
  /\ groupOf \in [Writes -> 0..outer]
  /\ completed \subseteq 0..outer /\ broken \subseteq 0..outer

WritesOf(g) == {w \in Writes : groupOf[w] = g}

(* The writes of an outermost transaction reach the file together, and not  *)
(* before its own end: an inner end, a failed write, a BEGIN refused since  *)
(* an older COMMIT found the file in use, the other program's locks and the *)
(* death of the program do not split them.  Excepted are a transaction that *)
(* SQLite rolled back on an error, one that the caller closed the database  *)
(* in and one started before the database was opened, which only execute()  *)
(* does by itself: their writes go to the file one by one.                  *)
TransactionsAreWhole ==
  \A g \in (1..outer) \ broken :
    WritesOf(g) \cap stored # {} => g \in completed /\ WritesOf(g) \subseteq stored
=============================================================================
