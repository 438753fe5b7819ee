---------------------------- MODULE CommandChannel ----------------------------
(***************************************************************************)
(* What a data source that queues requests for the simulator promises the   *)
(* devices: commands are executed once each, in the order they were         *)
(* accepted, and the value first requested for a data ref is written before *)
(* any later request for it is considered.                                  *)
(***************************************************************************)
EXTENDS Sequences

CONSTANTS
  Commands,  \* the simulator's commands
  Names,     \* data refs
  Writable,  \* the data refs the simulator has: a request for another is dropped
  Values

VARIABLES
  accepted,  \* commands not yet executed, oldest first
  executed,  \* every command executed, in order
  wanted,    \* the value requested for each data ref not yet written
  written    \* the last value written to each data ref, once written

vars == <<accepted, executed, wanted, written>>

Without(f, n) == [m \in DOMAIN f \ {n} |-> f[m]]
With(f, n, v) == [m \in DOMAIN f \cup {n} |-> IF m = n THEN v ELSE f[m]]

Init ==
  /\ accepted = << >> /\ executed = << >>
  /\ wanted = << >> /\ written = << >>

Accept(c) ==
  /\ accepted' = Append(accepted, c)
  /\ UNCHANGED <<executed, wanted, written>>

Execute ==
  /\ accepted # << >>
  /\ executed' = Append(executed, Head(accepted))
  /\ accepted' = Tail(accepted)
  /\ UNCHANGED <<wanted, written>>

Request(n, v) ==
  /\ n \notin DOMAIN wanted
  /\ wanted' = With(wanted, n, v)
  /\ UNCHANGED <<accepted, executed, written>>

Write(n) ==
  /\ n \in DOMAIN wanted
  /\ written' = IF n \in Writable THEN With(written, n, wanted[n]) ELSE written
  /\ wanted' = Without(wanted, n)
  /\ UNCHANGED <<accepted, executed>>

Next ==
  \/ \E c \in Commands : Accept(c)
  \/ Execute
  \/ \E n \in Names, v \in Values : Request(n, v)
  \/ \E n \in Names : Write(n)

(* Nothing accepted waits for ever. *)
Fairness == WF_vars(Execute) /\ \A n \in Names : WF_vars(Write(n))

Spec == Init /\ [][Next]_vars /\ Fairness
=============================================================================
