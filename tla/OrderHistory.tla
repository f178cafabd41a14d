---------------------------- MODULE OrderHistory ----------------------------
(***************************************************************************)
(* What the execution store promises about one parent order, whatever      *)
(* sessions, locks and caches it is made of: a history that only grows, by *)
(* whole transactions, each of them a further run of the reducer from the  *)
(* state the last one left; and a parent row that is always the end of it. *)
(***************************************************************************)
EXTENDS ExecutionRows

VARIABLES
  parent,   \* the parent row
  log,      \* the event rows
  hist      \* the snapshots the reducer goes through, one more than events

Init ==
  /\ parent = NewParent
  /\ log = <<>>
  /\ hist = <<InitialSnapshot>>

\* One transaction appends events that the reducer accepts one after the other.
Transact ==
  /\ Len(log') > Len(log)
  /\ Len(hist') = Len(log') + 1
  /\ \A n \in 1..Len(log) : log'[n] = log[n]
  /\ \A n \in 1..Len(hist) : hist'[n] = hist[n]
  /\ \A n \in Len(hist)..Len(log') :
       /\ log'[n].sequence = n
       /\ Accepts(hist'[n], log'[n])
       /\ hist'[n + 1] = Reduce(hist'[n], log'[n])
  /\ parent' = Materialized(hist'[Len(hist')])

Spec == Init /\ [][Transact]_<<parent, log, hist>>

=============================================================================
