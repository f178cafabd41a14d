--------------------------- MODULE MCExecutionStore ---------------------------
(* ExecutionStore on a small instance: three sessions, a swap-like life of   *)
(* a parent, two fills that together complete it.                            *)
EXTENDS ExecutionStore

MCEvent(id, type, from, to) ==
  [id |-> id, type |-> type, from |-> from, to |-> to, key |-> "none", qty |-> 0]

MCEvents ==
  {MCEvent("quoting", "parent_state_changed", "draft", "quoting"),
   MCEvent("ready", "parent_state_changed", "quoting", "ready"),
   MCEvent("active", "parent_state_changed", NoState, "active"),
   MCEvent("cancel", "parent_state_changed", NoState, "cancelled"),
   MCEvent("start", "reconciliation_started", NoState, NoState),
   MCEvent("resolve", "reconciliation_resolved", NoState, "partial"),
   MCEvent("malformed", "parent_state_changed", NoState, NoState),
   MCEvent("seen", "legacy_status_observed", NoState, NoState)}

\* Two fills, and a second report of the first with another quantity.
MCFills ==
  {[key |-> "f1", qty |-> 1], [key |-> "f1", qty |-> 2], [key |-> "f2", qty |-> 1]}

=============================================================================
