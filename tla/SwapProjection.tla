---------------------------- MODULE SwapProjection ----------------------------
(***************************************************************************)
(* project_legacy_swap of bot/services/legacy_swap_execution_adapter.py:   *)
(* what one transaction does when it translates the latest facts of a      *)
(* legacy swap row into the canonical rows.                                *)
(*                                                                         *)
(* A view (see ExecutionRows) carries besides the canonical rows the       *)
(* session's object of the swap row, the child placement and the           *)
(* settlement.  One swap is modelled: every identity the adapter derives   *)
(* (event ids, fill id, settlement key) contains the swap's id or its tx   *)
(* hash, so rows of different swaps never meet.  Requested is the swap's   *)
(* from_amount, which is also the quantity of its only fill.  The checks   *)
(* against rows of a foreign parent therefore never fire and are left out, *)
(* and so are assets, chains, USD values and metadata.                     *)
(***************************************************************************)
EXTENDS ExecutionRows

CONSTANT NoAmount   \* realized_to_amount is NULL

LegacyStatus ==
  {"pending", "quote_received", "awaiting_approval", "approved", "signed", "executing",
   "submitted", "confirming", "completed", "failed", "cancelled"}

StatusTarget ==
  [pending |-> "draft", quote_received |-> "ready", awaiting_approval |-> "authorizing",
   approved |-> "authorizing", signed |-> "authorizing", executing |-> "active",
   submitted |-> "active", confirming |-> "active", cancelled |-> "cancelled"]

\* _FORWARD_PATH by position; a path to reconciling leads through all of it.
ForwardPath ==
  [draft |-> 1, quoting |-> 2, ready |-> 3, authorizing |-> 4, active |-> 5, reconciling |-> 6]

\* _status_path does not raise.
HasPath(current, target) ==
  \/ current = target
  \/ /\ {current, target} \subseteq DOMAIN ForwardPath
     /\ ForwardPath[current] <= ForwardPath[target]
  \/ target \in {"cancelled", "failed"}

\* The states _status_path walks through, in the order of ForwardPath.
StatusPath(current, target) ==
  IF target \in {"cancelled", "failed"} THEN {target} \ {current}
  ELSE {next \in DOMAIN ForwardPath :
          ForwardPath[current] < ForwardPath[next] /\ ForwardPath[next] <= ForwardPath[target]}

-----------------------------------------------------------------------------
(* Events with their stable ids: at most one row per fact and swap.        *)

StateEvent(from, to) ==
  [id |-> <<"state", to>>, type |-> "parent_state_changed", from |-> from, to |-> to,
   key |-> NoState, qty |-> 0]

ObservationEvent(kind, fact) ==
  [id |-> <<kind, fact>>, type |-> kind, from |-> NoState, to |-> NoState,
   key |-> NoState, qty |-> 0]

\* One turn of _append_path's loop, if the path leads through the state.
Through(view, next, path) ==
  IF next \in path THEN AppendEvent(view, StateEvent(view.parent.state, next)) ELSE view

\* _append_path: one parent_state_changed event per state of the path.
AppendPath(view, target) ==
  LET path    == StatusPath(view.parent.state, target)
      quoting == Through(view, "quoting", path)
      ready   == Through(quoting, "ready", path)
      signing == Through(ready, "authorizing", path)
      active  == Through(signing, "active", path)
  IN  IF ~view.ok THEN view
      ELSE IF ~HasPath(view.parent.state, target) THEN Aborted(view)
      ELSE IF target \in {"reconciling", "cancelled", "failed"} THEN Through(active, target, path)
      ELSE active

-----------------------------------------------------------------------------
(* The steps of project_legacy_swap.                                       *)

\* _ensure_child: created with the swap's tx hash, or given it once known.
EnsureChild(view) ==
  [view EXCEPT !.child = IF view.swap.hash THEN "submitted"
                         ELSE IF @ = "none" THEN "created" ELSE @]

\* Mutant: any amount that is present.
PresentAmount(amount) == amount # NoAmount

\* _decimal raises on an amount that is not positive.
PositiveAmount(amount) == amount # NoAmount /\ amount > 0

\* _prepare_realized_fill.
PrepareRealizedFill(view) ==
  IF view.parent.state \in {"active", "partial", "reconciling", "filled"} THEN view
  ELSE IF view.parent.state \in TERMINAL_STATES THEN Aborted(view)
  ELSE AppendPath(view, "active")

\* _record_realized_fill: the realized output, never the quoted one.
RecordRealizedFill(view) ==
  IF ~PositiveAmount(view.swap.realized) THEN Aborted(view)
  ELSE RecordFill(view, [key |-> <<"fill", "realized">>, qty |-> Requested,
                         output |-> view.swap.realized])

NoSettlement == [state |-> "none", amount |-> NoAmount]

\* The settlement row _project_settlement leaves behind.
SettlementRow(view, state) ==
  IF state = "settled" THEN [state |-> "settled", amount |-> view.swap.realized]
  ELSE IF view.settlement.state = "settled" THEN view.settlement
  ELSE [view.settlement EXCEPT !.state = "reconciling"]

\* Mutant: a later report may replace the settled amount.
SettlementAmountReplaced(view, state) == TRUE

\* A settled amount never changes once observed.
SettlementAmountKept(view, state) ==
  state = "settled" => view.settlement.amount \in {NoAmount, view.swap.realized}

\* _project_settlement: upsert under the stable key, then its observation.
ProjectSettlement(view, state) ==
  IF ~view.ok \/ ~view.swap.hash THEN view
  ELSE IF ~SettlementAmountKept(view, state) THEN Aborted(view)
  ELSE LET row == SettlementRow(view, state)
       IN  AppendEvent([view EXCEPT !.settlement = row],
                       ObservationEvent("settlement_observed", row.state))

\* completed with a realized amount: active if need be, the fill, the settlement.
ProjectRealized(view) ==
  ProjectSettlement(RecordRealizedFill(PrepareRealizedFill(view)), "settled")

\* An outcome without proof of delivery is never more than reconciling.
ProjectAmbiguous(view) ==
  ProjectSettlement(AppendPath(view, "reconciling"), "reconciling")

\* What project_legacy_swap does after the parent, the child and the observation.
ProjectStatus(view) ==
  LET swap == view.swap
  IN  CASE swap.status = "completed" /\ swap.realized # NoAmount -> ProjectRealized(view)
        [] swap.status = "completed" /\ swap.realized = NoAmount -> ProjectAmbiguous(view)
        [] swap.status = "failed" /\ swap.hash -> ProjectAmbiguous(view)
        [] swap.status = "failed" /\ ~swap.hash -> AppendPath(view, "failed")
        [] OTHER -> AppendPath(view, StatusTarget[swap.status])

\* project_legacy_swap, its parent already found or created by ensure_legacy_parent.
ProjectLegacySwap(view) ==
  LET observed == AppendEvent(EnsureChild(view),
                    ObservationEvent("legacy_status_observed", view.swap.status))
  IN  IF observed.ok THEN ProjectStatus(observed) ELSE observed

=============================================================================
