------------------------- MODULE ExecutionLifecycle -------------------------
(***************************************************************************)
(* The pure reducer of bot/services/execution_lifecycle.py: the parent     *)
(* order states, the transition table, reduce_event and replay.            *)
(*                                                                         *)
(* Simplifications.  Quantities are naturals: the code's Decimals are only *)
(* added and compared.  The average fill price is left out: nothing but    *)
(* its own next value is computed from it.  An error raised by the code is *)
(* a false Accepts: the caller never gets a snapshot.                      *)
(***************************************************************************)
EXTENDS Naturals, Sequences

CONSTANT Requested   \* requested_quantity of the parent; 0 stands for None

ASSUME RequestedAssumption == Requested \in Nat

-----------------------------------------------------------------------------
(* States and transitions.                                                 *)

ParentState ==
  {"draft", "quoting", "ready", "authorizing", "scheduled", "active", "paused",
   "partial", "reconciling", "filled", "cancelled", "failed", "expired"}

TERMINAL_STATES == {"filled", "cancelled", "failed", "expired"}

AllowedTransitions ==
  [draft       |-> {"quoting", "cancelled", "failed"},
   quoting     |-> {"ready", "cancelled", "failed", "expired"},
   ready       |-> {"authorizing", "scheduled", "active", "cancelled", "failed", "expired"},
   authorizing |-> {"ready", "scheduled", "active", "reconciling", "cancelled", "failed",
                    "expired"},
   scheduled   |-> {"active", "paused", "reconciling", "cancelled", "failed", "expired"},
   active      |-> {"paused", "partial", "reconciling", "filled", "cancelled", "failed"},
   paused      |-> {"active", "partial", "reconciling", "filled", "cancelled", "failed"},
   partial     |-> {"active", "paused", "reconciling", "filled", "cancelled", "failed"},
   reconciling |-> {"active", "paused", "partial", "filled", "cancelled", "failed", "expired"},
   filled      |-> {},
   cancelled   |-> {},
   failed      |-> {},
   expired     |-> {}]

\* _validate_transition: staying put is always legal, terminal states are final.
ValidTransition(current, target) ==
  \/ current = target
  \/ /\ current \notin TERMINAL_STATES
     /\ target \in AllowedTransitions[current]

-----------------------------------------------------------------------------
(* Events and snapshots.  An event carries every field; the ones its type  *)
(* does not use hold "none" or 0.                                          *)

NoState == "none"

EventType ==
  {"parent_state_changed", "reconciliation_started", "reconciliation_resolved",
   "fill_recorded", "legacy_status_observed", "settlement_observed"}

\* ExecutionSnapshot's defaults (average_fill_price aside).
InitialSnapshot ==
  [state |-> "draft", sequence |-> 0, filled |-> 0, ids |-> {}, keys |-> {}]

IsNewFill(snapshot, event) ==
  event.type = "fill_recorded" /\ event.key \notin snapshot.keys

FillTarget(quantity) ==
  IF Requested # 0 /\ quantity >= Requested THEN "filled" ELSE "partial"

\* The state an event asks for, whatever its legality.
TargetState(snapshot, event) ==
  CASE event.type \in {"parent_state_changed", "reconciliation_resolved"} -> event.to
    [] event.type = "reconciliation_started" -> "reconciling"
    [] IsNewFill(snapshot, event) -> FillTarget(snapshot.filled + event.qty)
    [] OTHER -> snapshot.state

\* Mutant: the event's states are not validated.
AcceptsUnvalidated(snapshot, event) ==
  \/ event.id \in snapshot.ids
  \/ event.sequence = snapshot.sequence + 1

\* The checks reduce_event makes before it returns a snapshot.
Accepts(snapshot, event) ==
  \/ event.id \in snapshot.ids
  \/ /\ event.sequence = snapshot.sequence + 1
     /\ event.from \in {NoState, snapshot.state}
     /\ event.type \in {"parent_state_changed", "reconciliation_resolved"} =>
          event.to \in ParentState
     /\ event.type = "reconciliation_resolved" => snapshot.state = "reconciling"
     /\ IsNewFill(snapshot, event) => event.qty > 0
     /\ ValidTransition(snapshot.state, TargetState(snapshot, event))

\* What reduce_event returns when Accepts holds (with _advance).
Reduce(snapshot, event) ==
  IF event.id \in snapshot.ids
  THEN snapshot
  ELSE [state    |-> TargetState(snapshot, event),
        sequence |-> event.sequence,
        filled   |-> IF IsNewFill(snapshot, event)
                     THEN snapshot.filled + event.qty ELSE snapshot.filled,
        ids      |-> snapshot.ids \cup {event.id},
        keys     |-> IF IsNewFill(snapshot, event)
                     THEN snapshot.keys \cup {event.key} ELSE snapshot.keys]

\* replay: the snapshots reached after each prefix of a log in sequence order.
ReplayStates(log) ==
  LET after[n \in 0..Len(log)] ==
        IF n = 0 THEN InitialSnapshot ELSE Reduce(after[n - 1], log[n])
  IN  after

\* replay raises on no event of the log.
Replayable(log) ==
  \A n \in 1..Len(log) : Accepts(ReplayStates(log)[n - 1], log[n])

Replay(log) == ReplayStates(log)[Len(log)]

=============================================================================
