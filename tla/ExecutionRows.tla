---------------------------- MODULE ExecutionRows ----------------------------
(***************************************************************************)
(* What one database transaction of bot/services/execution_store.py does   *)
(* to the canonical rows of one parent order.                              *)
(*                                                                         *)
(* A view is what the transaction sees: the parent object of its identity  *)
(* map, the event log (committed rows and its own), the fills, and whether *)
(* it is still usable (an error raised inside it rolls everything back).   *)
(* Every writer of the log holds the parent's row lock until it commits,   *)
(* so the committed part of a view's log cannot change underneath it.      *)
(*                                                                         *)
(* The parent object may be older than the lock: the session reads with    *)
(* SELECT ... FOR UPDATE what it already has in its identity map, and      *)
(* SQLAlchemy does not refresh such an object.  What stands against a lost *)
(* update is the unique constraint on (parent_order_id, sequence).         *)
(*                                                                         *)
(* An outbox row is inserted in the same flush as its event, with the      *)
(* event's id as its key: a log row stands for both.                       *)
(***************************************************************************)
EXTENDS ExecutionLifecycle

\* The columns of execution_parent_orders that the lifecycle materializes.
NewParent == [state |-> "draft", sequence |-> 0, filled |-> 0]

Materialized(snapshot) ==
  [state |-> snapshot.state, sequence |-> snapshot.sequence, filled |-> snapshot.filled]

\* _snapshot_from_parent: the applied event and fill identities are not stored.
SnapshotFromParent(parent) ==
  [state |-> parent.state, sequence |-> parent.sequence, filled |-> parent.filled,
   ids |-> {}, keys |-> {}]

HasEvent(log, id) == \E i \in 1..Len(log) : log[i].id = id

\* Mutant: no unique constraint.
SequenceNeverTaken(log, sequence) == FALSE

\* The unique constraint uq_exec_event_parent_sequence would fire.
SequenceTaken(log, sequence) == \E i \in 1..Len(log) : log[i].sequence = sequence

\* The row append_event would insert for this event.
EventRow(parent, event) ==
  [id |-> event.id, sequence |-> parent.sequence + 1, type |-> event.type,
   from |-> event.from, to |-> event.to, key |-> event.key, qty |-> event.qty]

Aborted(view) == [view EXCEPT !.ok = FALSE]

\* The flush goes through: the reducer accepts the event and no constraint fires.
CanInsert(view, event) ==
  LET row == EventRow(view.parent, event)
  IN  /\ Accepts(SnapshotFromParent(view.parent), row)
      /\ ~SequenceTaken(view.log, row.sequence)

\* append_event after the lock: a known id is returned unchanged, an event the
\* reducer or the database refuses aborts the transaction.
AppendEvent(view, event) ==
  LET row == EventRow(view.parent, event)
  IN  IF ~view.ok \/ HasEvent(view.log, event.id) THEN view
      ELSE IF ~CanInsert(view, event) THEN Aborted(view)
      ELSE [view EXCEPT !.parent = Materialized(Reduce(SnapshotFromParent(@), row)),
                        !.log = Append(@, row)]

\* The event record_fill appends: its id is derived from the fill's identity.
FillEvent(fill) ==
  [id |-> fill.key, type |-> "fill_recorded", from |-> NoState, to |-> NoState,
   key |-> fill.key, qty |-> fill.qty]

\* Mutant: the same fill with another quantity is a new fill.
HasFillNever(view, key) == FALSE

HasFill(view, key) == \E f \in view.fills : f.key = key

\* record_fill after the lock: one row per external identity, then its event.
RecordFill(view, fill) ==
  IF ~view.ok \/ HasFill(view, fill.key) THEN view
  ELSE AppendEvent([view EXCEPT !.fills = @ \cup {fill}], FillEvent(fill))

=============================================================================
