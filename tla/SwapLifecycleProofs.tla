------------------------- MODULE SwapLifecycleProofs -------------------------
(***************************************************************************)
(* Proofs that a swap's legacy and canonical rows agree, for any number of *)
(* poller and reconciler processes, any routes and reports and any number  *)
(* of crashes: a canonical fill is the delivery that was reported, and a   *)
(* terminal legacy status is never without its canonical counterpart.      *)
(***************************************************************************)
EXTENDS SwapLifecycle, ReplayProofs

-----------------------------------------------------------------------------
(* Rows and views.                                                         *)

\* The ids of the event that makes a parent ambiguous and of the one that fills it.
Reconciled == <<"state", "reconciling">>
Delivered  == <<"fill", "realized">>

\* The statuses a broadcast swap may show.
Statuses == {"pending", "submitted", "confirming", "completed", "failed"}

EventIds ==
  ({"state", "legacy_status_observed", "settlement_observed"}
     \X (ParentState \cup LegacyStatus \cup {"settled"})) \cup {Delivered}

LogRows ==
  [id : EventIds, sequence : Nat, type : EventType, from : ParentState \cup {NoState},
   to : ParentState \cup {NoState}, key : {NoState, Delivered}, qty : Nat]

EventRecords ==
  [id : EventIds, type : EventType, from : ParentState \cup {NoState},
   to : ParentState \cup {NoState}, key : {NoState, Delivered}, qty : Nat]

ParentRows == [state : ParentState, sequence : Nat, filled : Nat]

FillRows == [key : {Delivered}, qty : {Requested}, output : Amounts \ {0}]

SwapRows(amounts) ==
  [status : Statuses, hash : {TRUE}, realized : amounts \cup {NoAmount}, dest : Dests \cup {NoDest}]

SettlementRows ==
  [state : {"none", "reconciling", "settled"}, amount : (Amounts \ {0}) \cup {NoAmount}]

ChildStates == {"none", "created", "submitted"}

Views ==
  [swap : SwapRows(Amounts), parent : ParentRows, log : Seq(LogRows), fills : SUBSET FillRows,
   child : ChildStates, settlement : SettlementRows, ok : BOOLEAN]

\* The parent object is as new as the log.
Current(v) == v.parent.sequence = Len(v.log)

\* A replay of the log meets no illegal event and no second fill, and has applied
\* the events that the log holds.
Replayed(log) ==
  /\ Replayable(log)
  /\ \A id : id \in Replay(log).ids <=> HasEvent(log, id)
  /\ \A key \in Replay(log).keys : key = Delivered /\ HasEvent(log, Delivered)

\* The log is numbered, and says whether its parent was ever ambiguous and
\* whether it is filled; a filled parent stays so, an ambiguous one until then.
Orderly(v) ==
  /\ Replayed(v.log)
  /\ \A i \in 1..Len(v.log) : v.log[i].sequence = i
  /\ v.parent.sequence <= Len(v.log)
  /\ v.parent.state = "reconciling" => HasEvent(v.log, Reconciled)
  /\ Current(v) =>
       /\ v.parent.state = "filled" <=> HasEvent(v.log, Delivered)
       /\ HasEvent(v.log, Reconciled) => v.parent.state \in {"reconciling", "filled"}
       /\ v.parent = Materialized(Replay(v.log))

\* A fill is on record, with its settlement, if the log says so.
Paid(v) ==
  /\ v.fills = {} <=> ~HasEvent(v.log, Delivered)
  /\ \A f \in v.fills : v.settlement = [state |-> "settled", amount |-> f.output]
  /\ v.fills = {} => v.settlement.state # "settled" /\ v.settlement.amount = NoAmount

\* A step of a projection: n is aborted, or v with more events.  An outdated
\* parent object gets none.
Continues(v, n) ==
  /\ n \in Views /\ n.swap = v.swap
  /\ n.ok =>
       /\ v.ok /\ Orderly(n)
       /\ \A id \in EventIds : HasEvent(v.log, id) => HasEvent(n.log, id)
       /\ \/ n.log = v.log /\ n.parent = v.parent
          \/ Current(v) /\ Current(n) /\ Len(v.log) < Len(n.log)

\* Nothing but parent and log has changed, and no fill was reported.
NoMoney(v, n) ==
  /\ n.fills = v.fills /\ n.child = v.child /\ n.settlement = v.settlement
  /\ n.ok => (HasEvent(n.log, Delivered) <=> HasEvent(v.log, Delivered))

-----------------------------------------------------------------------------
(* The inductive invariant.                                                *)

\* The committed rows.
DbRows ==
  [swap : SwapRows(Amounts \ {0}), parent : ParentRows \cup {NoParent}, log : Seq(LogRows),
   fills : SUBSET FillRows, child : ChildStates, settlement : SettlementRows]

\* The parent on record is as new as its log.
ParentOnRecord ==
  IF db.parent = NoParent THEN db.log = <<>> ELSE Orderly(db) /\ Current(db)

\* The fill on record is the realized amount of the swap's row.
DbInv ==
  /\ db \in DbRows
  /\ ParentOnRecord
  /\ Paid(db)
  /\ db.swap.realized = NoAmount <=> db.fills = {}
  /\ \A f \in db.fills : f.output = db.swap.realized

\* A parent object that a session read is not ahead of the one on record.
Outdated(parent) ==
  /\ db.parent # NoParent /\ parent \in ParentRows /\ parent.sequence <= Len(db.log)
  /\ parent.sequence = Len(db.log) => parent = db.parent
  /\ parent.state = "reconciling" => HasEvent(db.log, Reconciled)

\* What a poller process holds was once on record.
SessionInv(w) ==
  /\ worker[w].swap \in SwapRows(Amounts \ {0})
  /\ worker[w].swap.realized \in {NoAmount, db.swap.realized}
  /\ worker[w].next \in Statuses
  /\ worker[w].parent # NoParent => Outdated(worker[w].parent)

\* The swap has ended one way or the other, and the canonical rows say so.
Ended(v, status) ==
  /\ HasEvent(v.log, <<"legacy_status_observed", status>>)
  /\ HasEvent(v.log, Reconciled) \/ v.fills # {}
  /\ v.settlement.state # "none"

IInv ==
  /\ TypeOK
  /\ DbInv
  /\ \A w \in Workers : SessionInv(w)
  /\ checks = 0 /\ db.swap.status \in LegacyTerminal => Ended(db, db.swap.status)

-----------------------------------------------------------------------------
(* Events.                                                                 *)

\* Steps of a projection compose.
LEMMA ContinuesOn ==
  ASSUME NEW u \in Views, NEW v, NEW n, Continues(u, v), Continues(v, n)
  PROVE  Continues(u, n)
<1>1. v \in Views /\ n \in Views
  BY DEF Continues
<1>2. Len(u.log) \in Nat /\ Len(v.log) \in Nat /\ Len(n.log) \in Nat
  BY <1>1 DEF Views
<1> QED
  BY <1>1, <1>2 DEF Continues, Current

\* What is in a log after one more row.
LEMMA LogGrows ==
  ASSUME NEW log \in Seq(LogRows), NEW row \in LogRows
  PROVE  /\ Append(log, row) \in Seq(LogRows) /\ Len(Append(log, row)) = Len(log) + 1
         /\ \A i \in 1..Len(log) : Append(log, row)[i] = log[i]
         /\ Append(log, row)[Len(log) + 1] = row
         /\ \A id : HasEvent(Append(log, row), id) <=> HasEvent(log, id) \/ row.id = id
<1>1. /\ Append(log, row) \in Seq(LogRows) /\ Len(Append(log, row)) = Len(log) + 1
      /\ \A i \in 1..Len(log) : Append(log, row)[i] = log[i]
      /\ Append(log, row)[Len(log) + 1] = row
  OBVIOUS
<1>2. Len(log) \in Nat
  OBVIOUS
<1>3. \A i : i \in 1..Len(Append(log, row)) <=> i \in 1..Len(log) \/ i = Len(log) + 1
  BY <1>1, <1>2
<1> QED
  BY <1>1, <1>2, <1>3 DEF HasEvent

\* v with one row more and its parent object updated.
Inserted(v, parent, row) == [v EXCEPT !.parent = parent, !.log = Append(v.log, row)]

\* append_event: nothing for a known id or a broken transaction, an abort, or
\* one row, which the reducer accepts, from a parent object that is current.
LEMMA AppendOutcome ==
  ASSUME NEW v \in Views, Orderly(v), NEW e \in EventRecords, NEW n, n = AppendEvent(v, e)
  PROVE  \/ n = v /\ (v.ok => HasEvent(v.log, e.id))
         \/ n = [v EXCEPT !.ok = FALSE]
         \/ /\ v.ok /\ ~HasEvent(v.log, e.id) /\ Current(v)
            /\ EventRow(v.parent, e) \in LogRows
            /\ Accepts(SnapshotFromParent(v.parent), EventRow(v.parent, e))
            /\ n = Inserted(v, Materialized(Reduce(SnapshotFromParent(v.parent),
                                                   EventRow(v.parent, e))), EventRow(v.parent, e))
<1> DEFINE row == EventRow(v.parent, e)
<1>1. v.parent \in ParentRows /\ v.log \in Seq(LogRows) /\ Len(v.log) \in Nat
  BY DEF Views
<1>2. row \in LogRows /\ row.sequence = v.parent.sequence + 1
  BY <1>1 DEF EventRow, EventRecords, LogRows, ParentRows
<1>3. ASSUME ~SequenceTaken(v.log, row.sequence)
      PROVE  Current(v)
  BY <1>1, <1>2, <1>3 DEF SequenceTaken, Orderly, Current, ParentRows
<1>4. CASE ~v.ok \/ HasEvent(v.log, e.id)
  BY <1>4 DEF AppendEvent
<1>5. CASE v.ok /\ ~HasEvent(v.log, e.id) /\ ~CanInsert(v, e)
  BY <1>5 DEF AppendEvent, Aborted
<1>6. CASE v.ok /\ ~HasEvent(v.log, e.id) /\ CanInsert(v, e)
  BY <1>2, <1>3, <1>6 DEF AppendEvent, CanInsert, Inserted
<1> QED
  BY <1>4, <1>5, <1>6

\* A row the reducer accepts and the fact that it is new: parent is what it makes
\* of the parent object of v.
Insertable(v, parent, row) ==
  /\ ~HasEvent(v.log, row.id)
  /\ Accepts(SnapshotFromParent(v.parent), row)
  /\ row.type = "fill_recorded" => row.id = Delivered /\ row.key = Delivered
  /\ parent = Materialized(Reduce(SnapshotFromParent(v.parent), row))

\* An empty log replays to a new parent.
LEMMA NothingReplayed == Replayed(<<>>) /\ NewParent = Materialized(Replay(<<>>))
<1>1. \A id : ~HasEvent(<<>>, id)
  BY DEF HasEvent
<1> QED
  BY <1>1, ReplayOfNothing DEF Replayed, NewParent, Materialized, InitialSnapshot

\* The reducer, run from the parent object, does what a replay of the log does.
LEMMA ReplayGoesOn ==
  ASSUME NEW v \in Views, Orderly(v), Current(v), NEW row \in LogRows, NEW parent,
         Insertable(v, parent, row)
  PROVE  Replayed(Append(v.log, row)) /\ parent = Materialized(Replay(Append(v.log, row)))
<1> DEFINE s   == Replay(v.log)
           log == Append(v.log, row)
<1>1. /\ v.log \in Seq(LogRows) /\ Replayable(v.log) /\ v.parent = Materialized(s)
      /\ \A id : id \in s.ids <=> HasEvent(v.log, id)
      /\ \A key \in s.keys : key = Delivered /\ HasEvent(v.log, Delivered)
  BY DEF Views, Orderly, Replayed
<1>2. /\ Replay(log) = Reduce(s, row)
      /\ Replayable(log) <=> Replayable(v.log) /\ Accepts(s, row)
  BY <1>1, ReplayOfAppend
<1>3. \A id : HasEvent(log, id) <=> HasEvent(v.log, id) \/ row.id = id
  BY <1>1, LogGrows
<1> HIDE DEF s, log
<1>4. row.id \notin s.ids /\ (row.type = "fill_recorded" => row.key \notin s.keys)
  BY <1>1 DEF Insertable
<1>5. /\ Accepts(SnapshotFromParent(v.parent), row) <=> Accepts(s, row)
      /\ Materialized(Reduce(SnapshotFromParent(v.parent), row)) = Materialized(Reduce(s, row))
  BY <1>1, <1>4, ReducerAgrees
<1>6. /\ Reduce(s, row).ids = s.ids \cup {row.id}
      /\ Reduce(s, row).keys = IF row.type = "fill_recorded" THEN s.keys \cup {row.key} ELSE s.keys
  BY <1>4 DEF Reduce, IsNewFill
<1>7. Replayed(log)
  <2>1. \A id : id \in Replay(log).ids <=> HasEvent(log, id)
    BY <1>1, <1>2, <1>3, <1>6
  <2>2. \A key \in Replay(log).keys : key = Delivered /\ HasEvent(log, Delivered)
    BY <1>1, <1>2, <1>3, <1>6 DEF Insertable
  <2>3. Replayable(log)
    BY <1>1, <1>2, <1>5 DEF Insertable
  <2> QED
    BY <2>1, <2>2, <2>3 DEF Replayed
<1> QED
  BY <1>2, <1>5, <1>7 DEF Insertable, log

\* One row more, from a current parent object.
LEMMA InsertOutcome ==
  ASSUME NEW v \in Views, Orderly(v), Current(v), NEW row \in LogRows, NEW parent \in ParentRows,
         row.sequence = v.parent.sequence + 1, parent.sequence = row.sequence,
         Insertable(v, parent, row), NEW n, n = Inserted(v, parent, row)
  PROVE  /\ n \in Views /\ Current(n) /\ n.parent = parent /\ Len(v.log) < Len(n.log)
         /\ n.swap = v.swap /\ n.fills = v.fills /\ n.child = v.child
         /\ n.settlement = v.settlement /\ n.ok = v.ok
         /\ \A i \in 1..Len(n.log) : n.log[i].sequence = i
         /\ \A id : HasEvent(n.log, id) <=> HasEvent(v.log, id) \/ row.id = id
         /\ Replayed(n.log) /\ n.parent = Materialized(Replay(n.log))
<1>1. /\ v.log \in Seq(LogRows) /\ Len(v.log) \in Nat /\ v.parent.sequence = Len(v.log)
      /\ \A i \in 1..Len(v.log) : v.log[i].sequence = i
  BY DEF Views, Current, Orderly
<1>2. /\ n.log = Append(v.log, row) /\ n.parent = parent
      /\ n.swap = v.swap /\ n.fills = v.fills /\ n.child = v.child
      /\ n.settlement = v.settlement /\ n.ok = v.ok
  BY DEF Views, Inserted
<1>3. /\ n.log \in Seq(LogRows) /\ Len(n.log) = Len(v.log) + 1
      /\ \A i \in 1..Len(v.log) : n.log[i] = v.log[i]
      /\ n.log[Len(v.log) + 1] = row
      /\ \A id : HasEvent(n.log, id) <=> HasEvent(v.log, id) \/ row.id = id
  BY <1>1, <1>2, LogGrows
<1>4. n \in Views
  BY <1>3 DEF Views, Inserted
<1>5. \A i \in 1..Len(n.log) : n.log[i].sequence = i
  BY <1>1, <1>3
<1>6. Replayed(n.log) /\ n.parent = Materialized(Replay(n.log))
  BY <1>2, ReplayGoesOn
<1> QED
  BY <1>1, <1>2, <1>3, <1>4, <1>5, <1>6 DEF Current

\* A transaction that is broken or to which nothing is added goes on as it is.
LEMMA Unchanged ==
  ASSUME NEW v \in Views, Orderly(v), NEW n, n = v \/ n = [v EXCEPT !.ok = FALSE]
  PROVE  Continues(v, n) /\ NoMoney(v, n) /\ n.parent = v.parent /\ n.log = v.log
<1>1. CASE n = v
  BY <1>1 DEF Continues, NoMoney
<1>2. CASE n = [v EXCEPT !.ok = FALSE]
  BY <1>2 DEF Continues, NoMoney, Views
<1> QED
  BY <1>1, <1>2

\* An observation is in the log afterwards, and says nothing about the parent.
LEMMA ObservationStep ==
  ASSUME NEW v \in Views, Orderly(v),
         NEW kind \in {"legacy_status_observed", "settlement_observed"}, NEW fact,
         <<kind, fact>> \in EventIds,
         NEW n, n = AppendEvent(v, ObservationEvent(kind, fact))
  PROVE  /\ Continues(v, n) /\ NoMoney(v, n)
         /\ n.ok => HasEvent(n.log, <<kind, fact>>)
<1> DEFINE e   == ObservationEvent(kind, fact)
           row == EventRow(v.parent, e)
<1>1. /\ e \in EventRecords /\ e.id = <<kind, fact>> /\ e.type = kind /\ e.from = NoState
      /\ e.id # Reconciled /\ e.id # Delivered
  BY DEF ObservationEvent, EventRecords, EventType, Reconciled, Delivered
<1>2. CASE n = v /\ (v.ok => HasEvent(v.log, e.id))
  BY <1>1, <1>2, Unchanged
<1>3. CASE n = [v EXCEPT !.ok = FALSE]
  <2>1. ~n.ok
    BY <1>3 DEF Views
  <2> QED
    BY <1>3, <2>1, Unchanged
<1>4. CASE /\ v.ok /\ ~HasEvent(v.log, e.id) /\ Current(v) /\ row \in LogRows
           /\ Accepts(SnapshotFromParent(v.parent), row)
           /\ n = Inserted(v, Materialized(Reduce(SnapshotFromParent(v.parent), row)), row)
  <2> DEFINE parent == Materialized(Reduce(SnapshotFromParent(v.parent), row))
  <2>1. v.parent \in ParentRows
    BY DEF Views
  <2>2. row.id = e.id /\ row.type = kind /\ row.sequence = v.parent.sequence + 1
    BY <1>1 DEF EventRow
  <2>3. parent = [state |-> v.parent.state, sequence |-> row.sequence, filled |-> v.parent.filled]
    BY <2>2 DEF Materialized, Reduce, SnapshotFromParent, TargetState, IsNewFill
  <2>4. parent \in ParentRows
    BY <2>1, <2>2, <2>3 DEF ParentRows
  <2>9. /\ n = Inserted(v, parent, row) /\ parent.sequence = row.sequence
        /\ Insertable(v, parent, row)
    BY <1>4, <2>2, <2>3 DEF Insertable
  <2> HIDE DEF parent, row, e
  <2>5. /\ n \in Views /\ Current(n) /\ n.parent = parent /\ Len(v.log) < Len(n.log)
        /\ n.swap = v.swap /\ n.fills = v.fills /\ n.child = v.child
        /\ n.settlement = v.settlement /\ n.ok = v.ok
        /\ \A i \in 1..Len(n.log) : n.log[i].sequence = i
        /\ \A id : HasEvent(n.log, id) <=> HasEvent(v.log, id) \/ row.id = id
        /\ Replayed(n.log) /\ n.parent = Materialized(Replay(n.log))
    <3>1. row \in LogRows /\ Current(v) /\ row.sequence = v.parent.sequence + 1
      BY <1>4, <2>2
    <3> QED
      BY <2>4, <2>9, <3>1, InsertOutcome
  <2>6. Orderly(n)
    BY <1>1, <1>4, <2>1, <2>2, <2>3, <2>4, <2>5 DEF Orderly, Current, ParentRows
  <2> QED
    BY <1>1, <1>4, <2>2, <2>5, <2>6 DEF Continues, NoMoney
<1> QED
  BY <1>1, <1>2, <1>3, <1>4, AppendOutcome

\* A change of state is in the log afterwards; none leads out of reconciling.
LEMMA StateStep ==
  ASSUME NEW v \in Views, Orderly(v), NEW s \in DOMAIN ForwardPath, s # "draft",
         v.parent.state # "reconciling",
         NEW n, n = AppendEvent(v, StateEvent(v.parent.state, s))
  PROVE  /\ Continues(v, n) /\ NoMoney(v, n)
         /\ n.ok => HasEvent(n.log, <<"state", s>>)
         /\ n.parent.state = "reconciling" => s = "reconciling"
<1> DEFINE e   == StateEvent(v.parent.state, s)
           row == EventRow(v.parent, e)
<1>0. v.parent \in ParentRows /\ s \in {"quoting", "ready", "authorizing", "active", "reconciling"}
  BY DEF Views, ForwardPath
<1>1. /\ e \in EventRecords /\ e.id = <<"state", s>> /\ e.type = "parent_state_changed"
      /\ e.to = s /\ e.id # Delivered
      /\ e.id = Reconciled <=> s = "reconciling"
  BY <1>0 DEF StateEvent, EventRecords, EventType, Reconciled, Delivered, ParentRows, ParentState,
     EventIds, LegacyStatus
<1>2. CASE n = v /\ (v.ok => HasEvent(v.log, e.id))
  BY <1>1, <1>2, Unchanged
<1>3. CASE n = [v EXCEPT !.ok = FALSE]
  <2>1. ~n.ok
    BY <1>3 DEF Views
  <2> QED
    BY <1>3, <2>1, Unchanged
<1>4. CASE /\ v.ok /\ ~HasEvent(v.log, e.id) /\ Current(v) /\ row \in LogRows
           /\ Accepts(SnapshotFromParent(v.parent), row)
           /\ n = Inserted(v, Materialized(Reduce(SnapshotFromParent(v.parent), row)), row)
  <2> DEFINE parent == Materialized(Reduce(SnapshotFromParent(v.parent), row))
  <2>2. row.id = e.id /\ row.type = "parent_state_changed" /\ row.to = s
        /\ row.sequence = v.parent.sequence + 1
    BY <1>1 DEF EventRow
  <2>3. parent = [state |-> s, sequence |-> row.sequence, filled |-> v.parent.filled]
    BY <2>2 DEF Materialized, Reduce, SnapshotFromParent, TargetState, IsNewFill
  <2>4. parent \in ParentRows
    BY <1>0, <2>2, <2>3 DEF ParentRows, ParentState
  <2>5. v.parent.state # "filled"
    <3> HIDE DEF row, e
    <3>0. TargetState(SnapshotFromParent(v.parent), row) = s
      BY <2>2 DEF TargetState, IsNewFill
    <3>1. ValidTransition(v.parent.state, s)
      BY <1>4, <3>0 DEF Accepts, SnapshotFromParent
    <3> QED
      BY <1>0, <3>1 DEF ValidTransition, TERMINAL_STATES
  <2>9. /\ n = Inserted(v, parent, row) /\ parent.sequence = row.sequence
        /\ Insertable(v, parent, row)
    BY <1>4, <2>2, <2>3 DEF Insertable
  <2> HIDE DEF parent, row, e
  <2>6. /\ n \in Views /\ Current(n) /\ n.parent = parent /\ Len(v.log) < Len(n.log)
        /\ n.swap = v.swap /\ n.fills = v.fills /\ n.child = v.child
        /\ n.settlement = v.settlement /\ n.ok = v.ok
        /\ \A i \in 1..Len(n.log) : n.log[i].sequence = i
        /\ \A id : HasEvent(n.log, id) <=> HasEvent(v.log, id) \/ row.id = id
        /\ Replayed(n.log) /\ n.parent = Materialized(Replay(n.log))
    <3>1. row \in LogRows /\ Current(v) /\ row.sequence = v.parent.sequence + 1
      BY <1>4, <2>2
    <3> QED
      BY <2>4, <2>9, <3>1, InsertOutcome
  <2>7. ~HasEvent(v.log, Delivered) /\ ~HasEvent(v.log, Reconciled)
    BY <1>4, <2>5 DEF Orderly
  <2>8. Orderly(n)
    BY <1>0, <1>1, <2>2, <2>3, <2>4, <2>6, <2>7 DEF Orderly, Current, ParentRows
  <2> QED
    BY <1>1, <1>4, <2>2, <2>3, <2>6, <2>8 DEF Continues, NoMoney
<1> QED
  BY <1>1, <1>2, <1>3, <1>4, AppendOutcome

\* Neither does a composition of steps touch what its parts leave alone.
LEMMA NoMoneyOn ==
  ASSUME NEW u, NEW v, NEW n, NoMoney(u, v), NoMoney(v, n), Continues(v, n)
  PROVE  NoMoney(u, n)
  BY DEF NoMoney, Continues

\* A view on the way to another state.
OnTheWay(v) == v \in Views /\ (v.ok => Orderly(v)) /\ v.parent.state # "reconciling"

\* One turn of the loop of _append_path.
LEMMA ThroughStep ==
  ASSUME NEW v, OnTheWay(v), NEW path, NEW s \in DOMAIN ForwardPath, s # "draft"
  PROVE  /\ Continues(v, Through(v, s, path)) /\ NoMoney(v, Through(v, s, path))
         /\ Through(v, s, path).ok /\ s \in path =>
              HasEvent(Through(v, s, path).log, <<"state", s>>)
         /\ s # "reconciling" => OnTheWay(Through(v, s, path))
<1> DEFINE n == Through(v, s, path)
<1>0. v \in Views /\ (v.ok => Orderly(v)) /\ v.parent.state # "reconciling"
  BY DEF OnTheWay
<1>1. CASE s \notin path \/ ~v.ok
  <2>1. n = v
    <3>1. CASE s \notin path
      BY <3>1 DEF Through
    <3>2. CASE ~v.ok
      <4>1. AppendEvent(v, StateEvent(v.parent.state, s)) = v
        BY <3>2 DEF AppendEvent
      <4> QED
        BY <4>1 DEF Through
    <3> QED
      BY <1>1, <3>1, <3>2
  <2> QED
    BY <1>0, <1>1, <2>1 DEF Continues, NoMoney, OnTheWay
<1>2. CASE s \in path /\ v.ok
  <2>1. Orderly(v) /\ n = AppendEvent(v, StateEvent(v.parent.state, s))
    BY <1>0, <1>2 DEF Through
  <2> HIDE DEF n
  <2>2. /\ Continues(v, n) /\ NoMoney(v, n)
        /\ n.ok => HasEvent(n.log, <<"state", s>>)
        /\ n.parent.state = "reconciling" => s = "reconciling"
    BY <1>0, <2>1, StateStep
  <2>3. n \in Views /\ (n.ok => Orderly(n))
    BY <2>2 DEF Continues
  <2> QED
    BY <2>2, <2>3 DEF OnTheWay, n
<1> QED
  BY <1>1, <1>2

\* _append_path raises, or goes through the states of the path; to reconciling it
\* leaves the event that says so.
LEMMA PathOutcome ==
  ASSUME NEW v \in Views, v.ok => Orderly(v), NEW target \in DOMAIN ForwardPath,
         NEW n, n = AppendPath(v, target)
  PROVE  /\ Continues(v, n) /\ NoMoney(v, n)
         /\ n.ok /\ target = "reconciling" => HasEvent(n.log, Reconciled)
<1> DEFINE path == StatusPath(v.parent.state, target)
           quoting == Through(v, "quoting", path)
           ready   == Through(quoting, "ready", path)
           signing == Through(ready, "authorizing", path)
           active  == Through(signing, "active", path)
<1>0. /\ target \in {"draft", "quoting", "ready", "authorizing", "active", "reconciling"}
      /\ "quoting" \in DOMAIN ForwardPath /\ "ready" \in DOMAIN ForwardPath
      /\ "authorizing" \in DOMAIN ForwardPath /\ "active" \in DOMAIN ForwardPath
      /\ "reconciling" \in DOMAIN ForwardPath
  BY DEF ForwardPath
<1>1. CASE ~v.ok
  <2>1. n = v
    BY <1>1 DEF AppendPath
  <2> QED
    BY <1>1, <2>1 DEF Continues, NoMoney
<1>2. CASE v.ok /\ ~HasPath(v.parent.state, target)
  <2>1. n = [v EXCEPT !.ok = FALSE]
    BY <1>2 DEF AppendPath, Aborted
  <2>2. ~n.ok
    BY <2>1 DEF Views
  <2> QED
    BY <1>2, <2>1, <2>2, Unchanged
<1>3. ASSUME v.ok, HasPath(v.parent.state, target)
      PROVE  n = IF target = "reconciling" THEN Through(active, target, path) ELSE active
  BY <1>0, <1>3 DEF AppendPath
<1>4. CASE v.ok /\ HasPath(v.parent.state, target) /\ v.parent.state = "reconciling"
  <2>1. target = "reconciling"
    BY <1>0, <1>4 DEF HasPath, ForwardPath
  <2>2. path = {}
    BY <1>4, <2>1 DEF StatusPath, ForwardPath
  <2> HIDE DEF path
  <2>3. n = v
    <3>1. quoting = v /\ ready = quoting /\ signing = ready /\ active = signing
      BY <2>2 DEF Through
    <3> QED
      BY <1>3, <1>4, <2>1, <2>2, <3>1 DEF Through
  <2>4. HasEvent(v.log, Reconciled)
    BY <1>4 DEF Orderly
  <2> QED
    BY <1>4, <2>3, <2>4, Unchanged
<1>5. CASE v.ok /\ HasPath(v.parent.state, target) /\ v.parent.state # "reconciling"
  <2>0. OnTheWay(v)
    BY <1>5 DEF OnTheWay
  <2> HIDE DEF path
  <2>1. Continues(v, quoting) /\ NoMoney(v, quoting) /\ OnTheWay(quoting)
    BY <1>0, <2>0, ThroughStep
  <2> HIDE DEF quoting
  <2>2. Continues(quoting, ready) /\ NoMoney(quoting, ready) /\ OnTheWay(ready)
    BY <1>0, <2>1, ThroughStep
  <2> HIDE DEF ready
  <2>3. Continues(ready, signing) /\ NoMoney(ready, signing) /\ OnTheWay(signing)
    BY <1>0, <2>2, ThroughStep
  <2> HIDE DEF signing
  <2>4. Continues(signing, active) /\ NoMoney(signing, active) /\ OnTheWay(active)
    BY <1>0, <2>3, ThroughStep
  <2> HIDE DEF active
  <2>5. Continues(v, active) /\ NoMoney(v, active)
    BY <2>1, <2>2, <2>3, <2>4, ContinuesOn, NoMoneyOn
  <2>6. CASE target # "reconciling"
    BY <1>3, <1>5, <2>5, <2>6
  <2>7. CASE target = "reconciling"
    <3>1. n = Through(active, "reconciling", path)
      BY <1>3, <1>5, <2>7
    <3>2. "reconciling" \in path
      BY <1>5, <2>7 DEF path, StatusPath, HasPath, ForwardPath
    <3>3. /\ Continues(active, n) /\ NoMoney(active, n)
          /\ n.ok => HasEvent(n.log, Reconciled)
      BY <1>0, <2>4, <3>1, <3>2, ThroughStep DEF Reconciled
    <3> QED
      BY <2>5, <3>3, ContinuesOn, NoMoneyOn
  <2> QED
    BY <2>6, <2>7
<1> QED
  BY <1>1, <1>2, <1>4, <1>5

-----------------------------------------------------------------------------
(* The steps of a projection.                                              *)

\* The fill is the realized amount, and is recorded once.
LEMMA FillStep ==
  ASSUME NEW v \in Views, v.ok => Orderly(v), v.fills = {} <=> ~HasEvent(v.log, Delivered),
         NEW n, n = RecordRealizedFill(v)
  PROVE  /\ Continues(v, n) /\ n.settlement = v.settlement
         /\ n.ok => /\ PositiveAmount(v.swap.realized)
                    /\ HasEvent(n.log, Delivered)
                    /\ v.fills # {} => n.fills = v.fills
                    /\ v.fills = {} => \E f : n.fills = {f} /\ f.output = v.swap.realized
<1> DEFINE amount == v.swap.realized
           fill   == [key |-> Delivered, qty |-> Requested, output |-> amount]
<1>1. CASE ~v.ok \/ ~PositiveAmount(amount)
  <2>1. (n = v /\ ~v.ok) \/ n = [v EXCEPT !.ok = FALSE]
    BY <1>1 DEF RecordRealizedFill, RecordFill, Aborted
  <2>2. n \in Views /\ ~n.ok /\ n.swap = v.swap /\ n.settlement = v.settlement
    BY <2>1 DEF Views
  <2> QED
    BY <2>2 DEF Continues
<1>2. CASE v.ok /\ PositiveAmount(amount) /\ v.fills # {}
  <2>1. HasFill(v, Delivered)
    BY <1>2 DEF HasFill, Views, FillRows
  <2>2. n = v
    BY <1>2, <2>1 DEF RecordRealizedFill, RecordFill, Delivered
  <2> QED
    BY <1>2, <2>2 DEF Continues
<1>3. CASE v.ok /\ PositiveAmount(amount) /\ v.fills = {}
  <2> DEFINE u == [v EXCEPT !.fills = @ \cup {fill}]
             e == FillEvent(fill)
             row == EventRow(u.parent, e)
  <2>1. fill \in FillRows
    BY <1>3, SwapAssumption DEF PositiveAmount, FillRows, Views, SwapRows
  <2>2. /\ u \in Views /\ u.fills = {fill} /\ u.log = v.log /\ u.parent = v.parent /\ u.ok = v.ok
        /\ u.swap = v.swap /\ u.settlement = v.settlement /\ u.child = v.child
    BY <1>3, <2>1 DEF Views
  <2>3. ~HasFill(v, Delivered)
    BY <1>3 DEF HasFill
  <2>4. n = AppendEvent(u, e)
    BY <1>3, <2>3 DEF RecordRealizedFill, RecordFill, Delivered
  <2>5. /\ e \in EventRecords /\ e.id = Delivered /\ e.type = "fill_recorded"
        /\ e.key = Delivered /\ e.qty = Requested
    BY RequestedAssumption DEF FillEvent, EventRecords, EventIds, EventType
  <2> HIDE DEF u, e, fill
  <2>6. Orderly(u) /\ ~HasEvent(u.log, Delivered)
    BY <1>3, <2>2 DEF Orderly, Current
  <2>7. CASE n = [u EXCEPT !.ok = FALSE]
    <3>1. n \in Views /\ ~n.ok /\ n.swap = v.swap /\ n.settlement = v.settlement
      BY <2>2, <2>7 DEF Views
    <3> QED
      BY <3>1 DEF Continues
  <2>8. CASE /\ Current(u) /\ row \in LogRows
             /\ Accepts(SnapshotFromParent(u.parent), row)
             /\ n = Inserted(u, Materialized(Reduce(SnapshotFromParent(u.parent), row)), row)
    <3> DEFINE parent == Materialized(Reduce(SnapshotFromParent(u.parent), row))
    <3>1. u.parent \in ParentRows
      BY <2>2 DEF Views
    <3>2. /\ row.id = Delivered /\ row.type = "fill_recorded" /\ row.key = Delivered
          /\ row.qty = Requested /\ row.sequence = u.parent.sequence + 1
      BY <2>5 DEF EventRow
    <3> HIDE DEF row
    <3>3. IsNewFill(SnapshotFromParent(u.parent), row)
      BY <3>2 DEF IsNewFill, SnapshotFromParent
    <3>4. FillTarget(u.parent.filled + Requested) = "filled"
      BY <3>1, SwapAssumption, RequestedAssumption DEF FillTarget, ParentRows
    <3>5. TargetState(SnapshotFromParent(u.parent), row) = "filled"
      BY <3>2, <3>3, <3>4 DEF TargetState, SnapshotFromParent
    <3>6. parent = [state |-> "filled", sequence |-> row.sequence,
                    filled |-> u.parent.filled + Requested]
      BY <3>2, <3>3, <3>5 DEF Materialized, Reduce, SnapshotFromParent
    <3>7. parent \in ParentRows
      BY <3>1, <3>2, <3>6, RequestedAssumption DEF ParentRows, ParentState
    <3>8. /\ n = Inserted(u, parent, row) /\ parent.sequence = row.sequence
          /\ Insertable(u, parent, row)
      BY <2>6, <2>8, <3>2, <3>6 DEF Insertable
    <3> HIDE DEF parent
    <3>9. /\ n \in Views /\ Current(n) /\ n.parent = parent /\ Len(u.log) < Len(n.log)
          /\ n.swap = u.swap /\ n.fills = u.fills /\ n.child = u.child
          /\ n.settlement = u.settlement /\ n.ok = u.ok
          /\ \A i \in 1..Len(n.log) : n.log[i].sequence = i
          /\ \A id : HasEvent(n.log, id) <=> HasEvent(u.log, id) \/ row.id = id
          /\ Replayed(n.log) /\ n.parent = Materialized(Replay(n.log))
      <4>1. /\ row \in LogRows /\ Current(u) /\ row.sequence = u.parent.sequence + 1
            /\ u \in Views /\ Orderly(u) /\ parent \in ParentRows
            /\ parent.sequence = row.sequence /\ Insertable(u, parent, row)
            /\ n = Inserted(u, parent, row)
        BY <2>2, <2>6, <2>8, <3>2, <3>7, <3>8
      <4> QED
        BY <4>1, InsertOutcome
    <3>10. Orderly(n) /\ HasEvent(n.log, Delivered)
      BY <3>2, <3>6, <3>7, <3>9 DEF Orderly, Current, ParentRows
    <3>11. Current(v) /\ \A id \in EventIds : HasEvent(v.log, id) => HasEvent(n.log, id)
      BY <2>2, <2>8, <3>9 DEF Current
    <3>12. fill.output = amount
      BY DEF fill
    <3> QED
      <4>1. Continues(v, n) /\ n.settlement = v.settlement
        BY <1>3, <2>2, <3>9, <3>10, <3>11 DEF Continues
      <4>2. n.fills = {fill}
        BY <2>2, <3>9
      <4> QED
        BY <1>3, <3>10, <3>12, <4>1, <4>2
  <2>9. \/ u.ok => HasEvent(u.log, e.id)
        \/ n = [u EXCEPT !.ok = FALSE]
        \/ /\ Current(u) /\ row \in LogRows
           /\ Accepts(SnapshotFromParent(u.parent), row)
           /\ n = Inserted(u, Materialized(Reduce(SnapshotFromParent(u.parent), row)), row)
    BY <2>2, <2>4, <2>5, <2>6, AppendOutcome
  <2> QED
    BY <1>3, <2>2, <2>5, <2>6, <2>7, <2>8, <2>9
<1> QED
  BY <1>1, <1>2, <1>3

\* The settlement row is upserted and observed; a settled amount is kept.
LEMMA SettlementStep ==
  ASSUME NEW v \in Views, v.ok => Orderly(v), NEW state \in {"reconciling", "settled"},
         v.ok /\ state = "settled" => PositiveAmount(v.swap.realized),
         NEW n, n = ProjectSettlement(v, state)
  PROVE  /\ Continues(v, n) /\ n.fills = v.fills
         /\ n.ok => /\ SettlementAmountKept(v, state)
                    /\ n.settlement = SettlementRow(v, state)
                    /\ HasEvent(n.log, Delivered) <=> HasEvent(v.log, Delivered)
<1>0. v.swap.hash = TRUE /\ v.swap.realized \in Amounts \cup {NoAmount}
  BY DEF Views, SwapRows
<1>1. CASE ~v.ok
  <2>1. n = v
    BY <1>1 DEF ProjectSettlement
  <2> QED
    BY <1>1, <2>1 DEF Continues
<1>2. CASE v.ok /\ ~SettlementAmountKept(v, state)
  <2>1. n = [v EXCEPT !.ok = FALSE]
    BY <1>0, <1>2 DEF ProjectSettlement, Aborted
  <2>2. n \in Views /\ ~n.ok /\ n.swap = v.swap /\ n.fills = v.fills
    BY <2>1 DEF Views
  <2> QED
    BY <2>2 DEF Continues
<1>3. CASE v.ok /\ SettlementAmountKept(v, state)
  <2> DEFINE row == SettlementRow(v, state)
             u   == [v EXCEPT !.settlement = row]
  <2>1. row \in SettlementRows /\ row.state \in {"reconciling", "settled"}
    <3>1. CASE state = "settled"
      <4>1. v.swap.realized \in (Amounts \ {0}) \cup {NoAmount}
        BY <1>0, <1>3, <3>1 DEF PositiveAmount
      <4> QED
        BY <3>1, <4>1 DEF SettlementRow, SettlementRows
    <3>2. CASE state = "reconciling"
      BY <3>2 DEF SettlementRow, SettlementRows, Views
    <3> QED
      BY <3>1, <3>2
  <2>2. n = AppendEvent(u, ObservationEvent("settlement_observed", row.state))
    BY <1>0, <1>3 DEF ProjectSettlement
  <2>3. <<"settlement_observed", row.state>> \in EventIds
    BY <2>1 DEF EventIds, ParentState
  <2> HIDE DEF row
  <2>4. /\ u \in Views /\ u.fills = v.fills /\ u.log = v.log /\ u.parent = v.parent
        /\ u.swap = v.swap /\ u.settlement = row /\ u.child = v.child
        /\ u.ok = v.ok
    BY <2>1 DEF Views
  <2> HIDE DEF u
  <2>5. Orderly(u)
    BY <1>3, <2>4 DEF Orderly, Current
  <2>6. Continues(u, n) /\ NoMoney(u, n)
    BY <2>2, <2>3, <2>4, <2>5, ObservationStep
  <2>7. Continues(v, n)
    BY <1>3, <2>4, <2>6 DEF Continues, Current
  <2> QED
    BY <1>3, <2>4, <2>6, <2>7 DEF NoMoney, row
<1> QED
  BY <1>1, <1>2, <1>3

\* The child placement is written in any case.
LEMMA ChildStep ==
  ASSUME NEW v \in Views, Orderly(v), NEW n, n = EnsureChild(v)
  PROVE  /\ Continues(v, n) /\ Orderly(n) /\ n.log = v.log /\ n.fills = v.fills
         /\ n.settlement = v.settlement /\ n.ok = v.ok
<1>1. /\ n \in Views /\ n.fills = v.fills /\ n.log = v.log /\ n.parent = v.parent
      /\ n.swap = v.swap /\ n.settlement = v.settlement /\ n.ok = v.ok
  BY DEF EnsureChild, Views, SwapRows, ChildStates
<1>2. Orderly(n)
  BY <1>1 DEF Orderly, Current
<1> QED
  BY <1>1, <1>2 DEF Continues

\* A delivery that is projected is the one on record, or becomes it.
LEMMA RealizedStep ==
  ASSUME NEW v \in Views, v.ok, Orderly(v), Paid(v), v.swap.realized # NoAmount,
         NEW n, n = ProjectRealized(v)
  PROVE  /\ Continues(v, n)
         /\ n.ok => /\ Paid(n) /\ n.fills # {} /\ PositiveAmount(v.swap.realized)
                    /\ v.fills # {} => n.fills = v.fills
                    /\ \A f \in n.fills : f.output = v.swap.realized
                    /\ n.settlement.state = "settled"
<1> DEFINE p == PrepareRealizedFill(v)
           f == RecordRealizedFill(p)
<1>1. Continues(v, p) /\ NoMoney(v, p)
  <2>1. CASE v.parent.state \in {"active", "partial", "reconciling", "filled"}
    BY <2>1, Unchanged DEF PrepareRealizedFill
  <2>2. CASE v.parent.state \in TERMINAL_STATES \ {"filled"}
    BY <2>2, Unchanged DEF PrepareRealizedFill, Aborted, TERMINAL_STATES
  <2>3. CASE v.parent.state \notin TERMINAL_STATES \cup {"active", "partial", "reconciling"}
    <3>1. p = AppendPath(v, "active")
      BY <2>3 DEF PrepareRealizedFill, TERMINAL_STATES
    <3>2. "active" \in DOMAIN ForwardPath
      BY DEF ForwardPath
    <3> QED
      BY <3>1, <3>2, PathOutcome
  <2> QED
    BY <2>1, <2>2, <2>3
<1> HIDE DEF p
<1>2. /\ p \in Views /\ (p.ok => Orderly(p)) /\ p.swap = v.swap /\ p.fills = v.fills
      /\ p.settlement = v.settlement
      /\ p.ok => (HasEvent(p.log, Delivered) <=> HasEvent(v.log, Delivered))
  BY <1>1 DEF Continues, NoMoney
<1>3. CASE ~p.ok
  <2>1. f = p \/ f = [p EXCEPT !.ok = FALSE]
    BY <1>3 DEF RecordRealizedFill, RecordFill, Aborted
  <2>2. f \in Views /\ ~f.ok /\ f.swap = v.swap
    BY <1>2, <1>3, <2>1 DEF Views
  <2>3. n = f
    BY <2>2 DEF ProjectRealized, ProjectSettlement, p
  <2> QED
    BY <2>2, <2>3 DEF Continues
<1>4. CASE p.ok
  <2>1. p.fills = {} <=> ~HasEvent(p.log, Delivered)
    BY <1>2, <1>4 DEF Paid
  <2>2. /\ Continues(p, f) /\ f.settlement = p.settlement
        /\ f.ok => /\ PositiveAmount(p.swap.realized)
                   /\ HasEvent(f.log, Delivered)
                   /\ p.fills # {} => f.fills = p.fills
                   /\ p.fills = {} => \E g : f.fills = {g} /\ g.output = p.swap.realized
    BY <1>2, <2>1, FillStep
  <2> HIDE DEF f
  <2>3. f \in Views /\ (f.ok => Orderly(f)) /\ f.swap = v.swap
    BY <1>2, <2>2 DEF Continues
  <2>4. n = ProjectSettlement(f, "settled")
    BY DEF ProjectRealized, p, f
  <2>5. f.ok => PositiveAmount(f.swap.realized)
    BY <1>2, <2>2, <2>3
  <2>6. /\ Continues(f, n) /\ n.fills = f.fills
        /\ n.ok => /\ SettlementAmountKept(f, "settled")
                   /\ n.settlement = SettlementRow(f, "settled")
                   /\ HasEvent(n.log, Delivered) <=> HasEvent(f.log, Delivered)
    BY <2>3, <2>4, <2>5, SettlementStep
  <2>7. Continues(v, n)
    BY <1>1, <2>2, <2>6, ContinuesOn
  <2>8. ASSUME n.ok
        PROVE  /\ Paid(n) /\ n.fills # {} /\ PositiveAmount(v.swap.realized)
               /\ v.fills # {} => n.fills = v.fills
               /\ \A g \in n.fills : g.output = v.swap.realized
               /\ n.settlement.state = "settled"
    <3>1. f.ok
      BY <2>6, <2>8 DEF Continues
    <3>2. n.settlement = [state |-> "settled", amount |-> v.swap.realized]
      BY <2>3, <2>6, <2>8 DEF SettlementRow
    <3>3. /\ PositiveAmount(v.swap.realized) /\ HasEvent(n.log, Delivered) /\ n.fills # {}
          /\ v.fills # {} => n.fills = v.fills
      BY <1>2, <2>2, <2>6, <2>8, <3>1
    <3>4. \A g \in n.fills : g.output = v.swap.realized
      <4>1. CASE v.fills = {}
        BY <1>2, <2>2, <2>6, <3>1, <4>1
      <4>2. CASE v.fills # {}
        <5>1. f.settlement.amount \in {NoAmount, v.swap.realized}
          BY <2>3, <2>6, <2>8 DEF SettlementAmountKept
        <5>2. \A g \in v.fills : f.settlement.amount = g.output /\ g.output \in Amounts
          BY <1>2, <2>2 DEF Paid, Views, FillRows
        <5> QED
          BY <3>3, <4>2, <5>1, <5>2, SwapAssumption
      <4> QED
        BY <4>1, <4>2
    <3> QED
      BY <3>2, <3>3, <3>4 DEF Paid
  <2> QED
    BY <2>7, <2>8
<1> QED
  BY <1>3, <1>4

\* An outcome without proof of delivery touches no fill.
LEMMA AmbiguousStep ==
  ASSUME NEW v \in Views, v.ok, Orderly(v), Paid(v), NEW n, n = ProjectAmbiguous(v)
  PROVE  /\ Continues(v, n)
         /\ n.ok => /\ Paid(n) /\ n.fills = v.fills
                    /\ HasEvent(n.log, Reconciled) /\ n.settlement.state # "none"
<1> DEFINE p == AppendPath(v, "reconciling")
<1>1. /\ Continues(v, p) /\ NoMoney(v, p)
      /\ p.ok => HasEvent(p.log, Reconciled)
  <2>1. "reconciling" \in DOMAIN ForwardPath
    BY DEF ForwardPath
  <2> QED
    BY <2>1, PathOutcome
<1>2. n = ProjectSettlement(p, "reconciling")
  BY DEF ProjectAmbiguous
<1> HIDE DEF p
<1>3. p \in Views /\ (p.ok => Orderly(p)) /\ p.fills = v.fills /\ p.settlement = v.settlement
  BY <1>1 DEF Continues, NoMoney
<1>4. /\ Continues(p, n) /\ n.fills = p.fills
      /\ n.ok => /\ n.settlement = SettlementRow(p, "reconciling")
                 /\ HasEvent(n.log, Delivered) <=> HasEvent(p.log, Delivered)
  BY <1>2, <1>3, SettlementStep
<1>5. Continues(v, n)
  BY <1>1, <1>4, ContinuesOn
<1>6. ASSUME n.ok
      PROVE  /\ Paid(n) /\ n.fills = v.fills
             /\ HasEvent(n.log, Reconciled) /\ n.settlement.state # "none"
  <2>1. p.ok /\ n.fills = v.fills
    BY <1>3, <1>4, <1>6 DEF Continues
  <2>2. HasEvent(n.log, Reconciled)
    <3>1. Reconciled \in EventIds
      BY DEF Reconciled, EventIds, ParentState
    <3> QED
      BY <1>1, <1>4, <1>6, <2>1, <3>1 DEF Continues
  <2>3. HasEvent(n.log, Delivered) <=> HasEvent(v.log, Delivered)
    BY <1>1, <1>4, <1>6, <2>1 DEF NoMoney
  <2>4. /\ n.settlement.state # "none"
        /\ v.fills # {} => n.settlement = v.settlement
        /\ v.fills = {} => n.settlement = [state |-> "reconciling", amount |-> NoAmount]
    <3>1. n.settlement = IF v.settlement.state = "settled" THEN v.settlement
                         ELSE [v.settlement EXCEPT !.state = "reconciling"]
      BY <1>3, <1>4, <1>6 DEF SettlementRow
    <3>2. v.settlement \in SettlementRows
      BY DEF Views
    <3>3. CASE v.fills = {}
      <4>1. v.settlement.state # "settled" /\ v.settlement.amount = NoAmount
        BY <3>3 DEF Paid
      <4> QED
        BY <3>1, <3>2, <3>3, <4>1 DEF SettlementRows
    <3>4. CASE v.fills # {}
      <4>1. PICK f \in v.fills : v.settlement = [state |-> "settled", amount |-> f.output]
        BY <3>4 DEF Paid
      <4> QED
        BY <3>1, <3>4, <4>1
    <3> QED
      BY <3>3, <3>4
  <2> QED
    BY <2>1, <2>2, <2>3, <2>4 DEF Paid
<1> QED
  BY <1>5, <1>6

-----------------------------------------------------------------------------
(* A projection.                                                           *)

\* A delivery with its amount is to be recorded.
Realized(swap) == swap.status = "completed" /\ swap.realized # NoAmount

\* What project_legacy_swap makes of the rows v when it does not raise.
Projects(v, n) ==
  /\ Continues(v, n)
  /\ n.ok =>
       /\ Paid(n)
       /\ v.fills # {} => n.fills = v.fills
       /\ Realized(v.swap) => /\ n.fills # {} /\ PositiveAmount(v.swap.realized)
                              /\ \A f \in n.fills : f.output = v.swap.realized
       /\ ~Realized(v.swap) => n.fills = v.fills
       /\ HasEvent(n.log, <<"legacy_status_observed", v.swap.status>>)
       /\ v.swap.status \in LegacyTerminal => Ended(n, v.swap.status)
       /\ v.settlement.state # "none" => n.settlement.state # "none"

\* A status on the way to the end moves the parent and nothing else.
LEMMA ForwardStep ==
  ASSUME NEW v \in Views, v.ok, Orderly(v), Paid(v), NEW target \in DOMAIN ForwardPath,
         NEW n, n = AppendPath(v, target)
  PROVE  /\ Continues(v, n) /\ n.settlement = v.settlement
         /\ n.ok => Paid(n) /\ n.fills = v.fills
<1>1. Continues(v, n) /\ NoMoney(v, n)
  BY PathOutcome
<1> QED
  BY <1>1 DEF NoMoney, Paid

LEMMA ProjectionOutcome ==
  ASSUME NEW v \in Views, v.ok, Orderly(v), Paid(v), NEW n, n = ProjectLegacySwap(v)
  PROVE  Projects(v, n)
<1> DEFINE c == EnsureChild(v)
           u == AppendEvent(c, ObservationEvent("legacy_status_observed", v.swap.status))
           id == <<"legacy_status_observed", v.swap.status>>
<1>0. v.swap \in SwapRows(Amounts) /\ v.swap.status \in Statuses /\ id \in EventIds
  BY DEF Views, SwapRows, Statuses, EventIds, LegacyStatus
<1>1. /\ Continues(v, c) /\ Orderly(c) /\ c.log = v.log /\ c.fills = v.fills
      /\ c.settlement = v.settlement /\ c.ok = v.ok
  BY ChildStep
<1>2. c.swap = v.swap /\ c \in Views
  BY <1>1 DEF Continues
<1>3. n = IF u.ok THEN ProjectStatus(u) ELSE u
  BY <1>2 DEF ProjectLegacySwap
<1> HIDE DEF c
<1>4. /\ Continues(c, u) /\ NoMoney(c, u)
      /\ u.ok => HasEvent(u.log, id)
  BY <1>0, <1>1, <1>2, ObservationStep
<1> HIDE DEF u
<1>5. Continues(v, u)
  BY <1>1, <1>4, ContinuesOn
<1>6. CASE ~u.ok
  BY <1>3, <1>5, <1>6 DEF Projects
<1>7. CASE u.ok
  <2>1. u \in Views /\ Orderly(u) /\ u.swap = v.swap /\ u.fills = v.fills
        /\ u.settlement = v.settlement
    BY <1>1, <1>2, <1>4, <1>7 DEF Continues, NoMoney
  <2>2. Paid(u)
    BY <1>1, <1>4, <1>7, <2>1 DEF Paid, NoMoney
  <2>3. ASSUME Continues(u, n), n.ok
        PROVE  HasEvent(n.log, id) /\ Continues(v, n)
    BY <1>0, <1>4, <1>5, <1>7, <2>3, ContinuesOn DEF Continues
  <2>4. CASE Realized(v.swap)
    <3>1. n = ProjectRealized(u)
      BY <1>3, <1>7, <2>1, <2>4 DEF ProjectStatus, Realized
    <3>2. /\ Continues(u, n)
          /\ n.ok => /\ Paid(n) /\ n.fills # {} /\ PositiveAmount(u.swap.realized)
                     /\ u.fills # {} => n.fills = u.fills
                     /\ \A f \in n.fills : f.output = u.swap.realized
                     /\ n.settlement.state = "settled"
      BY <1>7, <2>1, <2>2, <2>4, <3>1, RealizedStep DEF Realized
    <3>3. Continues(v, n)
      BY <1>5, <3>2, ContinuesOn
    <3> QED
      BY <2>1, <2>3, <2>4, <3>2, <3>3 DEF Projects, Ended
  <2>5. CASE ~Realized(v.swap) /\ v.swap.status \in LegacyTerminal
    <3>1. v.swap.hash
      BY <1>0 DEF SwapRows
    <3>2. n = ProjectAmbiguous(u)
      BY <1>3, <1>7, <2>1, <2>5, <3>1 DEF ProjectStatus, Realized, LegacyTerminal
    <3>3. /\ Continues(u, n)
          /\ n.ok => /\ Paid(n) /\ n.fills = u.fills
                     /\ HasEvent(n.log, Reconciled) /\ n.settlement.state # "none"
      BY <1>7, <2>1, <2>2, <3>2, AmbiguousStep
    <3>4. Continues(v, n)
      BY <1>5, <3>3, ContinuesOn
    <3> QED
      BY <2>1, <2>3, <2>5, <3>3, <3>4 DEF Projects, Ended
  <2>6. CASE v.swap.status \notin LegacyTerminal
    <3>1. v.swap.status \in {"pending", "submitted", "confirming"}
      BY <1>0, <2>6 DEF Statuses, LegacyTerminal
    <3>2. /\ n = AppendPath(u, StatusTarget[v.swap.status])
          /\ StatusTarget[v.swap.status] \in DOMAIN ForwardPath
      BY <1>3, <1>7, <2>1, <3>1 DEF ProjectStatus, StatusTarget, ForwardPath
    <3>3. /\ Continues(u, n) /\ n.settlement = u.settlement
          /\ n.ok => Paid(n) /\ n.fills = u.fills
      BY <1>7, <2>1, <2>2, <3>2, ForwardStep
    <3>4. Continues(v, n)
      BY <1>5, <3>3, ContinuesOn
    <3>5. ~Realized(v.swap)
      BY <3>1 DEF Realized
    <3> QED
      BY <2>1, <2>3, <2>6, <3>3, <3>4, <3>5 DEF Projects
  <2> QED
    BY <2>4, <2>5, <2>6
<1> QED
  BY <1>6, <1>7

-----------------------------------------------------------------------------
(* Committed rows.                                                         *)

\* The rows that a session may project.
LEMMA ViewFacts ==
  ASSUME DbInv, NEW swap \in SwapRows(Amounts), NEW parent,
         \/ parent = db.parent /\ parent # NoParent
         \/ parent = NewParent /\ db.parent = NoParent
         \/ Outdated(parent)
  PROVE  /\ View(swap, parent) \in Views /\ Orderly(View(swap, parent))
         /\ Paid(View(swap, parent)) /\ View(swap, parent).ok
         /\ db.parent # NoParent => \/ parent = db.parent
                                    \/ ~Current(View(swap, parent))
<1> DEFINE v == View(swap, parent)
<1>1. /\ v.swap = swap /\ v.parent = parent /\ v.log = db.log /\ v.fills = db.fills
      /\ v.child = db.child /\ v.settlement = db.settlement /\ v.ok
  BY DEF View
<1>2. db \in DbRows /\ Paid(db) /\ db.log \in Seq(LogRows) /\ Len(db.log) \in Nat
  BY DEF DbInv, DbRows
<1>3. CASE parent = db.parent /\ parent # NoParent
  <2>1. parent \in ParentRows /\ Orderly(db)
    BY <1>2, <1>3 DEF DbRows, DbInv, ParentOnRecord
  <2>2. v \in Views
    BY <1>2, <2>1 DEF View, Views, DbRows
  <2> HIDE DEF v
  <2> QED
    BY <1>1, <1>2, <1>3, <2>1, <2>2 DEF Orderly, Current, Paid, v
<1>4. CASE parent = NewParent /\ db.parent = NoParent
  <2>1. db.log = <<>>
    BY <1>4 DEF DbInv, ParentOnRecord
  <2>2. v \in Views
    BY <1>2, <1>4 DEF View, Views, DbRows, NewParent, ParentRows, ParentState
  <2>3. Len(db.log) = 0 /\ \A id : ~HasEvent(db.log, id)
    BY <2>1 DEF HasEvent
  <2> HIDE DEF v
  <2>4. Orderly(v)
    <3>1. Replayed(v.log) /\ v.parent = Materialized(Replay(v.log))
      BY <1>1, <1>4, <2>1, NothingReplayed
    <3> QED
      BY <1>1, <1>4, <2>3, <3>1 DEF Orderly, Current, NewParent
  <2>5. Paid(v)
    BY <1>1, <1>2 DEF Paid
  <2> QED
    BY <1>1, <1>4, <2>2, <2>4, <2>5 DEF v
<1>5. CASE Outdated(parent)
  <2>1. /\ db.parent # NoParent /\ parent \in ParentRows /\ parent.sequence <= Len(db.log)
        /\ parent.sequence = Len(db.log) => parent = db.parent
        /\ parent.state = "reconciling" => HasEvent(db.log, Reconciled)
    BY <1>5 DEF Outdated
  <2>2. Orderly(db)
    BY <2>1 DEF DbInv, ParentOnRecord
  <2>3. v \in Views
    BY <1>2, <2>1 DEF View, Views, DbRows
  <2> HIDE DEF v
  <2>4. Orderly(v)
    <3>1. CASE parent = db.parent
      BY <1>1, <2>2, <3>1 DEF Orderly, Current
    <3>2. CASE parent.sequence # Len(db.log)
      BY <1>1, <2>1, <2>2, <3>2 DEF Orderly, Current
    <3> QED
      BY <2>1, <3>1, <3>2
  <2>5. Paid(v)
    BY <1>1, <1>2 DEF Paid
  <2>6. parent = db.parent \/ ~Current(v)
    BY <1>1, <2>1 DEF Current
  <2> QED
    BY <1>1, <2>3, <2>4, <2>5, <2>6 DEF v
<1> QED
  BY <1>3, <1>4, <1>5

\* The parent object of a session when it takes the lock.
LEMMA SessionParentFacts ==
  ASSUME DbInv, NEW w \in Workers, SessionInv(w)
  PROVE  \/ SessionParent(w) = db.parent /\ SessionParent(w) # NoParent
         \/ SessionParent(w) = NewParent /\ db.parent = NoParent
         \/ Outdated(SessionParent(w))
  BY DEF SessionInv, SessionParent

\* Nothing that was on record is lost.
Keeps ==
  /\ Len(db.log) <= Len(db.log')
  /\ \A id \in EventIds : HasEvent(db.log, id) => HasEvent(db.log', id)
  /\ db.parent # NoParent => db'.parent # NoParent
  /\ db'.parent = db.parent \/ db.parent = NoParent \/ db.parent.sequence < Len(db'.log)

\* A projection that does not raise, committed with row as the swap's row.
LEMMA CommitOutcome ==
  ASSUME DbInv, NEW swap \in SwapRows(Amounts), NEW row \in SwapRows(Amounts), NEW parent,
         \/ parent = db.parent /\ parent # NoParent
         \/ parent = NewParent /\ db.parent = NoParent
         \/ Outdated(parent),
         NEW n, n = ProjectLegacySwap(View(swap, parent)), n.ok, db' = Committed(n, row),
         \/ Realized(swap) /\ row.realized = swap.realized
         \/ row.realized = db.swap.realized /\ swap.realized \in {NoAmount, db.swap.realized}
  PROVE  /\ DbInv' /\ Keeps /\ db'.swap = row
         /\ db.swap.realized \in {NoAmount, row.realized}
         /\ HasEvent(db'.log, <<"legacy_status_observed", swap.status>>)
         /\ swap.status \in LegacyTerminal => Ended(db', swap.status)
         /\ \A status : Ended(db, status) /\ <<"legacy_status_observed", status>> \in EventIds =>
              Ended(db', status)
<1> DEFINE v == View(swap, parent)
<1>1. /\ v.swap = swap /\ v.parent = parent /\ v.log = db.log /\ v.fills = db.fills
      /\ v.child = db.child /\ v.settlement = db.settlement /\ v.ok
  BY DEF View
<1>2. /\ v \in Views /\ Orderly(v) /\ Paid(v)
      /\ db.parent # NoParent => parent = db.parent \/ ~Current(v)
  BY ViewFacts
<1> HIDE DEF v
<1>3. Projects(v, n)
  BY <1>1, <1>2, ProjectionOutcome DEF v
<1>4. /\ n \in Views /\ Orderly(n) /\ Paid(n)
      /\ \A id \in EventIds : HasEvent(db.log, id) => HasEvent(n.log, id)
      /\ \/ n.log = db.log /\ n.parent = parent
         \/ Current(v) /\ Current(n) /\ Len(db.log) < Len(n.log)
  BY <1>1, <1>3 DEF Projects, Continues
<1>5. /\ db'.swap = row /\ db'.log = n.log /\ db'.fills = n.fills
      /\ db'.child = n.child /\ db'.settlement = n.settlement
      /\ db'.parent = IF n.log = db.log THEN db.parent ELSE n.parent
  BY DEF Committed
<1>6. db \in DbRows /\ Len(db.log) \in Nat
  BY DEF DbInv, DbRows
<1>7. /\ db.fills # {} => n.fills = db.fills
      /\ Realized(swap) => /\ n.fills # {} /\ PositiveAmount(swap.realized)
                           /\ \A f \in n.fills : f.output = swap.realized
      /\ ~Realized(swap) => n.fills = db.fills
  BY <1>1, <1>3 DEF Projects
<1>8. /\ db.swap.realized = NoAmount <=> db.fills = {}
      /\ \A f \in db.fills : f.output = db.swap.realized
  BY DEF DbInv
<1>9. /\ row.realized = NoAmount <=> n.fills = {}
      /\ \A f \in n.fills : f.output = row.realized
      /\ db.swap.realized \in {NoAmount, row.realized}
      /\ row.realized \in (Amounts \ {0}) \cup {NoAmount}
  <2>1. /\ row.realized \in Amounts \cup {NoAmount}
        /\ db.swap.realized \in (Amounts \ {0}) \cup {NoAmount}
    BY <1>6 DEF SwapRows, DbRows
  <2>2. CASE Realized(swap) /\ row.realized = swap.realized
    <3>1. row.realized # NoAmount /\ row.realized # 0
      BY <1>7, <2>2 DEF PositiveAmount
    <3>2. CASE db.fills = {}
      BY <1>7, <1>8, <2>1, <2>2, <3>1, <3>2
    <3>3. CASE db.fills # {}
      BY <1>7, <1>8, <2>1, <2>2, <3>1, <3>3
    <3> QED
      BY <3>2, <3>3
  <2>3. CASE row.realized = db.swap.realized /\ swap.realized \in {NoAmount, db.swap.realized}
    <3>1. CASE Realized(swap)
      BY <1>7, <1>8, <2>1, <2>3, <3>1 DEF Realized
    <3>2. CASE ~Realized(swap)
      BY <1>7, <1>8, <2>1, <2>3, <3>2
    <3> QED
      BY <3>1, <3>2
  <2> QED
    BY <2>2, <2>3
<1>10. ASSUME n.log = db.log
       PROVE  Keeps /\ ParentOnRecord' /\ db'.parent \in ParentRows \cup {NoParent}
  <2>1. db'.parent = db.parent /\ db'.log = db.log
    BY <1>5, <1>10
  <2>2. Keeps
    BY <1>6, <2>1 DEF Keeps
  <2>3. ParentOnRecord'
    BY <2>1 DEF DbInv, ParentOnRecord, Orderly, Current
  <2>4. db'.parent \in ParentRows \cup {NoParent}
    BY <1>6, <2>1 DEF DbRows
  <2> QED
    BY <2>2, <2>3, <2>4
<1>11. ASSUME n.log # db.log
       PROVE  Keeps /\ ParentOnRecord' /\ db'.parent \in ParentRows \cup {NoParent}
  <2>1. Current(v) /\ Current(n) /\ Len(db.log) < Len(n.log)
    BY <1>4, <1>11
  <2>2. db'.parent = n.parent /\ n.parent \in ParentRows /\ n.parent # NoParent
    BY <1>4, <1>5, <1>11 DEF Views, ParentRows, ParentState, NoParent
  <2>3. ParentOnRecord'
    BY <1>4, <1>5, <2>1, <2>2 DEF Orderly, Current, ParentOnRecord
  <2>4. Keeps
    <3>1. db.parent # NoParent => db.parent.sequence = Len(db.log)
      BY DEF DbInv, ParentOnRecord, Current
    <3> QED
      BY <1>4, <1>5, <1>6, <2>1, <2>2, <3>1 DEF Keeps
  <2> QED
    BY <2>2, <2>3, <2>4
<1>14. Keeps /\ ParentOnRecord' /\ db'.parent \in ParentRows \cup {NoParent}
  BY <1>10, <1>11
<1>12. db' \in DbRows
  <2>1. row \in SwapRows(Amounts \ {0})
    BY <1>9 DEF SwapRows
  <2>2. db'.parent \in ParentRows \cup {NoParent}
    BY <1>14
  <2>3. db' = [swap |-> db'.swap, parent |-> db'.parent, log |-> db'.log, fills |-> db'.fills,
               child |-> db'.child, settlement |-> db'.settlement]
    BY DEF Committed
  <2> QED
    BY <1>4, <1>5, <2>1, <2>2, <2>3 DEF DbRows, Views
<1>13. Paid(db')
  BY <1>4, <1>5 DEF Paid
<1>15. DbInv'
  BY <1>5, <1>9, <1>12, <1>13, <1>14 DEF DbInv
<1>16. /\ HasEvent(db'.log, <<"legacy_status_observed", swap.status>>)
       /\ swap.status \in LegacyTerminal => Ended(db', swap.status)
  BY <1>1, <1>3, <1>5 DEF Projects, Ended
<1>17. ASSUME NEW status, Ended(db, status), <<"legacy_status_observed", status>> \in EventIds
       PROVE  Ended(db', status)
  <2>1. Reconciled \in EventIds
    BY DEF Reconciled, EventIds, ParentState
  <2>2. HasEvent(n.log, <<"legacy_status_observed", status>>)
    BY <1>4, <1>17 DEF Ended
  <2>3. HasEvent(n.log, Reconciled) \/ n.fills # {}
    BY <1>4, <1>7, <1>17, <2>1 DEF Ended
  <2>4. n.settlement.state # "none"
    BY <1>1, <1>3, <1>17 DEF Projects, Ended
  <2> QED
    BY <1>5, <2>2, <2>3, <2>4 DEF Ended
<1> QED
  BY <1>5, <1>9, <1>14, <1>15, <1>16, <1>17

-----------------------------------------------------------------------------
(* Steps.                                                                  *)

\* The types of TypeOK.
LegacyRows(amounts) ==
  [status : LegacyStatus, hash : BOOLEAN, realized : amounts \cup {NoAmount},
   dest : Dests \cup {NoDest}]

ParentObjects == [state : ParentState \cup {"none"}, sequence : Nat, filled : Nat]

Sessions ==
  [pc : WorkerPC, seen : LegacyStatus, next : LegacyStatus, evidence : Evidence,
   swap : LegacyRows(Amounts), parent : ParentObjects]

RecRows == [pc : {"idle", "ask", "resolve"}, evidence : Evidence]

LEMMA TypesOfSessions ==
  TypeOK => worker \in [Workers -> Sessions] /\ rec \in [Reconcilers -> RecRows]
BY DEF TypeOK, Sessions, LegacyRows, ParentObjects, RecRows

\* The rows of DbRows and sessions of these types are of the types of TypeOK.
LEMMA TypeKept ==
  ASSUME db' \in DbRows, route' \in Routes, prov' \in {"PENDING", "DONE", "FAILED"},
         age' \in {"fresh", "overdue", "aged"}, worker' \in [Workers -> Sessions],
         rec' \in [Reconcilers -> RecRows], crashes' \in 0..MaxCrashes,
         checks' \in 0..MaxChecks
  PROVE  TypeOK'
<1>1. db'.swap \in LegacyRows(Amounts \ {0})
  BY DEF DbRows, SwapRows, LegacyRows, Statuses, LegacyStatus
<1>2. db'.parent \in ParentObjects
  BY DEF DbRows, ParentRows, ParentObjects, NoParent
<1>3. /\ db'.child \in {"none", "created", "submitted"}
      /\ db'.settlement \in [state : {"none", "reconciling", "settled"},
                             amount : (Amounts \ {0}) \cup {NoAmount}]
  BY DEF DbRows, ChildStates, SettlementRows
<1> QED
  BY <1>1, <1>2, <1>3 DEF TypeOK, Sessions, LegacyRows, ParentObjects, RecRows

\* What a step may do to the rows.
DbMoves ==
  /\ DbInv' /\ Keeps
  /\ db.swap.realized \in {NoAmount, db'.swap.realized}
  /\ checks' = 0 /\ db'.swap.status \in LegacyTerminal => Ended(db', db'.swap.status)

\* What it may do to the session of a poller process.
SessionMoves(w) ==
  /\ worker'[w].swap \in {worker[w].swap, db.swap, SubmittedSwap}
  /\ worker'[w].next \in Statuses
  /\ \/ worker'[w].parent \in {worker[w].parent, NoParent}
     \/ db' = db /\ worker'[w].parent = db.parent

LEMMA OutdatedKept ==
  ASSUME DbInv, Keeps, NEW parent, Outdated(parent)
  PROVE  /\ db'.parent # NoParent /\ parent \in ParentRows /\ parent.sequence <= Len(db'.log)
         /\ parent.sequence = Len(db'.log) => parent = db'.parent
         /\ parent.state = "reconciling" => HasEvent(db'.log, Reconciled)
<1>1. Reconciled \in EventIds
  BY DEF Reconciled, EventIds, ParentState
<1>2. Len(db.log) \in Nat
  BY DEF DbInv, DbRows
<1> QED
  BY <1>1, <1>2 DEF Keeps, Outdated, ParentRows

\* The parent on record is not ahead of itself.
LEMMA RecordIsCurrent ==
  ASSUME DbInv, db.parent # NoParent
  PROVE  Outdated(db.parent)
<1>1. db.parent \in ParentRows
  BY DEF DbInv, DbRows
<1> QED
  BY <1>1 DEF DbInv, ParentOnRecord, Orderly, Current, Outdated

LEMMA SessionKept ==
  ASSUME DbInv, DbMoves, NEW w \in Workers, SessionInv(w), SessionMoves(w)
  PROVE  SessionInv(w)'
<1>1. db.swap \in SwapRows(Amounts \ {0})
  BY DEF DbInv, DbRows
<1>2. SubmittedSwap \in SwapRows(Amounts \ {0}) /\ SubmittedSwap.realized = NoAmount
  BY DEF SubmittedSwap, SwapRows, Statuses
<1>3. worker'[w].swap \in SwapRows(Amounts \ {0})
  BY <1>1, <1>2 DEF SessionInv, SessionMoves
<1>4. worker'[w].swap.realized \in {NoAmount, db'.swap.realized}
  BY <1>2 DEF SessionInv, SessionMoves, DbMoves
<1>5. ASSUME worker'[w].parent # NoParent
      PROVE  Outdated(worker[w].parent)'
  <2>1. CASE worker'[w].parent = worker[w].parent
    <3>1. Outdated(worker[w].parent)
      BY <1>5, <2>1 DEF SessionInv
    <3> QED
      BY <2>1, <3>1, OutdatedKept DEF DbMoves, Outdated
  <2>2. CASE db' = db /\ worker'[w].parent = db.parent
    <3>1. Outdated(db.parent)
      BY <1>5, <2>2, RecordIsCurrent
    <3> QED
      BY <2>2, <3>1 DEF Outdated
  <2> QED
    BY <1>5, <2>1, <2>2 DEF SessionMoves
<1> QED
  BY <1>3, <1>4, <1>5 DEF SessionInv, SessionMoves

LEMMA IInvKept ==
  ASSUME IInv, DbMoves, \A w \in Workers : SessionMoves(w),
         route' \in Routes, prov' \in {"PENDING", "DONE", "FAILED"},
         age' \in {"fresh", "overdue", "aged"}, worker' \in [Workers -> Sessions],
         rec' \in [Reconcilers -> RecRows], crashes' \in 0..MaxCrashes, checks' \in 0..MaxChecks
  PROVE  IInv' /\ DbMoves
<1>1. DbInv' /\ (checks' = 0 /\ db'.swap.status \in LegacyTerminal => Ended(db', db'.swap.status))
  BY DEF DbMoves
<1>2. TypeOK'
  BY <1>1, TypeKept DEF DbInv
<1>3. \A w \in Workers : SessionInv(w)'
  BY SessionKept DEF IInv
<1> QED
  BY <1>1, <1>2, <1>3 DEF IInv

\* A step that leaves the rows alone.
LEMMA DbStays ==
  ASSUME IInv, db' = db, checks' = checks
  PROVE  DbMoves
<1>1. DbInv /\ Len(db.log) \in Nat
  BY DEF IInv, DbInv, DbRows
<1>2. DbInv'
  BY <1>1 DEF DbInv, ParentOnRecord, Orderly, Current, Paid
<1> QED
  BY <1>1, <1>2 DEF IInv, DbMoves, Keeps

\* A step of one poller process.
LEMMA WorkerMoves ==
  ASSUME IInv, DbMoves, NEW w \in Workers, NEW s \in Sessions,
         worker' = [worker EXCEPT ![w] = s],
         s.swap \in {worker[w].swap, db.swap, SubmittedSwap}, s.next \in Statuses,
         s.parent \in {worker[w].parent, NoParent} \/ (db' = db /\ s.parent = db.parent),
         UNCHANGED <<route, prov, age, rec, checks>>, crashes' \in 0..MaxCrashes
  PROVE  IInv' /\ DbMoves
<1>1. TypeOK /\ worker \in [Workers -> Sessions] /\ rec \in [Reconcilers -> RecRows]
  BY TypesOfSessions DEF IInv
<1>2. /\ worker' \in [Workers -> Sessions] /\ worker'[w] = s
      /\ \A x \in Workers : x # w => worker'[x] = worker[x]
  BY <1>1
<1>3. \A x \in Workers : SessionMoves(x)
  BY <1>2 DEF SessionMoves, IInv, SessionInv
<1>4. /\ route' \in Routes /\ prov' \in {"PENDING", "DONE", "FAILED"}
      /\ age' \in {"fresh", "overdue", "aged"} /\ rec' \in [Reconcilers -> RecRows]
      /\ checks' \in 0..MaxChecks
  BY <1>1 DEF TypeOK
<1> QED
  BY <1>2, <1>3, <1>4, IInvKept

\* A step of somebody else.
LEMMA OthersMove ==
  ASSUME IInv, DbMoves, worker' = worker, route' = route,
         prov' \in {"PENDING", "DONE", "FAILED"}, age' \in {"fresh", "overdue", "aged"},
         rec' \in [Reconcilers -> RecRows], crashes' = crashes, checks' \in 0..MaxChecks
  PROVE  IInv' /\ DbMoves
<1>1. /\ worker' \in [Workers -> Sessions] /\ route' \in Routes /\ crashes' \in 0..MaxCrashes
  BY TypesOfSessions DEF IInv, TypeOK
<1>2. \A x \in Workers : SessionMoves(x)
  BY DEF SessionMoves, IInv, SessionInv
<1> QED
  BY <1>1, <1>2, IInvKept

\* What the invariant says of the rows a session may hold.
LEMMA RowTypes ==
  ASSUME IInv, NEW w \in Workers
  PROVE  /\ worker[w] \in Sessions /\ db.swap \in LegacyRows(Amounts) /\ db.parent \in ParentObjects
         /\ db.swap.status \in Statuses /\ db.swap \in SwapRows(Amounts \ {0})
         /\ IdleWorker \in Sessions /\ worker[w].next \in Statuses /\ crashes \in 0..MaxCrashes
<1>1. db.swap \in SwapRows(Amounts \ {0}) /\ db.parent \in ParentRows \cup {NoParent}
  BY DEF IInv, DbInv, DbRows
<1>2. db.swap \in LegacyRows(Amounts) /\ db.swap.status \in Statuses
  BY <1>1 DEF SwapRows, LegacyRows, Statuses, LegacyStatus
<1>3. db.parent \in ParentObjects /\ NoParent \in ParentObjects
  BY <1>1 DEF ParentRows, ParentObjects, NoParent
<1>4. SubmittedSwap \in LegacyRows(Amounts) /\ NoEvidence \in Evidence
  BY DEF SubmittedSwap, LegacyRows, LegacyStatus, NoEvidence, Evidence
<1>5. IdleWorker \in Sessions
  BY <1>3, <1>4 DEF IdleWorker, Sessions, WorkerPC, LegacyStatus
<1> QED
  BY <1>1, <1>2, <1>3, <1>5, TypesOfSessions DEF IInv, SessionInv, TypeOK

\* A process that forgets its session.
LEMMA WorkerIdles ==
  ASSUME IInv, DbMoves, NEW w \in Workers, worker' = [worker EXCEPT ![w] = IdleWorker],
         UNCHANGED <<route, prov, age, rec, checks>>, crashes' \in 0..MaxCrashes
  PROVE  IInv' /\ DbMoves
<1>1. /\ IdleWorker.swap = SubmittedSwap /\ IdleWorker.next \in Statuses
      /\ IdleWorker.parent = NoParent /\ IdleWorker \in Sessions
  BY RowTypes DEF IdleWorker, Statuses
<1> HIDE DEF IdleWorker
<1> QED
  BY <1>1, WorkerMoves

LEMMA SelectStep == ASSUME IInv, NEW w \in Workers, Select(w) PROVE IInv' /\ DbMoves
<1> DEFINE s == [worker[w] EXCEPT !.pc = "shadow", !.swap = db.swap, !.seen = db.swap.status]
<1>1. worker[w] \in Sessions /\ db.swap \in LegacyRows(Amounts) /\ db.swap.status \in LegacyStatus
  BY RowTypes DEF LegacyRows
<1>2. /\ s \in Sessions /\ s.swap = db.swap /\ s.next = worker[w].next
      /\ s.parent = worker[w].parent
  BY <1>1 DEF Sessions, WorkerPC
<1>3. worker' = [worker EXCEPT ![w] = s]
  BY DEF Select
<1>4. DbMoves /\ UNCHANGED <<route, prov, age, rec, checks>> /\ crashes' \in 0..MaxCrashes
  BY DbStays, RowTypes DEF Select
<1>5. s.next \in Statuses
  BY <1>2, RowTypes
<1> HIDE DEF s
<1> QED
  BY <1>2, <1>3, <1>4, <1>5, WorkerMoves

LEMMA ReadParentStep == ASSUME IInv, NEW w \in Workers, ReadParent(w) PROVE IInv' /\ DbMoves
<1> DEFINE s == [worker[w] EXCEPT !.pc = IF @ = "shadow" THEN "project" ELSE "write",
                                  !.parent = db.parent]
<1>1. worker[w] \in Sessions /\ db.parent \in ParentObjects
  BY RowTypes
<1>2. /\ s \in Sessions /\ s.swap = worker[w].swap /\ s.next = worker[w].next
      /\ s.parent = db.parent
  BY <1>1 DEF Sessions, WorkerPC
<1>3. worker' = [worker EXCEPT ![w] = s] /\ db' = db
  BY DEF ReadParent
<1>4. DbMoves /\ UNCHANGED <<route, prov, age, rec, checks>> /\ crashes' \in 0..MaxCrashes
  BY DbStays, RowTypes DEF ReadParent
<1>5. s.next \in Statuses
  BY <1>2, RowTypes
<1> HIDE DEF s
<1> QED
  BY <1>2, <1>3, <1>4, <1>5, WorkerMoves

\* What a provider may say.
LEMMA ReportTypes ==
  ASSUME IInv, NEW report, report \in DefiniteReports \/ report \in IndefiniteReports
  PROVE  report.status \in Statuses /\ report.evidence \in Evidence
<1>1. NoEvidence \in Evidence /\ ReportedEvidence \subseteq Evidence
  BY DEF NoEvidence, Evidence, ReportedEvidence
<1>2. CASE report \in DefiniteReports
  BY <1>1, <1>2 DEF DefiniteReports, Statuses
<1>3. CASE report \in IndefiniteReports
  <2>1. route \in {"lifi", "zerox", "evm"}
    BY SwapAssumption DEF IInv, TypeOK, Route
  <2> QED
    BY <1>1, <1>3, <2>1 DEF IndefiniteReports, Statuses
<1> QED
  BY <1>2, <1>3

LEMMA ObserveStep ==
  ASSUME IInv, NEW w \in Workers, Observe(w, DefiniteReports) \/ Observe(w, IndefiniteReports)
  PROVE  IInv' /\ DbMoves
<1>1. PICK report : /\ report \in DefiniteReports \/ report \in IndefiniteReports
                    /\ worker' = [worker EXCEPT ![w] =
                         IF report.status = worker[w].seen THEN IdleWorker
                         ELSE [@ EXCEPT !.pc = "apply", !.next = report.status,
                                        !.evidence = report.evidence]]
  BY DEF Observe
<1>2. DbMoves /\ UNCHANGED <<route, prov, age, rec, checks>> /\ crashes' \in 0..MaxCrashes
  BY DbStays, RowTypes DEF Observe
<1>3. CASE report.status = worker[w].seen
  <2>1. worker' = [worker EXCEPT ![w] = IdleWorker]
    BY <1>1, <1>3
  <2> QED
    BY <1>2, <2>1, WorkerIdles
<1>4. CASE report.status # worker[w].seen
  <2> DEFINE s == [worker[w] EXCEPT !.pc = "apply", !.next = report.status,
                                    !.evidence = report.evidence]
  <2>1. /\ worker[w] \in Sessions /\ report.status \in Statuses /\ report.status \in LegacyStatus
        /\ report.evidence \in Evidence
    BY <1>1, RowTypes, ReportTypes DEF Statuses, LegacyStatus
  <2>2. /\ s \in Sessions /\ s.swap = worker[w].swap /\ s.next = report.status
        /\ s.parent = worker[w].parent
    BY <2>1 DEF Sessions, WorkerPC
  <2>3. worker' = [worker EXCEPT ![w] = s]
    BY <1>1, <1>4
  <2> HIDE DEF s
  <2> QED
    BY <1>2, <2>1, <2>2, <2>3, WorkerMoves
<1> QED
  BY <1>3, <1>4

LEMMA RereadStep == ASSUME IInv, NEW w \in Workers, Reread(w) PROVE IInv' /\ DbMoves
<1> DEFINE s == [worker[w] EXCEPT !.pc = "reread", !.swap = db.swap]
<1>1. worker[w] \in Sessions /\ db.swap \in LegacyRows(Amounts)
  BY RowTypes
<1>2. /\ s \in Sessions /\ s.swap = db.swap /\ s.next = worker[w].next
      /\ s.parent = worker[w].parent
  BY <1>1 DEF Sessions, WorkerPC
<1>3. worker' = [worker EXCEPT ![w] = s]
  BY DEF Reread
<1>4. DbMoves /\ UNCHANGED <<route, prov, age, rec, checks>> /\ crashes' \in 0..MaxCrashes
  BY DbStays, RowTypes DEF Reread
<1>5. s.next \in Statuses
  BY <1>2, RowTypes
<1> HIDE DEF s
<1> QED
  BY <1>2, <1>3, <1>4, <1>5, WorkerMoves

\* The process gives up, or dies.
LEMMA ForgetStep ==
  ASSUME IInv, NEW w \in Workers, ObserveError(w) \/ Crash(w)
  PROVE  IInv' /\ DbMoves
<1>1. /\ worker' = [worker EXCEPT ![w] = IdleWorker] /\ db' = db
      /\ UNCHANGED <<route, prov, age, rec, checks>>
  BY DEF ObserveError, Crash
<1>2. crashes' \in 0..MaxCrashes
  <2>1. crashes \in 0..MaxCrashes /\ MaxCrashes \in Nat
    BY RowTypes, SwapAssumption
  <2> QED
    BY <2>1 DEF ObserveError, Crash
<1> QED
  BY <1>1, <1>2, DbStays, WorkerIdles

-----------------------------------------------------------------------------
(* The steps that project.                                                 *)

\* A projection that commits leaves a terminal status with its counterpart.
LEMMA CommitMoves ==
  ASSUME IInv, checks' = checks,
         NEW swap \in SwapRows(Amounts), NEW row \in SwapRows(Amounts), NEW parent,
         \/ parent = db.parent /\ parent # NoParent
         \/ parent = NewParent /\ db.parent = NoParent
         \/ Outdated(parent),
         NEW n, n = ProjectLegacySwap(View(swap, parent)), n.ok, db' = Committed(n, row),
         row.status \in {swap.status, db.swap.status},
         \/ Realized(swap) /\ row.realized = swap.realized
         \/ row.realized = db.swap.realized /\ swap.realized \in {NoAmount, db.swap.realized}
  PROVE  DbMoves
<1>1. DbInv
  BY DEF IInv
<1>2. /\ DbInv' /\ Keeps /\ db'.swap = row
      /\ db.swap.realized \in {NoAmount, row.realized}
      /\ swap.status \in LegacyTerminal => Ended(db', swap.status)
      /\ \A status : Ended(db, status) /\ <<"legacy_status_observed", status>> \in EventIds =>
           Ended(db', status)
  BY <1>1, CommitOutcome
<1>3. ASSUME checks' = 0, db'.swap.status \in LegacyTerminal
      PROVE  Ended(db', db'.swap.status)
  <2>1. <<"legacy_status_observed", db'.swap.status>> \in EventIds
    BY <1>3 DEF LegacyTerminal, EventIds, LegacyStatus
  <2>2. CASE db'.swap.status = swap.status
    BY <1>2, <1>3, <2>2
  <2>3. CASE db'.swap.status = db.swap.status
    BY <1>2, <1>3, <2>1, <2>3 DEF IInv
  <2> QED
    BY <1>2, <2>2, <2>3
<1> QED
  BY <1>2, <1>3 DEF DbMoves

\* The session of a poller process projects the row it holds.
LEMMA HeldRowMoves ==
  ASSUME IInv, checks' = checks, NEW w \in Workers, NEW n, n = Projected(w, worker[w].swap),
         db' = IF n.ok THEN Committed(n, db.swap) ELSE db
  PROVE  DbMoves
<1>1. CASE ~n.ok
  BY <1>1, DbStays
<1>2. CASE n.ok
  <2>1. DbInv /\ SessionInv(w) /\ db.swap \in SwapRows(Amounts)
    BY DEF IInv, DbInv, DbRows, SwapRows
  <2>2. /\ worker[w].swap \in SwapRows(Amounts)
        /\ worker[w].swap.realized \in {NoAmount, db.swap.realized}
    BY <2>1 DEF SessionInv, SwapRows
  <2>3. \/ SessionParent(w) = db.parent /\ SessionParent(w) # NoParent
        \/ SessionParent(w) = NewParent /\ db.parent = NoParent
        \/ Outdated(SessionParent(w))
    BY <2>1, SessionParentFacts
  <2>4. n = ProjectLegacySwap(View(worker[w].swap, SessionParent(w)))
    BY DEF Projected
  <2>5. db' = Committed(n, db.swap)
    BY <1>2
  <2> QED
    BY <1>2, <2>1, <2>2, <2>3, <2>4, <2>5, CommitMoves
<1> QED
  BY <1>1, <1>2

LEMMA ShadowProjectStep == ASSUME IInv, NEW w \in Workers, ShadowProject(w) PROVE IInv' /\ DbMoves
<1> DEFINE s == [worker[w] EXCEPT !.pc = "observe", !.parent = NoParent]
<1>1. worker[w] \in Sessions /\ NoParent \in ParentObjects
  BY RowTypes DEF NoParent, ParentObjects
<1>2. /\ s \in Sessions /\ s.swap = worker[w].swap /\ s.next = worker[w].next
      /\ s.parent = NoParent
  BY <1>1 DEF Sessions, WorkerPC
<1>3. worker' = [worker EXCEPT ![w] = s]
  BY DEF ShadowProject, CloseShadow
<1>4. DbMoves
  BY HeldRowMoves DEF ShadowProject
<1>5. UNCHANGED <<route, prov, age, rec, checks>> /\ crashes' \in 0..MaxCrashes /\ s.next \in Statuses
  BY <1>2, RowTypes DEF ShadowProject
<1> HIDE DEF s
<1> QED
  BY <1>2, <1>3, <1>4, <1>5, WorkerMoves

\* The columns that are assigned with a status.
LEMMA UpdateFacts ==
  ASSUME IInv, NEW w \in Workers, NEW s \in SwapRows(Amounts)
  PROVE  /\ WithUpdate(w, s) \in SwapRows(Amounts) /\ WithUpdate(w, s).status = worker[w].next
         /\ WithUpdate(w, s).realized =
              IF worker[w].next = "completed" /\ worker[w].evidence.amount # NoAmount
              THEN worker[w].evidence.amount ELSE s.realized
<1>1. worker[w].next \in Statuses /\ worker[w].evidence \in Evidence
  BY RowTypes DEF Sessions
<1> QED
  BY <1>1 DEF WithUpdate, SwapRows, Evidence

LEMMA ApplyStatusUpdateStep ==
  ASSUME IInv, NEW w \in Workers, ApplyStatusUpdate(w)
  PROVE  IInv' /\ DbMoves
<1>1. DbMoves
  <2> checks' = checks
    BY DEF ApplyStatusUpdate
  <2>1. CASE AlreadyApplied(w)
    BY <2>1, HeldRowMoves DEF ApplyStatusUpdate
  <2>2. CASE ~AlreadyApplied(w)
    <3> DEFINE swap == WithUpdate(w, worker[w].swap)
               row  == WithUpdate(w, db.swap)
               n    == Projected(w, swap)
    <3>1. db' = IF n.ok THEN Committed(n, row) ELSE db
      BY <2>2 DEF ApplyStatusUpdate
    <3>2. CASE ~n.ok
      BY <3>1, <3>2, DbStays
    <3>3. CASE n.ok
      <4>1. DbInv /\ SessionInv(w) /\ db.swap \in SwapRows(Amounts)
        BY DEF IInv, DbInv, DbRows, SwapRows
      <4>2. /\ worker[w].swap \in SwapRows(Amounts)
            /\ worker[w].swap.realized \in {NoAmount, db.swap.realized}
        BY <4>1 DEF SessionInv, SwapRows
      <4>3. /\ swap \in SwapRows(Amounts) /\ row \in SwapRows(Amounts)
            /\ row.status = swap.status
        BY <4>1, <4>2, UpdateFacts
      <4>4. \/ Realized(swap) /\ row.realized = swap.realized
            \/ row.realized = db.swap.realized /\ swap.realized \in {NoAmount, db.swap.realized}
        <5>1. CASE worker[w].next = "completed" /\ worker[w].evidence.amount # NoAmount
          <6>1. /\ swap.status = "completed" /\ swap.realized = worker[w].evidence.amount
                /\ row.realized = worker[w].evidence.amount
            BY <4>1, <4>2, <5>1, UpdateFacts
          <6> QED
            BY <5>1, <6>1 DEF Realized
        <5>2. CASE ~(worker[w].next = "completed" /\ worker[w].evidence.amount # NoAmount)
          <6>1. row.realized = db.swap.realized /\ swap.realized = worker[w].swap.realized
            BY <4>1, <4>2, <5>2, UpdateFacts
          <6> QED
            BY <4>2, <6>1
        <5> QED
          BY <5>1, <5>2
      <4>5. \/ SessionParent(w) = db.parent /\ SessionParent(w) # NoParent
            \/ SessionParent(w) = NewParent /\ db.parent = NoParent
            \/ Outdated(SessionParent(w))
        BY <4>1, SessionParentFacts
      <4>6. n = ProjectLegacySwap(View(swap, SessionParent(w))) /\ db' = Committed(n, row)
        BY <3>1, <3>3 DEF Projected
      <4> HIDE DEF swap, row, n
      <4> QED
        BY <3>3, <4>3, <4>4, <4>5, <4>6, CommitMoves
    <3> QED
      BY <3>2, <3>3
  <2> QED
    BY <2>1, <2>2
<1>2. /\ worker' = [worker EXCEPT ![w] = IdleWorker]
      /\ UNCHANGED <<route, prov, age, rec, checks>> /\ crashes' \in 0..MaxCrashes
  BY RowTypes DEF ApplyStatusUpdate, CloseApply
<1> QED
  BY <1>1, <1>2, WorkerIdles

LEMMA CommitResolutionStep ==
  ASSUME IInv, NEW r \in Reconcilers, CommitResolution(r)
  PROVE  IInv' /\ DbMoves
<1> DEFINE e   == rec[r].evidence
           row == WithResolution(e)
           n   == ProjectLegacySwap(View(row, db.parent))
<1>1. db' = IF Revalidated(e) /\ n.ok THEN Committed(n, row) ELSE db
  BY DEF CommitResolution
<1>2. rec \in [Reconcilers -> RecRows] /\ e \in Evidence
  BY TypesOfSessions DEF IInv, RecRows
<1>3. DbMoves
  <2> checks' = checks
    BY DEF CommitResolution
  <2>1. CASE ~(Revalidated(e) /\ n.ok)
    BY <1>1, <2>1, DbStays
  <2>2. CASE Revalidated(e) /\ n.ok
    <3>1. db.swap \in SwapRows(Amounts \ {0})
      BY DEF IInv, DbInv, DbRows
    <3>2. row \in SwapRows(Amounts) /\ row.realized = e.amount /\ row.status = "completed"
      BY <1>2, <3>1 DEF WithResolution, SwapRows, Evidence, Statuses
    <3>3. db.parent # NoParent
      BY <2>2 DEF Revalidated, NoParent
    <3>4. \/ Realized(row)
          \/ row.realized = db.swap.realized
      BY <2>2, <3>2 DEF Revalidated, Realized
    <3>5. db' = Committed(n, row)
      BY <1>1, <2>2
    <3>6. n = ProjectLegacySwap(View(row, db.parent))
      OBVIOUS
    <3> HIDE DEF n, row, e
    <3> QED
      BY <2>2, <3>2, <3>3, <3>4, <3>5, <3>6, CommitMoves
  <2> QED
    BY <2>1, <2>2
<1>4. rec' \in [Reconcilers -> RecRows]
  <2>1. IdleReconciler \in RecRows
    BY DEF IdleReconciler, RecRows, NoEvidence, Evidence
  <2>2. rec' = [rec EXCEPT ![r] = IdleReconciler]
    BY DEF CommitResolution, CloseResolution
  <2> QED
    BY <1>2, <2>1, <2>2
<1>5. /\ worker' = worker /\ route' = route /\ crashes' = crashes /\ checks' \in 0..MaxChecks
      /\ prov' \in {"PENDING", "DONE", "FAILED"} /\ age' \in {"fresh", "overdue", "aged"}
  BY DEF CommitResolution, IInv, TypeOK
<1> QED
  BY <1>3, <1>4, <1>5, OthersMove

-----------------------------------------------------------------------------
(* The other steps.                                                        *)

\* A reconciler that looks for work, or asks.
LEMMA ReconcilerReads ==
  ASSUME IInv, NEW r \in Reconcilers, SelectCandidate(r) \/ AskProvider(r)
  PROVE  IInv' /\ DbMoves
<1>1. rec \in [Reconcilers -> RecRows] /\ NoEvidence \in Evidence
  BY TypesOfSessions DEF IInv, NoEvidence, Evidence
<1>2. rec' \in [Reconcilers -> RecRows]
  <2>1. CASE SelectCandidate(r)
    BY <1>1, <2>1 DEF SelectCandidate, RecRows
  <2>2. CASE AskProvider(r)
    <3>1. PICK report : /\ report \in DefiniteReports \cup IndefiniteReports
                        /\ rec' = [rec EXCEPT ![r] =
                             IF Authoritative(report)
                             THEN [pc |-> "resolve", evidence |-> report.evidence]
                             ELSE IdleReconciler]
      BY <2>2 DEF AskProvider
    <3>2. report.evidence \in Evidence
      BY <3>1, ReportTypes
    <3>3. /\ [pc |-> "resolve", evidence |-> report.evidence] \in RecRows
          /\ IdleReconciler \in RecRows
      BY <1>1, <3>2 DEF RecRows, IdleReconciler
    <3> QED
      BY <1>1, <3>1, <3>3
  <2> QED
    BY <2>1, <2>2
<1>3. /\ worker' = worker /\ route' = route /\ crashes' = crashes /\ db' = db
      /\ checks' = checks /\ checks \in 0..MaxChecks
      /\ prov' \in {"PENDING", "DONE", "FAILED"} /\ age' \in {"fresh", "overdue", "aged"}
  BY DEF SelectCandidate, AskProvider, IInv, TypeOK
<1> QED
  BY <1>2, <1>3, DbStays, OthersMove

\* The outside world goes on.
LEMMA WorldStep ==
  ASSUME IInv, NEW outcome \in {"DONE", "FAILED"}, NEW next \in {"overdue", "aged"},
         Settle(outcome) \/ Age(next)
  PROVE  IInv' /\ DbMoves
<1>1. /\ worker' = worker /\ route' = route /\ crashes' = crashes /\ db' = db /\ rec' = rec
      /\ checks' = checks /\ checks \in 0..MaxChecks
      /\ prov' \in {"PENDING", "DONE", "FAILED"} /\ age' \in {"fresh", "overdue", "aged"}
  BY DEF Settle, Age, IInv, TypeOK
<1>2. rec' \in [Reconcilers -> RecRows]
  BY <1>1, TypesOfSessions DEF IInv
<1> QED
  BY <1>1, <1>2, DbStays, OthersMove

\* The button writes the swap's row, but no amount, and no canonical row.
LEMMA ButtonStep ==
  ASSUME IInv, CheckDestination \/ CheckStatus
  PROVE  IInv' /\ DbMoves
<1>1. /\ worker' = worker /\ route' = route /\ crashes' = crashes /\ rec' = rec
      /\ prov' \in {"PENDING", "DONE", "FAILED"} /\ age' \in {"fresh", "overdue", "aged"}
  BY DEF CheckDestination, CheckStatus, IInv, TypeOK
<1>9. checks' \in 0..MaxChecks /\ checks' # 0
  <2>1. checks \in Nat /\ checks < MaxChecks /\ checks' = checks + 1 /\ MaxChecks \in Nat
    BY SwapAssumption DEF CheckDestination, CheckStatus, IInv, TypeOK
  <2> QED
    BY <2>1
<1>2. rec' \in [Reconcilers -> RecRows]
  BY <1>1, TypesOfSessions DEF IInv
<1>3. PICK swap \in SwapRows(Amounts \ {0}) :
        db' = [db EXCEPT !.swap = swap] /\ swap.realized = db.swap.realized
  <2>1. db \in DbRows /\ db.swap \in SwapRows(Amounts \ {0})
    BY DEF IInv, DbInv, DbRows
  <2>2. CASE CheckDestination
    <3>1. PICK e \in ReportedEvidence : db' = [db EXCEPT !.swap.dest = e.dest]
      BY <2>2 DEF CheckDestination
    <3>2. e.dest \in Dests \cup {NoDest}
      BY <3>1 DEF ReportedEvidence, Evidence, NoEvidence
    <3> DEFINE s == [db.swap EXCEPT !.dest = e.dest]
    <3>3. s \in SwapRows(Amounts \ {0}) /\ s.realized = db.swap.realized
      BY <2>1, <3>2 DEF SwapRows
    <3>4. db' = [db EXCEPT !.swap = s]
      BY <2>1, <3>1 DEF DbRows
    <3> QED
      BY <3>3, <3>4
  <2>3. CASE CheckStatus
    <3>1. PICK status \in ButtonStatuses : db' = [db EXCEPT !.swap.status = status]
      BY <2>3 DEF CheckStatus
    <3>2. status \in Statuses
      BY <3>1 DEF ButtonStatuses, Statuses
    <3> DEFINE s == [db.swap EXCEPT !.status = status]
    <3>3. s \in SwapRows(Amounts \ {0}) /\ s.realized = db.swap.realized
      BY <2>1, <3>2 DEF SwapRows
    <3>4. db' = [db EXCEPT !.swap = s]
      BY <2>1, <3>1 DEF DbRows
    <3> QED
      BY <3>3, <3>4
  <2> QED
    BY <2>2, <2>3
<1>4. DbInv /\ db \in DbRows /\ Len(db.log) \in Nat
  BY DEF IInv, DbInv, DbRows
<1>5. /\ db' \in DbRows /\ db'.swap = swap /\ db'.parent = db.parent /\ db'.log = db.log
      /\ db'.fills = db.fills /\ db'.settlement = db.settlement
  BY <1>3, <1>4 DEF DbRows
<1>6. ParentOnRecord' /\ Paid(db')
  BY <1>4, <1>5 DEF DbInv, ParentOnRecord, Orderly, Current, Paid
<1>7. DbInv'
  BY <1>3, <1>4, <1>5, <1>6 DEF DbInv
<1>8. DbMoves
  BY <1>3, <1>4, <1>5, <1>7, <1>9 DEF DbMoves, Keeps
<1> QED
  BY <1>1, <1>2, <1>8, <1>9, OthersMove

-----------------------------------------------------------------------------
(* The invariant.                                                          *)

LEMMA InitHasIInv ==
  ASSUME Init
  PROVE  IInv
<1>1. SubmittedSwap \in SwapRows(Amounts \ {0}) /\ SubmittedSwap.realized = NoAmount
      /\ SubmittedSwap.status \notin LegacyTerminal
  BY DEF SubmittedSwap, SwapRows, Statuses, LegacyTerminal
<1>2. NoEvidence \in Evidence /\ SubmittedSwap \in LegacyRows(Amounts)
      /\ NoParent \in ParentObjects
  BY DEF NoEvidence, Evidence, SubmittedSwap, LegacyRows, LegacyStatus, NoParent, ParentObjects
<1>3. IdleWorker \in Sessions /\ IdleReconciler \in RecRows
  BY <1>2 DEF IdleWorker, IdleReconciler, Sessions, RecRows, WorkerPC, LegacyStatus
<1>4. /\ db.swap = SubmittedSwap /\ db.parent = NoParent /\ db.log = <<>> /\ db.fills = {}
      /\ db.child = "none" /\ db.settlement = NoSettlement
  BY DEF Init
<1>5. db \in DbRows
  <2>1. NoSettlement \in SettlementRows /\ <<>> \in Seq(LogRows)
    BY DEF NoSettlement, SettlementRows
  <2> QED
    BY <1>1, <2>1 DEF Init, DbRows, ChildStates
<1>6. DbInv
  <2>1. ~HasEvent(db.log, Delivered)
    BY <1>4 DEF HasEvent
  <2> QED
    BY <1>1, <1>4, <1>5, <2>1 DEF DbInv, ParentOnRecord, Paid, NoSettlement
<1>7. TypeOK
  <2>1. db.swap \in LegacyRows(Amounts \ {0}) /\ db.parent \in ParentObjects
    BY <1>2, <1>4 DEF SubmittedSwap, LegacyRows, LegacyStatus
  <2>2. worker \in [Workers -> Sessions] /\ rec \in [Reconcilers -> RecRows]
    BY <1>3 DEF Init
  <2>3. db.settlement \in [state : {"none", "reconciling", "settled"},
                           amount : (Amounts \ {0}) \cup {NoAmount}]
    BY <1>4 DEF NoSettlement
  <2>4. 0 \in 0..MaxCrashes /\ 0 \in 0..MaxChecks
    BY SwapAssumption
  <2> QED
    BY <1>4, <2>1, <2>2, <2>3, <2>4 DEF Init, TypeOK, Sessions, RecRows, LegacyRows, ParentObjects
<1>8. ASSUME NEW w \in Workers
      PROVE  SessionInv(w)
  <2>1. worker[w] = IdleWorker
    BY DEF Init
  <2>2. IdleWorker.swap = SubmittedSwap /\ IdleWorker.next = "submitted"
        /\ IdleWorker.parent = NoParent
    BY DEF IdleWorker
  <2> QED
    BY <1>1, <2>1, <2>2 DEF SessionInv, Statuses
<1> QED
  BY <1>1, <1>4, <1>6, <1>7, <1>8 DEF IInv

LEMMA NextKeepsIInv ==
  ASSUME IInv, [Next]_vars
  PROVE  IInv' /\ DbMoves
<1>1. CASE \E outcome \in {"DONE", "FAILED"} : Settle(outcome)
  BY <1>1, WorldStep
<1>2. CASE \E next \in {"overdue", "aged"} : Age(next)
  BY <1>2, WorldStep
<1>3. ASSUME NEW w \in Workers, WorkerStep(w)
      PROVE  IInv' /\ DbMoves
  BY <1>3, SelectStep, ReadParentStep, ShadowProjectStep, ForgetStep, ObserveStep, RereadStep,
     ApplyStatusUpdateStep DEF WorkerStep
<1>4. ASSUME NEW w \in Workers, Crash(w)
      PROVE  IInv' /\ DbMoves
  BY <1>4, ForgetStep
<1>5. ASSUME NEW r \in Reconcilers, ReconcilerStep(r)
      PROVE  IInv' /\ DbMoves
  BY <1>5, ReconcilerReads, CommitResolutionStep DEF ReconcilerStep
<1>6. CASE CheckDestination \/ CheckStatus
  BY <1>6, ButtonStep
<1>7. CASE UNCHANGED vars
  <2>1. DbMoves
    BY <1>7, DbStays DEF vars
  <2>2. rec' \in [Reconcilers -> RecRows]
    BY <1>7, TypesOfSessions DEF IInv, vars
  <2> QED
    BY <1>7, <2>1, <2>2, OthersMove DEF vars, IInv, TypeOK
<1> QED
  BY <1>1, <1>2, <1>3, <1>4, <1>5, <1>6, <1>7 DEF Next

THEOREM IInvAlways == Spec => []IInv
BY InitHasIInv, NextKeepsIInv, PTL DEF Spec

-----------------------------------------------------------------------------
(* Theorems.                                                               *)

\* Whatever the processes do, every row of one swap and every session object keeps
\* its type; a committed realized amount is positive.
THEOREM SwapTypeCorrect == Spec => []TypeOK
<1>1. IInv => TypeOK
  BY DEF IInv
<1> QED
  BY <1>1, IInvAlways, PTL

\* Whoever appends, from whatever parent object a session holds, and whatever
\* aborts, the canonical parent is always what a replay of its own event log gives.
THEOREM SwapCanonicalIsReplay == Spec => []CanonicalIsReplay
<1>1. ASSUME IInv
      PROVE  CanonicalIsReplay
  <2>1. CASE db.parent = NoParent
    BY <1>1, <2>1 DEF IInv, DbInv, ParentOnRecord, CanonicalIsReplay
  <2>2. CASE db.parent # NoParent
    <3>1. Orderly(db) /\ Current(db)
      BY <1>1, <2>2 DEF IInv, DbInv, ParentOnRecord
    <3> QED
      BY <2>2, <3>1 DEF Orderly, Replayed, CanonicalIsReplay
  <2> QED
    BY <2>1, <2>2
<1> QED
  BY <1>1, IInvAlways, PTL

\* A parent on record is filled if and only if a fill is.
LEMMA FilledIsPaid ==
  ASSUME IInv
  PROVE  db.parent.state = "filled" <=> db.fills # {}
<1>1. db.fills = {} <=> ~HasEvent(db.log, Delivered)
  BY DEF IInv, DbInv, Paid
<1>2. CASE db.parent = NoParent
  <2>1. ~HasEvent(db.log, Delivered)
    BY <1>2 DEF IInv, DbInv, ParentOnRecord, HasEvent
  <2> QED
    BY <1>1, <1>2, <2>1 DEF NoParent
<1>3. CASE db.parent # NoParent
  BY <1>1, <1>3 DEF IInv, DbInv, ParentOnRecord, Orderly
<1> QED
  BY <1>2, <1>3

\* For any number of pollers and reconcilers, any reports and any crashes: a
\* canonical fill is the one delivery that project_legacy_swap was told of, equal
\* to the legacy row's realized amount and to the settled amount, and there is one
\* exactly when the parent is filled.
THEOREM SwapFillIsDelivery == Spec => []FillIsDelivery
<1>1. ASSUME IInv
      PROVE  FillIsDelivery
  <2>1. db.parent.state = "filled" <=> db.fills # {}
    BY <1>1, FilledIsPaid
  <2>2. ASSUME NEW f \in db.fills
        PROVE  /\ f.output > 0 /\ f.output = db.swap.realized
               /\ db.settlement = [state |-> "settled", amount |-> f.output]
    <3>1. f \in FillRows /\ f.output = db.swap.realized
      BY <1>1, <2>2 DEF IInv, DbInv, DbRows
    <3>2. f.output > 0
      <4>1. f.output \in Amounts \ {0}
        BY <3>1 DEF FillRows
      <4>2. f.output \in Nat /\ f.output # 0
        BY <4>1, SwapAssumption
      <4> QED
        BY <4>2
    <3> QED
      BY <1>1, <2>2, <3>1, <3>2 DEF IInv, DbInv, Paid
  <2> QED
    BY <2>1, <2>2 DEF FillIsDelivery
<1> QED
  BY <1>1, IInvAlways, PTL

\* Until the status button is used, a swap is never shown as completed or failed before
\* its canonical parent, event and settlement say so too, in whatever order the
\* pollers and the reconciler of any number of processes commit.
THEOREM SwapTerminalIsProjected == Spec => []TerminalIsProjected
<1>1. ASSUME IInv
      PROVE  TerminalIsProjected
  <2> SUFFICES ASSUME checks = 0, db.swap.status \in LegacyTerminal
               PROVE  /\ db.parent.state \in {"reconciling", "filled"}
                      /\ HasEvent(db.log, <<"legacy_status_observed", db.swap.status>>)
                      /\ db.settlement.state =
                           IF db.parent.state = "filled" THEN "settled" ELSE "reconciling"
    BY DEF TerminalIsProjected
  <2>1. Ended(db, db.swap.status)
    BY <1>1 DEF IInv
  <2>2. db.parent # NoParent
    BY <1>1, <2>1 DEF IInv, DbInv, ParentOnRecord, Ended, HasEvent
  <2>3. Orderly(db) /\ Current(db) /\ Paid(db) /\ db.settlement \in SettlementRows
    BY <1>1, <2>2 DEF IInv, DbInv, DbRows, ParentOnRecord
  <2>4. db.parent.state = "filled" <=> db.fills # {}
    BY <1>1, FilledIsPaid
  <2>5. CASE db.fills # {}
    <3>1. PICK f \in db.fills : db.settlement = [state |-> "settled", amount |-> f.output]
      BY <2>3, <2>5 DEF Paid
    <3>2. db.parent.state = "filled" /\ db.settlement.state = "settled"
      BY <2>4, <2>5, <3>1
    <3> QED
      BY <2>1, <3>2 DEF Ended
  <2>6. CASE db.fills = {}
    <3>1. db.parent.state \in {"reconciling", "filled"}
      BY <2>1, <2>3, <2>6 DEF Ended, Orderly
    <3>2. db.settlement.state = "reconciling"
      BY <2>1, <2>3, <2>6 DEF Ended, Paid, SettlementRows
    <3> QED
      BY <2>1, <2>4, <2>6, <3>1, <3>2 DEF Ended
  <2> QED
    BY <2>5, <2>6
<1> QED
  BY <1>1, IInvAlways, PTL

\* What a step never does to the money on record: it replaces no fill, takes back
\* no settlement and changes no realized amount, and it removes no event.
MoneyIsFinal ==
  /\ db.fills # {} => db'.fills = db.fills /\ db'.settlement = db.settlement
  /\ db.swap.realized # NoAmount => db'.swap.realized = db.swap.realized
  /\ Len(db.log) <= Len(db'.log)

\* Once a delivery is on record no late report, retry or second process changes
\* what was delivered, and the event log only grows.
THEOREM SwapMoneyIsFinal == Spec => [][MoneyIsFinal]_vars
<1>1. ASSUME IInv, IInv', [Next]_vars
      PROVE  [MoneyIsFinal]_vars
  <2>1. DbMoves
    BY <1>1, NextKeepsIInv
  <2>2. db.swap.realized # NoAmount => db'.swap.realized = db.swap.realized
    BY <2>1 DEF DbMoves
  <2>3. ASSUME db.fills # {}
        PROVE  db'.fills = db.fills /\ db'.settlement = db.settlement
    <3>1. db.swap.realized # NoAmount /\ db'.swap.realized = db.swap.realized
      BY <1>1, <2>2, <2>3 DEF IInv, DbInv
    <3>2. db'.fills # {}
      BY <1>1, <3>1 DEF IInv, DbInv
    <3>3. /\ \A f \in db.fills : f \in FillRows /\ f.output = db.swap.realized
          /\ \A f \in db'.fills : f \in FillRows /\ f.output = db.swap.realized
      BY <1>1, <3>1 DEF IInv, DbInv, DbRows
    <3>4. \A f \in db.fills, g \in db'.fills : f = g
      BY <3>3 DEF FillRows
    <3>5. PICK f \in db.fills : f \in db'.fills
      BY <2>3, <3>2, <3>4
    <3>6. db'.fills = db.fills
      BY <2>3, <3>2, <3>4
    <3>7. /\ db.settlement = [state |-> "settled", amount |-> f.output]
          /\ db'.settlement = [state |-> "settled", amount |-> f.output]
      BY <1>1, <3>5 DEF IInv, DbInv, Paid
    <3> QED
      BY <3>6, <3>7
  <2> QED
    BY <2>1, <2>2, <2>3 DEF MoneyIsFinal, DbMoves, Keeps
<1> QED
  BY <1>1, IInvAlways, PTL DEF Spec

=============================================================================
