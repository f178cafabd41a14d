------------------------ MODULE ExecutionStoreProofs ------------------------
(***************************************************************************)
(* Proofs about ExecutionStore, for every set of sessions, events and      *)
(* fills and every bound.                                                  *)
(*                                                                         *)
(* SnapshotIsReplay is not inductive: nothing in it speaks of the parent   *)
(* object a session cached before it had the lock.  The invariant below    *)
(* adds that such an object is never ahead of the log and is the current   *)
(* row whenever it is not behind, so that an append from an outdated one   *)
(* meets the unique constraint on (parent, sequence); and that the rows a  *)
(* lock holder is about to commit are themselves a run of the reducer.     *)
(***************************************************************************)
EXTENDS ExecutionStore, ReplayProofs

Last(h) == h[Len(h)]

\* h is the run of the reducer over the whole of l.
ReplayOf(l, h) ==
  /\ Len(h) = Len(l) + 1
  /\ h[1] = InitialSnapshot
  /\ \A n \in 1..Len(l) :
       /\ l[n].sequence = n
       /\ Accepts(h[n], l[n])
       /\ h[n + 1] = Reduce(h[n], l[n])
  /\ Last(h).sequence = Len(l)

\* The identities of the last snapshot are those of the rows: what record_fill
\* and append_event look up in the tables is what the reducer would look up.
Identities(l, h, f) ==
  /\ \A i \in Last(h).ids : HasEvent(l, i)
  /\ Last(h).keys = {g.key : g \in f}
  /\ \A n \in 1..Len(l) :
       IF l[n].type = "fill_recorded"
       THEN l[n].id = l[n].key /\ l[n].key \in Last(h).keys
       ELSE \E e \in Events : e.id = l[n].id

\* No fill has two rows, in either table.
OneRowPerFill(l, f) ==
  /\ \A g1, g2 \in f : g1.key = g2.key => g1 = g2
  /\ \A i, j \in 1..Len(l) :
       l[i].type = "fill_recorded" /\ l[j].type = "fill_recorded" /\ l[i].key = l[j].key
         => i = j

Consistent(l, h, f) == ReplayOf(l, h) /\ Identities(l, h, f) /\ OneRowPerFill(l, f)

\* A cached parent object is behind the log, or it is the replay of the log.
NotAhead(p, l, h) ==
  /\ p.sequence <= Len(l)
  /\ p.sequence = Len(l) => p = Materialized(Last(h))

\* b continues a: no element of a is lost or replaced.
Continues(b, a) == \A n \in 1..Len(a) : b[n] = a[n]

\* A lock holder that has appended nothing sees the committed rows ...
Untouched(s) ==
  sess[s].view.log = log /\ sess[s].hist = hist /\ sess[s].view.fills = fills

\* ... one that has appended continues them, holds a parent that is the replay of
\* its log, and has not left a terminal state.
Appended(s) ==
  /\ Len(sess[s].view.log) > Len(log)
  /\ Continues(sess[s].view.log, log)
  /\ Continues(sess[s].hist, hist)
  /\ sess[s].view.parent = Materialized(Last(sess[s].hist))
  /\ parent.state \in TERMINAL_STATES => sess[s].view.parent.state = parent.state

Committable(s) ==
  /\ Consistent(sess[s].view.log, sess[s].hist, sess[s].view.fills)
  /\ NotAhead(sess[s].view.parent, sess[s].view.log, sess[s].hist)
  /\ Untouched(s) \/ Appended(s)

\* The inductive invariant.
IInv ==
  /\ TypeOK
  /\ Consistent(log, hist, fills)
  /\ parent = Materialized(Last(hist))
  /\ \A s \in Sessions :
       /\ sess[s].view.ok = TRUE
       /\ sess[s].pc = "locked" <=> lock = s
       /\ sess[s].pc = "read" => NotAhead(sess[s].view.parent, log, hist)
       /\ sess[s].pc = "locked" => Committable(s)

-----------------------------------------------------------------------------
(* Sequences and the reducer.                                              *)

\* Appending to a log (or to a history) keeps its rows and adds one.
LEMMA AppendFacts ==
  ASSUME NEW S, NEW l \in Seq(S), NEW x \in S
  PROVE  /\ Append(l, x) \in Seq(S)
         /\ Len(l) \in Nat
         /\ Len(Append(l, x)) = Len(l) + 1
         /\ \A i \in 1..Len(l) : Append(l, x)[i] = l[i] /\ l[i] \in S
         /\ Append(l, x)[Len(l) + 1] = x
  OBVIOUS

\* What continues a continuation of a sequence continues the sequence.
LEMMA ContinuesTransitive ==
  ASSUME NEW a, NEW b, NEW c, Len(a) \in Nat, Len(b) \in Nat, Len(a) <= Len(b),
         Continues(b, a), Continues(c, b)
  PROVE  Continues(c, a)
<1>1. \A n \in 1..Len(a) : n \in 1..Len(b)
  OBVIOUS
<1> QED
  BY <1>1 DEF Continues

\* The state an accepted event leads to is a state (reduce_event).
LEMMA TargetIsState ==
  ASSUME NEW n \in Snapshots, NEW e \in EventRows, Accepts(n, e), e.id \notin n.ids
  PROVE  TargetState(n, e) \in ParentState
<1>1. n.state \in ParentState
  BY DEF Snapshots
<1>2. CASE e.type \in {"parent_state_changed", "reconciliation_resolved"}
  BY <1>2 DEF Accepts, TargetState, IsNewFill
<1>3. CASE e.type = "reconciliation_started"
  BY <1>3 DEF TargetState, ParentState, IsNewFill
<1>4. CASE e.type \notin {"parent_state_changed", "reconciliation_resolved",
                         "reconciliation_started"}
  <2>1. \A q : FillTarget(q) \in ParentState
    BY DEF FillTarget, ParentState
  <2> QED
    BY <1>1, <1>4, <2>1 DEF TargetState
<1> QED
  BY <1>2, <1>3, <1>4

\* reduce_event returns a well-formed snapshot.
LEMMA ReduceIsSnapshot ==
  ASSUME NEW n \in Snapshots, NEW e \in EventRows, Accepts(n, e)
  PROVE  Reduce(n, e) \in Snapshots
<1>1. CASE e.id \in n.ids
  BY <1>1 DEF Reduce
<1>2. CASE e.id \notin n.ids
  <2>1. TargetState(n, e) \in ParentState
    BY <1>2, TargetIsState
  <2>2. /\ e.sequence \in Nat /\ e.qty \in Nat /\ e.id \in STRING /\ e.key \in STRING
        /\ n.filled \in Nat /\ n.ids \in SUBSET STRING /\ n.keys \in SUBSET STRING
    BY DEF Snapshots, EventRows
  <2>3. /\ (IF IsNewFill(n, e) THEN n.filled + e.qty ELSE n.filled) \in Nat
        /\ (IF IsNewFill(n, e) THEN n.keys \cup {e.key} ELSE n.keys) \in SUBSET STRING
        /\ n.ids \cup {e.id} \in SUBSET STRING
    BY <2>2
  <2> QED
    BY <1>2, <2>1, <2>2, <2>3 DEF Reduce, Snapshots
<1> QED
  BY <1>1, <1>2

\* _snapshot_from_parent and its inverse keep types.
LEMMA SnapshotTypes ==
  /\ \A p \in ParentRows : SnapshotFromParent(p) \in Snapshots
  /\ \A n \in Snapshots : Materialized(n) \in ParentRows
  BY DEF ParentRows, Snapshots, SnapshotFromParent, Materialized

-----------------------------------------------------------------------------
(* One store call.                                                         *)

\* Callers append an event of their own, or record_fill appends that of a fill it
\* has just inserted.
Callable(e, f, g) ==
  \/ e \in Events /\ g = f
  \/ \E k \in Fills : /\ e = FillEvent(k)
                      /\ \A x \in f : x.key # k.key
                      /\ g = f \cup {k}

\* The facts about a call that inserted the row of event e: l, h and f are the
\* log, its replay and the fills before it, p the parent object, g the fills after.
Inserted(e, p, l, h, f, g) ==
  /\ Consistent(l, h, f)
  /\ NotAhead(p, l, h)
  /\ Callable(e, f, g)
  /\ ~HasEvent(l, e.id)
  /\ Accepts(SnapshotFromParent(p), EventRow(p, e))
  /\ ~SequenceTaken(l, EventRow(p, e).sequence)

\* The row of an event is well-formed.
LEMMA RowType ==
  ASSUME NEW p \in ParentRows, NEW e \in EventFields
  PROVE  /\ EventRow(p, e) \in EventRows
         /\ EventRow(p, e).id = e.id /\ EventRow(p, e).type = e.type
         /\ EventRow(p, e).key = e.key /\ EventRow(p, e).sequence = p.sequence + 1
  BY DEF EventFields, EventRows, EventRow, ParentRows

\* Every event a call appends is well-formed.
LEMMA CallableType ==
  ASSUME NEW e, NEW f \in SUBSET FillRows, NEW g, Callable(e, f, g)
  PROVE  e \in EventFields /\ g \in SUBSET FillRows
<1>1. CASE e \in Events /\ g = f
  BY <1>1, EventsAssumption
<1>2. ASSUME NEW k \in Fills, e = FillEvent(k), g = f \cup {k}
      PROVE  e \in EventFields /\ g \in SUBSET FillRows
  <2>1. k \in FillRows /\ k.key \in STRING /\ k.qty \in Nat
    BY EventsAssumption DEF FillRows
  <2> QED
    BY <1>2, <2>1 DEF FillEvent, EventFields, EventType, NoState
<1> QED
  BY <1>1, <1>2 DEF Callable

\* The unique constraint lets only an up-to-date parent object through.
LEMMA InsertedIsFresh ==
  ASSUME NEW p \in ParentRows, NEW l \in Seq(EventRows), NEW h \in Seq(Snapshots),
         NEW f \in SUBSET FillRows, NEW g, NEW e, Inserted(e, p, l, h, f, g)
  PROVE  p.sequence = Len(l) /\ p = Materialized(Last(h))
<1>1. e \in EventFields
  BY CallableType DEF Inserted
<1>2. p.sequence \in Nat /\ Len(l) \in Nat /\ p.sequence <= Len(l)
  BY DEF Inserted, NotAhead, ParentRows
<1>3. ~SequenceTaken(l, p.sequence + 1)
  BY <1>1, RowType DEF Inserted
<1>4. ASSUME p.sequence + 1 \in 1..Len(l)
      PROVE  FALSE
  <2>1. l[p.sequence + 1].sequence = p.sequence + 1
    BY <1>4 DEF Inserted, Consistent, ReplayOf
  <2> QED
    BY <1>3, <1>4, <2>1 DEF SequenceTaken
<1>5. p.sequence = Len(l)
  BY <1>2, <1>4
<1> QED
  BY <1>5 DEF Inserted, NotAhead

\* The new event's identities are unknown to the replay as well.
LEMMA InsertedIsNew ==
  ASSUME NEW p \in ParentRows, NEW l \in Seq(EventRows), NEW h \in Seq(Snapshots),
         NEW f \in SUBSET FillRows, NEW g, NEW e, Inserted(e, p, l, h, f, g)
  PROVE  /\ e.id \notin Last(h).ids
         /\ e.type = "fill_recorded" => e.key \notin Last(h).keys
<1>1. e.id \notin Last(h).ids
  BY DEF Inserted, Consistent, Identities
<1>2. ASSUME e.type = "fill_recorded"
      PROVE  e.key \notin Last(h).keys
  <2>1. e \notin Events
    BY <1>2, EventsAssumption
  <2>2. PICK k \in Fills : e = FillEvent(k) /\ \A x \in f : x.key # k.key
    BY <2>1 DEF Inserted, Callable
  <2>3. e.key = k.key
    BY <2>2 DEF FillEvent
  <2>4. Last(h).keys = {x.key : x \in f}
    BY DEF Inserted, Consistent, Identities
  <2> QED
    BY <2>2, <2>3, <2>4
<1> QED
  BY <1>1, <1>2

\* An inserted row extends the replay: append_event's check against the parent
\* object was the check that replay will make.
LEMMA InsertedExtends ==
  ASSUME NEW p \in ParentRows, NEW l \in Seq(EventRows), NEW h \in Seq(Snapshots),
         NEW f \in SUBSET FillRows, NEW g, NEW e, Inserted(e, p, l, h, f, g)
  PROVE  LET row == EventRow(p, e)
             l2  == Append(l, row)
             h2  == Append(h, Reduce(Last(h), row))
             p2  == Materialized(Reduce(SnapshotFromParent(p), row))
         IN  /\ l2 \in Seq(EventRows) /\ Len(l2) = Len(l) + 1
             /\ h2 \in Seq(Snapshots) /\ Len(h2) = Len(h) + 1
             /\ p2 \in ParentRows /\ p2 = Materialized(Last(h2))
             /\ p.state \in TERMINAL_STATES => p2.state = p.state
             /\ Continues(l2, l) /\ Continues(h2, h)
             /\ Consistent(l2, h2, g)
<1> DEFINE row == EventRow(p, e)
           n   == Last(h)
           m   == Reduce(n, row)
           l2  == Append(l, row)
           h2  == Append(h, m)
           p2  == Materialized(Reduce(SnapshotFromParent(p), row))
<1>1. /\ row \in EventRows /\ row.id = e.id /\ row.type = e.type /\ row.key = e.key
      /\ row.sequence = Len(l) + 1
  BY CallableType, RowType, InsertedIsFresh DEF Inserted
<1>2. /\ Len(l) \in Nat /\ Len(h) = Len(l) + 1 /\ n \in Snapshots /\ n.sequence = Len(l)
      /\ p = Materialized(n)
  BY InsertedIsFresh DEF Inserted, Consistent, ReplayOf, Last
<1>3. row.id \notin n.ids /\ (row.type = "fill_recorded" => row.key \notin n.keys)
  BY <1>1, InsertedIsNew
<1>4. Accepts(SnapshotFromParent(p), row)
  BY DEF Inserted
<1> HIDE DEF row, n
<1>5. Accepts(n, row) /\ p2 = Materialized(m) /\ TargetState(n, row) = m.state
  BY <1>1, <1>2, <1>3, <1>4, ReducerAgrees DEF Reduce
<1>6. m \in Snapshots
  BY <1>1, <1>2, <1>5, ReduceIsSnapshot
<1>7. /\ m.sequence = Len(l) + 1
      /\ m.ids = n.ids \cup {row.id}
      /\ m.keys = IF row.type = "fill_recorded" THEN n.keys \cup {row.key} ELSE n.keys
  BY <1>1, <1>3 DEF Reduce, IsNewFill
<1>8. p2 \in ParentRows
  BY <1>5, <1>6, SnapshotTypes
<1>9. p.state \in TERMINAL_STATES => p2.state = p.state
  <2>1. p.state = n.state /\ p2.state = m.state
    BY <1>2, <1>5 DEF Materialized
  <2>2. ValidTransition(n.state, TargetState(n, row))
    BY <1>3, <1>5 DEF Accepts
  <2> QED
    BY <2>1, <2>2, <1>5 DEF ValidTransition
<1> HIDE DEF m
<1>10. /\ l2 \in Seq(EventRows) /\ Len(l2) = Len(l) + 1
       /\ \A i \in 1..Len(l) : l2[i] = l[i]
       /\ l2[Len(l) + 1] = row
  BY <1>1, AppendFacts
<1>11. /\ h2 \in Seq(Snapshots) /\ Len(h2) = Len(h) + 1
       /\ \A i \in 1..Len(h) : h2[i] = h[i]
       /\ h2[Len(h) + 1] = m
  BY <1>6, AppendFacts
<1> HIDE DEF l2, h2, p2
<1>12. Last(h2) = m
  BY <1>11 DEF Last
<1>13. ReplayOf(l2, h2)
  <2>1. ReplayOf(l, h)
    BY DEF Inserted, Consistent
  <2>2. h2[1] = InitialSnapshot
    BY <1>2, <1>11, <2>1 DEF ReplayOf
  <2>3. ASSUME NEW i \in 1..Len(l2)
        PROVE  l2[i].sequence = i /\ Accepts(h2[i], l2[i]) /\ h2[i + 1] = Reduce(h2[i], l2[i])
    <3>1. CASE i \in 1..Len(l)
      <4>1. l2[i] = l[i] /\ h2[i] = h[i] /\ h2[i + 1] = h[i + 1]
        BY <1>2, <1>10, <1>11, <3>1
      <4> QED
        BY <2>1, <3>1, <4>1 DEF ReplayOf
    <3>2. CASE i = Len(l) + 1
      <4>1. l2[i] = row /\ h2[i] = n /\ h2[i + 1] = m
        BY <1>2, <1>10, <1>11, <3>2 DEF n, Last
      <4> QED
        BY <1>1, <1>5, <3>2, <4>1 DEF m
    <3> QED
      BY <1>2, <1>10, <3>1, <3>2
  <2> QED
    BY <1>2, <1>7, <1>10, <1>11, <1>12, <2>2, <2>3 DEF ReplayOf
<1>14. Identities(l2, h2, g)
  <2>1. Identities(l, h, f)
    BY DEF Inserted, Consistent
  <2>2. ASSUME NEW i \in m.ids
        PROVE  HasEvent(l2, i)
    <3>1. CASE i = row.id
      BY <1>2, <1>10, <3>1 DEF HasEvent
    <3>2. CASE i \in n.ids
      BY <1>2, <1>10, <2>1, <3>2 DEF HasEvent, Identities, n
    <3> QED
      BY <1>7, <3>1, <3>2
  <2>3. /\ m.keys = {x.key : x \in g}
        /\ IF row.type = "fill_recorded" THEN row.id = row.key /\ row.key \in m.keys
           ELSE \E v \in Events : v.id = row.id
    <3>0. n.keys = {x.key : x \in f}
      BY <2>1 DEF Identities, n
    <3>1. CASE e \in Events /\ g = f
      BY <1>1, <1>7, <3>0, <3>1, EventsAssumption
    <3>2. CASE e \notin Events
      <4>1. PICK k \in Fills : e = FillEvent(k) /\ g = f \cup {k}
        BY <3>2 DEF Inserted, Callable
      <4>2. row.type = "fill_recorded" /\ row.id = k.key /\ row.key = k.key
        BY <1>1, <4>1 DEF FillEvent
      <4> QED
        BY <1>7, <3>0, <4>1, <4>2
    <3> QED
      BY <3>1, <3>2, EventsAssumption DEF Inserted, Callable, FillEvent
  <2>4. ASSUME NEW i \in 1..Len(l2)
        PROVE  IF l2[i].type = "fill_recorded" THEN l2[i].id = l2[i].key /\ l2[i].key \in m.keys
               ELSE \E v \in Events : v.id = l2[i].id
    <3>1. CASE i \in 1..Len(l)
      <4>1. n.keys \subseteq m.keys
        BY <1>7
      <4> QED
        BY <1>10, <2>1, <3>1, <4>1 DEF Identities, n
    <3>2. CASE i = Len(l) + 1
      BY <1>10, <2>3, <3>2
    <3> QED
      BY <1>2, <1>10, <3>1, <3>2
  <2> QED
    BY <1>12, <2>2, <2>3, <2>4 DEF Identities
<1>15. OneRowPerFill(l2, g)
  <2>1. OneRowPerFill(l, f) /\ Identities(l, h, f)
    BY DEF Inserted, Consistent
  <2>2. ASSUME NEW g1 \in g, NEW g2 \in g, g1.key = g2.key
        PROVE  g1 = g2
    BY <2>1, <2>2 DEF Inserted, Callable, OneRowPerFill
  <2>3. ASSUME NEW i \in 1..Len(l2), NEW j \in 1..Len(l2),
               l2[i].type = "fill_recorded", l2[j].type = "fill_recorded",
               l2[i].key = l2[j].key
        PROVE  i = j
    <3>1. \A q \in 1..Len(l) : l[q].type = "fill_recorded" => l[q].key \in n.keys
      BY <2>1 DEF Identities, n
    <3>2. CASE i \in 1..Len(l) /\ j \in 1..Len(l)
      BY <1>10, <2>1, <2>3, <3>2 DEF OneRowPerFill
    <3>3. CASE i \in 1..Len(l) /\ j = Len(l) + 1
      BY <1>3, <1>10, <2>3, <3>1, <3>3
    <3>4. CASE i = Len(l) + 1 /\ j \in 1..Len(l)
      BY <1>3, <1>10, <2>3, <3>1, <3>4
    <3> QED
      BY <1>2, <1>10, <3>2, <3>3, <3>4
  <2> QED
    BY <2>2, <2>3 DEF OneRowPerFill
<1> QED
  BY <1>5, <1>8, <1>9, <1>10, <1>11, <1>12, <1>13, <1>14, <1>15
     DEF Consistent, Continues, row, n, m, l2, h2, p2

\* What a store call may make of view v, h being the replay of v's log: an
\* abort, nothing, or one more row with the parent and the fills to match.
Outcome(v, h, w) ==
  \/ w.ok = FALSE
  \/ w = v
  \/ \E e : /\ Inserted(e, v.parent, v.log, h, v.fills, w.fills)
           /\ w = [ok     |-> TRUE,
                   parent |-> Materialized(Reduce(SnapshotFromParent(v.parent),
                                                  EventRow(v.parent, e))),
                   log    |-> Append(v.log, EventRow(v.parent, e)),
                   fills  |-> w.fills]

\* append_event on a view u: the row is there already, refused, or inserted.
LEMMA AppendEventCases ==
  ASSUME NEW u \in Views, u.ok = TRUE, NEW e, ~HasEvent(u.log, e.id)
  PROVE  \/ AppendEvent(u, e).ok = FALSE
         \/ /\ Accepts(SnapshotFromParent(u.parent), EventRow(u.parent, e))
            /\ ~SequenceTaken(u.log, EventRow(u.parent, e).sequence)
            /\ AppendEvent(u, e) =
                 [ok     |-> TRUE,
                  parent |-> Materialized(Reduce(SnapshotFromParent(u.parent),
                                                 EventRow(u.parent, e))),
                  log    |-> Append(u.log, EventRow(u.parent, e)),
                  fills  |-> u.fills]
<1>1. u = [ok |-> u.ok, parent |-> u.parent, log |-> u.log, fills |-> u.fills]
  BY DEF Views
<1>2. CASE ~CanInsert(u, e)
  <2>1. AppendEvent(u, e) = [u EXCEPT !.ok = FALSE]
    BY <1>2 DEF AppendEvent, Aborted
  <2>2. [u EXCEPT !.ok = FALSE].ok = FALSE
    BY <1>1
  <2> QED
    BY <2>1, <2>2
<1>3. CASE CanInsert(u, e)
  BY <1>1, <1>3 DEF AppendEvent, CanInsert
<1> QED
  BY <1>2, <1>3

\* append_event of a caller's own event.
LEMMA AppendOutcome ==
  ASSUME NEW v \in Views, v.ok = TRUE, NEW h, NEW e \in Events,
         Consistent(v.log, h, v.fills), NotAhead(v.parent, v.log, h)
  PROVE  Outcome(v, h, AppendEvent(v, e))
<1>1. CASE HasEvent(v.log, e.id)
  BY <1>1 DEF Outcome, AppendEvent
<1>2. CASE ~HasEvent(v.log, e.id) /\ AppendEvent(v, e).ok # FALSE
  <2>1. /\ Accepts(SnapshotFromParent(v.parent), EventRow(v.parent, e))
        /\ ~SequenceTaken(v.log, EventRow(v.parent, e).sequence)
        /\ AppendEvent(v, e) =
             [ok     |-> TRUE,
              parent |-> Materialized(Reduce(SnapshotFromParent(v.parent),
                                             EventRow(v.parent, e))),
              log    |-> Append(v.log, EventRow(v.parent, e)),
              fills  |-> v.fills]
    BY <1>2, AppendEventCases
  <2>2. AppendEvent(v, e).fills = v.fills
    BY <2>1
  <2>3. Inserted(e, v.parent, v.log, h, v.fills, AppendEvent(v, e).fills)
    BY <1>2, <2>1, <2>2 DEF Inserted, Callable
  <2> QED
    BY <2>1, <2>2, <2>3 DEF Outcome
<1> QED
  BY <1>1, <1>2 DEF Outcome

\* record_fill: a fill without a row has no event either.
LEMMA FillOutcome ==
  ASSUME NEW v \in Views, v.ok = TRUE, NEW h, NEW k \in Fills,
         Consistent(v.log, h, v.fills), NotAhead(v.parent, v.log, h)
  PROVE  Outcome(v, h, RecordFill(v, k))
<1>1. CASE HasFill(v, k.key)
  BY <1>1 DEF Outcome, RecordFill
<1>2. CASE ~HasFill(v, k.key)
  <2> DEFINE e == FillEvent(k)
             u == [v EXCEPT !.fills = @ \cup {k}]
  <2>1. RecordFill(v, k) = AppendEvent(u, e)
    BY <1>2 DEF RecordFill
  <2>2. /\ u \in Views /\ u.ok = TRUE /\ u.parent = v.parent /\ u.log = v.log
        /\ u.fills = v.fills \cup {k}
    BY EventsAssumption DEF Views, FillRows
  <2>3. e.id = k.key
    BY DEF FillEvent
  <2>4. \A x \in v.fills : x.key # k.key
    BY <1>2 DEF HasFill
  <2>5. ~HasEvent(v.log, k.key)
    <3>1. ASSUME NEW i \in 1..Len(v.log), v.log[i].id = k.key
          PROVE  FALSE
      <4>1. v.log[i].type = "fill_recorded"
        BY <3>1, EventsAssumption DEF Consistent, Identities
      <4>2. k.key \in {x.key : x \in v.fills}
        BY <3>1, <4>1 DEF Consistent, Identities
      <4> QED
        BY <2>4, <4>2
    <3> QED
      BY <3>1 DEF HasEvent
  <2>6. CASE AppendEvent(u, e).ok # FALSE
    <3> HIDE DEF e, u
    <3>1. ~HasEvent(u.log, e.id)
      BY <2>2, <2>3, <2>5
    <3>2. /\ Accepts(SnapshotFromParent(u.parent), EventRow(u.parent, e))
          /\ ~SequenceTaken(u.log, EventRow(u.parent, e).sequence)
          /\ AppendEvent(u, e) =
               [ok     |-> TRUE,
                parent |-> Materialized(Reduce(SnapshotFromParent(u.parent),
                                               EventRow(u.parent, e))),
                log    |-> Append(u.log, EventRow(u.parent, e)),
                fills  |-> u.fills]
      BY <2>2, <2>6, <3>1, AppendEventCases
    <3>3. AppendEvent(u, e).fills = v.fills \cup {k}
      BY <2>2, <3>2
    <3>4. Callable(e, v.fills, v.fills \cup {k})
      BY <2>4 DEF Callable, e
    <3>5. Inserted(e, v.parent, v.log, h, v.fills, AppendEvent(u, e).fills)
      BY <2>2, <3>1, <3>2, <3>3, <3>4 DEF Inserted
    <3> QED
      BY <2>1, <2>2, <3>2, <3>3, <3>5 DEF Outcome
  <2> QED
    BY <2>1, <2>6 DEF Outcome
<1> QED
  BY <1>1, <1>2

-----------------------------------------------------------------------------
(* The inductive invariant.                                                *)

\* A closed session has nothing to say about the rows.
LEMMA ClosedType ==
  /\ Closed \in [pc : {"idle", "read", "locked"}, view : Views, hist : Seq(Snapshots)]
  /\ Closed.pc = "idle" /\ Closed.view.ok = TRUE
  BY DEF Closed, NoView, NewParent, Views, ParentRows, ParentState

\* The invariant holds of a parent ensure_legacy_parent has just created.
LEMMA IInvInit == Init => IInv
<1> SUFFICES ASSUME Init PROVE IInv
  OBVIOUS
<1>1. hist = <<InitialSnapshot>> /\ log = <<>> /\ fills = {} /\ parent = NewParent
  BY DEF Init
<1>2. InitialSnapshot \in Snapshots /\ NewParent \in ParentRows
  BY DEF InitialSnapshot, Snapshots, NewParent, ParentRows, ParentState
<1>3. /\ Len(log) = 0 /\ Len(hist) = 1 /\ hist[1] = InitialSnapshot
      /\ Last(hist) = InitialSnapshot
  BY <1>1 DEF Last
<1>4. TypeOK
  BY <1>1, <1>2, ClosedType DEF Init, TypeOK
<1>5. Consistent(log, hist, fills)
  BY <1>1, <1>3 DEF Consistent, ReplayOf, Identities, OneRowPerFill, InitialSnapshot
<1>6. parent = Materialized(Last(hist))
  BY <1>1, <1>3 DEF NewParent, Materialized, InitialSnapshot
<1>7. ASSUME NEW s \in Sessions
      PROVE  sess[s] = Closed /\ lock # s
  BY BoundsAssumption DEF Init
<1> QED
  BY <1>4, <1>5, <1>6, <1>7, ClosedType DEF IInv

\* The session invariant, with everything it depends on as a parameter.
SessionInv(x, own, p, l, h, f) ==
  /\ x.view.ok = TRUE
  /\ x.pc = "locked" <=> own
  /\ x.pc = "read" => NotAhead(x.view.parent, l, h)
  /\ x.pc = "locked" =>
       /\ Consistent(x.view.log, x.hist, x.view.fills)
       /\ NotAhead(x.view.parent, x.view.log, x.hist)
       /\ \/ x.view.log = l /\ x.hist = h /\ x.view.fills = f
          \/ /\ Len(x.view.log) > Len(l)
             /\ Continues(x.view.log, l)
             /\ Continues(x.hist, h)
             /\ x.view.parent = Materialized(Last(x.hist))
             /\ p.state \in TERMINAL_STATES => x.view.parent.state = p.state

\* The two ways of writing it agree.
LEMMA IInvIsSessionInv ==
  IInv <=> /\ TypeOK
           /\ Consistent(log, hist, fills)
           /\ parent = Materialized(Last(hist))
           /\ \A s \in Sessions : SessionInv(sess[s], lock = s, parent, log, hist, fills)
  BY DEF IInv, SessionInv, Committable, Untouched, Appended

\* A closed session satisfies it in any state in which it has no lock.
LEMMA ClosedInv ==
  ASSUME NEW p, NEW l, NEW h, NEW f, NEW own, own = FALSE
  PROVE  SessionInv(Closed, own, p, l, h, f)
  BY ClosedType DEF SessionInv

\* A store call of the lock holder.
LEMMA CallKeepsIInv ==
  ASSUME IInv, NEW s \in Sessions, sess[s].pc = "locked",
         NEW w, Outcome(sess[s].view, sess[s].hist, w), AfterCall(s, w),
         UNCHANGED <<parent, log, fills, hist>>
  PROVE  IInv'
<1> DEFINE x == sess[s]
           v == sess[s].view
<1>1. /\ x \in [pc : {"idle", "read", "locked"}, view : Views, hist : Seq(Snapshots)]
      /\ v \in Views /\ x.hist \in Seq(Snapshots)
      /\ v.parent \in ParentRows /\ v.log \in Seq(EventRows) /\ v.fills \in SUBSET FillRows
      /\ v = [ok |-> v.ok, parent |-> v.parent, log |-> v.log, fills |-> v.fills]
  BY DEF IInv, TypeOK, Views
<1>2. SessionInv(x, lock = s, parent, log, hist, fills) /\ lock = s
  BY IInvIsSessionInv DEF SessionInv
<1>3. \A q \in Sessions : SessionInv(sess[q], lock = q, parent, log, hist, fills)
  BY IInvIsSessionInv
<1>4. CASE w.ok = FALSE
  <2>1. sess' = [sess EXCEPT ![s] = Closed] /\ lock' = Free
    BY <1>4 DEF AfterCall
  <2>2. TypeOK'
    BY <2>1, ClosedType DEF IInv, TypeOK
  <2>3. ASSUME NEW q \in Sessions
        PROVE  SessionInv(sess'[q], lock' = q, parent, log, hist, fills)
    <3>1. lock' # q
      BY <2>1, BoundsAssumption
    <3>2. CASE q = s
      BY <2>1, <3>1, <3>2, ClosedInv DEF IInv, TypeOK
    <3>3. CASE q # s
      <4>1. sess'[q] = sess[q] /\ lock # q
        BY <1>2, <2>1, <3>3 DEF IInv, TypeOK
      <4> QED
        BY <1>3, <3>1, <4>1 DEF SessionInv
    <3> QED
      BY <3>2, <3>3
  <2> QED
    BY <2>2, <2>3, IInvIsSessionInv DEF IInv, SessionInv, Committable, Untouched, Appended
<1>5. ASSUME w \in Views, w.ok = TRUE, NEW h2 \in Seq(Snapshots),
             SessionInv([pc |-> "locked", view |-> w, hist |-> h2], TRUE, parent, log, hist,
                        fills),
             sess' = [sess EXCEPT ![s] = [pc |-> "locked", view |-> w, hist |-> h2]],
             lock' = lock
      PROVE  IInv'
  <2>1. TypeOK'
    BY <1>5 DEF IInv, TypeOK
  <2>2. ASSUME NEW q \in Sessions
        PROVE  SessionInv(sess'[q], lock' = q, parent, log, hist, fills)
    <3>1. CASE q = s
      BY <1>2, <1>5, <3>1 DEF IInv, TypeOK
    <3>2. CASE q # s
      BY <1>3, <1>5, <3>2 DEF IInv, TypeOK
    <3> QED
      BY <3>1, <3>2
  <2> QED
    BY <2>1, <2>2 DEF IInv, SessionInv, Committable, Untouched, Appended
<1>6. CASE w = v
  <2>1. w.ok = TRUE
    BY <1>2, <1>6 DEF SessionInv
  <2>2. /\ sess' = [sess EXCEPT ![s] = [pc |-> "locked", view |-> w, hist |-> x.hist]]
        /\ lock' = lock
    BY <1>6, <2>1 DEF AfterCall
  <2>3. SessionInv([pc |-> "locked", view |-> w, hist |-> x.hist], TRUE, parent, log, hist,
                   fills)
    BY <1>2, <1>6, <2>1 DEF SessionInv
  <2> QED
    BY <1>1, <1>5, <1>6, <2>1, <2>2, <2>3
<1>7. ASSUME NEW e, Inserted(e, v.parent, v.log, x.hist, v.fills, w.fills),
             w = [ok     |-> TRUE,
                  parent |-> Materialized(Reduce(SnapshotFromParent(v.parent),
                                                 EventRow(v.parent, e))),
                  log    |-> Append(v.log, EventRow(v.parent, e)),
                  fills  |-> w.fills]
      PROVE  IInv'
  <2> DEFINE row == EventRow(v.parent, e)
             h2  == Append(x.hist, Reduce(Last(x.hist), row))
  <2>1. /\ w.ok = TRUE /\ w.log = Append(v.log, row)
        /\ w.parent = Materialized(Reduce(SnapshotFromParent(v.parent), row))
    BY <1>7
  <2>2. /\ w.log \in Seq(EventRows) /\ Len(w.log) = Len(v.log) + 1
        /\ h2 \in Seq(Snapshots)
        /\ w.parent \in ParentRows /\ w.parent = Materialized(Last(h2))
        /\ v.parent.state \in TERMINAL_STATES => w.parent.state = v.parent.state
        /\ Continues(w.log, v.log) /\ Continues(h2, x.hist)
        /\ Consistent(w.log, h2, w.fills)
    BY <1>1, <1>7, <2>1, InsertedExtends
  <2>3. w.fills \in SUBSET FillRows /\ row \in EventRows
    <3>1. Callable(e, v.fills, w.fills) /\ v.fills \in SUBSET FillRows
      BY <1>1, <1>7 DEF Inserted
    <3>2. w.fills \in SUBSET FillRows /\ e \in EventFields
      BY <3>1, CallableType
    <3>3. row \in EventRows
      BY <1>1, <3>2, RowType
    <3> QED
      BY <3>2, <3>3
  <2>4. w \in Views
    BY <1>7, <2>1, <2>2, <2>3 DEF Views
  <2>5. v.parent = Materialized(Last(x.hist))
    BY <1>1, <1>7, InsertedIsFresh
  <2>6. Len(v.log) \in Nat /\ Len(log) \in Nat /\ w.log[Len(w.log)] = row
    BY <1>1, <2>1, <2>2, <2>3, AppendFacts DEF IInv, TypeOK
  <2>7. /\ sess' = [sess EXCEPT ![s] = [pc |-> "locked", view |-> w, hist |-> h2]]
        /\ lock' = lock
    <3>1. w.log # v.log
      BY <2>2, <2>6
    <3> QED
      BY <2>1, <2>6, <3>1 DEF AfterCall, Last
  <2>8. /\ Len(w.log) > Len(log)
        /\ Continues(w.log, log)
        /\ Continues(h2, hist)
        /\ parent.state \in TERMINAL_STATES => w.parent.state = parent.state
    <3> HIDE DEF h2, row
    <3>1. CASE v.log = log /\ x.hist = hist
      <4>1. v.parent = parent
        BY <2>5, <3>1 DEF IInv
      <4> QED
        BY <2>2, <2>6, <3>1, <4>1
    <3>2. CASE /\ Len(v.log) > Len(log)
               /\ Continues(v.log, log)
               /\ Continues(x.hist, hist)
               /\ parent.state \in TERMINAL_STATES => v.parent.state = parent.state
      <4>1. Len(x.hist) = Len(v.log) + 1 /\ Len(hist) = Len(log) + 1
        BY <1>2 DEF SessionInv, IInv, Consistent, ReplayOf
      <4>2. Continues(w.log, log)
        BY <2>2, <2>6, <3>2, ContinuesTransitive
      <4>3. Continues(h2, hist)
        BY <2>2, <2>6, <3>2, <4>1, ContinuesTransitive
      <4> QED
        BY <2>2, <2>6, <3>2, <4>2, <4>3
    <3> QED
      BY <1>2, <3>1, <3>2 DEF SessionInv
  <2>9. NotAhead(w.parent, w.log, h2)
    <3>1. Last(h2).sequence = Len(w.log)
      BY <2>2 DEF Consistent, ReplayOf
    <3>2. w.parent.sequence = Len(w.log)
      BY <2>2, <3>1 DEF Materialized
    <3> QED
      BY <2>2, <2>6, <3>2 DEF NotAhead
  <2> HIDE DEF h2, row
  <2>10. SessionInv([pc |-> "locked", view |-> w, hist |-> h2], TRUE, parent, log, hist, fills)
    BY <2>1, <2>2, <2>8, <2>9 DEF SessionInv
  <2> QED
    BY <1>5, <2>1, <2>2, <2>4, <2>7, <2>10
<1> QED
  BY <1>4, <1>6, <1>7 DEF Outcome

\* A session ends without touching the rows; it gives its lock back if it has it.
LEMMA CloseKeepsIInv ==
  ASSUME IInv, NEW s \in Sessions, sess' = [sess EXCEPT ![s] = Closed],
         lock' = (IF lock = s THEN Free ELSE lock),
         UNCHANGED <<parent, log, fills, hist>>
  PROVE  IInv'
<1>1. TypeOK'
  BY ClosedType DEF IInv, TypeOK
<1>2. ASSUME NEW q \in Sessions
      PROVE  SessionInv(sess'[q], lock' = q, parent, log, hist, fills)
  <2>1. SessionInv(sess[q], lock = q, parent, log, hist, fills)
    BY IInvIsSessionInv
  <2>2. CASE q = s
    BY <2>2, ClosedInv, BoundsAssumption DEF IInv, TypeOK
  <2>3. CASE q # s
    <3>1. sess'[q] = sess[q] /\ (lock' = q <=> lock = q)
      BY <2>3, BoundsAssumption DEF IInv, TypeOK
    <3> QED
      BY <2>1, <3>1 DEF SessionInv
  <2> QED
    BY <2>2, <2>3
<1>3. \A q \in Sessions :
        /\ sess'[q].view.ok = TRUE
        /\ sess'[q].pc = "locked" <=> lock' = q
        /\ sess'[q].pc = "read" => NotAhead(sess[q].view.parent, log, hist)'
        /\ sess'[q].pc = "locked" => Committable(q)'
  <2> SUFFICES ASSUME NEW q \in Sessions
               PROVE  /\ sess'[q].view.ok = TRUE
                      /\ sess'[q].pc = "locked" <=> lock' = q
                      /\ sess'[q].pc = "read" => NotAhead(sess[q].view.parent, log, hist)'
                      /\ sess'[q].pc = "locked" => Committable(q)'
    OBVIOUS
  <2>1. SessionInv(sess'[q], lock' = q, parent, log, hist, fills)
    BY <1>2
  <2> QED
    BY <2>1 DEF SessionInv, Committable, Untouched, Appended
<1> QED
  BY <1>1, <1>3 DEF IInv

\* The commit of the lock holder: cached parents of the others fall behind.
LEMMA CommitKeepsIInv ==
  ASSUME IInv, NEW s \in Sessions, Commit(s)
  PROVE  IInv'
<1> DEFINE x == sess[s]
           v == sess[s].view
<1>1. /\ v \in Views /\ x.hist \in Seq(Snapshots)
      /\ v.parent \in ParentRows /\ v.log \in Seq(EventRows) /\ v.fills \in SUBSET FillRows
      /\ Len(log) \in Nat /\ Len(v.log) \in Nat
  BY DEF IInv, TypeOK, Views
<1>2. lock = s /\ SessionInv(x, TRUE, parent, log, hist, fills) /\ x.pc = "locked"
  BY IInvIsSessionInv DEF SessionInv, Commit
<1>3. /\ log' = v.log /\ fills' = v.fills /\ hist' = x.hist
      /\ parent' = (IF v.log = log THEN parent ELSE v.parent)
      /\ lock' = Free /\ sess' = [sess EXCEPT ![s] = Closed]
  BY DEF Commit
<1>4. TypeOK'
  BY <1>1, <1>3, ClosedType DEF IInv, TypeOK
<1>5. Consistent(log', hist', fills')
  BY <1>2, <1>3 DEF SessionInv
<1>6. parent' = Materialized(Last(hist'))
  BY <1>1, <1>2, <1>3 DEF SessionInv, IInv
<1>7. ASSUME NEW q \in Sessions
      PROVE  SessionInv(sess'[q], lock' = q, parent', log', hist', fills')
  <2>1. lock' # q
    BY <1>3, BoundsAssumption
  <2>2. CASE q = s
    BY <1>3, <2>1, <2>2, ClosedInv DEF IInv, TypeOK
  <2>3. CASE q # s
    <3>1. sess'[q] = sess[q] /\ sess[q].pc # "locked" /\ sess[q].view.ok = TRUE
      BY <1>2, <1>3, <2>3 DEF IInv, TypeOK
    <3>2. sess[q].view.parent.sequence \in Nat
      BY DEF IInv, TypeOK, Views, ParentRows
    <3>3. ASSUME sess[q].pc = "read"
          PROVE  NotAhead(sess[q].view.parent, log', hist')
      <4>1. NotAhead(sess[q].view.parent, log, hist)
        BY <3>3 DEF IInv
      <4>2. CASE v.log = log /\ x.hist = hist
        BY <1>3, <4>1, <4>2
      <4>3. CASE Len(v.log) > Len(log)
        BY <1>1, <1>3, <3>2, <4>1, <4>3 DEF NotAhead
      <4> QED
        BY <1>2, <4>2, <4>3 DEF SessionInv
    <3> QED
      BY <2>1, <3>1, <3>3 DEF SessionInv
  <2> QED
    BY <2>2, <2>3
<1> QED
  BY <1>4, <1>5, <1>6, <1>7 DEF IInv, SessionInv, Committable, Untouched, Appended

\* The unlocked read of ensure_legacy_parent caches the current row.
LEMMA ReadKeepsIInv ==
  ASSUME IInv, NEW s \in Sessions, ReadParent(s)
  PROVE  IInv'
<1>1. /\ sess[s] \in [pc : {"idle", "read", "locked"}, view : Views, hist : Seq(Snapshots)]
      /\ sess[s].pc = "idle" /\ sess[s].view.ok = TRUE /\ lock # s
  BY DEF IInv, TypeOK, ReadParent
<1>2. /\ sess'[s].pc = "read" /\ sess'[s].view.ok = TRUE /\ sess'[s].view.parent = parent
      /\ sess'[s] \in [pc : {"idle", "read", "locked"}, view : Views, hist : Seq(Snapshots)]
      /\ \A q \in Sessions \ {s} : sess'[q] = sess[q]
      /\ sess' \in [Sessions -> [pc : {"idle", "read", "locked"}, view : Views,
                                hist : Seq(Snapshots)]]
  BY <1>1 DEF IInv, TypeOK, ReadParent, Views
<1>3. UNCHANGED <<parent, log, fills, lock, hist>>
  BY DEF ReadParent
<1>4. TypeOK'
  BY <1>2, <1>3 DEF IInv, TypeOK
<1>5. NotAhead(parent, log, hist)
  BY DEF IInv, TypeOK, Consistent, ReplayOf, NotAhead, Materialized
<1>6. ASSUME NEW q \in Sessions
      PROVE  SessionInv(sess'[q], lock = q, parent, log, hist, fills)
  <2>1. CASE q = s
    BY <1>1, <1>2, <1>5, <2>1 DEF SessionInv
  <2>2. CASE q # s
    BY <1>2, <2>2, IInvIsSessionInv
  <2> QED
    BY <2>1, <2>2
<1> QED
  BY <1>3, <1>4, <1>6 DEF IInv, SessionInv, Committable, Untouched, Appended

\* SELECT ... FOR UPDATE: the session sees the committed rows, and the parent
\* object it had.
LEMMA LockKeepsIInv ==
  ASSUME IInv, NEW s \in Sessions, LockParent(s)
  PROVE  IInv'
<1> DEFINE x == [pc |-> "locked", hist |-> hist,
                 view |-> [ok |-> TRUE, parent |-> LockedParent(s), log |-> log,
                           fills |-> fills]]
<1>1. /\ lock = Free /\ lock' = s /\ sess' = [sess EXCEPT ![s] = x]
      /\ UNCHANGED <<parent, log, fills, hist>>
  BY DEF LockParent
<1>2. NotAhead(parent, log, hist)
  BY DEF IInv, TypeOK, Consistent, ReplayOf, NotAhead, Materialized
<1>3. LockedParent(s) \in ParentRows /\ NotAhead(LockedParent(s), log, hist)
  BY <1>2 DEF LockedParent, IInv, TypeOK, Views
<1>4. TypeOK'
  BY <1>1, <1>3 DEF IInv, TypeOK, Views
<1>5. SessionInv(x, TRUE, parent, log, hist, fills)
  BY <1>3 DEF SessionInv, IInv
<1>6. ASSUME NEW q \in Sessions
      PROVE  SessionInv(sess'[q], lock' = q, parent, log, hist, fills)
  <2>1. CASE q = s
    BY <1>1, <1>5, <2>1 DEF IInv, TypeOK
  <2>2. CASE q # s
    <3>1. sess'[q] = sess[q] /\ lock' # q /\ lock # q
      BY <1>1, <2>2, BoundsAssumption DEF IInv, TypeOK
    <3> QED
      BY <3>1, IInvIsSessionInv
  <2> QED
    BY <2>1, <2>2
<1> QED
  BY <1>1, <1>4, <1>6 DEF IInv, SessionInv, Committable, Untouched, Appended

\* Every step keeps the invariant.
LEMMA IInvNext == IInv /\ [Next]_vars => IInv'
<1> SUFFICES ASSUME IInv, [Next]_vars PROVE IInv'
  OBVIOUS
<1>1. CASE UNCHANGED vars
  BY <1>1 DEF vars, IInv, TypeOK, Committable, Untouched, Appended
<1>2. ASSUME NEW s \in Sessions, ReadParent(s) PROVE IInv'
  BY <1>2, ReadKeepsIInv
<1>3. ASSUME NEW s \in Sessions, LockParent(s) PROVE IInv'
  BY <1>3, LockKeepsIInv
<1>4. ASSUME NEW s \in Sessions, sess[s].pc = "locked"
      PROVE  /\ sess[s].view \in Views /\ sess[s].view.ok = TRUE
             /\ Consistent(sess[s].view.log, sess[s].hist, sess[s].view.fills)
             /\ NotAhead(sess[s].view.parent, sess[s].view.log, sess[s].hist)
  BY <1>4 DEF IInv, TypeOK, Committable
<1>5. ASSUME NEW s \in Sessions, NEW e \in Events, CallAppendEvent(s, e) PROVE IInv'
  <2>1. Outcome(sess[s].view, sess[s].hist, AppendEvent(sess[s].view, e))
    BY <1>4, <1>5, AppendOutcome DEF CallAppendEvent
  <2> QED
    BY <1>5, <2>1, CallKeepsIInv DEF CallAppendEvent
<1>6. ASSUME NEW s \in Sessions, NEW f \in Fills, CallRecordFill(s, f) PROVE IInv'
  <2>1. Outcome(sess[s].view, sess[s].hist, RecordFill(sess[s].view, f))
    BY <1>4, <1>6, FillOutcome DEF CallRecordFill
  <2> QED
    BY <1>6, <2>1, CallKeepsIInv DEF CallRecordFill
<1>7. ASSUME NEW s \in Sessions, Commit(s) PROVE IInv'
  BY <1>7, CommitKeepsIInv
<1>8. ASSUME NEW s \in Sessions, Rollback(s) PROVE IInv'
  BY <1>8, CloseKeepsIInv DEF Rollback
<1> QED
  BY <1>1, <1>2, <1>3, <1>5, <1>6, <1>7, <1>8 DEF Next

-----------------------------------------------------------------------------
(* The theorems.                                                           *)

\* The inductive invariant holds in every reachable state.
THEOREM Invariance == Spec => []IInv
  BY IInvInit, IInvNext, PTL DEF Spec

\* Every row and every session object of the store has its type: in particular
\* no malformed event reaches the parent's state column.
THEOREM TypeCorrect == Spec => []TypeOK
<1>1. IInv => TypeOK
  BY DEF IInv
<1> QED
  BY <1>1, Invariance, PTL

\* The materialized parent is what execution_lifecycle.replay computes by recursion
\* over the committed log, of whatever length, for any number of sessions with
\* outdated parent objects: the replay meets no gap and no illegal event.
THEOREM SnapshotCorrect == Spec => []SnapshotIsReplay
<1>1. ASSUME IInv
      PROVE  SnapshotIsReplay
  <2>1. Len(log) \in Nat
    BY <1>1 DEF IInv, TypeOK
  <2>2. ReplayOf(log, hist) /\ parent = Materialized(hist[Len(log) + 1])
    BY <1>1 DEF IInv, Consistent, ReplayOf, Last
  <2>3. Replayable(log) /\ Replay(log) = hist[Len(log) + 1]
    BY <2>1, <2>2, ReplayableByRun DEF ReplayOf
  <2> QED
    BY <2>2, <2>3 DEF SnapshotIsReplay
<1> QED
  BY <1>1, Invariance, PTL

\* No fill is counted twice, however many sessions report it (record_fill).
THEOREM FillsCorrect == Spec => []FillsCountedOnce
<1>1. IInv => FillsCountedOnce
  BY DEF IInv, Consistent, Identities, OneRowPerFill, Last, FillsCountedOnce
<1> QED
  BY <1>1, Invariance, PTL

\* No commit moves a parent out of a terminal state.
THEOREM TerminalCorrect == Spec => TerminalIsFinal
<1>1. ASSUME IInv, [Next]_vars, parent.state \in TERMINAL_STATES
      PROVE  parent'.state = parent.state
  <2>1. ASSUME NEW s \in Sessions, Commit(s) PROVE parent'.state = parent.state
    <3>1. sess[s].pc = "locked" /\ (Untouched(s) \/ Appended(s))
      BY <1>1, <2>1 DEF Commit, IInv, Committable
    <3>2. CASE sess[s].view.log = log
      BY <2>1, <3>2 DEF Commit
    <3>3. CASE sess[s].view.log # log
      BY <1>1, <2>1, <3>1, <3>3 DEF Commit, Untouched, Appended
    <3> QED
      BY <3>2, <3>3
  <2>2. CASE UNCHANGED parent
    BY <2>2
  <2>3. (\E s \in Sessions : Commit(s)) \/ UNCHANGED parent
    BY <1>1 DEF Next, vars, ReadParent, LockParent, CallAppendEvent, CallRecordFill, Rollback
  <2> QED
    BY <2>1, <2>2, <2>3
<1>2. IInv /\ [Next]_vars =>
        [parent.state \in TERMINAL_STATES => parent'.state = parent.state]_vars
  BY <1>1
<1> QED
  BY <1>2, Invariance, PTL DEF Spec, TerminalIsFinal

\* The reducer OrderHistory is stated with is the store's.
LEMMA SameReducer ==
  /\ History!NewParent = NewParent
  /\ History!InitialSnapshot = InitialSnapshot
  /\ \A n : History!Materialized(n) = Materialized(n)
  /\ \A n, e : History!Accepts(n, e) <=> Accepts(n, e)
  /\ \A n, e : History!Reduce(n, e) = Reduce(n, e)
<1>1. /\ History!NewParent = NewParent
      /\ History!InitialSnapshot = InitialSnapshot
      /\ \A n : History!Materialized(n) = Materialized(n)
  BY DEF History!NewParent, NewParent, History!InitialSnapshot, InitialSnapshot,
         History!Materialized, Materialized
<1>2. \A n, e : History!IsNewFill(n, e) <=> IsNewFill(n, e)
  BY DEF History!IsNewFill, IsNewFill
<1>3. \A q : History!FillTarget(q) = FillTarget(q)
  BY DEF History!FillTarget, FillTarget
<1>4. \A n, e : History!TargetState(n, e) = TargetState(n, e)
  BY <1>2, <1>3 DEF History!TargetState, TargetState
<1>5. \A c, t : History!ValidTransition(c, t) <=> ValidTransition(c, t)
  BY DEF History!ValidTransition, ValidTransition, History!TERMINAL_STATES, TERMINAL_STATES,
         History!AllowedTransitions, AllowedTransitions
<1>6. History!ParentState = ParentState /\ History!NoState = NoState
  BY DEF History!ParentState, ParentState, History!NoState, NoState
<1>7. \A n, e : History!Accepts(n, e) <=> Accepts(n, e)
  BY <1>2, <1>4, <1>5, <1>6 DEF History!Accepts, Accepts
<1>8. \A n, e : History!Reduce(n, e) = Reduce(n, e)
  BY <1>2, <1>4 DEF History!Reduce, Reduce
<1> QED
  BY <1>1, <1>7, <1>8

\* The store implements OrderHistory: every step of a session is a transaction on
\* the history or leaves it alone.
THEOREM Refinement == Spec => ImplementsHistory
<1>1. Init => History!Init
  BY SameReducer DEF Init, History!Init
<1>2. ASSUME IInv, IInv', [Next]_vars
      PROVE  [History!Transact]_<<parent, log, hist>>
  <2>1. ASSUME NEW s \in Sessions, Commit(s)
        PROVE  [History!Transact]_<<parent, log, hist>>
    <3>1. sess[s].pc = "locked" /\ (Untouched(s) \/ Appended(s))
      BY <1>2, <2>1 DEF Commit, IInv, Committable
    <3>2. CASE Untouched(s)
      BY <2>1, <3>2 DEF Commit, Untouched
    <3>3. CASE Appended(s)
      <4>1. log' = sess[s].view.log /\ hist' = sess[s].hist
        BY <2>1 DEF Commit
      <4>2. Len(log') > Len(log) /\ Continues(log', log) /\ Continues(hist', hist)
        BY <3>3, <4>1 DEF Appended
      <4>3. Consistent(log', hist', fills') /\ parent' = Materialized(Last(hist'))
        BY <1>2 DEF IInv
      <4>4. Len(log) \in Nat /\ Len(log') \in Nat /\ Len(hist) = Len(log) + 1
        BY <1>2 DEF IInv, TypeOK, Consistent, ReplayOf
      <4>5. \A n \in Len(hist)..Len(log') : n \in 1..Len(log')
        BY <4>4
      <4>6. \A n \in Len(hist)..Len(log') :
              /\ log'[n].sequence = n
              /\ History!Accepts(hist'[n], log'[n])
              /\ hist'[n + 1] = History!Reduce(hist'[n], log'[n])
        BY <4>3, <4>5, SameReducer DEF Consistent, ReplayOf
      <4>7. parent' = History!Materialized(hist'[Len(hist')]) /\ Len(hist') = Len(log') + 1
        BY <4>3, SameReducer DEF Last, Consistent, ReplayOf
      <4> QED
        BY <4>2, <4>6, <4>7 DEF History!Transact, Continues
    <3> QED
      BY <3>1, <3>2, <3>3
  <2>2. CASE UNCHANGED <<parent, log, hist>>
    BY <2>2
  <2>3. (\E s \in Sessions : Commit(s)) \/ UNCHANGED <<parent, log, hist>>
    BY <1>2 DEF Next, vars, ReadParent, LockParent, CallAppendEvent, CallRecordFill, Rollback
  <2> QED
    BY <2>1, <2>2, <2>3
<1> QED
  BY <1>1, <1>2, Invariance, PTL DEF Spec, ImplementsHistory, History!Spec

=============================================================================
