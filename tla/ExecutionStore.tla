---------------------------- MODULE ExecutionStore ----------------------------
(***************************************************************************)
(* Concurrent database sessions writing the canonical history of one       *)
(* parent order through bot/services/execution_store.py.                   *)
(*                                                                         *)
(* A session may read the parent without a lock first (what                *)
(* ensure_legacy_parent does when the row exists), then locks it with the  *)
(* first append_event or record_fill, appends any number of events, and    *)
(* commits or rolls back.  A crash of its process is a rollback.  Sessions *)
(* belong to different processes or threads, so their statements           *)
(* interleave; READ COMMITTED shows a session the rows others committed.   *)
(***************************************************************************)
EXTENDS ExecutionRows

CONSTANTS
  Sessions,     \* concurrent database sessions
  Events,       \* the events callers may append, with their stable ids
  Fills,        \* the fills callers may record: external identity and quantity
  MaxEvents,    \* bound on the length of the log
  Free          \* nobody holds the parent's row lock

EventFields ==
  [id : STRING, type : EventType, from : ParentState \cup {NoState},
   to : ParentState \cup {NoState}, key : STRING, qty : Nat]

\* record_fill owns the fill_recorded events and their ids.
ASSUME EventsAssumption ==
  /\ Events \subseteq EventFields
  /\ \A e \in Events : e.type # "fill_recorded"
  /\ Fills \subseteq [key : STRING, qty : Nat]
  /\ \A e \in Events, f \in Fills : e.id # f.key

ASSUME BoundsAssumption == MaxEvents \in Nat /\ Free \notin Sessions

VARIABLES
  parent,   \* the committed parent row
  log,      \* the committed event rows, in commit order
  fills,    \* the committed fill rows
  lock,     \* the session that holds the parent's row lock, or Free
  sess,     \* each session's program counter and its view of the rows
  hist      \* history variable: the replay of log, one snapshot per prefix

vars == <<parent, log, fills, lock, sess, hist>>

-----------------------------------------------------------------------------
(* Types.                                                                  *)

EventRows ==
  [id : STRING, sequence : Nat, type : EventType, from : ParentState \cup {NoState},
   to : ParentState \cup {NoState}, key : STRING, qty : Nat]

ParentRows == [state : ParentState, sequence : Nat, filled : Nat]

Snapshots ==
  [state : ParentState, sequence : Nat, filled : Nat, ids : SUBSET STRING,
   keys : SUBSET STRING]

FillRows == [key : STRING, qty : Nat]

Views == [ok : BOOLEAN, parent : ParentRows, log : Seq(EventRows), fills : SUBSET FillRows]

\* Rows and session objects are well-formed: the state column only ever holds a
\* state, which reduce_event checks of an event before it is materialized.
TypeOK ==
  /\ parent \in ParentRows
  /\ log \in Seq(EventRows)
  /\ fills \in SUBSET FillRows
  /\ lock \in Sessions \cup {Free}
  /\ sess \in [Sessions -> [pc : {"idle", "read", "locked"}, view : Views,
                            hist : Seq(Snapshots)]]
  /\ hist \in Seq(Snapshots)

-----------------------------------------------------------------------------
(* Initial state: ensure_legacy_parent has just created the parent.        *)

NoView == [ok |-> TRUE, parent |-> NewParent, log |-> <<>>, fills |-> {}]

Closed == [pc |-> "idle", view |-> NoView, hist |-> <<>>]

Init ==
  /\ parent = NewParent
  /\ log = <<>>
  /\ fills = {}
  /\ lock = Free
  /\ sess = [s \in Sessions |-> Closed]
  /\ hist = <<InitialSnapshot>>

-----------------------------------------------------------------------------
(* Actions.                                                                *)

\* The existing-row branch of ensure_legacy_parent: an unlocked SELECT puts the
\* parent object into the session's identity map.
ReadParent(s) ==
  /\ sess[s].pc = "idle"
  /\ sess' = [sess EXCEPT ![s].pc = "read", ![s].view.parent = parent]
  /\ UNCHANGED <<parent, log, fills, lock, hist>>

\* The parent object a locking SELECT returns: the one of the identity map if
\* the session has it, whatever the row holds by now.
LockedParent(s) == IF sess[s].pc = "read" THEN sess[s].view.parent ELSE parent

\* SELECT ... FOR UPDATE of the first append_event or record_fill.
LockParent(s) ==
  /\ sess[s].pc \in {"idle", "read"}
  /\ lock = Free
  /\ lock' = s
  /\ sess' = [sess EXCEPT ![s] =
       [pc |-> "locked", hist |-> hist,
        view |-> [ok |-> TRUE, parent |-> LockedParent(s), log |-> log, fills |-> fills]]]
  /\ UNCHANGED <<parent, log, fills, hist>>

\* The session after a store call that turned its view into v: an error rolls
\* the transaction back and releases the lock.
AfterCall(s, v) ==
  IF v.ok
  THEN /\ sess' = [sess EXCEPT ![s] =
            [pc |-> "locked", view |-> v,
             hist |-> IF v.log = sess[s].view.log THEN sess[s].hist
                      ELSE Append(sess[s].hist,
                                  Reduce(sess[s].hist[Len(sess[s].hist)], v.log[Len(v.log)]))]]
       /\ lock' = lock
  ELSE /\ sess' = [sess EXCEPT ![s] = Closed]
       /\ lock' = Free

CallAppendEvent(s, e) ==
  /\ sess[s].pc = "locked"
  /\ Len(sess[s].view.log) < MaxEvents
  /\ AfterCall(s, AppendEvent(sess[s].view, e))
  /\ UNCHANGED <<parent, log, fills, hist>>

CallRecordFill(s, f) ==
  /\ sess[s].pc = "locked"
  /\ Len(sess[s].view.log) < MaxEvents
  /\ AfterCall(s, RecordFill(sess[s].view, f))
  /\ UNCHANGED <<parent, log, fills, hist>>

\* Mutant: the parent object is written whether or not it was changed.
CommitDirty(s) ==
  /\ sess[s].pc = "locked"
  /\ log' = sess[s].view.log
  /\ fills' = sess[s].view.fills
  /\ hist' = sess[s].hist
  /\ parent' = sess[s].view.parent
  /\ lock' = Free
  /\ sess' = [sess EXCEPT ![s] = Closed]

\* session.commit(): without an appended event the parent object is clean and
\* no UPDATE is sent, however old the object is.
Commit(s) ==
  /\ sess[s].pc = "locked"
  /\ log' = sess[s].view.log
  /\ fills' = sess[s].view.fills
  /\ hist' = sess[s].hist
  /\ parent' = IF sess[s].view.log = log THEN parent ELSE sess[s].view.parent
  /\ lock' = Free
  /\ sess' = [sess EXCEPT ![s] = Closed]

\* An exception of the caller, or the death of its process.
Rollback(s) ==
  /\ sess[s].pc # "idle"
  /\ lock' = IF lock = s THEN Free ELSE lock
  /\ sess' = [sess EXCEPT ![s] = Closed]
  /\ UNCHANGED <<parent, log, fills, hist>>

Next ==
  \E s \in Sessions :
    \/ ReadParent(s)
    \/ LockParent(s)
    \/ \E e \in Events : CallAppendEvent(s, e)
    \/ \E f \in Fills : CallRecordFill(s, f)
    \/ Commit(s)
    \/ Rollback(s)

Spec == Init /\ [][Next]_vars

-----------------------------------------------------------------------------
(* Properties.                                                             *)

\* The materialized parent is what a replay of the committed log rebuilds, and
\* that replay meets no gap, no duplicate sequence and no illegal transition:
\* execution_store.append_event against execution_lifecycle.replay, although
\* sessions write from parent objects read before they had the lock.
SnapshotIsReplay ==
  /\ Replayable(log)
  /\ parent = Materialized(Replay(log))

\* A fill is counted exactly once however many observers report it: the fills
\* table, the identities the log replays and the events of type fill_recorded
\* are the same set, and no identity has two rows (record_fill's dedupe).
FillsCountedOnce ==
  /\ {f.key : f \in fills} = hist[Len(hist)].keys
  /\ \A f, g \in fills : f.key = g.key => f = g
  /\ \A i, j \in 1..Len(log) :
       log[i].type = "fill_recorded" /\ log[j].type = "fill_recorded"
         /\ log[i].key = log[j].key => i = j

\* A terminal parent never changes state again, whatever a session that read it
\* while it was live goes on to write (TERMINAL_STATES and _validate_transition).
TerminalIsFinal ==
  [][parent.state \in TERMINAL_STATES => parent'.state = parent.state]_vars

-----------------------------------------------------------------------------
(* The promise of the store: see OrderHistory.                             *)

History == INSTANCE OrderHistory

\* Sessions that read without a lock, append under one and commit or roll back
\* implement atomic transactions on an append-only history: no committed event
\* is ever lost, replaced or moved by another session's commit.
ImplementsHistory == History!Spec

=============================================================================
