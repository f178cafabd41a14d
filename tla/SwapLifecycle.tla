---------------------------- MODULE SwapLifecycle ----------------------------
(***************************************************************************)
(* One broadcast swap from submission to settlement: the transaction       *)
(* pollers (bot/services/tx_poller.py), the execution reconciler           *)
(* (bot/services/execution_reconciler.py), the status button of the bot    *)
(* (swap_engine.check_status) and the bridge or chain they ask.            *)
(*                                                                         *)
(* A worker is a process that runs the poller; the API and the worker      *)
(* service both do.  Inside one process a database session is used without *)
(* awaiting, so only statements of different processes interleave; a       *)
(* session reads without locks, and its transaction takes effect when it   *)
(* holds the parent's row lock and commits (see ExecutionRows).  The       *)
(* websocket watcher of a process applies its result through the same      *)
(* _apply_status_update and is one more source of a worker's observations. *)
(***************************************************************************)
EXTENDS SwapProjection

CONSTANTS
  Workers,        \* processes that run the transaction poller
  Reconcilers,    \* processes that run the execution reconciler
  Routes,         \* the kinds of route explored: see Route
  Amounts,        \* amounts the provider may report; 0 is a malformed one
  Dests,          \* destination transactions the provider may report
  NoDest,         \* destination_tx_hash is NULL
  MaxCrashes,     \* bound on process deaths
  MaxChecks       \* bound on the transactions of the status button

\* lifi: Li.Fi cross-chain.  zerox: 0x cross-chain.  evm: same-chain receipt.
Route == {"lifi", "zerox", "evm"}

ASSUME SwapAssumption ==
  /\ Requested > 0
  /\ Routes \subseteq Route
  /\ Amounts \subseteq Nat
  /\ NoAmount \notin Amounts
  /\ NoDest \notin Dests
  /\ MaxCrashes \in Nat
  /\ MaxChecks \in Nat

VARIABLES
  route,      \* how the swap was routed (never changes)
  db,         \* the committed rows: swap, parent, log, fills, child, settlement
  prov,       \* the external truth about the transaction
  age,        \* fresh, overdue (past the 0x bounds), aged (past the poller's 24 h)
  worker,     \* each poller process: program counter and session objects
  rec,        \* each reconciler: program counter and the evidence it holds
  crashes,    \* process deaths so far
  checks      \* transactions of the status button so far

vars == <<route, db, prov, age, worker, rec, crashes, checks>>

-----------------------------------------------------------------------------
(* Rows, reports and local states.                                         *)

LegacyTerminal == {"completed", "failed"}

NoParent == [state |-> "none", sequence |-> 0, filled |-> 0]

Evidence == [amount : Amounts \cup {NoAmount}, dest : Dests \cup {NoDest}]

NoEvidence == [amount |-> NoAmount, dest |-> NoDest]

\* A swap row as _update_tx_hash leaves it after broadcast.
SubmittedSwap ==
  [status |-> "submitted", hash |-> TRUE, realized |-> NoAmount, dest |-> NoDest]

\* pc: idle; shadow, project (phase 1); observe (phase 2); apply, reread, write
\* (phase 3).  seen is tx_dict's status, next the status to write.
IdleWorker ==
  [pc |-> "idle", seen |-> "submitted", next |-> "submitted", evidence |-> NoEvidence,
   swap |-> SubmittedSwap, parent |-> NoParent]

IdleReconciler == [pc |-> "idle", evidence |-> NoEvidence]

Init ==
  /\ route \in Routes
  /\ db = [swap |-> SubmittedSwap, parent |-> NoParent, log |-> <<>>, fills |-> {},
           child |-> "none", settlement |-> NoSettlement]
  /\ prov = "PENDING"
  /\ age = "fresh"
  /\ worker = [w \in Workers |-> IdleWorker]
  /\ rec = [r \in Reconcilers |-> IdleReconciler]
  /\ crashes = 0
  /\ checks = 0

-----------------------------------------------------------------------------
(* The outside world.                                                      *)

\* The bridge or chain settles, fails, or delivers after it reported a failure.
Settle(outcome) ==
  /\ \/ prov = "PENDING"
     \/ prov = "FAILED" /\ outcome = "DONE" /\ route # "evm"
  /\ prov' = outcome
  /\ UNCHANGED <<route, db, age, worker, rec, crashes, checks>>

\* created_at passes the bounds of the 0x checks, then the poller's window.
Age(next) ==
  /\ <<age, next>> \in {<<"fresh", "overdue">>, <<"overdue", "aged">>}
  /\ age' = next
  /\ UNCHANGED <<route, db, prov, worker, rec, crashes, checks>>

\* Evidence of delivery: Li.Fi names the amount and the destination transaction,
\* 0x only the latter, a receipt neither.
ReportedEvidence ==
  CASE route = "lifi"  -> Evidence
    [] route = "zerox" -> {e \in Evidence : e.amount = NoAmount}
    [] OTHER           -> {NoEvidence}

\* What a definite answer of the provider says: _check_lifi_status_dict,
\* _check_zerox_crosschain_status_dict, _check_evm_tx.
DefiniteReports ==
  CASE prov = "DONE"   -> [status : {"completed"}, evidence : ReportedEvidence]
    [] prov = "FAILED" -> [status : {"failed"}, evidence : {NoEvidence}]
    [] OTHER           -> {}

\* What an answer short of that is read as.  Only 0x turns silence, errors and
\* a bridge that stays pending into a failure, once the row is overdue.
IndefiniteReports ==
  [status : CASE route = "evm"   -> IF prov = "PENDING" THEN {"submitted"} ELSE {}
              [] route = "lifi"  -> IF prov = "PENDING" THEN {"confirming"} ELSE {}
              [] route = "zerox" -> IF age = "fresh" THEN {"confirming"}
                                    ELSE {"confirming", "failed"},
   evidence : {NoEvidence}]

-----------------------------------------------------------------------------
(* Transactions of a worker.                                               *)

At(w, pc) == worker[w].pc = pc

Goto(w, pc) == worker' = [worker EXCEPT ![w].pc = pc]

\* The parent object of the session when it takes the lock: the one it read,
\* else the winner of a lost creation race, else the row it creates.
SessionParent(w) ==
  IF worker[w].parent # NoParent THEN worker[w].parent
  ELSE IF db.parent # NoParent THEN db.parent
  ELSE NewParent

\* The transaction of a session that holds these objects.
View(swap, parent) ==
  [swap |-> swap, parent |-> parent, log |-> db.log, fills |-> db.fills,
   child |-> db.child, settlement |-> db.settlement, ok |-> TRUE]

\* The projection of the session's swap object s.
Projected(w, s) == ProjectLegacySwap(View(s, SessionParent(w)))

\* The rows after the commit of view v and the UPDATE of the swap's columns.
\* A parent object to which nothing was appended is clean and not written.
Committed(v, swap) ==
  [swap |-> swap, parent |-> IF v.log = db.log THEN db.parent ELSE v.parent,
   log |-> v.log, fills |-> v.fills, child |-> v.child, settlement |-> v.settlement]

\* Mutant: confirming rows are never selected again.
PollableNoConfirming(swap) ==
  /\ age # "aged"
  /\ swap.hash
  /\ swap.status \in {"submitted", "executing", "pending"}

\* The rows phase 1 selects.
Pollable(swap) ==
  /\ age # "aged"
  /\ swap.hash
  /\ \/ swap.status \in {"submitted", "executing", "pending"}
     \/ swap.status = "confirming" /\ route = "zerox"

\* Phase 1: the query of _check_pending_transactions.
Select(w) ==
  /\ At(w, "idle")
  /\ Pollable(db.swap)
  /\ worker' = [worker EXCEPT ![w].pc = "shadow", ![w].swap = db.swap,
                              ![w].seen = db.swap.status]
  /\ UNCHANGED <<route, db, prov, age, rec, crashes, checks>>

\* The unlocked SELECT of ensure_legacy_parent, in phase 1 and in phase 3.
ReadParent(w) ==
  /\ At(w, "shadow") \/ At(w, "reread")
  /\ worker' = [worker EXCEPT ![w].pc = IF @ = "shadow" THEN "project" ELSE "write",
                              ![w].parent = db.parent]
  /\ UNCHANGED <<route, db, prov, age, rec, crashes, checks>>

\* The session of phase 1 is closed, that of phase 3 too, whatever they wrote.
CloseShadow(w) ==
  /\ At(w, "project")
  /\ worker' = [worker EXCEPT ![w].pc = "observe", ![w].parent = NoParent]

CloseApply(w) ==
  /\ At(w, "write")
  /\ worker' = [worker EXCEPT ![w] = IdleWorker]

\* Phase 1: the shadow projection in a savepoint; a failure is logged.
ShadowProject(w) ==
  /\ CloseShadow(w)
  /\ LET v == Projected(w, worker[w].swap)
     IN  db' = IF v.ok THEN Committed(v, db.swap) ELSE db
  /\ UNCHANGED <<route, prov, age, rec, crashes, checks>>

\* Phase 2: the provider answers; an unchanged status ends the pass.
Observe(w, reports) ==
  /\ At(w, "observe")
  /\ \E report \in reports :
       worker' = [worker EXCEPT ![w] =
         IF report.status = worker[w].seen THEN IdleWorker
         ELSE [@ EXCEPT !.pc = "apply", !.next = report.status,
                        !.evidence = report.evidence]]
  /\ UNCHANGED <<route, db, prov, age, rec, crashes, checks>>

\* Phase 2: an RPC error or a timeout; the row is tried again on the next pass.
ObserveError(w) ==
  /\ At(w, "observe")
  /\ worker' = [worker EXCEPT ![w] = IdleWorker]
  /\ UNCHANGED <<route, db, prov, age, rec, crashes, checks>>

\* Phase 3: _apply_status_update reads the row again, without a lock.
Reread(w) ==
  /\ At(w, "apply")
  /\ worker' = [worker EXCEPT ![w].pc = "reread", ![w].swap = db.swap]
  /\ UNCHANGED <<route, db, prov, age, rec, crashes, checks>>

\* The row another writer already moved is only projected again.
AlreadyApplied(w) ==
  worker[w].swap.status \in LegacyTerminal \cup {worker[w].next}

\* The columns _apply_status_update assigns, on a swap row s.
WithUpdate(w, s) ==
  LET e == worker[w].evidence
  IN  [s EXCEPT !.status = worker[w].next,
                !.realized = IF worker[w].next = "completed" /\ e.amount # NoAmount
                             THEN e.amount ELSE @,
                !.dest = IF e.dest # NoDest THEN e.dest ELSE @]

\* Mutant: the legacy status is written although its projection failed.
ApplyStatusUpdateAlone(w) ==
  /\ CloseApply(w)
  /\ ~AlreadyApplied(w)
  /\ LET v == Projected(w, WithUpdate(w, worker[w].swap))
     IN  db' = IF v.ok THEN Committed(v, WithUpdate(w, db.swap))
               ELSE [db EXCEPT !.swap.status = worker[w].next]
  /\ UNCHANGED <<route, prov, age, rec, crashes, checks>>

\* Phase 3: status, realized amount and canonical rows commit together or not.
ApplyStatusUpdate(w) ==
  /\ CloseApply(w)
  /\ IF AlreadyApplied(w)
     THEN LET v == Projected(w, worker[w].swap)
          IN  db' = IF v.ok THEN Committed(v, db.swap) ELSE db
     ELSE LET v == Projected(w, WithUpdate(w, worker[w].swap))
          IN  db' = IF v.ok THEN Committed(v, WithUpdate(w, db.swap)) ELSE db
  /\ UNCHANGED <<route, prov, age, rec, crashes, checks>>

\* The process dies: its open transaction is rolled back, the rest is forgotten.
Crash(w) ==
  /\ ~At(w, "idle")
  /\ crashes < MaxCrashes
  /\ crashes' = crashes + 1
  /\ worker' = [worker EXCEPT ![w] = IdleWorker]
  /\ UNCHANGED <<route, db, prov, age, rec, checks>>

-----------------------------------------------------------------------------
(* The execution reconciler.                                               *)

\* Mutant: a row whose failure was reported is not looked at again.
EligibleCompleted(swap) == swap.hash /\ route = "lifi" /\ swap.status = "completed"

\* _eligible_swap, and the filter of _reconcile_once.
Eligible(swap) ==
  /\ swap.hash
  /\ route = "lifi"
  /\ swap.status \in LegacyTerminal

\* Phase 1 of _reconcile_once: note the candidate, close the session.
SelectCandidate(r) ==
  /\ rec[r].pc = "idle"
  /\ db.parent.state = "reconciling"
  /\ Eligible(db.swap)
  /\ rec' = [rec EXCEPT ![r].pc = "ask"]
  /\ UNCHANGED <<route, db, prov, age, worker, crashes, checks>>

\* _authoritative_amount.
Authoritative(report) ==
  report.status = "completed" /\ PositiveAmount(report.evidence.amount)

\* The provider's answer: anything short of authoritative evidence is dropped.
AskProvider(r) ==
  /\ rec[r].pc = "ask"
  /\ \E report \in DefiniteReports \cup IndefiniteReports :
       rec' = [rec EXCEPT ![r] =
         IF Authoritative(report) THEN [pc |-> "resolve", evidence |-> report.evidence]
         ELSE IdleReconciler]
  /\ UNCHANGED <<route, db, prov, age, worker, crashes, checks>>

\* The revalidation of _commit_resolution, under the locks of parent, swap, child.
Revalidated(e) ==
  /\ db.parent.state = "reconciling"
  /\ Eligible(db.swap)
  /\ db.child = "submitted"
  /\ db.swap.realized \in {NoAmount, e.amount}
  /\ e.dest = NoDest \/ db.swap.dest \in {NoDest, e.dest}

\* The columns _commit_resolution assigns.
WithResolution(e) ==
  [db.swap EXCEPT !.realized = e.amount,
                  !.dest = IF @ = NoDest THEN e.dest ELSE @,
                  !.status = "completed"]

CloseResolution(r) ==
  /\ rec[r].pc = "resolve"
  /\ rec' = [rec EXCEPT ![r] = IdleReconciler]

\* _commit_resolution: one transaction whose first read of the parent locks it.
CommitResolution(r) ==
  /\ CloseResolution(r)
  /\ LET e == rec[r].evidence
         v == ProjectLegacySwap(View(WithResolution(e), db.parent))
     IN  db' = IF Revalidated(e) /\ v.ok THEN Committed(v, WithResolution(e)) ELSE db
  /\ UNCHANGED <<route, prov, age, worker, crashes, checks>>

-----------------------------------------------------------------------------
(* The status button.                                                      *)

\* _check_lifi_status, _check_0x_cross_chain_status and _check_evm_tx_status of
\* swap_engine: transport errors read as not yet done, other errors as failed.
ButtonStatuses ==
  {"failed", IF route = "evm" THEN "pending" ELSE "confirming"}
    \cup (IF prov = "DONE" THEN {"completed"} ELSE {})

\* A delivery the button learns of: its destination transaction is written in a
\* transaction of its own, before the status.
CheckDestination ==
  /\ checks < MaxChecks
  /\ prov = "DONE"
  /\ \E e \in ReportedEvidence :
       e.dest # NoDest /\ db' = [db EXCEPT !.swap.dest = e.dest]
  /\ checks' = checks + 1
  /\ UNCHANGED <<route, prov, age, worker, rec, crashes>>

\* swap_engine.check_status writes what it was told, whatever the row holds.
CheckStatus ==
  /\ checks < MaxChecks
  /\ \E status \in ButtonStatuses : db' = [db EXCEPT !.swap.status = status]
  /\ checks' = checks + 1
  /\ UNCHANGED <<route, prov, age, worker, rec, crashes>>

-----------------------------------------------------------------------------

WorkerStep(w) ==
  \/ Select(w) \/ ReadParent(w) \/ ShadowProject(w) \/ ObserveError(w)
  \/ Observe(w, DefiniteReports) \/ Observe(w, IndefiniteReports)
  \/ Reread(w) \/ ApplyStatusUpdate(w)

ReconcilerStep(r) == SelectCandidate(r) \/ AskProvider(r) \/ CommitResolution(r)

Next ==
  \/ \E outcome \in {"DONE", "FAILED"} : Settle(outcome)
  \/ \E next \in {"overdue", "aged"} : Age(next)
  \/ \E w \in Workers : WorkerStep(w) \/ Crash(w)
  \/ \E r \in Reconcilers : ReconcilerStep(r)
  \/ CheckDestination \/ CheckStatus

Spec == Init /\ [][Next]_vars

\* The loops of a live process go on: a session that was opened is closed, a row
\* that can be polled is.  CloseShadow, CloseApply and CloseResolution are the
\* local halves of ShadowProject, ApplyStatusUpdate and CommitResolution, enabled
\* exactly when these are.
WorkerProgress(w) ==
  \/ Select(w) \/ ReadParent(w) \/ CloseShadow(w) \/ ObserveError(w)
  \/ Observe(w, DefiniteReports) \/ Observe(w, IndefiniteReports)
  \/ Reread(w) \/ CloseApply(w)

ReconcilerProgress(r) == SelectCandidate(r) \/ AskProvider(r) \/ CloseResolution(r)

\* A provider that has a definite answer is not unreachable, or short of the
\* delivered amount, forever.
ProviderAnswers ==
  /\ \A w \in Workers : SF_vars(Observe(w, DefiniteReports))
  /\ \A r \in Reconcilers : SF_vars(AskProvider(r) /\ rec'[r].pc = "resolve")

Fairness ==
  /\ \A w \in Workers : WF_worker(WorkerProgress(w))
  /\ \A r \in Reconcilers : WF_rec(ReconcilerProgress(r))
  /\ ProviderAnswers

FairSpec == Spec /\ Fairness

-----------------------------------------------------------------------------
(* Properties.                                                             *)

WorkerPC == {"idle", "shadow", "project", "observe", "apply", "reread", "write"}

\* Every row and session object has its shape; a realized amount that was
\* committed is a positive one (_decimal refuses the others).
TypeOK ==
  LET SwapRow(amounts) ==
        [status : LegacyStatus, hash : BOOLEAN, realized : amounts \cup {NoAmount},
         dest : Dests \cup {NoDest}]
      Parents == [state : ParentState \cup {"none"}, sequence : Nat, filled : Nat]
  IN  /\ route \in Routes
      /\ db.swap \in SwapRow(Amounts \ {0})
      /\ db.parent \in Parents
      /\ db.child \in {"none", "created", "submitted"}
      /\ db.settlement \in [state : {"none", "reconciling", "settled"},
                            amount : (Amounts \ {0}) \cup {NoAmount}]
      /\ prov \in {"PENDING", "DONE", "FAILED"}
      /\ age \in {"fresh", "overdue", "aged"}
      /\ worker \in [Workers -> [pc : WorkerPC, seen : LegacyStatus, next : LegacyStatus,
                                 evidence : Evidence, swap : SwapRow(Amounts),
                                 parent : Parents]]
      /\ rec \in [Reconcilers -> [pc : {"idle", "ask", "resolve"}, evidence : Evidence]]
      /\ crashes \in 0..MaxCrashes
      /\ checks \in 0..MaxChecks

\* The materialized parent is always the replay of its events, although two
\* pollers project the same swap from parent objects they read before the lock.
CanonicalIsReplay ==
  IF db.parent = NoParent THEN db.log = <<>>
  ELSE Replayable(db.log) /\ db.parent = Materialized(Replay(db.log))

\* A canonical fill is exactly the delivery the provider reported: one fill,
\* positive, equal to the realized amount of the legacy row and to the settled
\* amount; and there is none unless the parent is filled.
FillIsDelivery ==
  /\ db.parent.state = "filled" <=> db.fills # {}
  /\ \A f \in db.fills :
       /\ f.output > 0
       /\ f.output = db.swap.realized
       /\ db.settlement = [state |-> "settled", amount |-> f.output]

\* "authoritative legacy status, realized receive amount, canonical lifecycle
\* event/fill, and outbox must commit together" (tx_poller._apply_status_update):
\* a terminal legacy status is never visible before its canonical counterpart,
\* until the status button writes one that it does not project.
TerminalIsProjected ==
  checks = 0 /\ db.swap.status \in LegacyTerminal =>
    /\ db.parent.state \in {"reconciling", "filled"}
    /\ HasEvent(db.log, <<"legacy_status_observed", db.swap.status>>)
    /\ db.settlement.state = IF db.parent.state = "filled" THEN "settled" ELSE "reconciling"

\* A delivered swap is never shown as failed: no poller that still holds an old
\* report of failure, and no retry, overwrites the status of a filled parent (a
\* user told that the swap failed sends the funds again).
DeliveredIsNeverFailed == db.parent.state = "filled" => db.swap.status # "failed"

\* A route the poller follows through to its destination reaches a terminal
\* legacy status once the provider has a definite answer, or leaves the window,
\* although the status button may write over what the poller wrote.
PolledToTheEnd ==
  prov # "PENDING" /\ route # "lifi" ~> db.swap.status \in LegacyTerminal \/ age = "aged"

\* The same of Li.Fi routes: "cross-chain handled by Li.Fi status polling"
\* (tx_poller._maybe_start_ws_watcher).
LifiPolledToTheEnd ==
  prov # "PENDING" /\ route = "lifi" ~> db.swap.status \in LegacyTerminal \/ age = "aged"

\* A parent in reconciling is filled once Li.Fi has delivered, unless the status
\* button has taken the row out of the statuses that the reconciler selects.
ReconcilingResolves ==
  db.parent.state = "reconciling" /\ route = "lifi" /\ prov = "DONE"
    ~> db.parent.state = "filled" \/ db.swap.status \notin LegacyTerminal

=============================================================================
