# A verification project for suwappubot

suwappubot is a multi-chain swap bot: Telegram, WhatsApp and web front ends, a
Python API, background services, and a database between them.  This directory
holds TLA+ models of the parts that keep the users' money straight, the TLC
configurations that check them on small instances, and TLAPS proofs about all six:
the store every swap is written through, the lifecycle of a broadcast swap, the
custodial ledger, P2P escrow, the CCTP relayer and automated orders.  Modules are
translated from the code; `PROJECT.json` maps every definition to its lines.

## 1. Inventory

| Part | State it keeps | Operations | What makes it correct |
|---|---|---|---|
| Canonical execution store (`execution_lifecycle.py`, `execution_store.py`, `models/execution.py`) | parent order row, append-only event rows, fill rows | `ensure_legacy_parent`, `append_event`, `record_fill`, `replay` | the parent is the replay of its log; a fill counts once; terminal states are final |
| Legacy swap projection (`legacy_swap_execution_adapter.py`) | child placement, settlement | `project_legacy_swap` | idempotent, repairs what is missing, never invents a fill |
| Transaction poller (`tx_poller.py`) | legacy swap row | select, observe, apply; one loop per process | legacy and canonical rows commit together; every swap reaches an end |
| Execution reconciler (`execution_reconciler.py`) | none of its own | select, ask Li.Fi, `_commit_resolution` | resolves only on authoritative evidence, after revalidation |
| Status button (`swap_engine.check_status`) | legacy swap row | overwrite the status | must not damage the canonical rows |
| Custodial ledger (`hot_wallet.py`) | balance row, custodial transaction rows | reserve, add, claim, stamp, finalize, release, broadcast | no lost movement, no double payment, no negative balance |
| Withdraw reconciler (`withdraw_reconciler.py`) | pending rows | resolve by receipt, or by age | refunds exactly what was debited and not sent |
| Deposit watcher (`deposit_watcher.py`) | cursor, deposit rows | scan a range, credit, advance | every confirmed deposit is booked once, none is skipped |
| P2P escrow (`p2p_service.py`, `p2p_escrow_executor.py`) | offers, trades, the omnibus escrow wallet | start, lock, mark fiat sent, release, cancel, dispute, resolve | a trade's escrow is paid out once and to one party; a dispute freezes it |
| CCTP relayers (`cctp_generic_relayer.py`, `cctp_relayer.py`) | deposit rows with lease and backoff | record, promote, claim, attest, submit, recheck, requeue | no burn is forgotten; minted means minted; every burn ends |
| Orders, DCA, alerts, copy trading (`orders.py`, `alerts.py`, `copy_service.py`) | order rows | trigger, execute, count, cancel, pause, resume | an order fires once; a DCA counts what it swapped |
| Swap engine, router, quote adapters | swap rows | `execute_swap` under an idempotency key, `_execute_cctp_swap`, quote, sign, broadcast | one broadcast per key |
| Front ends, market data, perps, prediction markets | conversation state, caches | rendering, venue calls | little state |
| TypeScript API, SDKs, Rust searcher, MPC signer, contracts | their own | – | separate programs |

How they interact.  All Python services share one database.  Several processes
run the same loops: the API and the worker service both start the poller, and
the background services run in the API process (the default,
`ENABLE_BACKGROUND_SERVICES`) or in a worker of their own.  The order loop is
started by `api/main.py` and by `bot/main.py`.  The database
sessions are synchronous and created with `autoflush=False` and
`expire_on_commit=False` (`database/db.py`).  Inside one process a coroutine
therefore has the event loop to itself from one await to the next; between
processes any two statements may interleave.

What is hard.  A `SELECT ... FOR UPDATE` on an object the session already holds
locks the row but does not refresh the object.  Rows are read, then an external
service is awaited, then the rows are written.  The answer of a broadcast may be
lost while the transaction is not.  A bridge may deliver after it reported a
failure.  A client retries with the same key.  A process may die between any two
transactions.  The full list, with lines, is under `hazards` in `PROJECT.json`.

## 2. Modules

```
ExecutionLifecycle      the reducer: states, transitions, replay
  ExecutionRows         append_event and record_fill on a session's view
    ExecutionStore      concurrent sessions           (implements OrderHistory)
      MCExecutionStore, ExecutionStoreProofs
    ReplayProofs        what replay computes of a log of any length
    SwapProjection      project_legacy_swap on a session's view
      SwapLifecycle     pollers, reconciler, button, bridge
        MCSwapLifecycle, SwapLifecycleProofs
OrderHistory            atomic transactions on an append-only history (abstract)
CustodialBalance        the balance row and the event loops
  Withdrawals           handlers, chain, withdraw reconciler
  Deposits              deposit watcher
    Custody             both, with crashes
      MCCustody, CustodyProofs
P2PEscrow               a trade, its callers, the escrow wallet
  MCP2PEscrow, P2PEscrowProofs                        (implements EscrowAccounts)
EscrowAccounts          deposits in, payments out (abstract)
CctpRelayer             swap engine, relayers, two chains and Circle
  MCCctpRelayer, CctpRelayerProofs
Orders                  order loops, execute_swap, the user
  MCOrders, OrdersProofs
DataInduction           induction over numbers and finite sets; sums
```

**ExecutionLifecycle, ExecutionRows.**  A parent has one of the states of
`ParentState`; `Reduce` and `Accepts` are `reduce_event` with its transition
table, its sequence check and its treatment of fills.  `AppendEvent` and
`RecordFill` act on a *view* (parent object, log, fills) and return a view whose
`ok` is false where the code raises.  The identity checks (event id, the unique
constraint `uq_exec_event_parent_sequence`, fill identity) are kept; payloads,
prices and asset names are not, because the reducer does not read them.

**ExecutionStore.**  Sessions `ReadParent` without a lock, `LockParent`, call the
store any number of times, and `Commit` or `Rollback`.  `LockedParent` returns the
object of the identity map if there is one, however old: that is SQLAlchemy's
behaviour without `populate_existing`.  What saves the store is that an event
inserted from an outdated object carries a sequence number that is already taken,
so the constraint refuses it; and that an object to which nothing was appended
is clean and is not written.  Both are in the model, and both have a mutant.
`hist` is a history variable with one snapshot per event.

**SwapProjection, SwapLifecycle.**  One swap from broadcast to settlement.
`worker` holds the program counter and session objects of each poller process,
with the three phases of `_check_pending_transactions`: `Select` / `ReadParent` /
`ShadowProject`, then `Observe` or `ObserveError`, then `Reread` / `ReadParent` /
`ApplyStatusUpdate`.  `rec` holds each reconciler's: `SelectCandidate`,
`AskProvider`, `CommitResolution`.  `CheckDestination` and `CheckStatus` are the
two transactions of the status button, which `checks` counts.  `prov` is the external truth, `age` how
old the row is, in the three classes that the bounds of the code tell apart.
The writing half of a session is one step: it starts with the parent's lock
(`append_event` locks before the first flush), and what it read before is in
`worker[w]`.

**CustodialBalance, Withdrawals, Deposits, Custody.**  `running` says which
coroutine a process is inside of; `Continue` keeps the process and `Yield` gives
it up, at the awaits of the code.  `home` is the deployment.  A handler's program
counter names its next database or network call.  The API's and the bot's
handlers make the same calls in the same order, but do not handle their errors
alike: the API has the send alone in its `try`, the bot has everything after the
claim, telling the user included (`Notify`), so that an error after the broadcast
undoes the reservation of what was sent (`UndoAfterSend`).  Each database call is a
transaction that may raise: `DatabaseError` ends a handler there and leaves its row
as it is, `CasError` and `ReconRefundError` make a reconciler skip the row.
`broken` is a history variable: which step of which request raised or was cut off
by a death; the properties name their exceptions by it.  `chain` is what became of
the transaction, which may revert after it was recorded.  The watcher scans ranges in chunks of addresses and credits each
log in a transaction of its own.

**P2PEscrow, EscrowAccounts.**  `opening` is the conversation that starts a trade
and locks its escrow: `StartTrade`, `SendDeposit` and `RecordLock` with the
seller's deposit mined in between.  `call` is what each operator's or party's
command is at: it reserves the trade with one guarded UPDATE
(`ReserveForRelease`, `ReserveForCancel`, `ReserveFromDispute`), builds a transfer
with the wallet's next nonce, sends it and records it.  The wallet is shared by
all trades and by withdrawals, so `pool` is its one pending transaction, which a
later one of the same nonce replaces, and `OtherTransfer` is somebody else's.  A
transaction is mined (`MinePayout`) or mined and reverted (`RevertPayout`); no call
waits for either, the outcome is written at the broadcast.
`mishaps` is a history variable: what went wrong with a trade's calls, by name.
The properties state exactly which mishap each guarantee survives.
`EscrowAccounts` is the promise without statuses, reservations or nonces: a
deposit comes in, and goes out once unless the service lost track of a payment.
`P2PEscrow` implements it with the refinement mapping at the end of the module.

**CctpRelayer.**  The engine records a burn, broadcasts it and promotes the row.
A relayer's pass is `ReadPendingBroadcasts`, `ReconcileBurn` per row, one `Claim`
of all it may take, and per deposit the steps of `_advance` and
`_submit_receive`.  A claim is a flag that `LeaseExpires` clears at any moment.
`used` is the destination's `usedNonces`.  After `SetMinted` the user is told: if
the lookup of the Telegram id raises (`unnotified`), the pass takes it for a stall of
the deposit it has just minted.  `lapsed` is a history variable: the
deposits whose claim ended while somebody still worked on them.

**Orders.**  One limit order or one DCA order, one or two loops.  Each session
block of the code is one step, except the DCA's count, which a session reads and
writes back: that takes two (`ReadCount`, `WriteCount`).  `execute_swap` is its
control around the idempotency key: look up the row, insert it under the unique
index, run the provider's executor (which returns, or raises with or without
having sent), write the hash, read the row back, or mark it failed.  `SweepOrphan`
is the API's start-up sweep and `PollSwap` the transaction poller.  A row fails with
or without a hash (`reverted`, `failed`); one with a hash may come back, by the
execution reconciler or the status button (`ReviveSwap`).  `whole` says
whether the DCA's amount is a whole number, as `int()` requires: the terminal
stores amounts with a decimal point.  An order without `max_executions` is one
whose limit is not reached.

## 3. Runs

| Run | Instance | Result |
|---|---|---|
| `store` | 3 sessions, 8 kinds of event, 3 fill reports, log up to 6 | 185 080 states, all properties hold |
| `swap` | 2 pollers, 1 reconciler, 3 routes, amounts 0–2, 1 crash, 1 use of the status button | 545 394 states, all hold, liveness included |
| `custody` | 2 requests (one of the bot's), 2 keys, reconciler, watcher, 2 deposits, 3 deployments, 1 crash, 1 step that raises | 3.1 M states, all hold |
| `p2p` | 1 trade, 3 callers, 2 mined transactions | 502 889 states, all hold, liveness and refinement included |
| `cctp` | 1 deposit, 2 relayers, 2 attempts, 1 crash, 1 requeue | 170 676 states, all hold, liveness included |
| `orders` | 1 or 2 loops, 2 executions, 2 hours, 1 fault | 3.4 M states, all hold |
| `lifi_stranded`, `late_failure`, `lost_update`, `crash_before_reserve`, `reverted_send`, `deposit_passed` | parts of the above | counterexamples, section 5 |

`store`.  `SnapshotIsReplay` replays the committed log and compares.
`FillsCountedOnce`, `TerminalIsFinal` and `ImplementsHistory` are about
sessions that read before they lock.  Three sessions are one more than the two
a race needs: one holds an outdated object, one commits, one fails or waits.
`MCEvents` contains a legal path, a jump, a cancellation, a reconciliation with
its resolution, a malformed event and an event without effect on the state;
`MCFills` contains two reports of the same fill with different quantities.  Six
events are enough for a parent to be filled by two fills and to be written
afterwards.

`swap`.  `CanonicalIsReplay` is the store's promise seen from its real client.
`FillIsDelivery` relates fill, realized amount and settlement.
`TerminalIsProjected` is the money-path comment of `_apply_status_update`.
`PolledToTheEnd` and `ReconcilingResolves` are liveness.  The status button may
overwrite the legacy row at any moment (`MaxChecks` times).  The canonical rows and
the fill must not notice.  `TerminalIsProjected` is claimed until it is pressed, since
it writes a status without projecting it, and `ReconcilingResolves` unless it takes
the row out of the statuses that the reconciler selects.  Amount 0 stands for a
malformed report; 1 and 2 are two different reports of one delivery.  There is
one destination transaction: with a provider that names two, `_commit_resolution`
refuses the second for ever, which is intended, so the branch that compares
destinations is not exercised.

`custody`.  `LedgerInOneProcess`, `PaidOnce`, `RefundIsOwedUnlessLeftBehind`,
`DebitIsAccounted` and `ScannedIsBooked` over three deployments: everything in
one process; handler against background services; two front ends.  Amounts 2
and 3 and a deposit of 7 make every wrong sum visible, a balance of 2 lets one
request through and not the other until the deposit arrives.  One lost
compare-and-swap, one failing read, one failing credit, one crash and one step of a
request that raises (`MaxBroken`) are within the bounds; the loop of
`reserve_custodial_balance` that gives up after `max_retries` is in the model, but
two requests do not get that far.  The two deposits lie in different blocks, which
two scans read, one below the floor; a scan has one chunk of addresses, and the proofs
cover any number.

The three withdrawal properties hold through every race of handler and reconciler
and through crashes and errors at every step but these.  `PaidOnce`: the bot undid
what it had sent (`Undone`).  `RefundIsOwedUnlessLeftBehind`: that, or the handler
stopped between its claim and its reservation, or between its refund and the release
of the claim, with the row still pending (`RowLeftBehind`); the reconciler then
refunds it after half an hour.  `DebitIsAccounted`: the debit is `Stranded`, that is,
its row is completed and its transaction reverted; or its row carries the hash of a
transaction the node never took; or the reconciler failed the row and its refund
raised.  TLC finds each of them when the exception is dropped.

`p2p`.  `SettledOnce`: one payout and one award of points, unless a release was
sent and not recorded or its answer lost, or two releases ran at once.
`OnePartyIsPaid`: buyer and seller are both paid only if an arbiter's own transfer
was sent, its answer lost and the dispute then decided the other way.
`DisputeFreezes`: an open dispute and a release or refund under way exclude each
other, whichever came first.  `CompletedIsPaid` and `CancelledIsRefunded` relate
the row to the wallet's payments; what neither row shows is a payout that was
replaced or reverted after its broadcast (`Lost`).  `ResolutionEnds` is liveness.
`ImplementsAccounts` is the refinement.  Three callers are enough for two to race
and a third to act on what they left; two mined transactions are enough for one
trade to be paid twice, and for its payout to be replaced by another's.

`cctp`.  `BurnIsRecorded` holds at whatever step the engine dies; `MintedIsUsed`
through lost answers, reverts and a second replica; `OneHolderPerLease`
and `MintedIsFinal` say what a lapsed lease can and cannot do, and that only one thing
besides it takes a row out of minted: a deposit a day old whose user could not be
looked up.
`LandedIsResolved` is liveness.  Deposits do not share state except through the
pass that claims them, which the proofs cover for any number.  The relayer never
stops, so deadlock is checked.

`orders`.  `SentOncePerKey` rests on the unique index alone, in any number of
processes.  `ExecutedIsSent`: an order called executed was broadcast, by whichever
loop.  `LimitOnceInOneLoop` and `DcaCountInOneLoop` are stated for one loop (and a
whole amount); with two loops, or a fractional amount, they fail, see section 5.
Two hours make two keys of one order; two executions make an off-by-one visible;
one fault is a crash, a database error, a confirmation that is too early or a failed
row brought back (a swap that failed before it could be counted, and is completed
later, is sent and not counted).  The
two loops are symmetric and no liveness is checked in this run.

Deadlock checking is off for `swap`, `custody` and `p2p`: a settled swap or trade, or
a user with no request left, is at rest.  The others never stop: a session can
always be opened, a loop always goes on.

**Fairness** (`SwapLifecycle!FairSpec`).  Weak fairness for the steps of each
poller and reconciler: `while self._running` loops that catch every exception and
sleep a bounded time.  Strong fairness that a provider which *has* a definite
answer is not unreachable for ever: every pass asks again.  Nothing is assumed of
crashes, of the clock, of the bridge or of the user.  The fairness conditions use
the local halves (`CloseShadow`, `CloseApply`, `CloseResolution`) of the steps
that compute a projection; each is enabled exactly when the whole step is.

`P2PEscrow!FairSpec`: weak fairness for the steps of a call under way, whose awaits
time out and raise.  `CctpRelayer!FairSpec`: weak fairness for each relayer's loop,
for Circle's attestation and for time (leases, age); strong fairness that the
lookup of a burn which has a receipt succeeds sooner or later, and that a deposit
which is claimable again and again is claimed: backoff is capped at an hour.

**Timing** (`Withdrawals!Grow`).  A row does not become 30 minutes old while its
handler is still at work or a reconciler's pass still holds a copy of it.  The
code relies on this; its network calls time out long before.

## 4. Proofs

### Replay and sums

`DataInduction` states induction as facts about sets (`InductionOnSets`,
`InductionOnSubsets`), from the well-foundedness of the natural numbers that the
library proves: to show a property of every number or of every finite set, take the
set of those that have it.  With it

* `ReplayProofs` shows that `ReplayStates`, which is recursive, satisfies its
  recursion for a log of any length (`ReplayByStep`), that any run of the reducer
  along a log is its replay (`ReplayIsRun`), and what one more event does
  (`ReplayOfAppend`);
* `DataInduction` shows that `SumFunctionOnSet` of the community modules, a fold
  that picks its elements by `CHOOSE`, is the sum over a finite set in whatever
  order (`SumOfMember`, `SumOfOneMore`, `SumOfOneChanged`).

### The execution store

`ExecutionStoreProofs` proves, for every set of sessions, events and fills, every
requested quantity and every bound on the log:

* `TypeCorrect`: `Spec => []TypeOK`;
* `SnapshotCorrect`: `Spec => []SnapshotIsReplay`;
* `FillsCorrect`: `Spec => []FillsCountedOnce`;
* `TerminalCorrect`: `Spec => TerminalIsFinal`;
* `Refinement`: `Spec => ImplementsHistory`, step simulation from `ExecutionStore`
  to `OrderHistory` with the identity mapping on the shared rows.

*Assumptions.*  `RequestedAssumption` (a natural number), `EventsAssumption`
(callers' events are well-typed, `fill_recorded` events and their ids belong to
`record_fill`), `BoundsAssumption`.  TLC evaluates them in the `store` run.

*Argument.*  None of these properties is inductive: the committed rows say
nothing about what a session is about to write.  `IInv` adds

* that a parent object read without a lock is not *ahead* of the committed
  parent, and equals it if it has the same sequence (`NotAhead`);
* that only the holder of the lock is `locked`, and that its view and history
  continue the committed ones (`Continues`);
* that its view is *committable*: either nothing was appended, or the object was
  current and the view is itself the replay of its log (`Committable`);
* that event ids, fill keys and fill rows correspond, in the committed rows and in
  a session's (`Identities`, `OneRowPerFill`).

The central lemma is `InsertedIsFresh`: an event that passes the sequence
constraint was built from a current parent object.  From it, `AppendOutcome` and
`FillOutcome` say what a call may do to a view, and there is one lemma per
action.  `ReducerAgrees` connects the materialized columns to the replayed
snapshot.  `SnapshotCorrect` then follows with
`ReplayableByRun`: `hist` is a run of the reducer, and there is only one.  TLC
checked `IInv` on the instance of `store` first.

### The swap lifecycle

`SwapLifecycleProofs` proves, for any number of pollers and reconcilers, any routes,
reported amounts and destinations, and any number of crashes: `SwapTypeCorrect`
(`TypeOK`), with or without the status button; `SwapFillIsDelivery`
(`FillIsDelivery`) and `SwapCanonicalIsReplay` (`CanonicalIsReplay`), with it too;
`SwapTerminalIsProjected` (`TerminalIsProjected`), which speaks of the time before it
is first pressed; and the action property of `SwapMoneyIsFinal`: once
a delivery is on record no step changes the fill, the settlement or the realized
amount, and no event is removed.

*Assumptions.*  `RequestedAssumption` and `SwapAssumption` (the swap's amount is
positive, reported amounts are natural numbers, "no amount" and "no destination" are
told from amounts and destinations).

*Argument.*  A projection is a composition of steps on a view; each is shown to
`Continue` the view it is given: it aborts, or keeps every event and its order, and
appends only to a parent object that is as new as the log.  `ProjectionOutcome` says
what `project_legacy_swap` makes of any view a session can hold, `CommitOutcome` what
it leaves on record.  The invariant `IInv` relates the log to the rows beside it,
because the log is what survives a crash and what a second process sees:

* `Orderly`: the log is numbered and replays without an illegal event to the parent
  that is current; it holds the fill's event exactly if the parent is filled, and a
  parent that was ever reconciling is so until it is filled;
* `Paid`: the fill, the settled settlement and the fill's event come together, and the
  fill's amount is the realized amount of the legacy row;
* `Outdated`: a parent object read without the lock is not ahead of the one on record,
  and equals it if it has the same sequence: an older one can append nothing;
* `SessionInv`: the realized amount of a swap row in somebody's session is the one on
  record, or was read before there was one;
* `Ended`: behind a terminal status there are its observation, a fill or the event of
  reconciling, and a settlement.

TLC checked `IInv` on the instance of `swap` first.

### The CCTP relayer

`CctpRelayerProofs` proves, for every set of deposits and of replicas and every
number of attempts, crashes and requeues: `CctpTypeCorrect`, `CctpMintedCorrect`
(`MintedIsUsed`), `CctpRecordedCorrect` (`BurnIsRecorded`), `CctpLeaseCorrect`
(`OneHolderPerLease`), and `CctpMintedFinal` (`MintedIsFinal`).  The only assumption is `CctpAssumption`, about the constants.

*Argument.*  `IInv` adds

* that the engine's program counter, the row and the burn advance in this order
  (`EngineOrder`), from which every burn has a row;
* that a relayer's deposit at hand is among those of its pass, and that those were
  recorded (`DepositAtHand`, `TodoIsRecorded`);
* that only attested deposits are submitted and only burns that landed attested
  (`AttestedFirst`), so that a minted row is never failed by a reverted burn;
* that a relayer about to write minted has seen the nonce consumed (`MintIsSeen`);
* that until a claim lapses its holder is alone and its row is claimed, and minted only
  if the holder has just written that and failed to look its user up (`Leased`).

`HolderWrites` is the central lemma: what a holder writes to its row when it is done
disturbs no other holder, because there is none or the claim lapsed.  TLC checked
`IInv` on the instance of `cctp` first.

### P2P escrow

`P2PEscrowProofs` proves, for every set of trades and of callers and any number of
mined transactions, lost answers, aborts, replacements and reverts: `EscrowTypeCorrect`,
`EscrowSettledOnce` (`SettledOnce`), `EscrowOneParty` (`OnePartyIsPaid`),
`EscrowDisputeFreezes` (`DisputeFreezes`), `EscrowCompletedIsPaid` (`CompletedIsPaid`),
`EscrowCancelledIsRefunded` (`CancelledIsRefunded`), and the refinement
`EscrowImplementsAccounts` (`ImplementsAccounts`).  The only assumption is
`P2PAssumption`: "no trade" and "no transaction" are told from trades and
transactions, the bound on the mined transactions is a number.  `EscrowSettledOnce` does not cover
two releases at once, nor a release or a resolution that was sent and not recorded:
those pay twice (section 5).

*Argument.*  `IInv` is stated trade by trade, with the trades' conjuncts

* `Locked`: an escrow on record is in the wallet, and the statuses before and after
  its record are different ones;
* `Untouched`: before the first reservation nothing was paid and nobody is about to;
* `Exclusive`: the status of a trade says which operation may be engaged in it, and
  two engaged calls are two releases, one of them of doubtful outcome;
* `PaidOnce`, `OneParty`, `SentFirst`: what an engaged call may assume of the
  payments so far, as long as the mishap in question has not happened (for
  `SentFirst`: as long as no payout was `Lost`).

`PoolIsLocked` covers the one thing trades share, the wallet's pending transaction.
`Spared` says what a step on one trade may do to another (a replacement may take
its payout away), and `SparedKeeps` that it keeps the invariant; so each action is
proved for its own trade only.  In the refinement mining a transfer is the abstract
payment; by `PaidOnce` a second one finds the trade in doubt, as `EscrowAccounts`
demands.

### Orders

`OrdersProofs` proves, for any number of loops, executions, hours and faults:
`OrdersTypeCorrect`, `OrdersSentOncePerKey` (`SentOncePerKey`) and
`OrdersExecutedIsSent` (`ExecutedIsSent`); and, for deployments of one loop,
`OrdersLimitOnce` (`LimitOnceInOneLoop`) and `OrdersDcaCount` (`DcaCountInOneLoop`),
which the other deployments do not satisfy.  The only assumption is `OrderAssumption`.

*Argument.*  The part for any number of loops, `BInv`, is proved first:

* `AtHand`: a loop at an order holds one of its keys, and nothing otherwise;
* `Provision`: a loop in front of the provider is the one that inserted its key's
  row, and nothing was sent for it: this is all of `SentOncePerKey`;
* `SentFirst`: what is about to be recorded was sent.

For a single loop, `LimitOnce` says that a limit order is taken up once and that
whatever was sent was sent for the key at hand.  `CountedOnce` keeps an account: the
swaps that were sent, did not fail and will not be counted as things stand (`Lost`)
never outnumber the faults, and one less while a row that is confirming too early is
about to be read back (`Early`).  A row that failed before it was counted is not among
them; bringing it back costs a fault of its own.  `AccountKept` and `CountKept` balance it across a
step.

### The custodial ledger

`CustodyProofs` proves, for every deployment, any requests and keys, reconcilers,
watchers, deposits, faults, errors and crashes: `CustodyTypeCorrect` (which includes that the
balance never goes below zero), `CustodyPaidOnce` (`PaidOnce`),
`CustodyRefundIsOwed` (`RefundIsOwedUnlessLeftBehind`), `CustodyDebitIsAccounted`
(`DebitIsAccounted`); for one watcher, `CustodyScannedIsBooked` (`ScannedIsBooked`);
and for one process `CustodyLedgerInOneProcess` (`LedgerInOneProcess`), with the
action property `CustodyEveryMoveRecorded` it rests on: each step changes the balance
by exactly what it records as debited, refunded or booked.

*Assumptions.*  `BalanceAssumption`, `WithdrawalAssumption`, `DepositAssumption` and
`CustodyAssumption`: the three kinds of actors are disjoint, the quantities are natural
numbers, the chain's first height is within its bound.  `CustodyScannedIsBooked`
assumes in addition that at most one watcher is deployed on the chain: `api/main.py`
alone starts it.  With two watchers it is false: both may start
without a cursor, at different heights, and the one that started later finish first;
TLC shows this on an instance of two.  `CustodyLedgerInOneProcess` assumes that
`Requests` is finite: the sum is over them.

*Argument.*  `IInv` has five parts.

* `WithdrawalInv`: a row without a hash has no transaction, an old row no handler, a
  refunded transaction reverted or will never exist; one row per key; and what a
  reconciler is about to fail reverted or was never sent.  `PaidOnce` follows.
* `CalmInv`, request by request, unless the request's own row was left behind or undone:
  a handler leaves no pending row without a hash, so the reconciler fails only what
  reverted, and one reconciler at a time is refunding a request.
  `RefundIsOwedUnlessLeftBehind` follows.  `DebitIsAccounted` needs less, and holds of
  every request, with the three cases of `Stranded`.
* `DepositInv`, `ScanInv`: a watcher's range begins at the cursor, the chunks before
  its own are booked, and of its own chunk what it no longer has in hand.
* `BalanceInv`: whoever has read the balance and is about to write it holds its
  process; so with one process what it read is still the balance.

`LedgerInv`, that what was booked and debited is finite and the balance is its sum,
is proved on top of `IInv`, movement by movement (`MovementKeepsLedger`).

There is one lemma per action and part.  `Only` and `HandlerKeeps`, and their
counterparts for reconcilers and watchers, say what a step of one actor leaves
alone.

### Checked before proved, and what stays model-checked

TLC checked each `IInv` on an instance of its component before it was proved.
Every safety invariant that a passing run checks is also a theorem, under the
conditions named above.  Only model-checked is liveness: every property that rests on
fairness, and whatever needs `ENABLED`.

## 5. Where code and documentation part

Each of these is a run that ends in a counterexample; `findings` quotes the lines.

* `lifi_stranded`: a Li.Fi swap that is polled once while its bridge is pending
  becomes `confirming`, which the poller's query selects for 0x only.  It is never
  polled again.
* `late_failure`: a poller that read the swap and its parent before the execution
  reconciler resolved them writes `failed` over `completed`: its outdated parent
  object makes the projection a no-op instead of an error.
* `lost_update`: a deposit credit or a refund of the worker process overwrites a
  reservation of the API process.
* `crash_before_reserve`: a crash between claim and reservation is refunded by the
  withdraw reconciler although nothing was debited.  (An error of the reservation, which
  the API's handler does not catch, does the same without a crash.)
* `reverted_send`: a withdrawal is recorded as completed at its broadcast; if it then
  reverts, the user stays debited, and the reconciler does not read completed rows.
* `deposit_passed`: a credit transaction that fails for another reason than a
  duplicate is logged, and the cursor moves past the deposit.

What follows has no run of its own that ends in a counterexample.  Where it
contradicts a property of a passing run, that property names it as its exception, and
TLC confirmed that the exception is needed.

* Custody: the bot's handler has the message to the user inside its `try`; if it raises
  after the broadcast, the last `except` undoes the reservation and releases the key, with
  the comment that "nothing was ever sent to the network" (`custodial.py:858-864`).  The
  user has the withdrawal and the money (`Undone`).
* Custody: a row whose hash was stamped and whose transaction the node never took stays
  pending for ever: `_resolve_one` finds no receipt, and its age limit is for rows
  without a hash.  A row the reconciler failed is not looked at again if its refund
  raises (`Stranded`).
* P2P: two releases at once are both let through, because the reservation accepts a
  trade that is already `released`, and both may send.  The comments
  (`p2p_service.py:595-597`, `:910-911`) say that only one caller can reserve the trade
  and that concurrent attempts cannot each fire a transfer (`SettledOnce`).
* P2P: a payout that reverts, or is replaced by another transfer with its nonce, leaves a
  trade completed or cancelled and unpaid: `send_token` does not wait for a receipt
  (`Lost`).
* P2P: a release whose answer was lost may be repeated, and pays twice.  The
  docstrings (`p2p_service.py:598`, `:910`) call it "safely retryable", and the
  reservation accepts `released` for that purpose (`SettledOnce`).
* P2P: a resolution whose transfer raised goes back to `disputed` with the comment
  "no funds moved" (`p2p_service.py:787`), also when the node took the transaction
  (`OnePartyIsPaid`); the handler of a lock that timed out tells the user the same
  (`p2p_handler.py:726`), while the deposit may be mined later.
* P2P: a process that dies while `resolving` leaves a trade no command accepts
  (`ResolutionEnds`).
* CCTP: errors of `estimate_gas` and of the broadcast, an RPC failure included, count
  against `MAX_ATTEMPTS`, although `cctp_generic_relayer.py:330` and `:555` reserve
  that budget for genuine reverts.
* CCTP: a single stall fails a deposit whose `created_at` is more than a day ago, whatever
  delayed it; and when the lookup of the Telegram id raises after a mint
  (`cctp_generic_relayer.py:405-406`, `:604-607`), the pass counts a stall, which for such
  a deposit writes failed over minted (`MintedIsFinal`).
* CCTP: `requeue_failed` has no caller: the admin command
  requeues the HyperCore relayer's deposits.
* Orders: with two loops a limit order can be swapped twice when the hour changes
  between them, or be called failed although the other loop swapped it; a DCA can
  lose or double a count.
* Orders: a DCA row that is already `confirming` when it is read back is not counted,
  and the slot is swapped again under the next hour's key.  A row that failed before it
  was counted and is completed later, by the execution reconciler or the status button,
  is not counted either.
* Orders: the terminal stores a DCA's amount as a decimal string (`webapp.py:3276`);
  `int()` raises on it after the swap, so such an order counts nothing and never
  reaches `max_executions`.
* Orders: "wait for next interval" (`orders.py:723`) is not what happens after a
  failure: `next_execution_at` is left alone and the order is due again next pass.
* Orders: a stop-loss asks for the price of `to_token` and is evaluated on that of
  `from_token` (`orders.py:217`, `:247`), which is 0 unless another order asked for
  it, so it does not trigger.  Prices are outside the model.
* The mobile API's `create_order` and `create_dca` pass columns the models do not
  have; its cancel, pause and resume set the status unconditionally, as modelled.

## 6. Not modelled

* Of `tx_poller.py`: notifications, explorer links, cache invalidation, the Solana
  and Starknet receipt checks (same shape as the EVM one).
* Of `hot_wallet.py`: wallet creation, key storage, signing, fees, balance
  queries, and the `subtract` operation of `update_custodial_balance` (gift-card
  purchases).
* The other writers of the balance row: `community_service.py` and
  `battle_service.py` (tips, bills, stakes, inside the caller's session),
  referral and reward payouts, gift cards.
* Of the withdraw handlers: the conversation before the claim, validation, rendering.
* Of the P2P service: offers, discovery, external providers' trades, the cap on open
  disputes.  Trades are independent but for the wallet's nonce, so one trade and
  `OtherTransfer` stand for all.
* The HyperCore relayer.  Of the generic relayer: the operators' alerts, the gas balance.
* Of the orders: how a price triggers an order, the trailing peak, alerts, copy
  trading, swap templates.  Of the swap engine: quotes and the provider executors.
* Chain reorganisations deeper than the watcher's confirmations, and dropped
  Solana transactions.
* Several chains, users or tokens at once: their rows do not interact.
* The components marked `not_modelled` in `PROJECT.json`, for the reasons there.

## 7. Plan

1. **Done:** the execution store, the swap lifecycle, the custodial ledger, P2P escrow
   with its refinement, the CCTP relayer and orders, all with proofs.
2. **Proofs:** that `SwapLifecycle` implements `OrderHistory` too: a commit of a
   projection is one atomic transaction on the history that its session continues.
   It needs the history variable `hist` in `SwapLifecycle`; `CanonicalIsReplay` is
   what is proved of it without.
3. **Withdrawals alone, under fairness:** an ambiguous broadcast is resolved.
4. **Two releases at once** as a run of its own, under the comments' claim that only one of
   them can send.
5. **Other writers of the balance row** (community transfers, battles, rewards, gift
   cards) as further actors of `Custody`; the HyperCore relayer; copy trading.
