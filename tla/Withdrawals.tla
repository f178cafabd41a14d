----------------------------- MODULE Withdrawals -----------------------------
(***************************************************************************)
(* Custodial withdrawals: the request handlers of api/routes/terminal.py   *)
(* and bot/handlers/custodial.py, the broadcast of                         *)
(* bot/services/hot_wallet.py and the background                           *)
(* bot/services/withdraw_reconciler.py.                                    *)
(*                                                                         *)
(* A request claims its idempotency key, reserves the amount, signs,       *)
(* stamps the transaction hash, broadcasts and finalizes; it undoes the    *)
(* reservation when the send fails before the broadcast, and leaves the    *)
(* row pending when the broadcast's outcome is unknown.  The reconciler    *)
(* resolves pending rows against the chain, or by age when no hash was     *)
(* ever stamped.  A client's retry is another request with the same key.   *)
(*                                                                         *)
(* Every database call is a transaction of its own and may raise, which    *)
(* rolls it back.  (A commit whose answer is lost leaves what a death just *)
(* after it leaves; a claim that raises, what a request that never came    *)
(* leaves.)  The API's handler has the send alone in its try block, the    *)
(* bot's has everything after the claim, recording the hash and telling    *)
(* the user included: that is where the two differ.                        *)
(*                                                                         *)
(* The network calls of a send (signing, broadcast) may await, so the      *)
(* process is given up there; the kill switch, the sanctions screening,    *)
(* gas and nonce lookups, and a failing stamp are the ways SendFails may   *)
(* happen.                                                                 *)
(***************************************************************************)
EXTENDS CustodialBalance, FiniteSets

CONSTANTS
  Requests,       \* withdrawal requests, a client's retries included
  BotRequests,    \* those the bot's handler serves; the API's serves the others
  Keys,           \* idempotency keys a client may send
  NoKey,          \* the request has not arrived
  Amount,         \* the amount of each request
  Reconcilers,    \* instances of the withdraw reconciler
  MaxRetries,     \* max_retries of reserve_custodial_balance
  MaxBroken       \* bound on the steps that raise

ASSUME WithdrawalAssumption ==
  /\ Requests \cup Reconcilers \subseteq Actors
  /\ Requests \cap Reconcilers = {}
  /\ BotRequests \subseteq Requests
  /\ Amount \in [Requests -> Nat \ {0}]
  /\ NoKey \notin Keys
  /\ MaxRetries \in Nat \ {0}
  /\ MaxBroken \in Nat

VARIABLES
  handler,    \* each request's handler: program counter, key, lost swaps
  rows,       \* the custodial_transactions row each request inserted
  rowAge,     \* fresh; stale: 3 minutes; old: 30 minutes
  chain,      \* what became of each request's transaction on chain
  recon,      \* each reconciler: program counter, rows to resolve, current row
  debits,     \* history variable: requests whose amount was debited
  refunds,    \* history variable: how often each request was refunded
  broken      \* history variable: the steps of each request that raised, or
              \* that a death cut off

withdrawalVars == <<handler, rows, rowAge, chain, recon, debits, refunds, broken>>

-----------------------------------------------------------------------------
(* Rows and initial state.                                                 *)

NoRow == [status |-> "none", hash |-> FALSE]

\* What claim_idempotency_key inserts.
PendingRow == [status |-> "pending", hash |-> FALSE]

HandlerPC ==
  {"start", "reserve", "swap", "release", "sign", "broadcast", "finalize", "ambiguous",
   "notify", "refund", "credit", "over"}

\* What may raise or be cut off: a handler at some step, its send undone by the
\* bot's except clause, or a reconciler's refund.
BreakingSteps == (HandlerPC \ {"start", "over"}) \cup {"undone", "recon"}

IdleReconciler == [pc |-> "idle", todo |-> {}, req |-> Nobody]

WithdrawalInit ==
  /\ handler = [r \in Requests |-> [pc |-> "start", key |-> NoKey, lost |-> 0]]
  /\ rows = [r \in Requests |-> NoRow]
  /\ rowAge = [r \in Requests |-> "fresh"]
  /\ chain = [r \in Requests |-> "none"]
  /\ recon = [c \in Reconcilers |-> IdleReconciler]
  /\ debits = {}
  /\ refunds = [r \in Requests |-> 0]
  /\ broken = {}

-----------------------------------------------------------------------------
(* The request handlers.                                                   *)

At(r, pc) == handler[r].pc = pc /\ CanRun(r)

Goto(r, pc) == handler' = [handler EXCEPT ![r].pc = pc]

\* Mutant: no unique index.
KeyNeverTaken(k) == FALSE

\* The unique index on (user_id, idempotency_key) would fire.
KeyTaken(k) == \E q \in Requests : handler[q].key = k /\ rows[q].status # "none"

\* claim_idempotency_key; the loser answers 409 and stops.
Claim(r, k) ==
  /\ At(r, "start")
  /\ IF KeyTaken(k)
     THEN Goto(r, "over") /\ Yield(r) /\ UNCHANGED rows
     ELSE /\ handler' = [handler EXCEPT ![r].pc = "reserve", ![r].key = k]
          /\ rows' = [rows EXCEPT ![r] = PendingRow]
          /\ Continue(r)
  /\ UNCHANGED <<rowAge, chain, recon, debits, refunds, broken, balance, cached>>

\* Mutant: the funds are not checked.
NeverInsufficient(r) == FALSE

Insufficient(r) == balance < Amount[r]

\* The read of reserve_custodial_balance, and its check of the funds.
ReserveRead(r) ==
  /\ At(r, "reserve")
  /\ IF Insufficient(r)
     THEN Goto(r, "release") /\ UNCHANGED <<balance, cached>>
     ELSE Goto(r, "swap") /\ ReadBalance(r)
  /\ Continue(r)
  /\ UNCHANGED <<rows, rowAge, chain, recon, debits, refunds, broken>>

\* The guarded UPDATE: done, or another turn of the loop, or given up.
ReserveSwap(r) ==
  /\ At(r, "swap")
  /\ SwapBalance(r, Amount[r])
  /\ IF Swaps(r)
     THEN Goto(r, "sign") /\ debits' = debits \cup {r} /\ Yield(r)
     ELSE /\ handler' = [handler EXCEPT
               ![r].pc = IF handler[r].lost + 1 < MaxRetries THEN "reserve" ELSE "release",
               ![r].lost = @ + 1]
          /\ Continue(r)
          /\ UNCHANGED debits
  /\ UNCHANGED <<rows, rowAge, chain, recon, refunds, broken>>

\* Mutant: the claim is released, the reservation kept.
SendFailsKeeps(r) ==
  /\ At(r, "sign")
  /\ Goto(r, "release")
  /\ Continue(r)
  /\ UNCHANGED <<rows, rowAge, chain, recon, debits, refunds, broken, balance, cached>>

\* Any error before the broadcast call: the reservation is to be undone.
SendFails(r) ==
  /\ At(r, "sign")
  /\ Goto(r, "refund")
  /\ Continue(r)
  /\ UNCHANGED <<rows, rowAge, chain, recon, debits, refunds, broken, balance, cached>>

\* stamp_pending_tx_hash, once the transaction is signed and its hash known.
StampHash(r) ==
  /\ At(r, "sign")
  /\ Goto(r, "broadcast")
  /\ rows' = [rows EXCEPT ![r].hash = @ \/ rows[r].status # "none"]
  /\ Yield(r)
  /\ UNCHANGED <<rowAge, chain, recon, debits, refunds, broken, balance, cached>>

\* The node's answer: a hash, or an exception after which nobody knows whether
\* the node took the transaction.
Broadcast(r) ==
  /\ At(r, "broadcast")
  /\ \/ Goto(r, "finalize") /\ chain' = [chain EXCEPT ![r] = "mempool"]
     \/ Goto(r, "ambiguous") /\ chain' = [chain EXCEPT ![r] = "mempool"]
     \/ Goto(r, "ambiguous") /\ UNCHANGED chain
  /\ Yield(r)
  /\ UNCHANGED <<rows, rowAge, recon, debits, refunds, broken, balance, cached>>

\* record_pending_tx_hash: a backstop, guarded by the row still being pending.
RecordPendingHash(r) ==
  /\ At(r, "ambiguous")
  /\ Goto(r, "over")
  /\ rows' = [rows EXCEPT ![r].hash = @ \/ rows[r].status = "pending"]
  /\ Yield(r)
  /\ UNCHANGED <<rowAge, chain, recon, debits, refunds, broken, balance, cached>>

\* finalize_claimed_transaction: whatever status the row has by now.  The bot goes
\* on to tell its user.
Finalize(r) ==
  /\ At(r, "finalize")
  /\ Goto(r, IF r \in BotRequests THEN "notify" ELSE "over")
  /\ rows' = [rows EXCEPT ![r] = IF @.status = "none" THEN @
                                 ELSE [status |-> "completed", hash |-> TRUE]]
  /\ Yield(r)
  /\ UNCHANGED <<rowAge, chain, recon, debits, refunds, broken, balance, cached>>

\* edit_message_text of the bot's handler.
Notify(r) ==
  /\ At(r, "notify")
  /\ Goto(r, "over")
  /\ Yield(r)
  /\ UNCHANGED <<rows, rowAge, chain, recon, debits, refunds, broken, balance, cached>>

\* Mutant: the handler awaits between the read and the write.
RefundReadAwaits(r) ==
  /\ At(r, "refund")
  /\ Goto(r, "credit")
  /\ ReadBalance(r)
  /\ Yield(r)
  /\ UNCHANGED <<rows, rowAge, chain, recon, debits, refunds, broken>>

\* update_custodial_balance of the undo, in two steps: read, then write.
RefundRead(r) ==
  /\ At(r, "refund")
  /\ Goto(r, "credit")
  /\ ReadBalance(r)
  /\ Continue(r)
  /\ UNCHANGED <<rows, rowAge, chain, recon, debits, refunds, broken>>

RefundWrite(r) ==
  /\ At(r, "credit")
  /\ Goto(r, "release")
  /\ AddToBalance(r, Amount[r])
  /\ refunds' = [refunds EXCEPT ![r] = @ + 1]
  /\ Continue(r)
  /\ UNCHANGED <<rows, rowAge, chain, recon, debits, broken>>

\* release_claimed_transaction: the key may be claimed again.
Release(r) ==
  /\ At(r, "release")
  /\ Goto(r, "over")
  /\ rows' = [rows EXCEPT ![r] = NoRow]
  /\ Yield(r)
  /\ UNCHANGED <<rowAge, chain, recon, debits, refunds, broken, balance, cached>>

-----------------------------------------------------------------------------
(* Steps that raise.                                                       *)

Breaks(r, step) == broken' = broken \cup {<<r, step>>}

MayBreak == Cardinality(broken) < MaxBroken

\* A database call of the handler raises where nothing catches it, or in an except
\* clause: the row stays as it is, and the handler is over.  The bot catches an
\* error of the reservation too, but has nothing reserved to undo.
DatabaseError(r) ==
  /\ MayBreak
  /\ CanRun(r)
  /\ \/ handler[r].pc \in {"reserve", "swap", "release", "refund", "credit", "ambiguous"}
     \/ handler[r].pc = "finalize" /\ r \notin BotRequests
  /\ Breaks(r, handler[r].pc)
  /\ Goto(r, "over")
  /\ Forget(r)
  /\ Yield(r)
  /\ UNCHANGED <<rows, rowAge, chain, recon, debits, refunds, balance>>

\* In the bot's handler recording the hash and the message to the user are inside
\* the try: its last except clause undoes the reservation of what was sent.
UndoAfterSend(r) ==
  /\ MayBreak
  /\ r \in BotRequests
  /\ At(r, "finalize") \/ At(r, "notify")
  /\ Breaks(r, "undone")
  /\ Goto(r, "refund")
  /\ Continue(r)
  /\ UNCHANGED <<rows, rowAge, chain, recon, debits, refunds, balance, cached>>

-----------------------------------------------------------------------------
(* The chain and the clock.                                                *)

\* A transaction in the mempool is mined, or mined and reverted.
Mine(r, outcome) ==
  /\ chain[r] = "mempool"
  /\ chain' = [chain EXCEPT ![r] = outcome]
  /\ UNCHANGED <<handler, rows, rowAge, recon, debits, refunds, broken, home, balance, cached, running>>

InFlight(r) == handler[r].pc \notin {"start", "over"}

\* A reconciler's pass has read row r and not come to it yet.
Copied(r) == \E c \in Reconcilers : \E copy \in recon[c].todo : copy.req = r

\* created_at recedes.  Timing assumption: no handler is still at work 30 minutes
\* after its claim, and no pass of a reconciler takes that long (their network
\* calls time out long before).
Grow(r) ==
  /\ rows[r].status = "pending"
  /\ \/ rowAge[r] = "fresh" /\ rowAge' = [rowAge EXCEPT ![r] = "stale"]
     \/ /\ rowAge[r] = "stale"
        /\ ~InFlight(r) /\ ~Copied(r)
        /\ rowAge' = [rowAge EXCEPT ![r] = "old"]
  /\ UNCHANGED <<handler, rows, chain, recon, debits, refunds, broken, home, balance, cached, running>>

-----------------------------------------------------------------------------
(* The reconciler.                                                         *)

BackToPick(c) == recon' = [recon EXCEPT ![c].pc = "pick", ![c].req = Nobody]

ReconAt(c, pc) == recon[c].pc = pc /\ CanRun(c)

\* Phase 1 of _reconcile_once: copies of the stale pending rows.
Scan(c) ==
  /\ ReconAt(c, "idle")
  /\ LET found == {r \in Requests : rows[r].status = "pending" /\ rowAge[r] # "fresh"}
     IN  /\ found # {}
         /\ recon' = [recon EXCEPT ![c] =
              [pc |-> "pick", todo |-> {[req |-> r, hash |-> rows[r].hash] : r \in found},
               req |-> Nobody]]
  /\ Continue(c)
  /\ UNCHANGED <<handler, rows, rowAge, chain, debits, refunds, broken, balance, cached>>

\* Mutant: a row without a hash is given up as soon as it is stale.
StaleIsOldEnough(r) == rowAge[r] # "fresh"

\* age >= never_broadcast_after.
OldEnough(r) == rowAge[r] = "old"

\* _resolve_one on a copy with a hash: ask the chain.  Without one: refund if
\* old, else leave it.
Pick(c, copy) ==
  /\ ReconAt(c, "pick")
  /\ copy \in recon[c].todo
  /\ recon' = [recon EXCEPT ![c] =
       [pc |-> IF copy.hash THEN "lookup"
               ELSE IF OldEnough(copy.req) THEN "fail" ELSE "pick",
        todo |-> @.todo \ {copy}, req |-> copy.req]]
  /\ IF copy.hash THEN Yield(c) ELSE Continue(c)
  /\ UNCHANGED <<handler, rows, rowAge, chain, debits, refunds, broken, balance, cached>>

EndPass(c) ==
  /\ ReconAt(c, "pick")
  /\ recon[c].todo = {}
  /\ recon' = [recon EXCEPT ![c] = IdleReconciler]
  /\ Yield(c)
  /\ UNCHANGED <<handler, rows, rowAge, chain, debits, refunds, broken, balance, cached>>

\* _check_chain_status has a verdict.
LookUp(c) ==
  /\ ReconAt(c, "lookup")
  /\ chain[recon[c].req] \in {"mined", "reverted"}
  /\ recon' = [recon EXCEPT ![c].pc =
       IF chain[recon[c].req] = "mined" THEN "complete" ELSE "fail"]
  /\ Continue(c)
  /\ UNCHANGED <<handler, rows, rowAge, chain, debits, refunds, broken, balance, cached>>

\* No receipt, or an RPC error: the row is left pending.
LookUpUnknown(c) ==
  /\ ReconAt(c, "lookup")
  /\ BackToPick(c)
  /\ Continue(c)
  /\ UNCHANGED <<handler, rows, rowAge, chain, debits, refunds, broken, balance, cached>>

\* cas_transaction_status: its UPDATE touches a row that is still pending.
CasWins(r) == rows[r].status = "pending"

CompleteRow(c) ==
  /\ ReconAt(c, "complete")
  /\ LET r == recon[c].req
     IN  rows' = IF CasWins(r) THEN [rows EXCEPT ![r] = [status |-> "completed", hash |-> TRUE]]
                 ELSE rows
  /\ BackToPick(c)
  /\ Continue(c)
  /\ UNCHANGED <<handler, rowAge, chain, debits, refunds, broken, balance, cached>>

\* _refund_and_fail: the refund follows only if the swap of the status was won.
FailRow(c) ==
  /\ ReconAt(c, "fail")
  /\ LET r == recon[c].req
     IN  /\ rows' = IF CasWins(r) THEN [rows EXCEPT ![r].status = "failed"] ELSE rows
         /\ recon' = [recon EXCEPT ![c].pc = IF CasWins(r) THEN "refund" ELSE "pick"]
  /\ Continue(c)
  /\ UNCHANGED <<handler, rowAge, chain, debits, refunds, broken, balance, cached>>

ReconRefundRead(c) ==
  /\ ReconAt(c, "refund")
  /\ recon' = [recon EXCEPT ![c].pc = "credit"]
  /\ ReadBalance(c)
  /\ Continue(c)
  /\ UNCHANGED <<handler, rows, rowAge, chain, debits, refunds, broken>>

ReconRefundWrite(c) ==
  /\ ReconAt(c, "credit")
  /\ BackToPick(c)
  /\ AddToBalance(c, Amount[recon[c].req])
  /\ refunds' = [refunds EXCEPT ![recon[c].req] = @ + 1]
  /\ Continue(c)
  /\ UNCHANGED <<handler, rows, rowAge, chain, debits, broken>>

\* The compare-and-swap of the status raises: logged, and on to the next row.
CasError(c) ==
  /\ ReconAt(c, "complete") \/ ReconAt(c, "fail")
  /\ BackToPick(c)
  /\ Continue(c)
  /\ UNCHANGED <<handler, rows, rowAge, chain, debits, refunds, broken, balance, cached>>

\* The refund raises after the row was failed: logged, and the row is not pending
\* any more.
ReconRefundError(c) ==
  /\ MayBreak
  /\ ReconAt(c, "refund") \/ ReconAt(c, "credit")
  /\ Breaks(recon[c].req, "recon")
  /\ BackToPick(c)
  /\ Forget(c)
  /\ Continue(c)
  /\ UNCHANGED <<handler, rows, rowAge, chain, debits, refunds, balance>>

-----------------------------------------------------------------------------

HandlerStep(r) ==
  \/ (\E k \in Keys : Claim(r, k)) \/ ReserveRead(r) \/ ReserveSwap(r) \/ SendFails(r) \/ StampHash(r)
  \/ Broadcast(r) \/ RecordPendingHash(r) \/ Finalize(r) \/ Notify(r)
  \/ RefundRead(r) \/ RefundWrite(r) \/ Release(r) \/ DatabaseError(r) \/ UndoAfterSend(r)

ReconcilerStep(c) ==
  \/ Scan(c) \/ (\E copy \in recon[c].todo : Pick(c, copy)) \/ EndPass(c)
  \/ LookUp(c) \/ LookUpUnknown(c) \/ CompleteRow(c) \/ FailRow(c)
  \/ ReconRefundRead(c) \/ ReconRefundWrite(c) \/ CasError(c) \/ ReconRefundError(c)

WithdrawalNext ==
  \/ \E r \in Requests : HandlerStep(r) \/ Grow(r)
  \/ \E r \in Requests, outcome \in {"mined", "reverted"} : Mine(r, outcome)
  \/ \E c \in Reconcilers : ReconcilerStep(c)

DiesWith(a, p) == Deployed(a) /\ home[a] = p

\* What the death of process p cuts off.
CutOff(p) ==
  {<<r, handler[r].pc>> : r \in {q \in Requests : DiesWith(q, p) /\ InFlight(q)}}
    \cup {<<recon[c].req, "recon">> :
            c \in {d \in Reconcilers : DiesWith(d, p) /\ recon[d].pc \in {"refund", "credit"}}}

\* The death of process p: its coroutines vanish between two transactions.
WithdrawalCrash(p) ==
  /\ handler' = [r \in Requests |-> IF DiesWith(r, p) /\ InFlight(r)
                                    THEN [handler[r] EXCEPT !.pc = "over"] ELSE handler[r]]
  /\ recon' = [c \in Reconcilers |-> IF DiesWith(c, p) THEN IdleReconciler ELSE recon[c]]
  /\ broken' = broken \cup CutOff(p)
  /\ UNCHANGED <<rows, rowAge, chain, debits, refunds>>

=============================================================================
