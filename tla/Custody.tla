------------------------------- MODULE Custody -------------------------------
(***************************************************************************)
(* The custodial ledger as a whole: withdrawal handlers, the withdraw      *)
(* reconciler and the deposit watcher move one balance.  With one process  *)
(* (ENABLE_BACKGROUND_SERVICES on the API, the default) they share an      *)
(* event loop; with two (python-api, python-worker) only the database      *)
(* stands between them.  A process may die between any two transactions.   *)
(***************************************************************************)
EXTENDS Withdrawals, Deposits, Functions

CONSTANT MaxCrashes   \* bound on process deaths

ASSUME CustodyAssumption ==
  /\ Actors = Requests \cup Reconcilers \cup Watchers
  /\ Watchers \cap (Requests \cup Reconcilers) = {}
  /\ MaxCrashes \in Nat

VARIABLE crashes

vars == <<home, balance, cached, running, handler, rows, rowAge, chain, recon, debits, refunds,
          broken, head, cursor, credited, watcher, origin, failed, crashes>>

Init == BalanceInit /\ WithdrawalInit /\ DepositInit /\ crashes = 0

Crash(p) ==
  /\ crashes < MaxCrashes
  /\ crashes' = crashes + 1
  /\ WithdrawalCrash(p)
  /\ DepositCrash(p)
  /\ running' = [running EXCEPT ![p] = Nobody]
  /\ cached' = [a \in Actors |-> IF Deployed(a) /\ home[a] = p THEN 0 ELSE cached[a]]
  /\ UNCHANGED <<home, balance>>

Next ==
  \/ WithdrawalNext /\ UNCHANGED depositVars /\ UNCHANGED crashes
  \/ DepositNext /\ UNCHANGED withdrawalVars /\ UNCHANGED crashes
  \/ \E p \in Processes : Crash(p)

Spec == Init /\ [][Next]_vars

-----------------------------------------------------------------------------
(* Properties.                                                             *)

\* Every row and every coroutine is well-formed; the balance is never negative,
\* which the check of the funds in reserve_custodial_balance is for.
TypeOK ==
  /\ home \in Topologies
  /\ balance \in Nat
  /\ cached \in [Actors -> Nat]
  /\ running \in [Processes -> Actors \cup {Nobody}]
  /\ handler \in [Requests -> [pc : HandlerPC, key : Keys \cup {NoKey}, lost : 0..MaxRetries]]
  /\ rows \in [Requests -> [status : {"none", "pending", "completed", "failed"},
                            hash : BOOLEAN]]
  /\ rowAge \in [Requests -> {"fresh", "stale", "old"}]
  /\ chain \in [Requests -> {"none", "mempool", "mined", "reverted"}]
  /\ recon \in [Reconcilers ->
       [pc : {"idle", "pick", "lookup", "complete", "fail", "refund", "credit"},
        todo : SUBSET [req : Requests, hash : BOOLEAN], req : Requests \cup {Nobody}]]
  /\ debits \subseteq Requests
  /\ refunds \in [Requests -> Nat]
  /\ broken \subseteq Requests \X BreakingSteps
  /\ head \in InitialHead..MaxHead
  /\ cursor \in 0..MaxHead \cup {NoCursor}
  /\ credited \subseteq DepositSet
  /\ watcher \in [Watchers ->
       [pc : {"idle", "fetch", "handle", "credit"}, from : 0..MaxHead, to : 0..MaxHead,
        chunk : 1..(Chunks + 1), logs : SUBSET DepositSet,
        log : DepositSet \cup {NoCursor}]]
  /\ failed \subseteq DepositSet
  /\ crashes \in 0..MaxCrashes

\* The balance is exactly what its movements add up to: no concurrent writer
\* loses another's (reserve_custodial_balance retries "instead of silently
\* overwriting a change we never saw").
BalanceIsLedger ==
  LET Value  == [d \in DepositSet |-> d.value]
      Refund == [r \in Requests |-> refunds[r] * Amount[r]]
  IN  balance = InitialBalance + SumFunctionOnSet(Value, credited)
                  - SumFunctionOnSet(Amount, debits) + SumFunction(Refund)

\* The same as long as one event loop runs everything: nothing is awaited between
\* the read and the write of update_custodial_balance.
LedgerInOneProcess == (\A a, b \in DOMAIN home : home[a] = home[b]) => BalanceIsLedger

\* The bot's handler undid the reservation of a request it had broadcast.
Undone(r) == <<r, "undone">> \in broken

\* One idempotency key pays out at most once, and what was paid out is not also
\* refunded: the claim, the release, an ambiguous broadcast and the reconciler
\* between them never send a user's money twice, crashes and database errors
\* included.  The exception is what the bot's handler undoes after the broadcast,
\* where its comment says that "nothing was ever sent to the network".
PaidOnce ==
  /\ \A r, q \in Requests :
       handler[r].key = handler[q].key /\ chain[r] # "none" /\ chain[q] # "none"
         => r = q \/ Undone(r) \/ Undone(q)
  /\ \A r \in Requests : chain[r] = "mined" => refunds[r] = 0 \/ Undone(r)
  /\ \A r \in Requests : chain[r] # "none" => r \in debits

\* A refund gives back what was reserved, once: "re-running never double-refunds"
\* (WithdrawReconciler._reconcile_once), and the rows it finds pending have "the
\* ledger already debited" (the module's docstring).
RefundIsOwed ==
  \A r \in Requests : refunds[r] <= IF r \in debits THEN 1 ELSE 0

\* The handler left its row pending beside a reservation that was never made, or
\* beside its own refund: one of these steps raised or was cut off.
RowLeftBehind(r) == \E step \in {"reserve", "swap", "release"} : <<r, step>> \in broken

\* The same for every race of a handler with the reconciler, through deaths and
\* database errors at every other step.
RefundIsOwedUnlessLeftBehind ==
  \A r \in Requests :
    ~RowLeftBehind(r) /\ ~Undone(r) => refunds[r] <= IF r \in debits THEN 1 ELSE 0

\* Somebody is still about to give request r its money back.
BeingRefunded(r) ==
  \/ handler[r].pc \in {"refund", "credit"}
  \/ \E c \in Reconcilers : recon[c].req = r /\ recon[c].pc \in {"refund", "credit"}

\* Nobody will ever settle the debit of request r: its row is completed and its
\* transaction reverted later; or its row waits for a transaction the node never
\* took; or the reconciler failed the row and its refund raised or was cut off.
Stranded(r) ==
  \/ rows[r].status = "completed" /\ chain[r] = "reverted"
  \/ rows[r].status = "pending" /\ rows[r].hash /\ chain[r] = "none" /\ ~InFlight(r)
  \/ rows[r].status = "failed" /\ <<r, "recon">> \in broken

\* No other reserved amount is forgotten, whoever dies or raises: it was refunded or
\* will be, it was accepted by the node and is recorded as completed, or its row is
\* pending with something the reconciler can still decide on.
DebitIsAccounted ==
  \A r \in debits :
    \/ Stranded(r)
    \/ refunds[r] > 0
    \/ BeingRefunded(r)
    \/ rows[r].status = "completed" /\ chain[r] \in {"mempool", "mined"}
    \/ rows[r].status = "pending" /\ (InFlight(r) \/ ~rows[r].hash \/ chain[r] # "none")

\* "If the on-chain send fails, the reserved amount is refunded ... so a
\* failed/reverted send never leaves the user debited" (terminal_wallet_withdraw):
\* once the row is settled, a reverted withdrawal has been refunded or will be.
RevertedIsRefunded ==
  \A r \in Requests :
    chain[r] = "reverted" /\ rows[r].status \in {"completed", "failed"} /\ ~InFlight(r)
      => refunds[r] > 0 \/ BeingRefunded(r)

\* Every creditable deposit in a block the cursor has passed since the first scan
\* was booked, unless its own transaction failed; what was booked is creditable and
\* confirmed.
ScannedIsBooked ==
  /\ cursor # NoCursor =>
       \A d \in DepositSet :
         Creditable(d) /\ d.block \in (origin + 1)..cursor => d \in credited \cup failed
  /\ \A d \in credited : d.listed /\ d.value >= MIN_DEPOSIT /\ d.block + CONFIRMATIONS <= head

\* "Do NOT advance the cursor past a range we failed to read - that is how a
\* deposit goes missing permanently" (DepositWatcher.scan_chain): the cursor
\* passes no creditable deposit that is not booked.
NoDepositIsPassed ==
  cursor # NoCursor =>
    \A d \in DepositSet : Creditable(d) /\ d.block \in (origin + 1)..cursor => d \in credited

=============================================================================
