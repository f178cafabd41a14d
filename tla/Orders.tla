------------------------------- MODULE Orders -------------------------------
(***************************************************************************)
(* Automated orders: the loop of bot/services/orders.py and the swap it    *)
(* asks of SwapEngine.execute_swap.                                        *)
(*                                                                         *)
(* A pass of the loop reads the pending limit order, prices it, marks it   *)
(* triggered and swaps; then it reads the DCA order, swaps if it is due    *)
(* and counts the execution.  Each swap carries an idempotency key made of *)
(* the order, the DCA's count and the hour.  The API process and the bot   *)
(* process each start a loop unless configured not to, so one or two       *)
(* loops run, with no lock in common.                                      *)
(*                                                                         *)
(* Every session is a transaction and a step of its own; the DCA's count,  *)
(* which a transaction reads and writes back, takes two.  Prices are       *)
(* abstracted to whether the order triggers.  Time is the hour of the      *)
(* keys; a DCA's interval is one hour.                                     *)
(***************************************************************************)
EXTENDS Integers, FiniteSets

CONSTANTS
  Loops,           \* processes that may run the order loop
  MaxExecutions,   \* the DCA order's max_executions
  MaxHour,         \* bound on the hours that pass, for TLC
  MaxFaults        \* bound on the faults, for TLC

ASSUME OrderAssumption ==
  /\ IsFiniteSet(Loops)
  /\ MaxExecutions \in Nat \ {0}
  /\ MaxHour \in Nat
  /\ MaxFaults \in Nat

VARIABLES
  loops,     \* the processes that run the loop in this deployment
  whole,     \* the DCA's amount is a whole number of units, as int() needs
  hour,      \* the hour of the clock
  limit,     \* the limit order's status
  dca,       \* the DCA order: status, executions_completed, next_execution_at
  swap,      \* status of the swap_transactions row of each key
  sent,      \* transactions broadcast for each key
  loop,      \* each loop: program counter, order at hand, its key, count read
  faults,    \* crashes, database errors, early and late settlements so far
  counted    \* history variable: keys whose swap the DCA counted

vars == <<loops, whole, hour, limit, dca, swap, sent, loop, faults, counted>>

-----------------------------------------------------------------------------
(* Orders, keys and initial state.                                         *)

OrderStatus == {"none", "pending", "triggered", "executed", "cancelled", "expired", "failed"}

DCAStatus == {"none", "active", "paused", "completed", "cancelled"}

\* submitted stands for completed too, and confirming for pending: nothing here
\* tells them apart.  reverted is failed with a transaction hash on record.
SwapStatus == {"none", "executing", "submitted", "confirming", "failed", "reverted"}

FailedStatus == {"failed", "reverted"}

\* The statuses of a row with a transaction hash.
Hashed == {"submitted", "confirming", "reverted"}

Hours == 0..MaxHour

\* idempotency_key: lo:{id}:{hour} and dca:{id}:{executions_completed}:{hour}.
Keys ==
  [order : {"limit"}, slot : {0}, hour : Hours]
    \cup [order : {"dca"}, slot : 0..(MaxExecutions - 1), hour : Hours]

DcaKeys == {k \in Keys : k.order = "dca"}

LimitKeys == Keys \ DcaKeys

IdleLoop == [pc |-> "idle", order |-> "none", slot |-> 0, hour |-> 0, count |-> 0]

\* A DCA order of the bot or of WhatsApp is due at once, one of the terminal,
\* which writes its amount with a decimal point, in an interval.
NewDca == [status : {"active"}, n : {0}, next : IF whole THEN {0} ELSE {0, 1}]

NoDca == [status |-> "none", n |-> 0, next |-> 0]

\* There is a limit order or a DCA order: they share no row and no key.
Init ==
  /\ loops \in (SUBSET Loops) \ {{}}
  /\ whole \in BOOLEAN
  /\ hour = 0
  /\ \/ limit = "pending" /\ dca = NoDca
     \/ limit = "none" /\ dca \in NewDca
  /\ swap = [k \in Keys |-> "none"]
  /\ sent = [k \in Keys |-> 0]
  /\ loop = [l \in Loops |-> IdleLoop]
  /\ faults = 0
  /\ counted = {}

config == <<loops, whole, hour>>

At(l, pc) == loop[l].pc = pc

Goto(l, pc) == loop' = [loop EXCEPT ![l].pc = pc]

\* The key of the swap the loop is making.
Key(l) == [order |-> loop[l].order, slot |-> loop[l].slot, hour |-> loop[l].hour]

\* The item is over: a limit order is followed by the DCA check, a DCA order
\* by the loop's sleep.
Leave(l) ==
  loop' = [loop EXCEPT ![l] =
             [IdleLoop EXCEPT !.pc = IF loop[l].order = "limit" THEN "dues" ELSE "idle"]]

\* A process dies, a database call raises, or a row is settled early or late.
Fault ==
  /\ faults < MaxFaults
  /\ faults' = faults + 1

-----------------------------------------------------------------------------
(* check_limit_orders.                                                     *)

\* Mutant: a triggered order that was not executed is fetched again.
FetchedAgain == {"pending", "triggered"}

\* The statuses phase 1 reads.
Fetched == {"pending"}

\* Phase 1: the order is read, or has expired, or there is none to read.
FetchPending(l) ==
  /\ At(l, "idle")
  /\ \/ limit \in Fetched /\ Goto(l, "prices") /\ UNCHANGED limit
     \/ limit \in Fetched /\ limit' = "expired" /\ Goto(l, "dues")
     \/ limit \notin Fetched /\ Goto(l, "dues") /\ UNCHANGED limit
  /\ UNCHANGED <<config, dca, swap, sent, faults, counted>>

\* Phases 2 and 3: the prices time out or do not trigger the order; or the
\* fetch raises, which ends the pass; or the order is marked triggered,
\* whatever its status is by now.
MarkTriggered(l) ==
  /\ At(l, "prices")
  /\ \/ (\E pc \in {"dues", "idle"} : Goto(l, pc)) /\ UNCHANGED limit
     \/ /\ limit' = "triggered"
        /\ loop' = [loop EXCEPT ![l].pc = "quote", ![l].order = "limit"]
  /\ UNCHANGED <<config, dca, swap, sent, faults, counted>>

-----------------------------------------------------------------------------
(* check_dca_orders.                                                       *)

\* Mutant: one execution too many.
SlotsLeftOffByOne == dca.n <= MaxExecutions

\* The test of executions_completed against max_executions.
SlotsLeft == dca.n < MaxExecutions

\* Mutant: the key leaves out executions_completed.
SlotUnread == 0

\* The count that goes into the key.
SlotRead == dca.n

\* next_execution_at falls within its hour, so the order may be due only later
\* in it.  A due order that has ended or has no execution left is completed.
CheckDca(l) ==
  LET due == dca.status = "active" /\ dca.next <= hour IN
  /\ At(l, "dues")
  /\ \/ /\ ~due \/ dca.next = hour
        /\ Goto(l, "idle")
        /\ UNCHANGED dca
     \/ /\ due
        /\ dca' = [dca EXCEPT !.status = "completed"]
        /\ Goto(l, "idle")
     \/ /\ due /\ SlotsLeft
        /\ loop' = [loop EXCEPT ![l].pc = "quote", ![l].order = "dca", ![l].slot = SlotRead]
        /\ UNCHANGED dca
  /\ UNCHANGED <<config, limit, swap, sent, faults, counted>>

-----------------------------------------------------------------------------
(* _execute_limit_order and _execute_dca_order up to the swap.             *)

ordersOnly == <<config, limit, dca, swap, sent, faults, counted>>

\* No wallet: return.  The quote raises, or the key is made and execute_swap
\* called.
StartSwap(l) ==
  /\ At(l, "quote")
  /\ \/ Leave(l)
     \/ Goto(l, "raised")
     \/ loop' = [loop EXCEPT ![l].pc = "check", ![l].hour = hour]
  /\ UNCHANGED ordersOnly

-----------------------------------------------------------------------------
(* SwapEngine.execute_swap.                                                *)

\* Mutant: any swap record counts as a swap made.
AcceptedAny(status) == TRUE

\* The statuses the callers take for a swap made.
Accepted(status) == status = "submitted"

\* The swap record is returned to the caller.
Return(l) == IF Accepted(swap[Key(l)]) THEN Goto(l, "record") ELSE Leave(l)

\* _check_idempotency: a row that has not failed is returned; otherwise the
\* quote, the limits, the addresses and the balance are validated.
CheckKey(l) ==
  /\ At(l, "check")
  /\ \/ swap[Key(l)] \notin {"none"} \cup FailedStatus /\ Return(l)
     \/ /\ swap[Key(l)] \in {"none"} \cup FailedStatus
        /\ \E pc \in {"insert", "raised"} : Goto(l, pc)
  /\ UNCHANGED ordersOnly

\* Mutant: no unique index on idempotency_key.
InsertableAgain(k) == TRUE

\* The unique index on idempotency_key admits one row per key, a failed one
\* included.
Insertable(k) == swap[k] = "none"

\* _create_swap_record.
InsertSwap(l) ==
  /\ At(l, "insert")
  /\ \/ /\ Insertable(Key(l))
        /\ swap' = [swap EXCEPT ![Key(l)] = "executing"]
        /\ Goto(l, "provider")
     \/ ~Insertable(Key(l)) /\ Goto(l, "raised") /\ UNCHANGED swap
  /\ UNCHANGED <<config, limit, dca, sent, faults, counted>>

\* The simulation raises, which leaves the row as it is; or the provider's
\* executor returns, or raises with the transaction sent or not sent.
Provide(l) ==
  /\ At(l, "provider")
  /\ \/ (\E pc \in {"raised", "markFailed"} : Goto(l, pc)) /\ UNCHANGED sent
     \/ /\ sent' = [sent EXCEPT ![Key(l)] = @ + 1]
        /\ \E pc \in {"submit", "markFailed"} : Goto(l, pc)
  /\ UNCHANGED <<config, limit, dca, swap, faults, counted>>

\* _update_tx_hash.
Submit(l) ==
  /\ At(l, "submit")
  /\ \/ /\ swap' = [swap EXCEPT ![Key(l)] = "submitted"]
        /\ Goto(l, "refetch")
        /\ UNCHANGED faults
     \/ Fault /\ Goto(l, "markFailed") /\ UNCHANGED swap
  /\ UNCHANGED <<config, limit, dca, sent, counted>>

\* _refetch, by when the poller may have settled the row.
Refetch(l) ==
  /\ At(l, "refetch")
  /\ \/ Return(l) /\ UNCHANGED faults
     \/ Fault /\ Goto(l, "markFailed")
  /\ UNCHANGED <<config, limit, dca, swap, sent, counted>>

\* What _mark_failed makes of a row, whose hash it leaves alone.
Failed(status) == IF status \in Hashed THEN "reverted" ELSE "failed"

\* _mark_failed, whatever the row's status is.
MarkFailed(l) ==
  /\ At(l, "markFailed")
  /\ \/ swap' = [swap EXCEPT ![Key(l)] = Failed(@)] /\ UNCHANGED faults
     \/ Fault /\ UNCHANGED swap
  /\ Goto(l, "raised")
  /\ UNCHANGED <<config, limit, dca, sent, counted>>

-----------------------------------------------------------------------------
(* The rest of _execute_limit_order and _execute_dca_order.                *)

\* The limit order is executed, whatever its status is by now.
RecordExecuted(l) ==
  /\ At(l, "record")
  /\ loop[l].order = "limit"
  /\ \/ limit' = "executed" /\ Leave(l) /\ UNCHANGED faults
     \/ Fault /\ Goto(l, "raised") /\ UNCHANGED limit
  /\ UNCHANGED <<config, dca, swap, sent, counted>>

\* The stats transaction reads the count; int() of an amount that is not whole
\* raises before anything is written.
ReadCount(l) ==
  /\ At(l, "record")
  /\ loop[l].order = "dca"
  /\ IF whole
     THEN loop' = [loop EXCEPT ![l].pc = "stats", ![l].count = dca.n]
     ELSE Goto(l, "raised")
  /\ UNCHANGED ordersOnly

\* It writes the count it read, plus one, and the next execution's time.
WriteCount(l) ==
  /\ At(l, "stats")
  /\ \/ /\ dca' = [dca EXCEPT !.n = loop[l].count + 1, !.next = hour + 1]
        /\ counted' = counted \cup {Key(l)}
        /\ Leave(l)
        /\ UNCHANGED faults
     \/ Fault /\ Goto(l, "raised") /\ UNCHANGED <<dca, counted>>
  /\ UNCHANGED <<config, limit, swap, sent>>

\* The except clauses: a limit order fails, whatever its status is; a DCA order
\* is only logged, and stays due.
HandleError(l) ==
  /\ At(l, "raised")
  /\ limit' = IF loop[l].order = "limit" THEN "failed" ELSE limit
  /\ Leave(l)
  /\ UNCHANGED <<config, dca, swap, sent, faults, counted>>

-----------------------------------------------------------------------------
(* Everyone else.                                                          *)

\* A process that runs the loop dies and starts again.
Crash(l) ==
  /\ ~At(l, "idle")
  /\ Fault
  /\ loop' = [loop EXCEPT ![l] = IdleLoop]
  /\ UNCHANGED <<config, limit, dca, swap, sent, counted>>

\* The clock's hour.
Tick ==
  /\ hour < MaxHour
  /\ hour' = hour + 1
  /\ UNCHANGED <<loops, whole, limit, dca, swap, sent, loop, faults, counted>>

\* A loop is at the swap of k and may still record it.
InFlight(k) == \E l \in loops : Key(l) = k

\* The transaction poller and the user's status button follow a swap.  The loop
\* does not take confirming for a swap made, so a row that is confirming before
\* the loop has read it back is a fault.
PollSwap(k) ==
  /\ \/ /\ swap[k] = "submitted"
        /\ swap' = [swap EXCEPT ![k] = "confirming"]
        /\ IF InFlight(k) THEN Fault ELSE UNCHANGED faults
     \/ /\ swap[k] \in {"submitted", "confirming"}
        /\ \E status \in {"submitted", "reverted"} : swap' = [swap EXCEPT ![k] = status]
        /\ UNCHANGED faults
  /\ UNCHANGED <<config, limit, dca, sent, loop, counted>>

\* A row that failed with a hash comes back: the execution reconciler finds the
\* swap delivered, or the status button writes over it what it is told.
ReviveSwap(k) ==
  /\ swap[k] = "reverted"
  /\ \E status \in {"submitted", "confirming"} : swap' = [swap EXCEPT ![k] = status]
  /\ Fault
  /\ UNCHANGED <<config, limit, dca, sent, loop, counted>>

\* An API process starts: executing rows of ten minutes and no hash have failed.
SweepOrphan(k) ==
  /\ swap[k] = "executing"
  /\ swap' = [swap EXCEPT ![k] = "failed"]
  /\ UNCHANGED <<config, limit, dca, sent, loop, faults, counted>>

-----------------------------------------------------------------------------
(* The user: the bot and WhatsApp, the terminal, the mobile API.           *)

userOnly == <<config, swap, sent, loop, faults, counted>>

\* The limit order is set to cancelled if its status is one of these.
CancelLimitFrom(statuses) ==
  /\ limit \in statuses \ {"none"}
  /\ limit' = "cancelled"
  /\ UNCHANGED <<dca, userOnly>>

cancel_order == CancelLimitFrom({"pending"})

cancel_terminal_limit_order == CancelLimitFrom({"pending", "triggered"})

mobile_cancel_order == CancelLimitFrom(OrderStatus)

\* The DCA order's status is set if it is one of these.
SetDcaFrom(statuses, status) ==
  /\ dca.status \in statuses \ {"none"}
  /\ dca' = [dca EXCEPT !.status = status]
  /\ UNCHANGED <<limit, userOnly>>

pause_dca == SetDcaFrom({"active"}, "paused")

pause_terminal_dca_order == SetDcaFrom(DCAStatus \ {"cancelled"}, "paused")

mobile_pause_dca == SetDcaFrom(DCAStatus, "paused")

cancel_dca == SetDcaFrom({"active", "paused"}, "cancelled")

cancel_terminal_dca_order == SetDcaFrom(DCAStatus, "cancelled")

mobile_cancel_dca == SetDcaFrom(DCAStatus, "cancelled")

\* The bot resumes a paused order, which is due at once.
resume_dca ==
  /\ dca.status = "paused"
  /\ dca' = [dca EXCEPT !.status = "active", !.next = hour]
  /\ UNCHANGED <<limit, userOnly>>

\* The mobile API resumes any order, which is due in an interval.
mobile_resume_dca ==
  /\ dca.status # "none"
  /\ dca' = [dca EXCEPT !.status = "active", !.next = hour + 1]
  /\ UNCHANGED <<limit, userOnly>>

User ==
  \/ cancel_order \/ cancel_terminal_limit_order \/ mobile_cancel_order
  \/ pause_dca \/ pause_terminal_dca_order \/ mobile_pause_dca
  \/ cancel_dca \/ cancel_terminal_dca_order \/ mobile_cancel_dca
  \/ resume_dca \/ mobile_resume_dca

-----------------------------------------------------------------------------
(* Specification.                                                          *)

\* The steps of a pass of _order_loop.
Pass(l) ==
  \/ FetchPending(l) \/ MarkTriggered(l) \/ CheckDca(l) \/ StartSwap(l)
  \/ CheckKey(l) \/ InsertSwap(l) \/ Provide(l) \/ Submit(l) \/ Refetch(l) \/ MarkFailed(l)
  \/ RecordExecuted(l) \/ ReadCount(l) \/ WriteCount(l) \/ HandleError(l)

Next ==
  \/ \E l \in loops : Pass(l) \/ Crash(l)
  \/ \E k \in Keys : PollSwap(k) \/ ReviveSwap(k) \/ SweepOrphan(k)
  \/ Tick
  \/ User

Spec == Init /\ [][Next]_vars

-----------------------------------------------------------------------------
(* Properties.                                                             *)

TypeOK ==
  /\ loops \in (SUBSET Loops) \ {{}}
  /\ whole \in BOOLEAN
  /\ hour \in Hours
  /\ limit \in OrderStatus
  /\ dca \in [status : DCAStatus, n : Nat, next : 0..(MaxHour + 1)]
  /\ swap \in [Keys -> SwapStatus]
  /\ sent \in [Keys -> Nat]
  /\ loop \in [Loops ->
       [pc : {"idle", "prices", "dues", "quote", "check", "insert", "provider", "submit",
              "refetch", "markFailed", "record", "stats", "raised"},
        order : {"none", "limit", "dca"}, slot : 0..(MaxExecutions - 1), hour : Hours,
        count : Nat]]
  /\ faults \in 0..MaxFaults
  /\ counted \subseteq DcaKeys

\* One idempotency key broadcasts at most one transaction, in whatever processes,
\* through failed rows, swept rows and restarts.
SentOncePerKey == \A k \in Keys : sent[k] <= 1

\* A limit order called executed was broadcast, although the loop may have been
\* handed the row of another loop's attempt.
ExecutedIsSent == limit = "executed" => \E k \in LimitKeys : sent[k] > 0

\* With one loop, a limit order is swapped at most once, through restarts, lost
\* answers and the change of the hour; and it is called failed after a broadcast
\* only if its swap's row failed too, or a crash, a database error or a
\* settlement at the wrong time came between.
LimitOnceInOneLoop ==
  Cardinality(loops) = 1 =>
    /\ \A k1, k2 \in LimitKeys : sent[k1] > 0 /\ sent[k2] > 0 => k1 = k2
    /\ \A k \in LimitKeys :
         limit = "failed" /\ sent[k] > 0 => swap[k] \in FailedStatus \/ faults > 0

\* With one loop and a whole amount, the DCA's count is the number of swaps it
\* counted and stays within its limit; a broadcast it does not count is one
\* whose row is failed, or costs one of these: a crash, a database error, a row
\* confirming before the loop has read it back, a row completed after it failed.
DcaCountInOneLoop ==
  Cardinality(loops) = 1 /\ whole =>
    /\ dca.n = Cardinality(counted)
    /\ dca.n <= MaxExecutions
    /\ Cardinality({k \in DcaKeys \ counted :
                      sent[k] > 0 /\ swap[k] \notin FailedStatus /\ ~InFlight(k)}) <= faults

=============================================================================
