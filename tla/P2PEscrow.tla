------------------------------ MODULE P2PEscrow ------------------------------
(***************************************************************************)
(* Native P2P trades: bot/services/p2p_service.py, the transfers of        *)
(* bot/services/p2p_escrow_executor.py and HotWalletService.send_token,    *)
(* and the commands of bot/handlers that call them.                        *)
(*                                                                         *)
(* The taker's conversation opens a trade and, when the taker buys, moves  *)
(* the seller's funds into the escrow wallet.  Operators release, refund   *)
(* and arbitrate; a party opens a dispute.  Each call reads or reserves    *)
(* the trade in one transaction, moves funds, and writes the outcome in    *)
(* another; any number of calls interleave between those steps.  A call    *)
(* may be aborted between any two of them: the process dies, or a write to *)
(* the database raises.                                                    *)
(*                                                                         *)
(* All payouts leave one wallet, which may also serve withdrawals.         *)
(* send_token takes the number of mined transactions as its nonce, so the  *)
(* network holds at most one pending transaction of the wallet: another    *)
(* one with the same nonce is refused, or replaces the first when its gas  *)
(* price is enough higher.                                                 *)
(***************************************************************************)
EXTENDS Naturals, Sequences, FiniteSets

CONSTANTS
  Trades,         \* native trades
  Callers,        \* concurrent calls of operators' commands
  NoTx,           \* the wallet has no pending transaction
  OtherTx,        \* a transaction of the wallet that is no payout of a trade
  NoTrade,        \* an idle caller
  MaxMined        \* bound on the wallet's mined transactions, for TLC

ASSUME P2PAssumption ==
  /\ NoTrade \notin Trades
  /\ NoTx # OtherTx
  /\ {NoTx, OtherTx} \cap [trade : Trades, to : {"buyer", "seller"}] = {}
  /\ MaxMined \in Nat

VARIABLES
  trade,      \* the p2p_trades rows
  opening,    \* the conversation that opened each trade
  deposit,    \* the seller's transfer into escrow, on chain
  call,       \* each caller: program counter, operation, trade, nonce
  pool,       \* the escrow wallet's pending transaction
  mined,      \* how many of its transactions were mined: its next nonce
  paid,       \* what was mined for each trade, in order
  points,     \* how often each trade's parties were awarded points
  mishaps     \* history variable: what has gone wrong with each trade

vars == <<trade, opening, deposit, call, pool, mined, paid, points, mishaps>>

-----------------------------------------------------------------------------
(* Rows, calls and initial state.                                          *)

Parties == {"buyer", "seller"}

P2PTradeStatus ==
  {"initiated", "escrow_locked", "fiat_pending", "fiat_sent", "released", "completed",
   "cancelled", "disputed", "resolving"}

NoRow == [status |-> "none", seller |-> FALSE, lockTx |-> FALSE, releaseTx |-> FALSE]

\* release_escrow, cancel_trade, and the two resolutions of resolve_dispute.
Operations == {"release", "cancel", "resolve_release", "resolve_refund"}

Resolutions == {"resolve_release", "resolve_refund"}

PayeeOf(op) == IF op \in {"release", "resolve_release"} THEN "buyer" ELSE "seller"

Transactions == [trade : Trades, to : Parties]

\* What the history variable tells apart:
\*   release    a release was sent and not recorded, or reserved while another
\*              call was moving the same funds
\*   resolve    a resolution was sent, its answer lost, and the dispute reopened
\*   replaced   a transaction of the trade was replaced by another one
\*   reverted   a transaction of the trade was mined and reverted
\*   unrefunded the trade was cancelled and its refund skipped or given up
\*   abandoned  a resolution was aborted
Mishaps == {"release", "resolve", "replaced", "reverted", "unrefunded", "abandoned"}

Happens(t, kinds) == mishaps' = [mishaps EXCEPT ![t] = @ \cup kinds]

When(condition, kind) == IF condition THEN {kind} ELSE {}

Idle == [pc |-> "idle", op |-> "none", trade |-> NoTrade, nonce |-> 0]

Init ==
  /\ trade = [t \in Trades |-> NoRow]
  /\ opening = [t \in Trades |-> "none"]
  /\ deposit = [t \in Trades |-> "none"]
  /\ call = [c \in Callers |-> Idle]
  /\ pool = NoTx
  /\ mined = 0
  /\ paid = [t \in Trades |-> <<>>]
  /\ points = [t \in Trades |-> 0]
  /\ mishaps = [t \in Trades |-> {}]

-----------------------------------------------------------------------------
(* Opening a trade: start_trade and lock_escrow in the taker's             *)
(* conversation, then the "I've paid" button.                              *)

walletVars == <<pool, mined, paid>>

\* start_trade; the buyer's address is recorded, the seller's if there is a valid
\* one.  A taker who sells crypto is never asked to lock.
StartTrade(t) ==
  /\ opening[t] = "none"
  /\ \E known \in BOOLEAN :
       trade' = [trade EXCEPT ![t].status = "initiated", ![t].seller = known]
  /\ \E next \in {"locking", "open"} : opening' = [opening EXCEPT ![t] = next]
  /\ UNCHANGED <<deposit, call, walletVars, points, mishaps>>

\* _lock_from_seller broadcasts the seller's transfer.
SendDeposit(t) ==
  /\ opening[t] = "locking"
  /\ deposit[t] = "none"
  /\ deposit' = [deposit EXCEPT ![t] = "sent"]
  /\ UNCHANGED <<trade, opening, call, walletVars, points, mishaps>>

\* The network mines the transfer, perhaps after nobody waits for it any more.
MineDeposit(t) ==
  /\ deposit[t] = "sent"
  /\ \E outcome \in {"in", "reverted"} : deposit' = [deposit EXCEPT ![t] = outcome]
  /\ UNCHANGED <<trade, opening, call, walletVars, points, mishaps>>

\* wait_for_transaction_receipt returns a successful receipt.
DepositReceipt(t) ==
  /\ opening[t] = "locking"
  /\ deposit[t] = "in"
  /\ opening' = [opening EXCEPT ![t] = "received"]
  /\ UNCHANGED <<trade, deposit, call, walletVars, points, mishaps>>

\* The transfer cannot be built or sent, reverts or times out, or the process
\* dies; the conversation ends without an active trade.
LockRaises(t) ==
  /\ opening[t] \in {"locking", "received"}
  /\ opening' = [opening EXCEPT ![t] = "over"]
  /\ UNCHANGED <<trade, deposit, call, walletVars, points, mishaps>>

\* The update that ends lock_escrow, whatever the row's status is by now.
RecordLock(t) ==
  /\ opening[t] = "received"
  /\ trade' = [trade EXCEPT ![t].status = "escrow_locked", ![t].lockTx = TRUE]
  /\ opening' = [opening EXCEPT ![t] = "open"]
  /\ UNCHANGED <<deposit, call, walletVars, points, mishaps>>

PreSettlement == {"initiated", "escrow_locked", "fiat_pending"}

\* mark_fiat_sent; the conversation forgets the trade whether or not it won.
MarkFiatSent(t) ==
  /\ opening[t] = "open"
  /\ opening' = [opening EXCEPT ![t] = "over"]
  /\ trade' = IF trade[t].status \in PreSettlement
                THEN [trade EXCEPT ![t].status = "fiat_sent"] ELSE trade
  /\ UNCHANGED <<deposit, call, walletVars, points, mishaps>>

-----------------------------------------------------------------------------
(* Reservations: the compare-and-set updates that come before a transfer.  *)

tradeVars == <<opening, deposit, walletVars, points>>

At(c, pc) == call[c].pc = pc

Return(c) == call' = [call EXCEPT ![c] = Idle]

Goto(c, pc) == call' = [call EXCEPT ![c].pc = pc]

Enter(c, pc, op, t) ==
  call' = [call EXCEPT ![c] = [pc |-> pc, op |-> op, trade |-> t, nonce |-> 0]]

\* A call that has reserved t and not yet recorded what it did.
Moving(c, t) == call[c].trade = t /\ call[c].pc \in {"build", "send", "record"}

Escrowed(t) == trade[t].lockTx /\ ~trade[t].releaseTx

\* Mutant: the reservation forgets that the release may be on record.
ReleasableAgain(t) ==
  /\ trade[t].lockTx
  /\ trade[t].status \in {"escrow_locked", "fiat_sent", "released", "completed"}

\* Mutant: a trade is releasable before its escrow is locked.
ReleasableUnlocked(t) ==
  /\ ~trade[t].releaseTx
  /\ trade[t].status \in {"escrow_locked", "fiat_sent", "released"}

\* The filter of _reserve_for_release.
Releasable(t) ==
  /\ Escrowed(t)
  /\ trade[t].status \in {"escrow_locked", "fiat_sent", "released"}

\* release_escrow up to its reservation.  A caller that reserves while another
\* one is moving the funds of the same trade may pay again.
ReserveForRelease(c, t) ==
  /\ At(c, "idle")
  /\ Releasable(t)
  /\ trade' = [trade EXCEPT ![t].status = "released"]
  /\ Enter(c, "build", "release", t)
  /\ Happens(t, When(\E d \in Callers : Moving(d, t), "release"))
  /\ UNCHANGED tradeVars

\* cancel_trade reads the trade and turns away from frozen and paid ones; a
\* refund needs the seller's address.
ReadForCancel(c, t) ==
  /\ At(c, "idle")
  /\ trade[t].status \notin {"none", "disputed", "resolving", "fiat_sent"}
  /\ \/ trade[t].status = "escrow_locked" /\ trade[t].seller /\ Enter(c, "read", "cancel", t)
     \/ trade[t].status # "escrow_locked" /\ Enter(c, "overwrite", "cancel", t)
  /\ UNCHANGED <<trade, tradeVars, mishaps>>

\* Mutant: the refund is reserved on the status read before.
CancellableUnchecked(t) == TRUE

\* The filter of _reserve_for_cancel.
Cancellable(t) == trade[t].status = "escrow_locked"

\* _reserve_for_cancel; a caller that loses raises.
ReserveForCancel(c) ==
  LET t == call[c].trade IN
  /\ At(c, "read")
  /\ \/ /\ Cancellable(t)
        /\ trade' = [trade EXCEPT ![t].status = "cancelled"]
        /\ Goto(c, "build")
     \/ /\ ~Cancellable(t)
        /\ Return(c)
        /\ UNCHANGED trade
  /\ UNCHANGED <<tradeVars, mishaps>>

\* The other branch of cancel_trade: an unconditional update, of whatever the
\* row has become since it was read.
OverwriteCancelled(c) ==
  LET t == call[c].trade IN
  /\ At(c, "overwrite")
  /\ trade' = [trade EXCEPT ![t].status = "cancelled"]
  /\ Happens(t, When(trade[t].lockTx, "unrefunded"))
  /\ Return(c)
  /\ UNCHANGED tradeVars

\* Mutant: a release under way can be disputed.
DisputableReleased(t) ==
  Escrowed(t) /\ trade[t].status \in {"escrow_locked", "fiat_sent", "released"}

\* The filter of _reserve_for_dispute.
Disputable(t) == Escrowed(t) /\ trade[t].status \in {"escrow_locked", "fiat_sent"}

\* open_dispute by a party below its cap of open disputes; the reason it writes
\* in a second transaction is never read by an operation.
OpenDispute(t) ==
  /\ Disputable(t)
  /\ trade' = [trade EXCEPT ![t].status = "disputed"]
  /\ UNCHANGED <<call, tradeVars, mishaps>>

\* What resolve_dispute reads and the filter of _reserve_from_dispute.
Resolvable(t) == Escrowed(t) /\ trade[t].status = "disputed"

\* resolve_dispute up to its reservation.
ReserveFromDispute(c, t, op) ==
  /\ At(c, "idle")
  /\ op \in Resolutions
  /\ op = "resolve_refund" => trade[t].seller
  /\ Resolvable(t)
  /\ trade' = [trade EXCEPT ![t].status = "resolving"]
  /\ Enter(c, "build", op, t)
  /\ UNCHANGED <<tradeVars, mishaps>>

-----------------------------------------------------------------------------
(* Moving the funds: p2p_escrow_executor and send_token.                   *)

\* Mutant: the nonce skips the one that is free.
NextNonceAhead == mined + 1

\* get_transaction_count of the escrow wallet: mined transactions only.
NextNonce == mined

\* The executor checks its configuration; send_token builds and signs.
BuildTransfer(c) ==
  /\ At(c, "build")
  /\ call' = [call EXCEPT ![c].pc = "send", ![c].nonce = NextNonce]
  /\ UNCHANGED <<trade, tradeVars, mishaps>>

\* Where an exception out of the transfer leads: resolve_dispute reverts its
\* reservation, the other callers let it escape.
Raised(c) == IF call[c].op \in Resolutions THEN "revert" ELSE "idle"

Raise(c) ==
  call' = [call EXCEPT ![c] = IF Raised(c) = "idle" THEN Idle ELSE [@ EXCEPT !.pc = Raised(c)]]

\* The kill switch, the recipient's screening, an RPC call or the signature
\* fails, or the node refuses the transaction, so nothing is sent.
TransferFails(c) ==
  /\ call[c].pc \in {"build", "send"}
  /\ Raise(c)
  /\ Happens(call[c].trade, When(call[c].op = "cancel", "unrefunded"))
  /\ UNCHANGED <<trade, tradeVars>>

TransferOf(c) == [trade |-> call[c].trade, to |-> PayeeOf(call[c].op)]

\* The node takes a transaction with the next nonce: there is none pending, or
\* the new one pays enough more to replace it.
NodeTakes(c) == call[c].nonce = mined

\* The trade that loses its pending transaction to the one of c.
Replaced(c) == IF pool \in Transactions \ {TransferOf(c)} THEN {pool.trade} ELSE {}

\* The node takes the transaction of c.
Pool(c, kinds) ==
  /\ At(c, "send")
  /\ NodeTakes(c)
  /\ pool' = TransferOf(c)
  /\ mishaps' = [t \in Trades |->
       mishaps[t] \cup When(t \in Replaced(c), "replaced")
                  \cup (IF t = call[c].trade THEN kinds ELSE {})]
  /\ UNCHANGED <<trade, opening, deposit, mined, paid, points>>

\* send_raw_transaction returns: cancel_trade is over, the others record.
SendTransfer(c) ==
  /\ Pool(c, {})
  /\ IF call[c].op = "cancel" THEN Return(c) ELSE Goto(c, "record")

\* The node takes the transaction and the answer is lost, which raises
\* PostBroadcastAmbiguous: a release or a resolution may now be repeated.
LoseAnswer(c) ==
  /\ Pool(c, When(call[c].op = "release", "release")
             \cup When(call[c].op \in Resolutions, "resolve"))
  /\ Raise(c)

\* Another service sends from the same wallet.
OtherTransfer ==
  /\ mined < MaxMined
  /\ pool # OtherTx
  /\ pool' = OtherTx
  /\ mishaps' = [t \in Trades |->
       mishaps[t] \cup When(pool \in Transactions /\ pool.trade = t, "replaced")]
  /\ UNCHANGED <<trade, opening, deposit, call, mined, paid, points>>

\* The network mines the wallet's pending transaction and it takes effect.
MinePayout ==
  /\ pool # NoTx
  /\ mined < MaxMined
  /\ mined' = mined + 1
  /\ paid' = IF pool = OtherTx THEN paid
             ELSE [paid EXCEPT ![pool.trade] = Append(@, pool.to)]
  /\ pool' = NoTx
  /\ UNCHANGED <<trade, opening, deposit, call, points, mishaps>>

\* The network mines a payout and it reverts: its nonce is spent, nobody is paid,
\* and nobody learns of it, since send_token returns without a receipt.
RevertPayout ==
  /\ pool \in Transactions
  /\ mined < MaxMined
  /\ mined' = mined + 1
  /\ pool' = NoTx
  /\ Happens(pool.trade, {"reverted"})
  /\ UNCHANGED <<trade, opening, deposit, call, paid, points>>

-----------------------------------------------------------------------------
(* Recording the outcome.                                                  *)

Settlement(op) == IF PayeeOf(op) = "buyer" THEN "completed" ELSE "cancelled"

\* Mutant: a refund by the arbiter completes the trade.
SettledAsCompleted(t, op) == [trade[t] EXCEPT !.status = "completed", !.releaseTx = TRUE]

\* The row release_escrow or resolve_dispute leaves.
Settled(t, op) == [trade[t] EXCEPT !.status = Settlement(op), !.releaseTx = TRUE]

\* The update after the transfer, whatever the row's status is by now, and
\* _award_p2p_points when the buyer was paid.
RecordPayout(c) ==
  LET t == call[c].trade IN
  /\ At(c, "record")
  /\ trade' = [trade EXCEPT ![t] = Settled(t, call[c].op)]
  /\ points' = IF PayeeOf(call[c].op) = "buyer"
                 THEN [points EXCEPT ![t] = @ + 1] ELSE points
  /\ Return(c)
  /\ UNCHANGED <<opening, deposit, walletVars, mishaps>>

\* Mutant: a failed resolution is left as it is.
RevertedNowhere == "resolving"

\* Mutant: a failed resolution closes the trade.
RevertedToCancelled == "cancelled"

\* The status resolve_dispute goes back to.
Reverted == "disputed"

\* resolve_dispute after an exception: back to disputed, whatever the row's
\* status is by now.
RevertDispute(c) ==
  /\ At(c, "revert")
  /\ trade' = [trade EXCEPT ![call[c].trade].status = Reverted]
  /\ Return(c)
  /\ UNCHANGED <<tradeVars, mishaps>>

\* The process dies, or the write that should follow raises.
Abort(c) ==
  /\ ~At(c, "idle")
  /\ Return(c)
  /\ Happens(call[c].trade,
       When(At(c, "record") /\ call[c].op = "release", "release")
       \cup When(call[c].pc \in {"build", "send"} /\ call[c].op = "cancel", "unrefunded")
       \cup When(call[c].op \in Resolutions, "abandoned"))
  /\ UNCHANGED <<trade, tradeVars>>

-----------------------------------------------------------------------------
(* Specification.                                                          *)

Conversation(t) ==
  \/ StartTrade(t)
  \/ SendDeposit(t)
  \/ DepositReceipt(t)
  \/ LockRaises(t)
  \/ RecordLock(t)
  \/ MarkFiatSent(t)

Command(c, t) ==
  \/ ReserveForRelease(c, t)
  \/ ReadForCancel(c, t)
  \/ \E op \in Resolutions : ReserveFromDispute(c, t, op)

\* The steps of a call under way.
Proceed(c) ==
  \/ ReserveForCancel(c)
  \/ OverwriteCancelled(c)
  \/ BuildTransfer(c)
  \/ TransferFails(c)
  \/ SendTransfer(c)
  \/ LoseAnswer(c)
  \/ RecordPayout(c)
  \/ RevertDispute(c)

Next ==
  \/ \E t \in Trades : Conversation(t) \/ MineDeposit(t) \/ OpenDispute(t)
  \/ \E c \in Callers, t \in Trades : Command(c, t)
  \/ \E c \in Callers : Proceed(c) \/ Abort(c)
  \/ OtherTransfer
  \/ MinePayout
  \/ RevertPayout

Spec == Init /\ [][Next]_vars

\* Every call under way goes on: its awaits time out and raise.
FairSpec == Spec /\ \A c \in Callers : WF_vars(Proceed(c))

-----------------------------------------------------------------------------
(* Properties.                                                             *)

TypeOK ==
  /\ trade \in [Trades -> [status : P2PTradeStatus \cup {"none"},
                           seller : BOOLEAN, lockTx : BOOLEAN, releaseTx : BOOLEAN]]
  /\ opening \in [Trades -> {"none", "locking", "received", "open", "over"}]
  /\ deposit \in [Trades -> {"none", "sent", "in", "reverted"}]
  /\ call \in [Callers ->
       [pc : {"idle", "read", "overwrite", "build", "send", "record", "revert"},
        op : Operations \cup {"none"}, trade : Trades \cup {NoTrade}, nonce : 0..MaxMined]]
  /\ pool \in Transactions \cup {NoTx, OtherTx}
  /\ mined \in 0..MaxMined
  /\ paid \in [Trades -> Seq(Parties)]
  /\ points \in [Trades -> Nat]
  /\ mishaps \in [Trades -> SUBSET Mishaps]

\* The payouts of t that were mined or may still be.
Payouts(t) == Len(paid[t]) + (IF pool \in Transactions /\ pool.trade = t THEN 1 ELSE 0)

\* Whom t's payouts go to.
Payees(t) ==
  {paid[t][i] : i \in DOMAIN paid[t]} \cup
  (IF pool \in Transactions /\ pool.trade = t THEN {pool.to} ELSE {})

\* Releases, refunds and resolutions of a trade, in any interleaving and with
\* any of them failing before it is sent, pay it out once and award its points
\* once.  Excepted are the trades whose second payout the code lets happen: two
\* releases at once, which _reserve_for_release both lets through, a release sent
\* and not recorded, and a resolution whose answer was lost.
SettledOnce ==
  \A t \in Trades :
    mishaps[t] \cap {"release", "resolve"} = {} => Payouts(t) <= 1 /\ points[t] <= 1

\* Whatever happens to releases and refunds, lost answers and repeated releases
\* included, buyer and seller are both paid only if an arbiter's own transfer
\* was sent, its answer lost, and the reopened dispute decided the other way.
OnePartyIsPaid ==
  \A t \in Trades : Payees(t) = Parties => "resolve" \in mishaps[t]

\* A dispute freezes the escrow: from then until it is resolved no release and
\* no refund is under way, not even one that began before the dispute.
DisputeFreezes ==
  \A c \in Callers : \A t \in Trades :
    trade[t].status \in {"disputed", "resolving"} /\ Moving(c, t) => call[c].op \in Resolutions

\* A payout of t was lost after the node took it: release_escrow, cancel_trade
\* and resolve_dispute write their outcome at the broadcast and never learn.
Lost(t) == mishaps[t] \cap {"replaced", "reverted"} # {}

\* A row that says completed stands for a payout to the buyer that was mined or
\* may still be, whatever releases, refunds and resolutions raced; what it does
\* not show is a payout lost after its broadcast.
CompletedIsPaid ==
  \A t \in Trades : trade[t].status = "completed" => "buyer" \in Payees(t) \/ Lost(t)

\* A cancelled trade whose escrow was recorded has been paid back, or is being;
\* only a cancellation that skipped the refund or whose refund failed, or a
\* payout lost after its broadcast, leaves the funds behind.
CancelledIsRefunded ==
  \A t \in Trades :
    trade[t].status = "cancelled" /\ trade[t].lockTx =>
      \/ Payees(t) # {}
      \/ \E c \in Callers : Moving(c, t)
      \/ "unrefunded" \in mishaps[t]
      \/ Lost(t)

\* A resolution ends, in a settled trade or in a dispute that can be resolved
\* again, unless the call that makes it is aborted.
ResolutionEnds ==
  \A t \in Trades :
    trade[t].status = "resolving" ~>
      trade[t].status # "resolving" \/ "abandoned" \in mishaps[t]

\* The detailed trade implements the escrow account of EscrowAccounts: a payout
\* counts when it is mined, a deposit when it is in the escrow wallet.
Accounts == INSTANCE EscrowAccounts WITH
  funded <- {t \in Trades : deposit[t] = "in"},
  payments <- paid,
  doubtful <- {t \in Trades : mishaps[t] \cap {"release", "resolve"} # {}}

\* The money of a trade leaves escrow only after it came in, and once unless the
\* service lost track of a payout, whatever the order of the calls.
ImplementsAccounts == Accounts!Spec

=============================================================================
