----------------------------- MODULE CctpRelayer -----------------------------
(***************************************************************************)
(* Generic CCTP transfers: the burn made by swap_engine._execute_cctp_swap *)
(* and its completion by bot/services/cctp_generic_relayer.py.             *)
(*                                                                         *)
(* The swap engine records the burn, broadcasts it and promotes the row.   *)
(* Replicas of the relayer look up burns left unpromoted, claim burned     *)
(* deposits under a lease of five minutes, fetch Circle's attestation and  *)
(* submit receiveMessage on the destination chain, which consumes the      *)
(* message's nonce once.  A pass claims every eligible row and then        *)
(* handles them one after the other, waiting up to three minutes for each  *)
(* receipt, so a lease may lapse under its holder.                         *)
(*                                                                         *)
(* The database calls are transactions of their own; everything between    *)
(* them awaits.  Times are abstracted: a lease may lapse at any moment,    *)
(* a deposit may become a day old at any moment, and backoff lets a pass   *)
(* skip any deposit.                                                       *)
(***************************************************************************)
EXTENDS Naturals

CONSTANTS
  Deposits,       \* burns
  Relayers,       \* replicas of the relayer
  NoDeposit,      \* a relayer between two deposits
  MaxAttempts,    \* MAX_ATTEMPTS
  MaxCrashes,     \* bound on the relayers' crashes, for TLC
  MaxRequeues     \* bound on requeue_failed calls, for TLC

ASSUME CctpAssumption ==
  /\ NoDeposit \notin Deposits
  /\ MaxAttempts \in Nat \ {0}
  /\ MaxCrashes \in Nat
  /\ MaxRequeues \in Nat

VARIABLES
  engine,     \* the swap engine's call for each deposit: its program counter
  row,        \* the cctp_generic_deposits rows
  aged,       \* rows older than STALL_TERMINAL_HOURS
  burn,       \* the burn transaction on the source chain
  attested,   \* burns whose message and attestation Circle serves
  used,       \* messages whose nonce is consumed: the USDC is minted
  pending,    \* receiveMessage transactions not yet mined: relayer and deposit
  relayer,    \* each relayer: program counter, deposits to do, current deposit
  crashes,    \* crashes so far
  requeues,   \* requeue_failed calls so far
  lapsed      \* history variable: deposits whose claim ended under its holder

vars == <<engine, row, aged, burn, attested, used, pending, relayer, crashes, requeues, lapsed>>

-----------------------------------------------------------------------------
(* Rows, relayers and initial state.                                       *)

NoRow == [status |-> "none", attempts |-> 0, claimed |-> FALSE]

\* Mutant: a status no operation knows.
RecordedAsPending == [NoRow EXCEPT !.status = "pending"]

\* What record_burn inserts.
RecordedRow == [status |-> "pending_broadcast", attempts |-> 0, claimed |-> FALSE]

IdleRelayer == [pc |-> "idle", todo |-> {}, dep |-> NoDeposit]

Init ==
  /\ engine = [d \in Deposits |-> "start"]
  /\ row = [d \in Deposits |-> NoRow]
  /\ aged = {}
  /\ burn = [d \in Deposits |-> "none"]
  /\ attested = {}
  /\ used = {}
  /\ pending = {}
  /\ relayer = [r \in Relayers |-> IdleRelayer]
  /\ crashes = 0
  /\ requeues = 0
  /\ lapsed = {}

SetRow(d, status) == row' = [row EXCEPT ![d].status = status]

boundVars == <<crashes, requeues>>

chainVars == <<burn, attested, used, pending>>

-----------------------------------------------------------------------------
(* The swap engine.                                                        *)

\* Mutant: a failed record is logged and the burn sent all the same.
UnrecordedGoesOn == "send"

\* Where the engine goes when record_burn raises: the swap is aborted.
Unrecorded == "over"

\* record_burn, before anything is sent.
RecordBurn(d) ==
  /\ engine[d] = "start"
  /\ \/ /\ row' = [row EXCEPT ![d] = RecordedRow]
        /\ engine' = [engine EXCEPT ![d] = "send"]
     \/ /\ engine' = [engine EXCEPT ![d] = Unrecorded]
        /\ UNCHANGED row
  /\ UNCHANGED <<aged, chainVars, relayer, boundVars, lapsed>>

\* send_raw_transaction of the burn: it returns, or it raises with the
\* transaction sent or not sent.
BroadcastBurn(d) ==
  /\ engine[d] = "send"
  /\ \/ /\ burn' = [burn EXCEPT ![d] = "sent"]
        /\ \E next \in {"mark", "over"} : engine' = [engine EXCEPT ![d] = next]
     \/ /\ engine' = [engine EXCEPT ![d] = "over"]
        /\ UNCHANGED burn
  /\ UNCHANGED <<row, aged, attested, used, pending, relayer, boundVars, lapsed>>

\* Mutant: a row is promoted whatever has become of it.
PromotedUnchecked(d) == [row EXCEPT ![d].status = "burned"]

\* The rows after mark_broadcast, which leaves rows past this stage alone.
Promoted(d) ==
  IF row[d].status = "pending_broadcast" THEN [row EXCEPT ![d].status = "burned"] ELSE row

\* mark_broadcast, right after the broadcast and before any receipt.
MarkBroadcast(d) ==
  /\ engine[d] = "mark"
  /\ row' = Promoted(d)
  /\ engine' = [engine EXCEPT ![d] = "over"]
  /\ UNCHANGED <<aged, chainVars, relayer, boundVars, lapsed>>

\* The process dies between two of these steps.
EngineDies(d) ==
  /\ engine[d] \in {"send", "mark"}
  /\ engine' = [engine EXCEPT ![d] = "over"]
  /\ UNCHANGED <<row, aged, chainVars, relayer, boundVars, lapsed>>

-----------------------------------------------------------------------------
(* The two chains and Circle.                                              *)

\* The burn is mined.
MineBurn(d) ==
  /\ burn[d] = "sent"
  /\ \E outcome \in {"landed", "reverted"} : burn' = [burn EXCEPT ![d] = outcome]
  /\ UNCHANGED <<engine, row, aged, attested, used, pending, relayer, boundVars, lapsed>>

\* Circle attests a burn that landed.
Attest(d) ==
  /\ burn[d] = "landed"
  /\ d \notin attested
  /\ attested' = attested \cup {d}
  /\ UNCHANGED <<engine, row, aged, burn, used, pending, relayer, boundVars, lapsed>>

\* A receiveMessage is mined: it consumes the nonce, or reverts because the
\* nonce is consumed or for a reason of its own, or it is dropped.
MineReceive(r, d) ==
  /\ <<r, d>> \in pending
  /\ pending' = pending \ {<<r, d>>}
  /\ used' \in {used, used \cup {d}}
  /\ UNCHANGED <<engine, row, aged, burn, attested, relayer, boundVars, lapsed>>

-----------------------------------------------------------------------------
(* A pass of a relayer: process_once.                                      *)

At(r, pc) == relayer[r].pc = pc

Goto(r, pc) == relayer' = [relayer EXCEPT ![r].pc = pc]

\* On to the next deposit of the pass.
NextDeposit(r) ==
  relayer' = [relayer EXCEPT ![r].pc = "advance", ![r].todo = @ \ {relayer[r].dep},
                             ![r].dep = NoDeposit]

\* The relayer has claimed d and is not done with it.
Holds(r, d) ==
  /\ d \in relayer[r].todo
  /\ relayer[r].pc \notin {"idle", "reconcile"}

relayerOnly == <<engine, row, aged, chainVars, boundVars, lapsed>>

\* _pending_broadcast_rows.
ReadPendingBroadcasts(r) ==
  /\ At(r, "idle")
  /\ relayer' = [relayer EXCEPT ![r].pc = "reconcile",
       ![r].todo = {d \in Deposits : row[d].status = "pending_broadcast"}]
  /\ UNCHANGED relayerOnly

\* One row of _reconcile_pending_broadcasts: a receipt promotes it or fails it;
\* no receipt, or a failing lookup, leaves it (and alerts after an hour).
ReconcileBurn(r, d) ==
  /\ At(r, "reconcile")
  /\ d \in relayer[r].todo
  /\ relayer' = [relayer EXCEPT ![r].todo = @ \ {d}]
  /\ \/ burn[d] = "landed" /\ row' = Promoted(d)
     \/ burn[d] = "reverted" /\ SetRow(d, "failed")
     \/ UNCHANGED row
  /\ UNCHANGED <<engine, aged, chainVars, boundVars, lapsed>>

\* Mutant: the lease is not looked at.
ClaimableLeased(d) == row[d].status = "burned" /\ row[d].attempts < MaxAttempts

\* The filter of _pending; nothing sets the status attested.
Claimable(d) ==
  /\ row[d].status = "burned"
  /\ row[d].attempts < MaxAttempts
  /\ ~row[d].claimed

\* _pending: claim the deposits whose backoff is over, all in one transaction.
Claim(r, ds) ==
  /\ At(r, "reconcile")
  /\ relayer[r].todo = {}
  /\ \A d \in ds : Claimable(d)
  /\ row' = [d \in Deposits |-> IF d \in ds THEN [row[d] EXCEPT !.claimed = TRUE] ELSE row[d]]
  /\ relayer' = [relayer EXCEPT ![r].pc = "advance", ![r].todo = ds]
  /\ UNCHANGED <<engine, aged, chainVars, boundVars, lapsed>>

\* The pass is over.
EndPass(r) ==
  /\ At(r, "advance")
  /\ relayer[r].todo = {}
  /\ relayer' = [relayer EXCEPT ![r] = IdleRelayer]
  /\ UNCHANGED relayerOnly

\* The attestation is fetched: not there yet, there, or the call raises.
FetchAttestation(r, d) ==
  /\ At(r, "advance")
  /\ d \in relayer[r].todo
  /\ \/ d \notin attested /\ relayer' = [relayer EXCEPT ![r].todo = @ \ {d}]
     \/ d \in attested /\ relayer' = [relayer EXCEPT ![r].pc = "precheck", ![r].dep = d]
     \/ relayer' = [relayer EXCEPT ![r].pc = "stall", ![r].dep = d]
  /\ UNCHANGED relayerOnly

\* usedNonces before the broadcast.
Precheck(r) ==
  /\ At(r, "precheck")
  /\ \/ relayer[r].dep \in used /\ Goto(r, "minted")
     \/ relayer[r].dep \notin used /\ Goto(r, "estimate")
     \/ Goto(r, "stall")
  /\ UNCHANGED relayerOnly

\* estimate_gas reverts when the nonce is consumed, and any of its exceptions, the
\* RPC's own included, counts as a genuine error; then the gas price, the balance (too low, or the
\* lookup raises) and the account's nonce.
Estimate(r) ==
  /\ At(r, "estimate")
  /\ \/ relayer[r].dep \notin used /\ Goto(r, "send")
     \/ Goto(r, "error")
     \/ Goto(r, "stall")
  /\ UNCHANGED relayerOnly

\* send_raw_transaction: it returns, or it raises with the transaction sent or
\* not sent.
SendReceive(r) ==
  /\ At(r, "send")
  /\ \/ /\ pending' = pending \cup {<<r, relayer[r].dep>>}
        /\ \E next \in {"wait", "recheck"} : Goto(r, next)
     \/ /\ Goto(r, "recheck")
        /\ UNCHANGED pending
  /\ UNCHANGED <<engine, row, aged, burn, attested, used, boundVars, lapsed>>

\* wait_for_transaction_receipt returns a receipt: of success, or of a revert,
\* which is checked against usedNonces; or it times out.
Receipt(r) ==
  /\ At(r, "wait")
  /\ \/ <<r, relayer[r].dep>> \notin pending /\ relayer[r].dep \in used /\ Goto(r, "minted")
     \/ Goto(r, "recheck")
  /\ UNCHANGED relayerOnly

\* Mutant: an error after the broadcast is taken for a message already relayed.
LandedByErrorText(d) == TRUE

\* What usedNonces says of the message.
Landed(d) == d \in used

\* usedNonces after an exception or a revert; the lookup itself may raise.
Recheck(r) ==
  /\ At(r, "recheck")
  /\ \/ Landed(relayer[r].dep) /\ Goto(r, "minted")
     \/ ~Landed(relayer[r].dep) /\ Goto(r, "error")
     \/ Goto(r, "stall")
  /\ UNCHANGED relayerOnly

\* _set_status minted, whose transaction may raise, and the user's notification,
\* whose lookup of the Telegram id may raise after the row was written.
SetMinted(r) ==
  /\ At(r, "minted")
  /\ \/ SetRow(relayer[r].dep, "minted") /\ (NextDeposit(r) \/ Goto(r, "unnotified"))
     \/ Goto(r, "stall") /\ UNCHANGED row
  /\ UNCHANGED <<engine, aged, chainVars, boundVars, lapsed>>

\* Mutant: the budget of genuine errors has no end.
OutOfAttemptsNever(n) == FALSE

\* The test of _bump_error against MAX_ATTEMPTS.
OutOfAttempts(n) == n >= MaxAttempts

\* _bump_error, whatever the row's status is by now.
BumpError(r) ==
  LET d == relayer[r].dep
      n == row[d].attempts + 1 IN
  /\ At(r, "error")
  /\ row' = [row EXCEPT ![d].attempts = n,
                        ![d].status = IF OutOfAttempts(n) THEN "failed" ELSE @]
  /\ NextDeposit(r)
  /\ UNCHANGED <<engine, aged, chainVars, boundVars, lapsed>>

\* The test of _bump_stall against STALL_TERMINAL_HOURS.
StalledOut(d) == d \in aged

\* _bump_stall, whatever the row's status is by now, minted included; the stall
\* count only lengthens the backoff.
BumpStall(r) ==
  LET d == relayer[r].dep IN
  /\ At(r, "stall") \/ At(r, "unnotified")
  /\ IF StalledOut(d) THEN SetRow(d, "failed") ELSE UNCHANGED row
  /\ NextDeposit(r)
  /\ UNCHANGED <<engine, aged, chainVars, boundVars, lapsed>>

-----------------------------------------------------------------------------
(* Time, crashes and operators.                                            *)

\* The claim on d ends, perhaps while a relayer still holds it.
Unclaimed(ds) == lapsed' = lapsed \cup {d \in ds : \E r \in Relayers : Holds(r, d)}

\* Five minutes pass since the claim.
LeaseExpires(d) ==
  /\ row[d].claimed
  /\ row' = [row EXCEPT ![d].claimed = FALSE]
  /\ Unclaimed({d})
  /\ UNCHANGED <<engine, aged, chainVars, relayer, boundVars>>

\* A day passes since the row was inserted.
Age(d) ==
  /\ row[d].status # "none"
  /\ d \notin aged
  /\ aged' = aged \cup {d}
  /\ UNCHANGED <<engine, row, chainVars, relayer, boundVars, lapsed>>

\* A relayer's process dies and starts again, or an exception out of a write that
\* no handler of process_once covers ends the pass: claims stay until they expire.
Crash(r) ==
  /\ ~At(r, "idle")
  /\ crashes < MaxCrashes
  /\ crashes' = crashes + 1
  /\ relayer' = [relayer EXCEPT ![r] = IdleRelayer]
  /\ UNCHANGED <<engine, row, aged, chainVars, requeues, lapsed>>

\* requeue_failed: every failed row starts again from burned.
RequeueFailed ==
  LET failed == {d \in Deposits : row[d].status = "failed"} IN
  /\ failed # {}
  /\ requeues < MaxRequeues
  /\ requeues' = requeues + 1
  /\ row' = [d \in Deposits |->
       IF d \in failed THEN [status |-> "burned", attempts |-> 0, claimed |-> FALSE] ELSE row[d]]
  /\ Unclaimed(failed)
  /\ UNCHANGED <<engine, aged, chainVars, relayer, crashes>>

-----------------------------------------------------------------------------
(* Specification.                                                          *)

Engine(d) == RecordBurn(d) \/ BroadcastBurn(d) \/ MarkBroadcast(d)

\* The steps of a pass.
Pass(r) ==
  \/ ReadPendingBroadcasts(r)
  \/ \E d \in Deposits : ReconcileBurn(r, d) \/ FetchAttestation(r, d)
  \/ \E ds \in SUBSET Deposits : Claim(r, ds)
  \/ EndPass(r)
  \/ Precheck(r)
  \/ Estimate(r)
  \/ SendReceive(r)
  \/ Receipt(r)
  \/ Recheck(r)
  \/ SetMinted(r)
  \/ BumpError(r)
  \/ BumpStall(r)

Next ==
  \/ \E d \in Deposits : Engine(d) \/ EngineDies(d) \/ MineBurn(d) \/ Attest(d)
                         \/ LeaseExpires(d) \/ Age(d)
  \/ \E r \in Relayers, d \in Deposits : MineReceive(r, d)
  \/ \E r \in Relayers : Pass(r) \/ Crash(r)
  \/ RequeueFailed

Spec == Init /\ [][Next]_vars

\* The loop never ends and each await times out; leases run out and days pass;
\* Circle attests what landed.  A source lookup succeeds sooner or later, and
\* backoff is capped at an hour, so a deposit that stays eligible is claimed.
Fairness ==
  /\ \A r \in Relayers : WF_vars(Pass(r))
  /\ \A d \in Deposits :
       /\ WF_vars(Attest(d))
       /\ WF_vars(LeaseExpires(d))
       /\ WF_vars(Age(d))
       /\ SF_vars(\E r \in Relayers : ReconcileBurn(r, d) /\ row'[d].status # "pending_broadcast")
       /\ SF_vars(\E r \in Relayers, ds \in SUBSET Deposits : d \in ds /\ Claim(r, ds))

FairSpec == Spec /\ Fairness

-----------------------------------------------------------------------------
(* Properties.                                                             *)

TypeOK ==
  /\ engine \in [Deposits -> {"start", "send", "mark", "over"}]
  /\ row \in [Deposits ->
       [status : {"none", "pending_broadcast", "burned", "minted", "failed"},
        attempts : Nat, claimed : BOOLEAN]]
  /\ aged \subseteq Deposits
  /\ burn \in [Deposits -> {"none", "sent", "landed", "reverted"}]
  /\ attested \subseteq Deposits
  /\ used \subseteq Deposits
  /\ pending \subseteq Relayers \X Deposits
  /\ relayer \in [Relayers ->
       [pc : {"idle", "reconcile", "advance", "precheck", "estimate", "send", "wait", "recheck",
              "minted", "unnotified", "error", "stall"},
        todo : SUBSET Deposits, dep : Deposits \cup {NoDeposit}]]
  /\ crashes \in 0..MaxCrashes
  /\ requeues \in 0..MaxRequeues
  /\ lapsed \subseteq Deposits

\* The row says minted only when the destination chain consumed the message:
\* neither a failed broadcast, nor a revert, nor another replica's attempt is
\* taken for a mint.
MintedIsUsed == \A d \in Deposits : row[d].status = "minted" => d \in used

\* A burn on the source chain has a row, whatever step the process died at, so
\* that the relayer can complete it.
BurnIsRecorded == \A d \in Deposits : burn[d] # "none" => row[d].status # "none"

\* Two replicas are at work on the same deposit only after a claim ended under
\* its holder: the lease lapsed, or an operator requeued the deposit.
OneHolderPerLease ==
  \A d \in Deposits : \A r1, r2 \in Relayers :
    Holds(r1, d) /\ Holds(r2, d) => r1 = r2 \/ d \in lapsed

\* The lookup for the notification of d's mint raised, and r will take it for a
\* stall of d.
Unnotified(r, d) == At(r, "unnotified") /\ relayer[r].dep = d

\* A minted row stays minted: neither the engine, nor a reconciled burn, nor a
\* replica at work writes over it, unless a claim ended under its holder, when the
\* outcome of the older attempt may be written, or the notification raised for a
\* deposit that is a day old, which _bump_stall then writes off as failed.
MintedIsFinal ==
  [][\A d \in Deposits :
       row[d].status = "minted" /\ row'[d].status # "minted" =>
         \/ d \in lapsed
         \/ d \in aged /\ \E r \in Relayers : Unnotified(r, d)]_vars

\* Every burn that lands is minted or handed to a human as failed, through lost
\* answers, failing writes, crashed replicas, lapsed leases and missing gas.
LandedIsResolved ==
  \A d \in Deposits : burn[d] = "landed" ~> row[d].status \in {"minted", "failed"}

=============================================================================
