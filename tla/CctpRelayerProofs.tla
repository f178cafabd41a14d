-------------------------- MODULE CctpRelayerProofs --------------------------
(***************************************************************************)
(* Proofs that the CCTP relayer keeps its promises for any number of       *)
(* deposits and replicas and any number of crashes, requeues and attempts. *)
(***************************************************************************)
EXTENDS CctpRelayer, TLAPS

-----------------------------------------------------------------------------
(* The inductive invariant.                                                *)

\* The program counters at which a relayer has a deposit at hand.
Busy == {"precheck", "estimate", "send", "wait", "recheck", "minted", "error", "stall"}

\* The same and the one after a notification that raised.
AtHand == Busy \cup {"unnotified"}

\* The deposit at hand is one of the pass.
DepositAtHand == \A r \in Relayers : relayer[r].pc \in AtHand => relayer[r].dep \in relayer[r].todo

\* A relayer's deposits were recorded by the engine.
TodoIsRecorded == \A r \in Relayers : \A d \in relayer[r].todo : engine[d] # "start"

\* Before record_burn there is no row and from it on there is; before the
\* broadcast there is no burn.
EngineOrder ==
  \A d \in Deposits :
    /\ engine[d] = "start" => row[d].status = "none" /\ ~row[d].claimed
    /\ engine[d] \in {"send", "mark"} => row[d].status # "none"
    /\ engine[d] \in {"start", "send"} => burn[d] = "none"

\* What is about to be received, is being received or was received is attested,
\* and only burns that landed are.
AttestedFirst ==
  /\ \A d \in attested : burn[d] = "landed"
  /\ \A r \in Relayers :
       relayer[r].pc \in {"precheck", "estimate", "send"} => relayer[r].dep \in attested
  /\ \A r \in Relayers : \A d \in Deposits : <<r, d>> \in pending => d \in attested
  /\ used \subseteq attested

\* A relayer about to write minted has seen the nonce consumed.
MintIsSeen == \A r \in Relayers : relayer[r].pc = "minted" => relayer[r].dep \in used

\* Until a claim lapses, its holder is alone, the row is claimed, and it is minted
\* only when the holder failed to notify the user of just that.
Leased ==
  \A d \in Deposits \ lapsed :
    /\ \A r \in Relayers :
         Holds(r, d) => row[d].claimed /\ (row[d].status = "minted" => Unnotified(r, d))
    /\ \A r1, r2 \in Relayers : Holds(r1, d) /\ Holds(r2, d) => r1 = r2

IInv ==
  /\ TypeOK
  /\ DepositAtHand
  /\ TodoIsRecorded
  /\ EngineOrder
  /\ AttestedFirst
  /\ MintIsSeen
  /\ Leased
  /\ MintedIsUsed
  /\ BurnIsRecorded

\* A step gives r no claim on d, and leaves it unnotified of d if it was.
Kept(r, d) == Holds(r, d)' => Holds(r, d) /\ (Unnotified(r, d) => Unnotified(r, d)')

\* The program counters of a relayer.
PCs == AtHand \cup {"idle", "reconcile", "advance"}

-----------------------------------------------------------------------------
(* Claims.                                                                 *)

\* Claims that nobody gains are kept if the rows under them are.
LEMMA LeasesStay ==
  ASSUME IInv, lapsed \subseteq lapsed',
         \A r \in Relayers, d \in Deposits : Kept(r, d),
         \A r \in Relayers, d \in Deposits \ lapsed' :
           Holds(r, d)' =>
             row'[d].claimed /\ (row'[d].status = "minted" =>
                                   row[d].status = "minted" \/ Unnotified(r, d)')
  PROVE  Leased'
  BY DEF IInv, Leased, Kept

-----------------------------------------------------------------------------
(* Steps that only move a relayer.                                         *)

\* What Goto does to the relayers.
LEMMA Moved ==
  ASSUME TypeOK, NEW r \in Relayers, NEW pc \in PCs, Goto(r, pc)
  PROVE  /\ relayer' \in [Relayers -> [pc : PCs, todo : SUBSET Deposits,
                                       dep : Deposits \cup {NoDeposit}]]
         /\ relayer'[r] = [pc |-> pc, todo |-> relayer[r].todo, dep |-> relayer[r].dep]
         /\ \A s \in Relayers \ {r} : relayer'[s] = relayer[s]
  BY DEF TypeOK, Goto, PCs, Busy, AtHand

\* A relayer with a deposit at hand goes on with it: Precheck, Estimate,
\* SendReceive, Receipt and Recheck.
LEMMA MoveKeeps ==
  ASSUME IInv, NEW r \in Relayers, NEW pc \in Busy, relayer[r].pc \in Busy, Goto(r, pc),
         UNCHANGED <<engine, row, aged, burn, attested, used, boundVars, lapsed>>,
         pending' \in {pending, pending \cup {<<r, relayer[r].dep>>}},
         pending' # pending \/ pc \in {"precheck", "estimate", "send"} =>
           relayer[r].dep \in attested,
         pc = "minted" => relayer[r].dep \in used
  PROVE  IInv'
<1> DEFINE d == relayer[r].dep
<1>1. d \in Deposits /\ d \in relayer[r].todo
  BY DEF IInv, TypeOK, DepositAtHand, AtHand
<1>2. /\ relayer' \in [Relayers -> [pc : PCs, todo : SUBSET Deposits,
                                    dep : Deposits \cup {NoDeposit}]]
      /\ relayer'[r] = [pc |-> pc, todo |-> relayer[r].todo, dep |-> d]
      /\ \A s \in Relayers \ {r} : relayer'[s] = relayer[s]
  BY Moved DEF IInv, PCs, AtHand
<1>3. TypeOK'
  BY <1>1, <1>2 DEF IInv, TypeOK, PCs, Busy, AtHand, boundVars
<1>4. DepositAtHand' /\ TodoIsRecorded' /\ MintIsSeen'
  BY <1>1, <1>2 DEF IInv, DepositAtHand, TodoIsRecorded, MintIsSeen
<1>5. EngineOrder' /\ MintedIsUsed' /\ BurnIsRecorded'
  BY DEF IInv, EngineOrder, MintedIsUsed, BurnIsRecorded
<1>6. AttestedFirst'
  BY <1>1, <1>2 DEF IInv, AttestedFirst
<1>7. \A s \in Relayers, e \in Deposits : Kept(s, e)
  BY <1>2 DEF Kept, Unnotified, At, Holds, Busy
<1>8. Leased'
  BY <1>7, LeasesStay DEF IInv, Leased, Kept
<1> QED
  BY <1>3, <1>4, <1>5, <1>6, <1>8 DEF IInv

\* A consumed nonce sends the relayer to write minted; an unconsumed one lets it
\* go on with an attested deposit.
LEMMA PrecheckKeeps ==
  ASSUME IInv, NEW r \in Relayers, Precheck(r)
  PROVE  IInv'
<1>1. relayer[r].pc \in Busy /\ relayer[r].dep \in attested
  BY DEF IInv, AttestedFirst, Precheck, At, Busy, AtHand
<1>2. /\ UNCHANGED <<engine, row, aged, burn, attested, used, boundVars, lapsed>>
      /\ pending' = pending
  BY DEF Precheck, relayerOnly, chainVars
<1>3. CASE relayer[r].dep \in used /\ Goto(r, "minted")
  BY <1>1, <1>2, <1>3, MoveKeeps DEF Busy, AtHand
<1>4. CASE Goto(r, "estimate")
  BY <1>1, <1>2, <1>4, MoveKeeps DEF Busy, AtHand
<1>5. CASE Goto(r, "stall")
  BY <1>1, <1>2, <1>5, MoveKeeps DEF Busy, AtHand
<1> QED
  BY <1>3, <1>4, <1>5 DEF Precheck

\* estimate_gas and what follows only choose between sending and giving up.
LEMMA EstimateKeeps ==
  ASSUME IInv, NEW r \in Relayers, Estimate(r)
  PROVE  IInv'
<1>1. relayer[r].pc \in Busy /\ relayer[r].dep \in attested
  BY DEF IInv, AttestedFirst, Estimate, At, Busy, AtHand
<1>2. /\ UNCHANGED <<engine, row, aged, burn, attested, used, boundVars, lapsed>>
      /\ pending' = pending
  BY DEF Estimate, relayerOnly, chainVars
<1>3. PICK pc \in {"send", "error", "stall"} : Goto(r, pc)
  BY DEF Estimate
<1> QED
  BY <1>1, <1>2, <1>3, MoveKeeps DEF Busy, AtHand

\* send_raw_transaction puts only attested deposits on the chain.
LEMMA SendReceiveKeeps ==
  ASSUME IInv, NEW r \in Relayers, SendReceive(r)
  PROVE  IInv'
<1>1. relayer[r].pc \in Busy /\ relayer[r].dep \in attested
  BY DEF IInv, AttestedFirst, SendReceive, At, Busy, AtHand
<1>2. /\ UNCHANGED <<engine, row, aged, burn, attested, used, boundVars, lapsed>>
      /\ pending' \in {pending, pending \cup {<<r, relayer[r].dep>>}}
  BY DEF SendReceive
<1>3. PICK pc \in {"wait", "recheck"} : Goto(r, pc)
  BY DEF SendReceive
<1> QED
  BY <1>1, <1>2, <1>3, MoveKeeps DEF Busy, AtHand

\* A receipt of success means that the nonce is consumed.
LEMMA ReceiptKeeps ==
  ASSUME IInv, NEW r \in Relayers, Receipt(r)
  PROVE  IInv'
<1>1. relayer[r].pc \in Busy
  BY DEF Receipt, At, Busy, AtHand
<1>2. /\ UNCHANGED <<engine, row, aged, burn, attested, used, boundVars, lapsed>>
      /\ pending' = pending
  BY DEF Receipt, relayerOnly, chainVars
<1>3. CASE relayer[r].dep \in used /\ Goto(r, "minted")
  BY <1>1, <1>2, <1>3, MoveKeeps DEF Busy, AtHand
<1>4. CASE Goto(r, "recheck")
  BY <1>1, <1>2, <1>4, MoveKeeps DEF Busy, AtHand
<1> QED
  BY <1>3, <1>4 DEF Receipt

\* usedNonces alone turns an error into minted.
LEMMA RecheckKeeps ==
  ASSUME IInv, NEW r \in Relayers, Recheck(r)
  PROVE  IInv'
<1>1. relayer[r].pc \in Busy
  BY DEF Recheck, At, Busy, AtHand
<1>2. /\ UNCHANGED <<engine, row, aged, burn, attested, used, boundVars, lapsed>>
      /\ pending' = pending
  BY DEF Recheck, relayerOnly, chainVars
<1>3. CASE relayer[r].dep \in used /\ Goto(r, "minted")
  BY <1>1, <1>2, <1>3, MoveKeeps DEF Busy, AtHand
<1>4. CASE Goto(r, "error") \/ Goto(r, "stall")
  BY <1>1, <1>2, <1>4, MoveKeeps DEF Busy, AtHand
<1> QED
  BY <1>3, <1>4 DEF Recheck, Landed

-----------------------------------------------------------------------------
(* Steps of the engine, the chains and the clock: the relayers stay.       *)

\* What stays true of relayers that do not move.
LEMMA RelayersStay ==
  ASSUME IInv, UNCHANGED relayer, used \subseteq used',
         \A d \in Deposits : engine[d] # "start" => engine'[d] # "start"
  PROVE  /\ DepositAtHand' /\ TodoIsRecorded' /\ MintIsSeen'
         /\ \A r \in Relayers, d \in Deposits : Kept(r, d)
<1>1. \A r \in Relayers : relayer[r].todo \subseteq Deposits
  BY DEF IInv, TypeOK
<1> QED
  BY <1>1 DEF IInv, DepositAtHand, TodoIsRecorded, MintIsSeen, Holds, Kept, Unnotified, At

\* record_burn inserts a row nobody holds.
LEMMA RecordBurnKeeps ==
  ASSUME IInv, NEW d \in Deposits, RecordBurn(d)
  PROVE  IInv'
<1>1. row[d].status = "none" /\ ~row[d].claimed /\ burn[d] = "none"
  BY DEF IInv, EngineOrder, RecordBurn
<1>2. DepositAtHand' /\ TodoIsRecorded' /\ MintIsSeen'
      /\ \A r \in Relayers, e \in Deposits : Kept(r, e)
  <2>1. \A e \in Deposits : engine[e] # "start" => engine'[e] # "start"
    BY DEF IInv, TypeOK, RecordBurn, Unrecorded
  <2> QED
    BY <2>1, RelayersStay DEF RecordBurn, chainVars
<1>3. TypeOK' /\ EngineOrder' /\ BurnIsRecorded'
  <2>1. CASE row' = row /\ engine' = [engine EXCEPT ![d] = "over"]
    BY <1>1, <2>1 DEF IInv, TypeOK, EngineOrder, BurnIsRecorded, RecordBurn, chainVars, boundVars
  <2>2. CASE row' = [row EXCEPT ![d] = RecordedRow] /\ engine' = [engine EXCEPT ![d] = "send"]
    <3>1. TypeOK'
      BY <2>2 DEF IInv, TypeOK, RecordBurn, RecordedRow, chainVars, boundVars
    <3>2. EngineOrder' /\ BurnIsRecorded'
      BY <1>1, <2>2 DEF IInv, TypeOK, EngineOrder, BurnIsRecorded, RecordBurn, RecordedRow, chainVars
    <3> QED
      BY <3>1, <3>2
  <2> QED
    BY <2>1, <2>2 DEF RecordBurn, Unrecorded
<1>4. AttestedFirst'
  BY DEF IInv, AttestedFirst, RecordBurn, chainVars
<1>5. MintedIsUsed'
  <2>1. \A e \in Deposits : row'[e] = row[e] \/ row'[e].status = "pending_broadcast"
    BY DEF IInv, TypeOK, RecordBurn, RecordedRow
  <2> QED
    BY <2>1 DEF IInv, MintedIsUsed, RecordBurn, chainVars
<1>6. Leased'
  <2>1. \A r \in Relayers : Holds(r, d) => d \in lapsed
    BY <1>1 DEF IInv, Leased
  <2>2. \A e \in Deposits : e # d => row'[e] = row[e]
    BY DEF IInv, TypeOK, RecordBurn
  <2> QED
    BY <1>2, <2>1, <2>2, LeasesStay DEF IInv, Leased, Kept, RecordBurn
<1> QED
  BY <1>2, <1>3, <1>4, <1>5, <1>6 DEF IInv

\* The burn is sent once, when its row is there.
LEMMA BroadcastBurnKeeps ==
  ASSUME IInv, NEW d \in Deposits, BroadcastBurn(d)
  PROVE  IInv'
<1>1. row[d].status # "none" /\ burn[d] = "none"
  BY DEF IInv, EngineOrder, BroadcastBurn
<1>2. DepositAtHand' /\ TodoIsRecorded' /\ MintIsSeen'
      /\ \A r \in Relayers, e \in Deposits : Kept(r, e)
  <2>1. \A e \in Deposits : engine[e] # "start" => engine'[e] # "start"
    BY DEF IInv, TypeOK, BroadcastBurn
  <2> QED
    BY <2>1, RelayersStay DEF BroadcastBurn
<1>3. TypeOK'
  <2>1. /\ engine' \in [Deposits -> {"start", "send", "mark", "over"}]
        /\ burn' \in [Deposits -> {"none", "sent", "landed", "reverted"}]
    BY DEF IInv, TypeOK, BroadcastBurn
  <2> QED
    BY <2>1 DEF IInv, TypeOK, BroadcastBurn, boundVars
<1>4. EngineOrder' /\ BurnIsRecorded' /\ MintedIsUsed'
  BY <1>1 DEF IInv, TypeOK, EngineOrder, BurnIsRecorded, MintedIsUsed, BroadcastBurn
<1>5. AttestedFirst'
  BY <1>1 DEF IInv, TypeOK, AttestedFirst, BroadcastBurn
<1>6. Leased'
  BY <1>2, LeasesStay DEF IInv, Leased, Kept, BroadcastBurn
<1> QED
  BY <1>2, <1>3, <1>4, <1>5, <1>6 DEF IInv

\* mark_broadcast and the reconciliation of a landed burn promote a row only
\* from pending_broadcast.
LEMMA PromotedRow ==
  ASSUME IInv, NEW d \in Deposits, row' = Promoted(d)
  PROVE  /\ row' \in [Deposits ->
              [status : {"none", "pending_broadcast", "burned", "minted", "failed"},
               attempts : Nat, claimed : BOOLEAN]]
         /\ \A e \in Deposits :
              \/ row'[e] = row[e]
              \/ /\ row[e].status = "pending_broadcast"
                 /\ row'[e].status = "burned"
                 /\ row[e].claimed => row'[e].claimed
<1>1. row' \in [Deposits ->
        [status : {"none", "pending_broadcast", "burned", "minted", "failed"},
         attempts : Nat, claimed : BOOLEAN]]
  BY DEF IInv, TypeOK, Promoted
<1>2. CASE row' = row
  BY <1>1, <1>2
<1>3. CASE row[d].status = "pending_broadcast" /\ row' = [row EXCEPT ![d].status = "burned"]
  <2>1. row'[d].status = "burned" /\ (row[d].claimed => row'[d].claimed)
    BY <1>3 DEF IInv, TypeOK
  <2>2. \A e \in Deposits \ {d} : row'[e] = row[e]
    BY <1>3 DEF IInv, TypeOK
  <2>3. \A e \in Deposits : row'[e] = row[e] \/ e = d
    BY <2>2
  <2> QED
    BY <1>1, <1>3, <2>1, <2>3
<1> QED
  BY <1>2, <1>3 DEF Promoted

\* mark_broadcast promotes the row and leaves the claims alone.
LEMMA MarkBroadcastKeeps ==
  ASSUME IInv, NEW d \in Deposits, MarkBroadcast(d)
  PROVE  IInv'
<1>1. row' = Promoted(d)
  BY DEF MarkBroadcast
<1>2. DepositAtHand' /\ TodoIsRecorded' /\ MintIsSeen'
      /\ \A r \in Relayers, e \in Deposits : Kept(r, e)
  <2>1. \A e \in Deposits : engine[e] # "start" => engine'[e] # "start"
    BY DEF IInv, TypeOK, MarkBroadcast
  <2> QED
    BY <2>1, RelayersStay DEF MarkBroadcast, chainVars
<1>3. TypeOK'
  BY <1>1, PromotedRow DEF IInv, TypeOK, MarkBroadcast, chainVars, boundVars
<1>4. EngineOrder'
  BY <1>1, PromotedRow DEF IInv, TypeOK, EngineOrder, MarkBroadcast, chainVars
<1>5. BurnIsRecorded' /\ MintedIsUsed'
  BY <1>1, PromotedRow DEF IInv, BurnIsRecorded, MintedIsUsed, MarkBroadcast, chainVars
<1>6. AttestedFirst'
  BY DEF IInv, AttestedFirst, MarkBroadcast, chainVars
<1>7. Leased'
  BY <1>1, <1>2, PromotedRow, LeasesStay DEF IInv, Leased, Kept, MarkBroadcast
<1> QED
  BY <1>2, <1>3, <1>4, <1>5, <1>6, <1>7 DEF IInv

\* The engine dies, a burn or a receiveMessage is mined, Circle attests, a day
\* passes: the rows and the claims stay.
LEMMA WorldKeeps ==
  ASSUME IInv,
         \/ \E d \in Deposits : EngineDies(d) \/ MineBurn(d) \/ Attest(d) \/ Age(d)
         \/ \E r \in Relayers, d \in Deposits : MineReceive(r, d)
  PROVE  IInv'
<1> USE DEF EngineDies, MineBurn, Attest, Age, MineReceive, chainVars, boundVars
<1>1. UNCHANGED <<row, relayer, lapsed>> /\ used \subseteq used'
  OBVIOUS
<1>2. DepositAtHand' /\ TodoIsRecorded' /\ MintIsSeen'
      /\ \A r \in Relayers, e \in Deposits : Kept(r, e)
  <2>1. \A e \in Deposits : engine[e] # "start" => engine'[e] # "start"
    BY DEF IInv, TypeOK
  <2> QED
    BY <1>1, <2>1, RelayersStay
<1>3. /\ engine' \in [Deposits -> {"start", "send", "mark", "over"}]
      /\ burn' \in [Deposits -> {"none", "sent", "landed", "reverted"}]
      /\ attested' \subseteq Deposits /\ used' \subseteq Deposits /\ aged' \subseteq Deposits
      /\ pending' \subseteq Relayers \X Deposits
      /\ UNCHANGED <<crashes, requeues>>
      /\ \A e \in Deposits : engine'[e] \in {engine[e], "over"}
      /\ \A e \in Deposits : burn'[e] = burn[e] \/ burn[e] = "sent"
  <2>1. /\ engine \in [Deposits -> {"start", "send", "mark", "over"}]
        /\ burn \in [Deposits -> {"none", "sent", "landed", "reverted"}]
        /\ attested \subseteq Deposits /\ used \subseteq Deposits /\ aged \subseteq Deposits
        /\ pending \subseteq Relayers \X Deposits
    BY DEF IInv, TypeOK
  <2>2. CASE \E d \in Deposits : EngineDies(d)
    BY <2>1, <2>2
  <2>3. CASE \E d \in Deposits : MineBurn(d)
    BY <2>1, <2>3
  <2>4. CASE \E d \in Deposits : Attest(d)
    BY <2>1, <2>4
  <2>5. CASE \E d \in Deposits : Age(d)
    BY <2>1, <2>5
  <2>6. CASE \E r \in Relayers, d \in Deposits : MineReceive(r, d)
    BY <2>1, <2>6
  <2> QED
    BY <2>2, <2>3, <2>4, <2>5, <2>6
<1>4. TypeOK' /\ EngineOrder'
  <2>1. TypeOK'
    BY <1>1, <1>3 DEF IInv, TypeOK
  <2>2. EngineOrder'
    BY <1>1, <1>3 DEF IInv, EngineOrder
  <2> QED
    BY <2>1, <2>2
<1>5. BurnIsRecorded' /\ MintedIsUsed'
  BY <1>1, <1>3 DEF IInv, TypeOK, BurnIsRecorded, MintedIsUsed
<1>6. AttestedFirst'
  BY DEF IInv, TypeOK, AttestedFirst
<1>7. Leased'
  BY <1>1, <1>2, LeasesStay DEF IInv, Leased, Kept
<1> QED
  BY <1>2, <1>3, <1>4, <1>5, <1>6, <1>7 DEF IInv

\* A lease that ends under its holder is recorded in lapsed.
LEMMA LeaseExpiresKeeps ==
  ASSUME IInv, NEW d \in Deposits, LeaseExpires(d)
  PROVE  IInv'
<1>1. /\ row' = [row EXCEPT ![d].claimed = FALSE]
      /\ row[d].claimed
      /\ lapsed \subseteq lapsed'
      /\ \A r \in Relayers : Holds(r, d) => d \in lapsed'
  BY DEF LeaseExpires, Unclaimed
<1>2. DepositAtHand' /\ TodoIsRecorded' /\ MintIsSeen'
      /\ \A r \in Relayers, e \in Deposits : Kept(r, e)
  BY RelayersStay DEF LeaseExpires, chainVars
<1>3. TypeOK'
  <2> DEFINE Rows == [status : {"none", "pending_broadcast", "burned", "minted", "failed"},
                      attempts : Nat, claimed : BOOLEAN]
  <2>1. row' \in [Deposits -> Rows]
    <3>1. row \in [Deposits -> Rows]
      BY DEF IInv, TypeOK
    <3>2. [row[d] EXCEPT !.claimed = FALSE] \in Rows
      BY <3>1
    <3> HIDE DEF Rows
    <3> QED
      BY <1>1, <3>1, <3>2
  <2>2. lapsed' \subseteq Deposits
    BY DEF IInv, TypeOK, LeaseExpires, Unclaimed
  <2> QED
    BY <2>1, <2>2 DEF IInv, TypeOK, LeaseExpires, chainVars, boundVars
<1>4. EngineOrder'
  BY <1>1 DEF IInv, TypeOK, EngineOrder, LeaseExpires, chainVars
<1>5. BurnIsRecorded' /\ MintedIsUsed'
  BY <1>1 DEF IInv, TypeOK, BurnIsRecorded, MintedIsUsed, LeaseExpires, chainVars
<1>6. AttestedFirst'
  BY DEF IInv, AttestedFirst, LeaseExpires, chainVars
<1>7. Leased'
  <2>1. \A e \in Deposits : e # d => row'[e] = row[e]
    BY <1>1 DEF IInv, TypeOK
  <2> QED
    BY <1>1, <1>2, <2>1, LeasesStay DEF IInv, Leased, Kept
<1> QED
  BY <1>2, <1>3, <1>4, <1>5, <1>6, <1>7 DEF IInv

\* requeue_failed takes claims away and records it; minted rows are not touched.
LEMMA RequeueFailedKeeps ==
  ASSUME IInv, RequeueFailed
  PROVE  IInv'
<1> DEFINE failed == {d \in Deposits : row[d].status = "failed"}
<1>1. /\ row' = [d \in Deposits |-> IF d \in failed
                 THEN [status |-> "burned", attempts |-> 0, claimed |-> FALSE] ELSE row[d]]
      /\ lapsed \subseteq lapsed'
      /\ \A r \in Relayers, d \in failed : Holds(r, d) => d \in lapsed'
  BY DEF RequeueFailed, Unclaimed
<1>2. DepositAtHand' /\ TodoIsRecorded' /\ MintIsSeen'
      /\ \A r \in Relayers, e \in Deposits : Kept(r, e)
  BY RelayersStay DEF RequeueFailed, chainVars
<1>3. TypeOK'
  BY CctpAssumption DEF IInv, TypeOK, RequeueFailed, Unclaimed, chainVars
<1>4. EngineOrder'
  BY <1>1 DEF IInv, EngineOrder, RequeueFailed, chainVars
<1>5. BurnIsRecorded' /\ MintedIsUsed'
  BY <1>1 DEF IInv, BurnIsRecorded, MintedIsUsed, RequeueFailed, chainVars
<1>6. AttestedFirst'
  BY DEF IInv, AttestedFirst, RequeueFailed, chainVars
<1>7. Leased'
  BY <1>1, <1>2, LeasesStay DEF IInv, Leased, Kept
<1> QED
  BY <1>2, <1>3, <1>4, <1>5, <1>6, <1>7 DEF IInv

-----------------------------------------------------------------------------
(* The pass of a relayer: its deposits change.                             *)

\* What the start of a pass and a claim do to the relayers.
LEMMA Loaded ==
  ASSUME TypeOK, NEW r \in Relayers, NEW pc \in PCs, NEW ds \in SUBSET Deposits,
         relayer' = [relayer EXCEPT ![r].pc = pc, ![r].todo = ds]
  PROVE  /\ relayer' \in [Relayers -> [pc : PCs, todo : SUBSET Deposits,
                                       dep : Deposits \cup {NoDeposit}]]
         /\ relayer'[r] = [pc |-> pc, todo |-> ds, dep |-> relayer[r].dep]
         /\ \A s \in Relayers \ {r} : relayer'[s] = relayer[s]
<1>1. relayer \in [Relayers -> [pc : PCs, todo : SUBSET Deposits,
                               dep : Deposits \cup {NoDeposit}]]
  BY DEF TypeOK, PCs, Busy, AtHand
<1> QED
  BY <1>1

\* A pass starts with the recorded burns and holds none of them.
LEMMA ReadPendingBroadcastsKeeps ==
  ASSUME IInv, NEW r \in Relayers, ReadPendingBroadcasts(r)
  PROVE  IInv'
<1> DEFINE ds == {d \in Deposits : row[d].status = "pending_broadcast"}
<1>1. /\ relayer' \in [Relayers -> [pc : PCs, todo : SUBSET Deposits,
                                    dep : Deposits \cup {NoDeposit}]]
      /\ relayer'[r] = [pc |-> "reconcile", todo |-> ds, dep |-> relayer[r].dep]
      /\ \A s \in Relayers \ {r} : relayer'[s] = relayer[s]
      /\ UNCHANGED <<engine, row, aged, burn, attested, used, pending, crashes, requeues, lapsed>>
  <2>1. relayer' = [relayer EXCEPT ![r].pc = "reconcile", ![r].todo = ds]
    BY DEF ReadPendingBroadcasts
  <2>2. TypeOK /\ "reconcile" \in PCs /\ ds \in SUBSET Deposits
    BY DEF IInv, PCs
  <2>3. UNCHANGED <<engine, row, aged, burn, attested, used, pending, crashes, requeues, lapsed>>
    BY DEF ReadPendingBroadcasts, relayerOnly, chainVars, boundVars
  <2> HIDE DEF ds
  <2> QED
    BY <2>1, <2>2, <2>3, Loaded
<1>2. TypeOK'
  BY <1>1 DEF IInv, TypeOK, PCs, Busy, AtHand
<1>3. DepositAtHand' /\ MintIsSeen' /\ AttestedFirst'
  BY <1>1 DEF IInv, DepositAtHand, MintIsSeen, AttestedFirst, Busy, AtHand
<1>4. TodoIsRecorded'
  <2>1. \A d \in ds : engine[d] # "start"
    BY DEF IInv, EngineOrder
  <2> QED
    BY <1>1, <2>1 DEF IInv, TodoIsRecorded
<1>5. EngineOrder' /\ MintedIsUsed' /\ BurnIsRecorded'
  BY <1>1 DEF IInv, EngineOrder, MintedIsUsed, BurnIsRecorded
<1>6. Leased'
  <2>1. \A s \in Relayers, e \in Deposits : Kept(s, e)
    BY <1>1 DEF Kept, Unnotified, At, Holds, ReadPendingBroadcasts
  <2> QED
    BY <1>1, <2>1, LeasesStay DEF IInv, Leased, Kept
<1> QED
  BY <1>2, <1>3, <1>4, <1>5, <1>6 DEF IInv

\* A claim takes only rows that are not claimed, so nobody else holds them.
LEMMA ClaimKeeps ==
  ASSUME IInv, NEW r \in Relayers, NEW ds \in SUBSET Deposits, Claim(r, ds)
  PROVE  IInv'
<1>1. /\ relayer' \in [Relayers -> [pc : PCs, todo : SUBSET Deposits,
                                    dep : Deposits \cup {NoDeposit}]]
      /\ relayer'[r] = [pc |-> "advance", todo |-> ds, dep |-> relayer[r].dep]
      /\ \A s \in Relayers \ {r} : relayer'[s] = relayer[s]
  <2>1. relayer' = [relayer EXCEPT ![r].pc = "advance", ![r].todo = ds]
    BY DEF Claim
  <2>2. TypeOK /\ "advance" \in PCs
    BY DEF IInv, PCs
  <2> QED
    BY <2>1, <2>2, Loaded
<1>2. \A d \in Deposits :
        /\ row'[d].status = row[d].status
        /\ row'[d].attempts = row[d].attempts
        /\ row'[d].claimed <=> d \in ds \/ row[d].claimed
  BY DEF IInv, TypeOK, Claim
<1>3. \A d \in ds : row[d].status = "burned" /\ ~row[d].claimed
  BY DEF Claim, Claimable
<1>4. TypeOK'
  <2>1. row' \in [Deposits ->
          [status : {"none", "pending_broadcast", "burned", "minted", "failed"},
           attempts : Nat, claimed : BOOLEAN]]
    BY DEF IInv, TypeOK, Claim
  <2>2. UNCHANGED <<engine, aged, burn, attested, used, pending, crashes, requeues, lapsed>>
    BY DEF Claim, chainVars, boundVars
  <2> QED
    BY <1>1, <2>1, <2>2 DEF IInv, TypeOK, PCs, Busy, AtHand
<1>5. DepositAtHand' /\ MintIsSeen' /\ AttestedFirst'
  <2>1. UNCHANGED <<burn, attested, used, pending>>
    BY DEF Claim, chainVars
  <2> QED
    BY <1>1, <2>1 DEF IInv, DepositAtHand, MintIsSeen, AttestedFirst, Busy, AtHand
<1>6. TodoIsRecorded'
  <2>1. \A d \in ds : engine[d] # "start"
    BY <1>3 DEF IInv, EngineOrder
  <2>2. UNCHANGED engine
    BY DEF Claim
  <2> QED
    BY <1>1, <2>1, <2>2 DEF IInv, TodoIsRecorded
<1>7. EngineOrder' /\ MintedIsUsed' /\ BurnIsRecorded'
  BY <1>2, <1>3 DEF IInv, EngineOrder, MintedIsUsed, BurnIsRecorded, Claim,
                    chainVars
<1>8. Leased'
  <2>1. \A s \in Relayers, e \in Deposits :
          Holds(s, e)' => (Kept(s, e) /\ Holds(s, e)) \/ (s = r /\ e \in ds)
    BY <1>1 DEF Kept, Unnotified, At, Holds
  <2>2. \A s \in Relayers, e \in ds : Holds(s, e) => e \in lapsed
    BY <1>3 DEF IInv, Leased
  <2> QED
    BY <1>2, <1>3, <2>1, <2>2 DEF IInv, Leased, Kept, Claim
<1> QED
  BY <1>4, <1>5, <1>6, <1>7, <1>8 DEF IInv

\* What a relayer that drops deposits and has none at hand leaves as it was:
\* EndPass, Crash, ReconcileBurn and NextDeposit.
LEMMA DropKeeps ==
  ASSUME IInv, NEW r \in Relayers,
         \A s \in Relayers \ {r} : relayer'[s] = relayer[s],
         relayer'[r].pc \in {"idle", "reconcile", "advance"},
         relayer'[r].todo \subseteq relayer[r].todo,
         relayer'[r].pc = "advance" =>
           relayer[r].pc \notin {"idle", "reconcile"} /\ relayer[r].dep \notin relayer'[r].todo,
         UNCHANGED <<engine, burn, attested, used, pending>>
  PROVE  /\ DepositAtHand' /\ TodoIsRecorded' /\ MintIsSeen' /\ AttestedFirst'
         /\ \A s \in Relayers, e \in Deposits : Kept(s, e)
<1>1. DepositAtHand' /\ TodoIsRecorded' /\ MintIsSeen' /\ AttestedFirst'
  BY DEF IInv, DepositAtHand, TodoIsRecorded, MintIsSeen, AttestedFirst, Busy, AtHand
<1>2. \A s \in Relayers, e \in Deposits : Kept(s, e)
  BY DEF Kept, Unnotified, At, Holds
<1> QED
  BY <1>1, <1>2

\* A pass that ends drops its deposits.
LEMMA EndPassKeeps ==
  ASSUME IInv, NEW r \in Relayers, EndPass(r)
  PROVE  IInv'
<1>1. UNCHANGED <<engine, row, aged, burn, attested, used, pending, crashes, requeues, lapsed>>
  BY DEF EndPass, relayerOnly, chainVars, boundVars
<1>2. relayer' = [relayer EXCEPT ![r] = IdleRelayer]
  BY DEF EndPass
<1>3. /\ DepositAtHand' /\ TodoIsRecorded' /\ MintIsSeen' /\ AttestedFirst'
      /\ \A s \in Relayers, e \in Deposits : Kept(s, e)
  BY <1>1, <1>2, DropKeeps DEF IInv, TypeOK, IdleRelayer
<1>4. TypeOK'
  BY <1>1, <1>2 DEF IInv, TypeOK, IdleRelayer
<1>5. EngineOrder' /\ MintedIsUsed' /\ BurnIsRecorded'
  BY <1>1 DEF IInv, EngineOrder, MintedIsUsed, BurnIsRecorded
<1>6. Leased'
  BY <1>1, <1>3, LeasesStay DEF IInv, Leased, Kept
<1> QED
  BY <1>3, <1>4, <1>5, <1>6 DEF IInv

\* A relayer that dies drops its deposits and leaves their claims.
LEMMA CrashKeeps ==
  ASSUME IInv, NEW r \in Relayers, Crash(r)
  PROVE  IInv'
<1>1. UNCHANGED <<engine, row, aged, burn, attested, used, pending, requeues, lapsed>>
  BY DEF Crash, chainVars
<1>2. relayer' = [relayer EXCEPT ![r] = IdleRelayer]
  BY DEF Crash
<1>3. /\ DepositAtHand' /\ TodoIsRecorded' /\ MintIsSeen' /\ AttestedFirst'
      /\ \A s \in Relayers, e \in Deposits : Kept(s, e)
  BY <1>1, <1>2, DropKeeps DEF IInv, TypeOK, IdleRelayer
<1>4. crashes' \in 0..MaxCrashes
  BY CctpAssumption DEF IInv, TypeOK, Crash
<1>5. TypeOK'
  BY <1>1, <1>2, <1>4 DEF IInv, TypeOK, IdleRelayer
<1>6. EngineOrder' /\ MintedIsUsed' /\ BurnIsRecorded'
  BY <1>1 DEF IInv, EngineOrder, MintedIsUsed, BurnIsRecorded
<1>7. Leased'
  BY <1>1, <1>3, LeasesStay DEF IInv, Leased, Kept
<1> QED
  BY <1>3, <1>5, <1>6, <1>7 DEF IInv

\* A relayer goes on with a deposit only when it is attested.
LEMMA FetchAttestationKeeps ==
  ASSUME IInv, NEW r \in Relayers, NEW d \in Deposits, FetchAttestation(r, d)
  PROVE  IInv'
<1>1. UNCHANGED <<engine, row, aged, burn, attested, used, pending, crashes, requeues, lapsed>>
  BY DEF FetchAttestation, relayerOnly, chainVars, boundVars
<1>2. PICK new :
        /\ new \in [pc : {"advance", "precheck", "stall"}, todo : SUBSET Deposits,
                    dep : Deposits \cup {NoDeposit}]
        /\ new.todo \subseteq relayer[r].todo
        /\ new.pc # "advance" => new.dep \in new.todo
        /\ new.pc = "precheck" => new.dep \in attested
        /\ relayer' = [relayer EXCEPT ![r] = new]
  <2> DEFINE w == relayer[r]
  <2>1. w \in [pc : PCs, todo : SUBSET Deposits, dep : Deposits \cup {NoDeposit}]
        /\ w.pc = "advance" /\ d \in w.todo
    BY DEF IInv, TypeOK, PCs, Busy, AtHand, FetchAttestation, At
  <2>2. \/ relayer' = [relayer EXCEPT ![r] =
             [pc |-> "advance", todo |-> w.todo \ {d}, dep |-> w.dep]]
        \/ /\ d \in attested
           /\ relayer' = [relayer EXCEPT ![r] = [pc |-> "precheck", todo |-> w.todo, dep |-> d]]
        \/ relayer' = [relayer EXCEPT ![r] = [pc |-> "stall", todo |-> w.todo, dep |-> d]]
    BY <2>1 DEF IInv, TypeOK, FetchAttestation
  <2> QED
    BY <2>1, <2>2
<1>3. /\ relayer'[r] = new
      /\ \A s \in Relayers \ {r} : relayer'[s] = relayer[s]
      /\ relayer' \in [Relayers -> [pc : PCs, todo : SUBSET Deposits,
                                    dep : Deposits \cup {NoDeposit}]]
  BY <1>2 DEF IInv, TypeOK, PCs, Busy, AtHand
<1>4. TypeOK'
  BY <1>1, <1>3 DEF IInv, TypeOK, PCs, Busy, AtHand
<1>5. DepositAtHand' /\ TodoIsRecorded' /\ MintIsSeen' /\ AttestedFirst'
  BY <1>1, <1>2, <1>3 DEF IInv, DepositAtHand, TodoIsRecorded, MintIsSeen, AttestedFirst, Busy, AtHand
<1>6. EngineOrder' /\ MintedIsUsed' /\ BurnIsRecorded'
  BY <1>1 DEF IInv, EngineOrder, MintedIsUsed, BurnIsRecorded
<1>7. Leased'
  <2>1. \A s \in Relayers, e \in Deposits : Kept(s, e)
    BY <1>2, <1>3 DEF Kept, Unnotified, Holds, FetchAttestation, At
  <2> QED
    BY <1>1, <2>1, LeasesStay DEF IInv, Leased, Kept
<1> QED
  BY <1>4, <1>5, <1>6, <1>7 DEF IInv

\* A receipt of the burn promotes a row or, of a reverted burn, fails it.
LEMMA ReconcileBurnKeeps ==
  ASSUME IInv, NEW r \in Relayers, NEW d \in Deposits, ReconcileBurn(r, d)
  PROVE  IInv'
<1>1. UNCHANGED <<engine, aged, burn, attested, used, pending, crashes, requeues, lapsed>>
  BY DEF ReconcileBurn, chainVars, boundVars
<1>2. relayer' = [relayer EXCEPT ![r].todo = @ \ {d}] /\ relayer[r].pc = "reconcile"
  BY DEF ReconcileBurn, At
<1>3. /\ DepositAtHand' /\ TodoIsRecorded' /\ MintIsSeen' /\ AttestedFirst'
      /\ \A s \in Relayers, e \in Deposits : Kept(s, e)
  BY <1>1, <1>2, DropKeeps DEF IInv, TypeOK
<1>4. /\ row' \in [Deposits ->
           [status : {"none", "pending_broadcast", "burned", "minted", "failed"},
            attempts : Nat, claimed : BOOLEAN]]
      /\ \A e \in Deposits :
           \/ row'[e] = row[e]
           \/ /\ row'[e].status \in {"burned", "failed"}
              /\ row'[e].status = "burned" => row[e].status = "pending_broadcast"
              /\ row'[e].status = "failed" => e = d /\ burn[d] = "reverted"
              /\ row[e].claimed => row'[e].claimed
  <2>1. CASE row' = Promoted(d)
    BY <2>1, PromotedRow
  <2>2. CASE burn[d] = "reverted" /\ row' = [row EXCEPT ![d].status = "failed"]
    BY <2>2 DEF IInv, TypeOK
  <2>3. CASE row' = row
    BY <2>3 DEF IInv, TypeOK
  <2> QED
    BY <2>1, <2>2, <2>3 DEF ReconcileBurn, SetRow
<1>5. TypeOK'
  BY <1>1, <1>2, <1>4 DEF IInv, TypeOK
<1>6. EngineOrder' /\ BurnIsRecorded' /\ MintedIsUsed'
  BY <1>1, <1>4 DEF IInv, EngineOrder, BurnIsRecorded, MintedIsUsed
<1>7. Leased'
  BY <1>1, <1>3, <1>4, LeasesStay DEF IInv, Leased, Kept
<1> QED
  BY <1>3, <1>5, <1>6, <1>7 DEF IInv

\* A relayer is done with its deposit: nobody holds it on its account, and the
\* other conjuncts about relayers are kept.
LEMMA NextDepositKeeps ==
  ASSUME IInv, NEW r \in Relayers, relayer[r].pc \in AtHand, NextDeposit(r),
         UNCHANGED <<engine, burn, attested, used, pending>>
  PROVE  /\ relayer[r].dep \in Deposits
         /\ Holds(r, relayer[r].dep)
         /\ relayer' \in [Relayers -> [pc : PCs, todo : SUBSET Deposits,
                                       dep : Deposits \cup {NoDeposit}]]
         /\ DepositAtHand' /\ TodoIsRecorded' /\ MintIsSeen' /\ AttestedFirst'
         /\ \A s \in Relayers, e \in Deposits : Kept(s, e)
         /\ relayer[r].dep \notin relayer'[r].todo
<1> DEFINE d == relayer[r].dep
<1>1. d \in Deposits /\ Holds(r, d)
  BY DEF IInv, TypeOK, DepositAtHand, Holds, Busy, AtHand
<1>2. /\ \A s \in Relayers \ {r} : relayer'[s] = relayer[s]
      /\ relayer'[r].pc = "advance"
      /\ relayer'[r].todo = relayer[r].todo \ {d}
      /\ relayer' \in [Relayers -> [pc : PCs, todo : SUBSET Deposits,
                                    dep : Deposits \cup {NoDeposit}]]
  <2>1. /\ \A s \in Relayers \ {r} : relayer'[s] = relayer[s]
        /\ relayer'[r] = [pc |-> "advance", todo |-> relayer[r].todo \ {d}, dep |-> NoDeposit]
    BY DEF IInv, TypeOK, NextDeposit
  <2>2. \A s \in Relayers : relayer'[s] \in
          [pc : PCs, todo : SUBSET Deposits, dep : Deposits \cup {NoDeposit}]
    BY <2>1 DEF IInv, TypeOK, PCs, Busy, AtHand
  <2>3. relayer' = [s \in Relayers |-> relayer'[s]]
    BY DEF IInv, TypeOK, NextDeposit
  <2> QED
    BY <2>1, <2>2, <2>3
<1>3. /\ DepositAtHand' /\ TodoIsRecorded' /\ MintIsSeen' /\ AttestedFirst'
      /\ \A s \in Relayers, e \in Deposits : Kept(s, e)
  BY <1>2, DropKeeps DEF Busy, AtHand
<1>4. ~(d \in relayer'[r].todo)
  BY <1>2
<1> QED
  BY <1>1, <1>2, <1>3, <1>4

\* Two holders of one deposit mean that its claim lapsed.
LEMMA HolderIsAlone ==
  ASSUME IInv, NEW r \in Relayers, NEW s \in Relayers, NEW d \in Deposits \ lapsed,
         Holds(r, d), Holds(s, d)
  PROVE  r = s
  BY DEF IInv, Leased

\* A row written by its holder, alone or after the claim lapsed.
LEMMA HolderWrites ==
  ASSUME IInv, NEW r \in Relayers, relayer[r].pc \in AtHand, NextDeposit(r),
         UNCHANGED <<engine, aged, burn, attested, used, pending, crashes, requeues, lapsed>>,
         row' \in [Deposits ->
           [status : {"none", "pending_broadcast", "burned", "minted", "failed"},
            attempts : Nat, claimed : BOOLEAN]],
         \A e \in Deposits \ {relayer[r].dep} : row'[e] = row[e],
         row'[relayer[r].dep].status = "minted" => relayer[r].dep \in used,
         row'[relayer[r].dep].status = "none" => row[relayer[r].dep].status = "none"
  PROVE  IInv'
<1> DEFINE d == relayer[r].dep
<1>1. /\ d \in Deposits
      /\ Holds(r, d)
      /\ relayer' \in [Relayers -> [pc : PCs, todo : SUBSET Deposits,
                                    dep : Deposits \cup {NoDeposit}]]
      /\ DepositAtHand' /\ TodoIsRecorded' /\ MintIsSeen' /\ AttestedFirst'
      /\ \A s \in Relayers, e \in Deposits : Kept(s, e)
      /\ d \notin relayer'[r].todo
  BY NextDepositKeeps
<1>2. engine[d] # "start"
  BY <1>1 DEF IInv, TodoIsRecorded, Holds
<1>3. TypeOK'
  BY <1>1 DEF IInv, TypeOK, PCs, Busy, AtHand
<1>4. EngineOrder' /\ BurnIsRecorded' /\ MintedIsUsed'
  BY <1>1, <1>2 DEF IInv, EngineOrder, BurnIsRecorded, MintedIsUsed
<1>5. Leased'
  <2>1. SUFFICES ASSUME NEW s \in Relayers, NEW e \in Deposits \ lapsed, Holds(s, e)'
                 PROVE  row'[e].claimed /\ (row'[e].status = "minted" => row[e].status = "minted")
    BY <1>1, LeasesStay
  <2>2. Holds(s, e) /\ e \in relayer'[s].todo
    BY <1>1, <2>1 DEF Holds, Kept
  <2>3. e # d
    BY <1>1, <2>2, HolderIsAlone
  <2> QED
    BY <2>2, <2>3 DEF IInv, Leased
<1> QED
  BY <1>1, <1>3, <1>4, <1>5 DEF IInv

\* The holder writes minted after it saw the nonce consumed, and may fail to
\* write it, or to notify the user once it did.
LEMMA SetMintedKeeps ==
  ASSUME IInv, NEW r \in Relayers, SetMinted(r)
  PROVE  IInv'
<1> DEFINE d == relayer[r].dep
<1>1. d \in used /\ relayer[r].pc = "minted" /\ d \in Deposits /\ d \in relayer[r].todo
  BY DEF IInv, TypeOK, MintIsSeen, DepositAtHand, SetMinted, At, Busy, AtHand
<1>2. UNCHANGED <<engine, aged, burn, attested, used, pending, crashes, requeues, lapsed>>
  BY DEF SetMinted, chainVars, boundVars
<1>3. CASE SetRow(d, "minted") /\ (NextDeposit(r) \/ Goto(r, "unnotified"))
  <2>1. /\ row' \in [Deposits ->
             [status : {"none", "pending_broadcast", "burned", "minted", "failed"},
              attempts : Nat, claimed : BOOLEAN]]
        /\ \A e \in Deposits \ {d} : row'[e] = row[e]
        /\ row'[d].status = "minted" /\ row'[d].claimed = row[d].claimed
    BY <1>1, <1>3 DEF IInv, TypeOK, SetRow
  <2>2. CASE NextDeposit(r)
    BY <1>1, <1>2, <2>1, <2>2, HolderWrites DEF Busy, AtHand
  <2>3. CASE Goto(r, "unnotified")
    <3>1. /\ relayer' \in [Relayers -> [pc : PCs, todo : SUBSET Deposits,
                                        dep : Deposits \cup {NoDeposit}]]
          /\ relayer'[r] = [pc |-> "unnotified", todo |-> relayer[r].todo, dep |-> d]
          /\ \A s \in Relayers \ {r} : relayer'[s] = relayer[s]
      BY <2>3, Moved DEF IInv, PCs, AtHand
    <3>2. TypeOK'
      BY <1>2, <2>1, <3>1 DEF IInv, TypeOK, PCs, Busy, AtHand
    <3>3. DepositAtHand' /\ TodoIsRecorded' /\ MintIsSeen' /\ AttestedFirst'
      BY <1>1, <1>2, <3>1 DEF IInv, DepositAtHand, TodoIsRecorded, MintIsSeen, AttestedFirst
    <3>4. EngineOrder' /\ BurnIsRecorded' /\ MintedIsUsed'
      <4>1. engine[d] # "start"
        BY <1>1 DEF IInv, TodoIsRecorded
      <4> QED
        BY <1>1, <1>2, <2>1, <4>1 DEF IInv, EngineOrder, BurnIsRecorded, MintedIsUsed
    <3>5. \A s \in Relayers, e \in Deposits : Kept(s, e)
      BY <1>1, <3>1 DEF Kept, Holds, Unnotified, At
    <3>6. \A s \in Relayers, e \in Deposits \ lapsed : Holds(s, e)' =>
            row'[e].claimed /\ (row'[e].status = "minted" =>
                                  row[e].status = "minted" \/ Unnotified(s, e)')
      <4> SUFFICES ASSUME NEW s \in Relayers, NEW e \in Deposits \ lapsed, Holds(s, e)'
                   PROVE  row'[e].claimed /\ (row'[e].status = "minted" =>
                            row[e].status = "minted" \/ Unnotified(s, e)')
        OBVIOUS
      <4>1. Holds(s, e) /\ row[e].claimed
        BY <3>5 DEF Kept, IInv, Leased
      <4>2. CASE e # d
        BY <2>1, <4>1, <4>2
      <4>3. CASE e = d
        <5>1. Holds(r, d)
          BY <1>1 DEF Holds
        <5>2. s = r
          BY <4>1, <4>3, <5>1, HolderIsAlone
        <5> QED
          BY <2>1, <3>1, <4>1, <4>3, <5>2 DEF Unnotified, At
      <4> QED
        BY <4>2, <4>3
    <3>7. Leased'
      BY <1>2, <3>5, <3>6, LeasesStay
    <3> QED
      BY <3>2, <3>3, <3>4, <3>7 DEF IInv
  <2> QED
    BY <1>3, <2>2, <2>3
<1>4. CASE Goto(r, "stall") /\ UNCHANGED row
  BY <1>1, <1>2, <1>4, MoveKeeps DEF Busy, boundVars
<1> QED
  BY <1>3, <1>4 DEF SetMinted

\* The holder counts an error and fails the row at the last one.
LEMMA BumpErrorKeeps ==
  ASSUME IInv, NEW r \in Relayers, BumpError(r)
  PROVE  IInv'
<1> DEFINE d == relayer[r].dep
           n == row[d].attempts + 1
<1>1. relayer[r].pc \in AtHand /\ d \in Deposits
  BY DEF IInv, TypeOK, DepositAtHand, BumpError, At, Busy, AtHand
<1>2. row' = [row EXCEPT ![d].attempts = n,
                         ![d].status = IF n >= MaxAttempts THEN "failed" ELSE @]
  BY DEF BumpError, OutOfAttempts
<1>3. /\ row' \in [Deposits ->
           [status : {"none", "pending_broadcast", "burned", "minted", "failed"},
            attempts : Nat, claimed : BOOLEAN]]
      /\ \A e \in Deposits \ {d} : row'[e] = row[e]
      /\ row'[d].attempts = n
      /\ row'[d].status = IF n >= MaxAttempts THEN "failed" ELSE row[d].status
  BY <1>1, <1>2 DEF IInv, TypeOK
<1>4. row'[d].status = "minted" => d \in used
  BY <1>1, <1>3 DEF IInv, MintedIsUsed
<1>5. QED
  <2>1. /\ NextDeposit(r)
        /\ UNCHANGED <<engine, aged, burn, attested, used, pending, crashes, requeues, lapsed>>
    BY DEF BumpError, chainVars, boundVars
  <2>2. row'[d].status = "none" => row[d].status = "none"
    BY <1>3
  <2> HIDE DEF n
  <2> QED
    BY <1>1, <1>3, <1>4, <2>1, <2>2, HolderWrites

\* The holder fails a row that is a day old, or leaves it.
LEMMA BumpStallKeeps ==
  ASSUME IInv, NEW r \in Relayers, BumpStall(r)
  PROVE  IInv'
<1> DEFINE d == relayer[r].dep
<1>1. relayer[r].pc \in AtHand /\ d \in Deposits
  BY DEF IInv, TypeOK, DepositAtHand, BumpStall, At, Busy, AtHand
<1>2. /\ row' \in [Deposits ->
           [status : {"none", "pending_broadcast", "burned", "minted", "failed"},
            attempts : Nat, claimed : BOOLEAN]]
      /\ \A e \in Deposits \ {d} : row'[e] = row[e]
      /\ row'[d] = row[d] \/ (d \in aged /\ row'[d].status = "failed")
  <2>1. row \in [Deposits ->
          [status : {"none", "pending_broadcast", "burned", "minted", "failed"},
           attempts : Nat, claimed : BOOLEAN]]
    BY DEF IInv, TypeOK
  <2>2. CASE d \in aged /\ row' = [row EXCEPT ![d].status = "failed"]
    BY <1>1, <2>1, <2>2
  <2>3. CASE row' = row
    BY <2>1, <2>3
  <2> QED
    BY <2>2, <2>3 DEF BumpStall, StalledOut, SetRow
<1>3. row'[d].status = "minted" => d \in used
  BY <1>1, <1>2 DEF IInv, MintedIsUsed
<1> QED
  BY <1>1, <1>2, <1>3, HolderWrites DEF BumpStall, chainVars, boundVars

-----------------------------------------------------------------------------
(* The theorems.                                                           *)

\* The invariant holds before the first burn.
LEMMA InitIInv == Init => IInv
<1> SUFFICES ASSUME Init PROVE IInv
  OBVIOUS
<1>1. TypeOK
  BY CctpAssumption DEF Init, TypeOK, NoRow, IdleRelayer
<1>2. DepositAtHand /\ TodoIsRecorded /\ EngineOrder /\ AttestedFirst /\ MintIsSeen
  BY DEF Init, DepositAtHand, TodoIsRecorded, EngineOrder, AttestedFirst, MintIsSeen,
         NoRow, IdleRelayer, Busy, AtHand
<1>3. Leased /\ MintedIsUsed /\ BurnIsRecorded
  BY DEF Init, Leased, Holds, MintedIsUsed, BurnIsRecorded, NoRow, IdleRelayer
<1> QED
  BY <1>1, <1>2, <1>3 DEF IInv

\* Every step keeps the invariant.
LEMMA NextIInv == IInv /\ [Next]_vars => IInv'
<1> SUFFICES ASSUME IInv, [Next]_vars PROVE IInv'
  OBVIOUS
<1>1. ASSUME NEW d \in Deposits, Engine(d) PROVE IInv'
  BY <1>1, RecordBurnKeeps, BroadcastBurnKeeps, MarkBroadcastKeeps DEF Engine
<1>2. ASSUME NEW r \in Relayers, Pass(r) PROVE IInv'
  <2>1. CASE \E d \in Deposits : ReconcileBurn(r, d) \/ FetchAttestation(r, d)
    BY <2>1, ReconcileBurnKeeps, FetchAttestationKeeps
  <2>2. CASE \E ds \in SUBSET Deposits : Claim(r, ds)
    BY <2>2, ClaimKeeps
  <2>3. CASE ReadPendingBroadcasts(r) \/ EndPass(r) \/ Precheck(r) \/ Estimate(r)
    BY <2>3, ReadPendingBroadcastsKeeps, EndPassKeeps, PrecheckKeeps, EstimateKeeps
  <2>4. CASE SendReceive(r) \/ Receipt(r) \/ Recheck(r)
    BY <2>4, SendReceiveKeeps, ReceiptKeeps, RecheckKeeps
  <2>5. CASE SetMinted(r) \/ BumpError(r) \/ BumpStall(r)
    BY <2>5, SetMintedKeeps, BumpErrorKeeps, BumpStallKeeps
  <2> QED
    BY <1>2, <2>1, <2>2, <2>3, <2>4, <2>5 DEF Pass
<1>3. CASE UNCHANGED vars
  BY <1>3 DEF vars, IInv, TypeOK, DepositAtHand, TodoIsRecorded, EngineOrder, AttestedFirst,
              MintIsSeen, Leased, Holds, Unnotified, At, MintedIsUsed, BurnIsRecorded
<1> QED
  BY <1>1, <1>2, <1>3, WorldKeeps, LeaseExpiresKeeps, CrashKeeps, RequeueFailedKeeps DEF Next

\* The invariant holds in every state.
LEMMA Invariance == Spec => []IInv
  BY InitIInv, NextIInv, PTL DEF Spec

\* The rows of cctp_generic_deposits and the relayers' loops keep their types,
\* for any deposits, replicas, attempts, crashes and requeues.
THEOREM CctpTypeCorrect == Spec => []TypeOK
<1>1. IInv => TypeOK
  BY DEF IInv
<1> QED
  BY <1>1, Invariance, PTL

\* However many replicas submit receiveMessage and whatever answers are lost, a
\* row says minted only when the message's nonce is consumed (_submit_receive).
THEOREM CctpMintedCorrect == Spec => []MintedIsUsed
<1>1. IInv => MintedIsUsed
  BY DEF IInv
<1> QED
  BY <1>1, Invariance, PTL

\* Because _execute_cctp_swap records before it broadcasts, no death of the
\* process leaves a burn without a row.
THEOREM CctpRecordedCorrect == Spec => []BurnIsRecorded
<1>1. IInv => BurnIsRecorded
  BY DEF IInv
<1> QED
  BY <1>1, Invariance, PTL

\* The claim of _pending keeps replicas off each other's deposits until a lease
\* lapses or an operator requeues.
THEOREM CctpLeaseCorrect == Spec => []OneHolderPerLease
<1>1. IInv => OneHolderPerLease
  BY DEF IInv, Leased, OneHolderPerLease
<1> QED
  BY <1>1, Invariance, PTL

\* Only a writer that lost its lease, or one that could not notify the user of an
\* old deposit, can take a row out of minted.
LEMMA MintedStep ==
  ASSUME IInv, [Next]_vars, NEW d \in Deposits,
         row[d].status = "minted", row'[d].status # "minted"
  PROVE  d \in lapsed \/ (d \in aged /\ \E r \in Relayers : Unnotified(r, d))
<1>1. /\ engine[d] # "start"
      /\ burn[d] = "landed"
      /\ \A r \in Relayers : Holds(r, d) => d \in lapsed \/ Unnotified(r, d)
  BY DEF IInv, EngineOrder, MintedIsUsed, AttestedFirst, Leased
<1>2. ASSUME NEW e \in Deposits, Engine(e) PROVE FALSE
  BY <1>1, <1>2 DEF IInv, TypeOK, Engine, RecordBurn, RecordedRow, BroadcastBurn, MarkBroadcast, Promoted
<1>3. ASSUME NEW r \in Relayers, NEW e \in Deposits, ReconcileBurn(r, e) PROVE FALSE
  BY <1>1, <1>3 DEF IInv, TypeOK, ReconcileBurn, Promoted, SetRow
<1>4. ASSUME NEW r \in Relayers, NEW ds \in SUBSET Deposits, Claim(r, ds) PROVE FALSE
  BY <1>4 DEF IInv, TypeOK, Claim
<1>5. ASSUME NEW r \in Relayers, SetMinted(r) \/ BumpError(r) \/ BumpStall(r)
      PROVE  d \in lapsed \/ (d \in aged /\ Unnotified(r, d))
  <2>1. relayer[r].dep \in Deposits /\ Holds(r, relayer[r].dep)
    BY <1>5 DEF IInv, TypeOK, DepositAtHand, Holds, Busy, AtHand, SetMinted, BumpError, BumpStall, At
  <2>2. relayer[r].dep = d
    BY <1>5, <2>1 DEF IInv, TypeOK, SetMinted, BumpError, BumpStall, SetRow
  <2>3. CASE SetMinted(r)
    BY <2>2, <2>3 DEF IInv, TypeOK, SetMinted, SetRow
  <2>4. CASE BumpError(r)
    <3>1. ~Unnotified(r, d)
      BY <2>4 DEF BumpError, Unnotified, At
    <3> QED
      BY <1>1, <2>1, <2>2, <3>1
  <2>5. CASE BumpStall(r)
    <3>1. d \in aged
      BY <2>2, <2>5 DEF IInv, TypeOK, BumpStall, StalledOut, SetRow
    <3> QED
      BY <1>1, <2>1, <2>2, <3>1
  <2> QED
    BY <1>5, <2>3, <2>4, <2>5
<1>6. ASSUME NEW e \in Deposits, LeaseExpires(e) PROVE FALSE
  BY <1>6 DEF IInv, TypeOK, LeaseExpires
<1>7. CASE RequeueFailed
  BY <1>7 DEF IInv, TypeOK, RequeueFailed
<1> QED
  BY <1>2, <1>3, <1>4, <1>5, <1>6, <1>7
  DEF Next, Pass, vars, relayerOnly, EngineDies, MineBurn, Attest, Age, MineReceive, Crash,
      ReadPendingBroadcasts, EndPass, FetchAttestation, Precheck, Estimate, SendReceive, Receipt, Recheck

\* A minted deposit stays minted against late errors and stalls, restarts and
\* requeues; only the outcome of an attempt whose claim ended, or a notification
\* that raised for a deposit a day old, can overwrite it.
THEOREM CctpMintedFinal == Spec => MintedIsFinal
<1>1. IInv /\ [Next]_vars =>
        [\A d \in Deposits :
           row[d].status = "minted" /\ row'[d].status # "minted" =>
             \/ d \in lapsed
             \/ d \in aged /\ \E r \in Relayers : Unnotified(r, d)]_vars
  BY MintedStep
<1> QED
  BY <1>1, Invariance, PTL DEF Spec, MintedIsFinal

==============================================================================
