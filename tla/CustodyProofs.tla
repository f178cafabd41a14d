---------------------------- MODULE CustodyProofs ----------------------------
(***************************************************************************)
(* Proofs that the custodial ledger keeps the promises of Custody for any  *)
(* deployment, any requests, retries, reconcilers, deposits, deaths and    *)
(* database errors: a key pays out once, a refund gives back what was      *)
(* reserved, a debit is accounted for, a scanned deposit is booked, each   *)
(* up to the exceptions its definition names; and that in a deployment of  *)
(* one process whoever writes the balance writes what it just read, so the *)
(* balance is what its movements add up to.                                *)
(***************************************************************************)
EXTENDS Custody, DataInduction

-----------------------------------------------------------------------------
(* The inductive invariant: requests.                                      *)

\* The handler has claimed its key.
Claimed == HandlerPC \ {"start", "over"}

\* The request has a hash and may be on the chain.
Signed == {"broadcast", "finalize", "notify", "ambiguous"}

\* Where the handler of a transaction on the chain is, and where it is once the
\* bot undoes that request.
SentPC == {"finalize", "notify", "ambiguous", "over"}

UndoPC == {"refund", "credit", "release", "over"}

\* What became of request r, its row and its transaction.  A row without a hash
\* has no transaction, an old row no handler; a transaction that was refunded
\* reverted or will never exist, unless the bot undid it.
RequestInv(r) ==
  /\ handler[r].pc = "start" =>
       /\ rows[r].status = "none" /\ handler[r].key = NoKey /\ handler[r].lost = 0
       /\ r \notin debits
  /\ handler[r].pc \in Claimed => rows[r].status # "none"
  /\ rows[r].status # "none" => handler[r].key \in Keys
  /\ chain[r] # "none" =>
       /\ r \in debits /\ (rows[r].status # "none" => rows[r].hash)
       /\ Undone(r) \/ (rows[r].status # "none" /\ handler[r].pc \in SentPC)
  /\ Undone(r) => chain[r] # "none" /\ handler[r].pc \in UndoPC
  /\ handler[r].pc \in {"finalize", "notify"} \/ rows[r].status = "completed" =>
       chain[r] # "none"
  /\ handler[r].pc \in Signed => rows[r].hash
  /\ handler[r].pc \in Signed \cup {"sign", "refund", "credit"} => r \in debits
  /\ handler[r].pc \in {"reserve", "swap"} => handler[r].lost < MaxRetries /\ r \notin debits
  /\ rowAge[r] = "old" => handler[r].pc = "over"
  /\ refunds[r] > 0 =>
       \/ Undone(r) \/ chain[r] = "reverted"
       \/ chain[r] = "none" /\ handler[r].pc \in {"release", "over"}

\* The unique index.
OneRowPerKey ==
  \A r, q \in Requests :
    handler[r].key = handler[q].key /\ rows[r].status # "none" /\ rows[q].status # "none" => r = q

\* Nothing can send the transaction of request r any more.
NeverSent(r) == chain[r] = "none" /\ handler[r].pc = "over"

\* A reconciler completes what was mined and fails what reverted or was never
\* sent.
ReconInv(c) ==
  /\ recon[c].pc \notin {"idle", "pick"} => recon[c].req \in Requests
  /\ recon[c].pc = "complete" => chain[recon[c].req] = "mined"
  /\ recon[c].pc \in {"fail", "refund", "credit"} =>
       chain[recon[c].req] = "reverted" \/ NeverSent(recon[c].req)
  /\ \A copy \in recon[c].todo :
       ~copy.hash /\ rowAge[copy.req] = "old" => chain[copy.req] = "none"

WithdrawalInv ==
  /\ \A r \in Requests : RequestInv(r)
  /\ OneRowPerKey
  /\ \A c \in Reconcilers : ReconInv(c)

-----------------------------------------------------------------------------
(* The inductive invariant: refunds.                                       *)

Refunding(c, r) == recon[c].req = r /\ recon[c].pc \in {"refund", "credit"}

\* A reconciler is refunding request r.
Returning(r) == \E c \in Reconcilers : Refunding(c, r)

\* The handler of r neither left its row beside a reservation that was not made,
\* or beside its own refund, nor undid what it had sent.
Calm(r) == ~RowLeftBehind(r) /\ ~Undone(r)

\* A calm request's handler leaves no pending row without a debit, and a refund is
\* made once, by the handler or by the reconciler that failed the row.  The row
\* of a debit is released after the refund, and failed before it.
CalmRequest(r) ==
  /\ Calm(r) =>
       /\ handler[r].pc = "over" /\ rows[r].status = "pending" => r \in debits
       /\ refunds[r] <= 1
       /\ refunds[r] = 1 => r \in debits /\ (rows[r].status # "pending" \/ handler[r].pc = "release")
  /\ r \in debits =>
       /\ rows[r].status = "none" \/ handler[r].pc = "release" => refunds[r] > 0
       /\ rows[r].status = "failed" => refunds[r] > 0 \/ Returning(r) \/ <<r, "recon">> \in broken
  /\ rows[r].status = "failed" => chain[r] = "reverted" \/ NeverSent(r)

CalmRecon(c) ==
  \A r \in Requests : Refunding(c, r) /\ Calm(r) =>
    /\ rows[r].status # "pending" /\ refunds[r] = 0 /\ r \in debits
    /\ \A d \in Reconcilers : Refunding(d, r) => d = c

CalmInv == (\A r \in Requests : CalmRequest(r)) /\ (\A c \in Reconcilers : CalmRecon(c))

-----------------------------------------------------------------------------
(* The inductive invariant: deposits.                                      *)

\* A watcher reads confirmed blocks and holds logs of its range and chunk.
WatcherInv(w) ==
  /\ watcher[w].pc # "idle" => watcher[w].to + CONFIRMATIONS <= head
  /\ watcher[w].pc \in {"handle", "credit"} => watcher[w].chunk <= Chunks
  /\ \A d \in watcher[w].logs : InRange(d, watcher[w].from, watcher[w].to)
  /\ watcher[w].pc \in {"idle", "fetch"} => watcher[w].logs = {}
  /\ watcher[w].pc = "credit" =>
       /\ watcher[w].log \in watcher[w].logs /\ Creditable(watcher[w].log)
       /\ watcher[w].log \notin credited
       /\ ~BeingBooked(w, watcher[w].log)

DepositInv ==
  /\ \A w \in Watchers : WatcherInv(w)
  /\ \A d \in credited : Creditable(d) /\ d.block + CONFIRMATIONS <= head

Booking == credited \cup failed

\* Every creditable deposit between the blocks is booked or failed.
Covered(from, to) ==
  \A d \in DepositSet : Creditable(d) /\ InRange(d, from, to) => d \in Booking

\* Of the range of watcher record x the chunks before its own are booked, and of
\* its own chunk what is no longer in hand.
Scanned(x, booked) ==
  \A d \in DepositSet : Creditable(d) /\ InRange(d, x.from, x.to) =>
    /\ d.chunk < x.chunk => d \in booked
    /\ x.pc \in {"handle", "credit"} /\ d.chunk = x.chunk => d \in booked \cup x.logs

\* At most one watcher is deployed on the chain.
OneWatcher == \A v, w \in Watchers : v = w

\* A watcher alone begins where the cursor is and leaves nothing behind.
ScanInv ==
  /\ cursor # NoCursor => origin \in Nat /\ Covered(origin, cursor)
  /\ \A w \in Watchers : watcher[w].pc # "idle" =>
       /\ cursor # NoCursor => watcher[w].from = cursor
       /\ Scanned(watcher[w], Booking)

-----------------------------------------------------------------------------
(* The inductive invariant: the balance.                                   *)

\* The actor has read the balance and is about to write it.
Writing(a) ==
  \/ a \in Requests /\ handler[a].pc \in {"swap", "credit"}
  \/ a \in Reconcilers /\ recon[a].pc = "credit"
  \/ a \in Watchers /\ watcher[a].pc = "credit"

\* One event loop runs everything.
OneProcess == \A a, b \in DOMAIN home : home[a] = home[b]

\* Whoever is about to write has its process to itself; a reservation has seen
\* the funds; and with one process the balance is still what was read.
BalanceInv ==
  /\ \A a \in Actors : Writing(a) => Deployed(a) /\ running[home[a]] = a
  /\ \A r \in Requests : handler[r].pc = "swap" => cached[r] >= Amount[r]
  /\ OneProcess => \A a \in Actors : Writing(a) => cached[a] = balance

IInv ==
  /\ TypeOK /\ WithdrawalInv /\ CalmInv /\ DepositInv /\ BalanceInv
  /\ OneWatcher => ScanInv

-----------------------------------------------------------------------------
(* Types, by component.                                                    *)

HandlerRecords == [pc : HandlerPC, key : Keys \cup {NoKey}, lost : 0..MaxRetries]

RowRecords == [status : {"none", "pending", "completed", "failed"}, hash : BOOLEAN]

ChainStates == {"none", "mempool", "mined", "reverted"}

ReconRecords ==
  [pc : {"idle", "pick", "lookup", "complete", "fail", "refund", "credit"},
   todo : SUBSET [req : Requests, hash : BOOLEAN], req : Requests \cup {Nobody}]

WatcherRecords ==
  [pc : {"idle", "fetch", "handle", "credit"}, from : 0..MaxHead, to : 0..MaxHead,
   chunk : 1..(Chunks + 1), logs : SUBSET DepositSet, log : DepositSet \cup {NoCursor}]

WithdrawalType ==
  /\ handler \in [Requests -> HandlerRecords]
  /\ rows \in [Requests -> RowRecords]
  /\ rowAge \in [Requests -> {"fresh", "stale", "old"}]
  /\ chain \in [Requests -> ChainStates]
  /\ recon \in [Reconcilers -> ReconRecords]
  /\ debits \subseteq Requests
  /\ refunds \in [Requests -> Nat]
  /\ broken \subseteq Requests \X BreakingSteps

DepositType ==
  /\ head \in InitialHead..MaxHead
  /\ cursor \in 0..MaxHead \cup {NoCursor}
  /\ credited \subseteq DepositSet
  /\ watcher \in [Watchers -> WatcherRecords]
  /\ failed \subseteq DepositSet

BalanceType ==
  /\ home \in Topologies
  /\ balance \in Nat
  /\ cached \in [Actors -> Nat]
  /\ running \in [Processes -> Actors \cup {Nobody}]

LEMMA TypeParts ==
  TypeOK <=> WithdrawalType /\ DepositType /\ BalanceType /\ crashes \in 0..MaxCrashes
  BY DEF TypeOK, WithdrawalType, DepositType, BalanceType, HandlerRecords, RowRecords,
         ChainStates, ReconRecords, WatcherRecords

\* A deployed actor has a process; the three kinds of actors are distinct.
LEMMA ActorFacts ==
  ASSUME BalanceType
  PROVE  /\ \A a \in Actors : Deployed(a) => home[a] \in Processes
         /\ Requests \cup Reconcilers \cup Watchers = Actors
         /\ Requests \cap Reconcilers = {} /\ Watchers \cap (Requests \cup Reconcilers) = {}
         /\ Nobody \notin Actors
<1>1. PICK A \in SUBSET Actors : home \in [A -> Processes]
  BY BalanceAssumption DEF BalanceType
<1>2. \A a \in Actors : Deployed(a) => home[a] \in Processes
  BY <1>1 DEF Deployed
<1> QED
  BY <1>2, BalanceAssumption, WithdrawalAssumption, CustodyAssumption

-----------------------------------------------------------------------------
(* Steps of a request's handler.                                           *)

\* What Goto does to the handlers.
LEMMA GotoFacts ==
  ASSUME WithdrawalType, NEW r \in Requests, NEW pc \in HandlerPC, Goto(r, pc)
  PROVE  /\ handler' \in [Requests -> HandlerRecords]
         /\ handler'[r].pc = pc /\ handler'[r].key = handler[r].key
         /\ handler'[r].lost = handler[r].lost
         /\ \A q \in Requests : q # r => handler'[q] = handler[q]
<1>1. handler[r] \in HandlerRecords
  BY DEF WithdrawalType
<1>2. [handler[r] EXCEPT !.pc = pc] \in HandlerRecords
  BY <1>1 DEF HandlerRecords
<1>3. handler' = [handler EXCEPT ![r] = [handler[r] EXCEPT !.pc = pc]]
  BY DEF Goto
<1> QED
  BY <1>1, <1>2, <1>3 DEF WithdrawalType, HandlerRecords

\* A step concerns request r alone.
Only(r) ==
  /\ \A q \in Requests : q # r =>
       /\ handler'[q] = handler[q] /\ rows'[q] = rows[q] /\ rowAge'[q] = rowAge[q]
       /\ chain'[q] = chain[q] /\ refunds'[q] = refunds[q] /\ (q \in debits' <=> q \in debits)
       /\ Undone(q)' <=> Undone(q)
  /\ recon' = recon

\* A step of the handler of r, which leaves the chain's verdict and does not
\* take another request's key.
LEMMA HandlerKeeps ==
  ASSUME WithdrawalInv, WithdrawalType, NEW r \in Requests, handler[r].pc # "over", Only(r),
         rowAge'[r] = rowAge[r], chain[r] # "none" => chain'[r] = chain[r],
         RequestInv(r)',
         rows'[r].status # "none" =>
           \/ rows[r].status # "none" /\ handler'[r].key = handler[r].key
           \/ ~KeyTaken(handler'[r].key)
  PROVE  WithdrawalInv'
<1>1. \A q \in Requests : RequestInv(q)'
  <2>1. ASSUME NEW q \in Requests, q # r
        PROVE  RequestInv(q)'
    <3>1. RequestInv(q)
      BY DEF WithdrawalInv
    <3> QED
      BY <2>1, <3>1 DEF RequestInv, Only
  <2> QED
    BY <2>1
<1>2. OneRowPerKey'
  <2>1. ASSUME NEW q \in Requests, q # r, handler'[q].key = handler'[r].key,
               rows'[q].status # "none", rows'[r].status # "none"
        PROVE  FALSE
    <3>1. handler[q].key = handler'[r].key /\ rows[q].status # "none"
      BY <2>1 DEF Only
    <3>2. KeyTaken(handler'[r].key)
      BY <3>1 DEF KeyTaken
    <3>3. rows[r].status # "none" /\ handler'[r].key = handler[r].key
      BY <2>1, <3>2
    <3> QED
      BY <2>1, <3>1, <3>3 DEF WithdrawalInv, OneRowPerKey
  <2>2. ASSUME NEW p \in Requests, NEW q \in Requests, p # r, q # r,
               handler'[p].key = handler'[q].key, rows'[p].status # "none",
               rows'[q].status # "none"
        PROVE  p = q
    BY <2>2 DEF Only, WithdrawalInv, OneRowPerKey
  <2> QED
    BY <2>1, <2>2 DEF OneRowPerKey
<1>3. \A c \in Reconcilers : ReconInv(c)'
  <2>1. ASSUME NEW c \in Reconcilers
        PROVE  ReconInv(c)'
    <3>1. ReconInv(c)
      BY DEF WithdrawalInv
    <3>2. rowAge[r] # "old"
      BY DEF WithdrawalInv, RequestInv
    <3>3. recon[c].todo \subseteq [req : Requests, hash : BOOLEAN]
      BY DEF WithdrawalType, ReconRecords
    <3>4. \A copy \in recon[c].todo :
            ~copy.hash /\ rowAge'[copy.req] = "old" => chain'[copy.req] = "none"
      BY <3>1, <3>2, <3>3 DEF ReconInv, Only
    <3>5. recon[c].pc \in {"fail", "refund", "credit"} =>
            chain'[recon[c].req] = "reverted"
              \/ (chain'[recon[c].req] = "none" /\ handler'[recon[c].req].pc = "over")
      BY <3>1 DEF ReconInv, Only, NeverSent
    <3>6. recon[c].pc = "complete" => chain'[recon[c].req] = "mined"
      BY <3>1 DEF ReconInv, Only
    <3> QED
      BY <3>1, <3>4, <3>5, <3>6 DEF ReconInv, Only, NeverSent
  <2> QED
    BY <2>1
<1> QED
  BY <1>1, <1>2, <1>3 DEF WithdrawalInv

LEMMA ClaimKeeps ==
  ASSUME WithdrawalInv, WithdrawalType, NEW r \in Requests, NEW k \in Keys, Claim(r, k)
  PROVE  WithdrawalInv' /\ WithdrawalType'
<1>1. handler[r].pc = "start" /\ RequestInv(r)
  BY DEF Claim, At, WithdrawalInv
<1>2. UNCHANGED <<rowAge, chain, recon, debits, refunds, broken>>
  BY DEF Claim
<1>3. {"over", "reserve"} \subseteq HandlerPC
  BY DEF HandlerPC
<1>4. CASE Goto(r, "over") /\ UNCHANGED rows
  <2>1. /\ handler' \in [Requests -> HandlerRecords]
        /\ handler'[r].pc = "over" /\ handler'[r].key = handler[r].key
        /\ \A q \in Requests : q # r => handler'[q] = handler[q]
    BY <1>3, <1>4, GotoFacts
  <2>2. Only(r)
    BY <1>2, <1>4, <2>1 DEF Only, Undone
  <2>3. RequestInv(r)'
    BY <1>1, <1>2, <1>4, <2>1 DEF RequestInv, Claimed, Signed, SentPC, UndoPC, Undone
  <2>4. WithdrawalInv'
    BY <1>1, <1>2, <1>4, <2>1, <2>2, <2>3, HandlerKeeps
  <2> QED
    BY <1>2, <1>4, <2>1, <2>4 DEF WithdrawalType
<1>5. CASE /\ ~KeyTaken(k)
           /\ handler' = [handler EXCEPT ![r].pc = "reserve", ![r].key = k]
           /\ rows' = [rows EXCEPT ![r] = PendingRow]
  <2> DEFINE x == [handler[r] EXCEPT !.pc = "reserve", !.key = k]
  <2>1. handler[r] \in HandlerRecords
    BY DEF WithdrawalType
  <2>2. x \in HandlerRecords /\ x.pc = "reserve" /\ x.key = k /\ x.lost = handler[r].lost
    BY <1>3, <2>1 DEF HandlerRecords
  <2>3. handler' = [handler EXCEPT ![r] = x]
    BY <1>5
  <2> HIDE DEF x
  <2>4. /\ handler' \in [Requests -> HandlerRecords] /\ handler'[r] = x
        /\ \A q \in Requests : q # r => handler'[q] = handler[q]
    BY <2>2, <2>3 DEF WithdrawalType
  <2>5. /\ rows' \in [Requests -> RowRecords] /\ rows'[r] = PendingRow
        /\ \A q \in Requests : q # r => rows'[q] = rows[q]
    BY <1>5 DEF WithdrawalType, RowRecords, PendingRow
  <2>6. Only(r)
    BY <1>2, <2>4, <2>5 DEF Only, Undone
  <2>8. RequestInv(r)'
    BY <1>1, <1>2, <2>2, <2>4, <2>5, WithdrawalAssumption
       DEF RequestInv, Claimed, Signed, SentPC, UndoPC, Undone, PendingRow
  <2>9. WithdrawalInv'
    BY <1>1, <1>2, <1>5, <2>2, <2>4, <2>6, <2>8, HandlerKeeps
  <2> QED
    BY <1>2, <2>4, <2>5, <2>9 DEF WithdrawalType
<1> QED
  BY <1>4, <1>5 DEF Claim

\* A step to another program counter that changes at most the own row.
LEMMA GotoKeeps ==
  ASSUME WithdrawalInv, WithdrawalType, NEW r \in Requests, NEW pc \in HandlerPC, Goto(r, pc),
         handler[r].pc # "over", UNCHANGED <<rowAge, recon>>,
         rows' \in [Requests -> RowRecords], chain' \in [Requests -> ChainStates],
         refunds' \in [Requests -> Nat], debits' \subseteq Requests,
         broken' \subseteq Requests \X BreakingSteps,
         \A q \in Requests : q # r =>
           /\ rows'[q] = rows[q] /\ chain'[q] = chain[q] /\ refunds'[q] = refunds[q]
           /\ q \in debits' <=> q \in debits
           /\ Undone(q)' <=> Undone(q),
         chain[r] # "none" => chain'[r] = chain[r],
         rows'[r].status # "none" => rows[r].status # "none",
         handler'[r].pc = pc /\ handler'[r].key = handler[r].key
           /\ handler'[r].lost = handler[r].lost /\ RequestInv(r) => RequestInv(r)'
  PROVE  WithdrawalInv' /\ WithdrawalType'
<1>1. /\ handler' \in [Requests -> HandlerRecords]
      /\ handler'[r].pc = pc /\ handler'[r].key = handler[r].key
      /\ handler'[r].lost = handler[r].lost
      /\ \A q \in Requests : q # r => handler'[q] = handler[q]
  BY GotoFacts
<1>2. Only(r)
  BY <1>1 DEF Only
<1>3. RequestInv(r)
  BY DEF WithdrawalInv
<1>4. RequestInv(r)'
  BY <1>1, <1>3
<1>5. WithdrawalInv'
  BY <1>1, <1>2, <1>4, HandlerKeeps
<1> QED
  BY <1>1, <1>5 DEF WithdrawalType

LEMMA ReserveReadKeeps ==
  ASSUME WithdrawalInv, WithdrawalType, NEW r \in Requests, ReserveRead(r)
  PROVE  WithdrawalInv' /\ WithdrawalType'
<1>1. UNCHANGED <<rows, rowAge, chain, recon, debits, refunds, broken>>
  BY DEF ReserveRead
<1>2. handler[r].pc = "reserve"
  BY DEF ReserveRead, At
<1>3. PICK pc \in {"release", "swap"} : Goto(r, pc)
  BY DEF ReserveRead
<1>4. pc \in HandlerPC
  BY DEF HandlerPC
<1>5. handler'[r].pc = pc /\ handler'[r].key = handler[r].key
        /\ handler'[r].lost = handler[r].lost /\ RequestInv(r) => RequestInv(r)'
  BY <1>1, <1>2 DEF RequestInv, Claimed, Signed, SentPC, UndoPC, Undone, HandlerPC
<1> QED
  BY <1>1, <1>2, <1>3, <1>4, <1>5, GotoKeeps DEF WithdrawalType, Undone

LEMMA ReserveSwapKeeps ==
  ASSUME WithdrawalInv, WithdrawalType, NEW r \in Requests, ReserveSwap(r)
  PROVE  WithdrawalInv' /\ WithdrawalType'
<1>1. UNCHANGED <<rows, rowAge, chain, recon, refunds, broken>>
  BY DEF ReserveSwap
<1>2. handler[r].pc = "swap" /\ RequestInv(r)
  BY DEF ReserveSwap, At, WithdrawalInv
<1>3. CASE Goto(r, "sign") /\ debits' = debits \cup {r}
  <2>1. "sign" \in HandlerPC
    BY DEF HandlerPC
  <2>2. handler'[r].pc = "sign" /\ handler'[r].key = handler[r].key
          /\ handler'[r].lost = handler[r].lost /\ RequestInv(r) => RequestInv(r)'
    BY <1>1, <1>2, <1>3 DEF RequestInv, Claimed, Signed, SentPC, UndoPC, Undone, HandlerPC
  <2> QED
    BY <1>1, <1>2, <1>3, <2>1, <2>2, GotoKeeps DEF WithdrawalType, Undone
<1>4. CASE /\ handler' = [handler EXCEPT
                ![r].pc = IF handler[r].lost + 1 < MaxRetries THEN "reserve" ELSE "release",
                ![r].lost = @ + 1]
           /\ UNCHANGED debits
  <2> DEFINE x == [handler[r] EXCEPT
                     !.pc = IF handler[r].lost + 1 < MaxRetries THEN "reserve" ELSE "release",
                     !.lost = handler[r].lost + 1]
  <2>1. handler[r] \in HandlerRecords
    BY DEF WithdrawalType
  <2>2. handler[r].lost + 1 \in 0..MaxRetries
    BY <1>2, <2>1, WithdrawalAssumption DEF RequestInv, HandlerRecords
  <2>3. {"reserve", "release"} \subseteq HandlerPC
    BY DEF HandlerPC
  <2>4. /\ x \in HandlerRecords /\ x.key = handler[r].key /\ x.pc \in {"reserve", "release"}
        /\ x.pc = "reserve" => x.lost < MaxRetries
    BY <2>1, <2>2, <2>3 DEF HandlerRecords
  <2>5. handler' = [handler EXCEPT ![r] = x]
    BY <1>4
  <2> HIDE DEF x
  <2>6. /\ handler' \in [Requests -> HandlerRecords] /\ handler'[r] = x
        /\ \A q \in Requests : q # r => handler'[q] = handler[q]
    BY <2>4, <2>5 DEF WithdrawalType
  <2>7. Only(r)
    BY <1>1, <1>4, <2>6 DEF Only, Undone
  <2>8. RequestInv(r)'
    BY <1>1, <1>2, <1>4, <2>4, <2>6 DEF RequestInv, Claimed, Signed, SentPC, UndoPC, Undone, HandlerPC
  <2>9. WithdrawalInv'
    BY <1>1, <1>2, <2>4, <2>6, <2>7, <2>8, HandlerKeeps
  <2> QED
    BY <1>1, <1>4, <2>6, <2>9 DEF WithdrawalType
<1> QED
  BY <1>3, <1>4 DEF ReserveSwap

LEMMA SendFailsStep ==
  ASSUME WithdrawalInv, WithdrawalType, NEW r \in Requests, SendFails(r)
  PROVE  WithdrawalInv' /\ WithdrawalType'
<1>1. UNCHANGED <<rows, rowAge, chain, recon, debits, refunds, broken>>
  BY DEF SendFails
<1>2. handler[r].pc = "sign"
  BY DEF SendFails, At
<1>3. Goto(r, "refund") /\ "refund" \in HandlerPC
  BY DEF SendFails, HandlerPC
<1>5. handler'[r].pc = "refund" /\ handler'[r].key = handler[r].key
        /\ handler'[r].lost = handler[r].lost /\ RequestInv(r) => RequestInv(r)'
  BY <1>1, <1>2 DEF RequestInv, Claimed, Signed, SentPC, UndoPC, Undone, HandlerPC
<1>6. /\ rows' \in [Requests -> RowRecords] /\ chain' \in [Requests -> ChainStates]
      /\ refunds' \in [Requests -> Nat] /\ debits' \subseteq Requests
      /\ broken' \subseteq Requests \X BreakingSteps
  BY <1>1 DEF WithdrawalType
<1> QED
  BY <1>1, <1>2, <1>3, <1>5, <1>6, GotoKeeps DEF Undone

LEMMA RefundReadKeeps ==
  ASSUME WithdrawalInv, WithdrawalType, NEW r \in Requests, RefundRead(r)
  PROVE  WithdrawalInv' /\ WithdrawalType'
<1>1. UNCHANGED <<rows, rowAge, chain, recon, debits, refunds, broken>>
  BY DEF RefundRead
<1>2. handler[r].pc = "refund"
  BY DEF RefundRead, At
<1>3. Goto(r, "credit") /\ "credit" \in HandlerPC
  BY DEF RefundRead, HandlerPC
<1>5. handler'[r].pc = "credit" /\ handler'[r].key = handler[r].key
        /\ handler'[r].lost = handler[r].lost /\ RequestInv(r) => RequestInv(r)'
  BY <1>1, <1>2 DEF RequestInv, Claimed, Signed, SentPC, UndoPC, Undone, HandlerPC
<1>6. /\ rows' \in [Requests -> RowRecords] /\ chain' \in [Requests -> ChainStates]
      /\ refunds' \in [Requests -> Nat] /\ debits' \subseteq Requests
      /\ broken' \subseteq Requests \X BreakingSteps
  BY <1>1 DEF WithdrawalType
<1> QED
  BY <1>1, <1>2, <1>3, <1>5, <1>6, GotoKeeps DEF Undone

LEMMA StampHashKeeps ==
  ASSUME WithdrawalInv, WithdrawalType, NEW r \in Requests, StampHash(r)
  PROVE  WithdrawalInv' /\ WithdrawalType'
<1>1. UNCHANGED <<rowAge, chain, recon, debits, refunds, broken>>
  BY DEF StampHash
<1>2. handler[r].pc = "sign"
  BY DEF StampHash, At
<1>3. Goto(r, "broadcast") /\ "broadcast" \in HandlerPC
  BY DEF StampHash, HandlerPC
<1>4. /\ rows' \in [Requests -> RowRecords]
      /\ rows'[r].status = rows[r].status /\ (rows[r].hash => rows'[r].hash)
      /\ rows[r].status # "none" => rows'[r].hash
      /\ \A q \in Requests : q # r => rows'[q] = rows[q]
  BY DEF StampHash, WithdrawalType, RowRecords
<1>5. handler'[r].pc = "broadcast" /\ handler'[r].key = handler[r].key
        /\ handler'[r].lost = handler[r].lost /\ RequestInv(r) => RequestInv(r)'
  BY <1>1, <1>2, <1>4 DEF RequestInv, Claimed, Signed, SentPC, UndoPC, Undone, HandlerPC, WithdrawalInv
<1>6. /\ rows' \in [Requests -> RowRecords] /\ chain' \in [Requests -> ChainStates]
      /\ refunds' \in [Requests -> Nat] /\ debits' \subseteq Requests
      /\ broken' \subseteq Requests \X BreakingSteps
  BY <1>1, <1>4 DEF WithdrawalType
<1> QED
  BY <1>1, <1>2, <1>3, <1>4, <1>5, <1>6, GotoKeeps DEF Undone

LEMMA RecordPendingHashKeeps ==
  ASSUME WithdrawalInv, WithdrawalType, NEW r \in Requests, RecordPendingHash(r)
  PROVE  WithdrawalInv' /\ WithdrawalType'
<1>1. UNCHANGED <<rowAge, chain, recon, debits, refunds, broken>>
  BY DEF RecordPendingHash
<1>2. handler[r].pc = "ambiguous"
  BY DEF RecordPendingHash, At
<1>3. Goto(r, "over") /\ "over" \in HandlerPC
  BY DEF RecordPendingHash, HandlerPC
<1>4. /\ rows' \in [Requests -> RowRecords]
      /\ rows'[r].status = rows[r].status /\ (rows[r].hash => rows'[r].hash)
      /\ \A q \in Requests : q # r => rows'[q] = rows[q]
  BY DEF RecordPendingHash, WithdrawalType, RowRecords
<1>5. handler'[r].pc = "over" /\ handler'[r].key = handler[r].key
        /\ handler'[r].lost = handler[r].lost /\ RequestInv(r) => RequestInv(r)'
  BY <1>1, <1>2, <1>4 DEF RequestInv, Claimed, Signed, SentPC, UndoPC, Undone, HandlerPC
<1>6. /\ rows' \in [Requests -> RowRecords] /\ chain' \in [Requests -> ChainStates]
      /\ refunds' \in [Requests -> Nat] /\ debits' \subseteq Requests
      /\ broken' \subseteq Requests \X BreakingSteps
  BY <1>1, <1>4 DEF WithdrawalType
<1> QED
  BY <1>1, <1>2, <1>3, <1>4, <1>5, <1>6, GotoKeeps DEF Undone

LEMMA FinalizeKeeps ==
  ASSUME WithdrawalInv, WithdrawalType, NEW r \in Requests, Finalize(r)
  PROVE  WithdrawalInv' /\ WithdrawalType'
<1>1. UNCHANGED <<rowAge, chain, recon, debits, refunds, broken>>
  BY DEF Finalize
<1>2. handler[r].pc = "finalize"
  BY DEF Finalize, At
<1>3. PICK pc \in {"notify", "over"} : Goto(r, pc)
  BY DEF Finalize
<1>4. /\ rows' \in [Requests -> RowRecords]
      /\ rows'[r].status # "none" <=> rows[r].status # "none"
      /\ rows[r].hash => rows'[r].hash
      /\ \A q \in Requests : q # r => rows'[q] = rows[q]
  BY DEF Finalize, WithdrawalType, RowRecords
<1>5. handler'[r].pc = pc /\ handler'[r].key = handler[r].key
        /\ handler'[r].lost = handler[r].lost /\ RequestInv(r) => RequestInv(r)'
  BY <1>1, <1>2, <1>4 DEF RequestInv, Claimed, Signed, SentPC, UndoPC, Undone, HandlerPC
<1>6. /\ rows' \in [Requests -> RowRecords] /\ chain' \in [Requests -> ChainStates]
      /\ refunds' \in [Requests -> Nat] /\ debits' \subseteq Requests
      /\ broken' \subseteq Requests \X BreakingSteps /\ pc \in HandlerPC
  BY <1>1, <1>4 DEF WithdrawalType, HandlerPC
<1> QED
  BY <1>1, <1>2, <1>3, <1>4, <1>5, <1>6, GotoKeeps DEF Undone

LEMMA NotifyKeeps ==
  ASSUME WithdrawalInv, WithdrawalType, NEW r \in Requests, Notify(r)
  PROVE  WithdrawalInv' /\ WithdrawalType'
<1>1. UNCHANGED <<rows, rowAge, chain, recon, debits, refunds, broken>>
  BY DEF Notify
<1>2. handler[r].pc = "notify"
  BY DEF Notify, At
<1>3. Goto(r, "over") /\ "over" \in HandlerPC
  BY DEF Notify, HandlerPC
<1>4. handler'[r].pc = "over" /\ handler'[r].key = handler[r].key
        /\ handler'[r].lost = handler[r].lost /\ RequestInv(r) => RequestInv(r)'
  BY <1>1, <1>2 DEF RequestInv, Claimed, Signed, SentPC, UndoPC, Undone, HandlerPC
<1>5. /\ rows' \in [Requests -> RowRecords] /\ chain' \in [Requests -> ChainStates]
      /\ refunds' \in [Requests -> Nat] /\ debits' \subseteq Requests
      /\ broken' \subseteq Requests \X BreakingSteps
  BY <1>1 DEF WithdrawalType
<1> QED
  BY <1>1, <1>2, <1>3, <1>4, <1>5, GotoKeeps DEF Undone

\* What a step of r that raises leaves in the history.
LEMMA BreaksFacts ==
  ASSUME WithdrawalType, NEW r \in Requests, NEW step \in BreakingSteps, Breaks(r, step)
  PROVE  /\ broken' \subseteq Requests \X BreakingSteps
         /\ \A q, s : <<q, s>> \in broken' <=> <<q, s>> \in broken \/ (q = r /\ s = step)
  BY DEF Breaks, WithdrawalType

LEMMA DatabaseErrorKeeps ==
  ASSUME WithdrawalInv, WithdrawalType, NEW r \in Requests, DatabaseError(r)
  PROVE  WithdrawalInv' /\ WithdrawalType'
<1>1. UNCHANGED <<rows, rowAge, chain, recon, debits, refunds>>
  BY DEF DatabaseError
<1>2. /\ handler[r].pc \in {"reserve", "swap", "release", "refund", "credit", "ambiguous", "finalize"}
      /\ Breaks(r, handler[r].pc)
  BY DEF DatabaseError
<1>3. Goto(r, "over") /\ "over" \in HandlerPC /\ handler[r].pc \in BreakingSteps
  BY <1>2 DEF DatabaseError, HandlerPC, BreakingSteps
<1>4. /\ broken' \subseteq Requests \X BreakingSteps
      /\ \A q \in Requests : Undone(q)' <=> Undone(q)
  BY <1>2, <1>3, BreaksFacts DEF Undone
<1>5. handler'[r].pc = "over" /\ handler'[r].key = handler[r].key
        /\ handler'[r].lost = handler[r].lost /\ RequestInv(r) => RequestInv(r)'
  BY <1>1, <1>2, <1>4 DEF RequestInv, Claimed, Signed, SentPC, UndoPC, HandlerPC
<1>6. /\ rows' \in [Requests -> RowRecords] /\ chain' \in [Requests -> ChainStates]
      /\ refunds' \in [Requests -> Nat] /\ debits' \subseteq Requests
  BY <1>1 DEF WithdrawalType
<1> QED
  BY <1>1, <1>2, <1>3, <1>4, <1>5, <1>6, GotoKeeps

LEMMA UndoAfterSendKeeps ==
  ASSUME WithdrawalInv, WithdrawalType, NEW r \in Requests, UndoAfterSend(r)
  PROVE  WithdrawalInv' /\ WithdrawalType'
<1>1. UNCHANGED <<rows, rowAge, chain, recon, debits, refunds>>
  BY DEF UndoAfterSend
<1>2. handler[r].pc \in {"finalize", "notify"} /\ Breaks(r, "undone")
  BY DEF UndoAfterSend, At
<1>3. Goto(r, "refund") /\ "refund" \in HandlerPC /\ "undone" \in BreakingSteps
  BY DEF UndoAfterSend, HandlerPC, BreakingSteps
<1>4. /\ broken' \subseteq Requests \X BreakingSteps /\ Undone(r)'
      /\ \A q \in Requests : q # r => (Undone(q)' <=> Undone(q))
  BY <1>2, <1>3, BreaksFacts DEF Undone
<1>5. handler'[r].pc = "refund" /\ handler'[r].key = handler[r].key
        /\ handler'[r].lost = handler[r].lost /\ RequestInv(r) => RequestInv(r)'
  BY <1>1, <1>2, <1>4 DEF RequestInv, Claimed, Signed, SentPC, UndoPC, HandlerPC
<1>6. /\ rows' \in [Requests -> RowRecords] /\ chain' \in [Requests -> ChainStates]
      /\ refunds' \in [Requests -> Nat] /\ debits' \subseteq Requests
  BY <1>1 DEF WithdrawalType
<1> QED
  BY <1>1, <1>2, <1>3, <1>4, <1>5, <1>6, GotoKeeps

LEMMA RefundWriteKeeps ==
  ASSUME WithdrawalInv, WithdrawalType, NEW r \in Requests, RefundWrite(r)
  PROVE  WithdrawalInv' /\ WithdrawalType'
<1>1. UNCHANGED <<rows, rowAge, chain, recon, debits, broken>>
  BY DEF RefundWrite
<1>2. handler[r].pc = "credit"
  BY DEF RefundWrite, At
<1>3. Goto(r, "release") /\ "release" \in HandlerPC
  BY DEF RefundWrite, HandlerPC
<1>4. /\ refunds' \in [Requests -> Nat]
      /\ \A q \in Requests : q # r => refunds'[q] = refunds[q]
  BY DEF RefundWrite, WithdrawalType
<1>5. handler'[r].pc = "release" /\ handler'[r].key = handler[r].key
        /\ handler'[r].lost = handler[r].lost /\ RequestInv(r) => RequestInv(r)'
  BY <1>1, <1>2, <1>4 DEF RequestInv, Claimed, Signed, SentPC, UndoPC, Undone, HandlerPC
<1>6. /\ rows' \in [Requests -> RowRecords] /\ chain' \in [Requests -> ChainStates]
      /\ refunds' \in [Requests -> Nat] /\ debits' \subseteq Requests
      /\ broken' \subseteq Requests \X BreakingSteps
  BY <1>1, <1>4 DEF WithdrawalType
<1> QED
  BY <1>1, <1>2, <1>3, <1>4, <1>5, <1>6, GotoKeeps DEF Undone

LEMMA ReleaseKeeps ==
  ASSUME WithdrawalInv, WithdrawalType, NEW r \in Requests, Release(r)
  PROVE  WithdrawalInv' /\ WithdrawalType'
<1>1. UNCHANGED <<rowAge, chain, recon, debits, refunds, broken>>
  BY DEF Release
<1>2. handler[r].pc = "release"
  BY DEF Release, At
<1>3. Goto(r, "over") /\ "over" \in HandlerPC
  BY DEF Release, HandlerPC
<1>4. /\ rows' \in [Requests -> RowRecords] /\ rows'[r].status = "none"
      /\ \A q \in Requests : q # r => rows'[q] = rows[q]
  BY DEF Release, NoRow, WithdrawalType, RowRecords
<1>5. handler'[r].pc = "over" /\ handler'[r].key = handler[r].key
        /\ handler'[r].lost = handler[r].lost /\ RequestInv(r) => RequestInv(r)'
  BY <1>1, <1>2, <1>4 DEF RequestInv, Claimed, Signed, SentPC, UndoPC, Undone, HandlerPC
<1>6. /\ rows' \in [Requests -> RowRecords] /\ chain' \in [Requests -> ChainStates]
      /\ refunds' \in [Requests -> Nat] /\ debits' \subseteq Requests
      /\ broken' \subseteq Requests \X BreakingSteps
  BY <1>1, <1>4 DEF WithdrawalType
<1> QED
  BY <1>1, <1>2, <1>3, <1>4, <1>5, <1>6, GotoKeeps DEF Undone

LEMMA BroadcastKeeps ==
  ASSUME WithdrawalInv, WithdrawalType, NEW r \in Requests, Broadcast(r)
  PROVE  WithdrawalInv' /\ WithdrawalType'
<1>1. UNCHANGED <<rows, rowAge, recon, debits, refunds, broken>>
  BY DEF Broadcast
<1>2. handler[r].pc = "broadcast" /\ RequestInv(r)
  BY DEF Broadcast, At, WithdrawalInv
<1>3. PICK pc \in {"finalize", "ambiguous"} :
        Goto(r, pc) /\ (pc = "finalize" => chain' = [chain EXCEPT ![r] = "mempool"])
  BY DEF Broadcast
<1>4. pc \in HandlerPC
  BY DEF HandlerPC
<1>5. /\ chain' \in [Requests -> ChainStates] /\ chain'[r] \in {chain[r], "mempool"}
      /\ \A q \in Requests : q # r => chain'[q] = chain[q]
  BY DEF Broadcast, WithdrawalType, ChainStates
<1>6. chain[r] = "none" /\ rows[r].status # "none" /\ rows[r].hash /\ r \in debits
      /\ ~(refunds[r] > 0)
  BY <1>2 DEF RequestInv, Signed, SentPC, UndoPC, Claimed, HandlerPC
<1>7. pc = "finalize" => chain'[r] # "none"
  BY <1>3 DEF WithdrawalType
<1>8. handler'[r].pc = pc /\ handler'[r].key = handler[r].key
        /\ handler'[r].lost = handler[r].lost => RequestInv(r)'
  <2>1. pc \in {"finalize", "ambiguous"}
    BY <1>3
  <2>2. ~Undone(r) /\ rowAge[r] # "old" /\ handler[r].key \in Keys
    BY <1>2, <1>6 DEF RequestInv, UndoPC
  <2>3. rows' = rows /\ rowAge' = rowAge /\ debits' = debits /\ refunds' = refunds
        /\ ~Undone(r)'
    BY <1>1, <2>2 DEF Undone
  <2>4. rows[r].status # "completed" \/ chain'[r] # "none"
    BY <1>2, <1>6 DEF RequestInv
  <2> QED
    BY <1>6, <1>7, <2>1, <2>2, <2>3, <2>4 DEF RequestInv, Claimed, Signed, SentPC
<1> QED
  BY <1>1, <1>2, <1>3, <1>4, <1>5, <1>6, <1>8, GotoKeeps DEF WithdrawalType, Undone

-----------------------------------------------------------------------------
(* The chain, the clock and the reconciler.                                *)

LEMMA MineKeeps ==
  ASSUME WithdrawalInv, WithdrawalType, NEW r \in Requests, NEW outcome \in {"mined", "reverted"},
         Mine(r, outcome)
  PROVE  WithdrawalInv' /\ WithdrawalType'
<1>1. UNCHANGED <<handler, rows, rowAge, recon, debits, refunds, broken>> /\ chain[r] = "mempool"
  BY DEF Mine
<1>2. /\ chain' \in [Requests -> ChainStates] /\ chain'[r] = outcome
      /\ \A q \in Requests : q # r => chain'[q] = chain[q]
  BY DEF Mine, WithdrawalType, ChainStates
<1>3. ASSUME NEW q \in Requests
      PROVE  RequestInv(q)'
  <2>1. RequestInv(q)
    BY DEF WithdrawalInv
  <2> QED
    BY <1>1, <1>2, <2>1 DEF RequestInv, Undone
<1>4. OneRowPerKey'
  BY <1>1 DEF WithdrawalInv, OneRowPerKey
<1>5. ASSUME NEW c \in Reconcilers
      PROVE  ReconInv(c)'
  <2>1. ReconInv(c)
    BY DEF WithdrawalInv
  <2>2. recon[c].todo \subseteq [req : Requests, hash : BOOLEAN]
    BY DEF WithdrawalType, ReconRecords
  <2>3. \A copy \in recon[c].todo :
          ~copy.hash /\ rowAge[copy.req] = "old" => chain'[copy.req] = "none"
    BY <1>1, <1>2, <2>1, <2>2 DEF ReconInv
  <2>4. recon[c].pc \in {"fail", "refund", "credit"} =>
          chain'[recon[c].req] = "reverted"
            \/ (chain'[recon[c].req] = "none" /\ handler[recon[c].req].pc = "over")
    BY <1>1, <1>2, <2>1 DEF ReconInv, NeverSent
  <2>5. recon[c].pc = "complete" => chain'[recon[c].req] = "mined"
    BY <1>1, <1>2, <2>1 DEF ReconInv
  <2> QED
    BY <1>1, <2>1, <2>3, <2>4, <2>5 DEF ReconInv, NeverSent
<1> QED
  BY <1>1, <1>2, <1>3, <1>4, <1>5 DEF WithdrawalInv, WithdrawalType

\* No row grows old under its handler or in the hands of a reconciler.
LEMMA GrowKeeps ==
  ASSUME WithdrawalInv, WithdrawalType, NEW r \in Requests, Grow(r)
  PROVE  WithdrawalInv' /\ WithdrawalType'
<1>1. UNCHANGED <<handler, rows, chain, recon, debits, refunds, broken>>
  BY DEF Grow
<1>2. /\ rowAge' \in [Requests -> {"fresh", "stale", "old"}]
      /\ \A q \in Requests : q # r => rowAge'[q] = rowAge[q]
      /\ rowAge'[r] = "old" => ~InFlight(r) /\ ~Copied(r) /\ rows[r].status = "pending"
  BY DEF Grow, WithdrawalType
<1>3. ASSUME NEW q \in Requests
      PROVE  RequestInv(q)'
  <2>1. RequestInv(q)
    BY DEF WithdrawalInv
  <2> QED
    BY <1>1, <1>2, <2>1 DEF RequestInv, InFlight, Undone
<1>4. OneRowPerKey'
  BY <1>1 DEF WithdrawalInv, OneRowPerKey
<1>5. ASSUME NEW c \in Reconcilers
      PROVE  ReconInv(c)'
  <2>1. ReconInv(c)
    BY DEF WithdrawalInv
  <2>2. recon[c].todo \subseteq [req : Requests, hash : BOOLEAN]
    BY DEF WithdrawalType, ReconRecords
  <2>3. \A copy \in recon[c].todo :
          ~copy.hash /\ rowAge'[copy.req] = "old" => chain[copy.req] = "none"
    BY <1>2, <2>1, <2>2 DEF ReconInv, Copied
  <2> QED
    BY <1>1, <2>1, <2>3 DEF ReconInv, NeverSent
<1> QED
  BY <1>1, <1>2, <1>3, <1>4, <1>5 DEF WithdrawalInv, WithdrawalType

\* A step of reconciler c: the other reconcilers stay.
ReconMoves(c) ==
  /\ recon' \in [Reconcilers -> ReconRecords]
  /\ \A d \in Reconcilers : d # c => recon'[d] = recon[d]

LEMMA ReconFacts ==
  ASSUME WithdrawalType, NEW c \in Reconcilers, NEW x \in ReconRecords,
         recon' = [recon EXCEPT ![c] = x]
  PROVE  ReconMoves(c) /\ recon'[c] = x
  BY DEF ReconMoves, WithdrawalType

LEMMA ReconGoto ==
  ASSUME WithdrawalType, NEW c \in Reconcilers,
         NEW pc \in {"idle", "pick", "lookup", "complete", "fail", "refund", "credit"},
         recon' = [recon EXCEPT ![c].pc = pc]
  PROVE  ReconMoves(c) /\ recon'[c].pc = pc /\ recon'[c].req = recon[c].req
         /\ recon'[c].todo = recon[c].todo
<1> DEFINE x == [recon[c] EXCEPT !.pc = pc]
<1>1. recon[c] \in ReconRecords
  BY DEF WithdrawalType
<1>2. x \in ReconRecords /\ x.pc = pc /\ x.req = recon[c].req /\ x.todo = recon[c].todo
  BY <1>1 DEF ReconRecords
<1>3. recon' = [recon EXCEPT ![c] = x]
  OBVIOUS
<1> HIDE DEF x
<1> QED
  BY <1>2, <1>3, ReconFacts

LEMMA BackToPickFacts ==
  ASSUME WithdrawalType, NEW c \in Reconcilers, BackToPick(c)
  PROVE  ReconMoves(c) /\ recon'[c].pc = "pick" /\ recon'[c].req = Nobody
         /\ recon'[c].todo = recon[c].todo
<1> DEFINE x == [recon[c] EXCEPT !.pc = "pick", !.req = Nobody]
<1>1. recon[c] \in ReconRecords
  BY DEF WithdrawalType
<1>2. x \in ReconRecords /\ x.pc = "pick" /\ x.req = Nobody /\ x.todo = recon[c].todo
  BY <1>1 DEF ReconRecords
<1>3. recon' = [recon EXCEPT ![c] = x]
  BY DEF BackToPick
<1> HIDE DEF x
<1> QED
  BY <1>2, <1>3, ReconFacts

\* A step of a reconciler, which neither makes nor removes a row, drops no hash,
\* and refunds only what reverted or was never sent.
LEMMA ReconcilerKeeps ==
  ASSUME WithdrawalInv, WithdrawalType, NEW c \in Reconcilers, ReconMoves(c), ReconInv(c)',
         UNCHANGED <<handler, rowAge, chain, debits>>,
         rows' \in [Requests -> RowRecords], refunds' \in [Requests -> Nat],
         broken' \subseteq Requests \X BreakingSteps,
         \A r \in Requests :
           /\ rows'[r].status = "none" <=> rows[r].status = "none"
           /\ rows[r].hash => rows'[r].hash
           /\ rows'[r].status = "completed" => rows[r].status = "completed" \/ chain[r] = "mined"
           /\ Undone(r)' <=> Undone(r)
           /\ refunds'[r] > 0 => refunds[r] > 0 \/ chain[r] = "reverted" \/ NeverSent(r)
  PROVE  WithdrawalInv' /\ WithdrawalType'
<1>1. ASSUME NEW q \in Requests
      PROVE  RequestInv(q)'
  <2>1. RequestInv(q)
    BY DEF WithdrawalInv
  <2> QED
    BY <2>1 DEF RequestInv, NeverSent
<1>2. OneRowPerKey'
  BY DEF WithdrawalInv, OneRowPerKey
<1>3. ASSUME NEW d \in Reconcilers, d # c
      PROVE  ReconInv(d)'
  <2>1. ReconInv(d) /\ recon'[d] = recon[d]
    BY <1>3 DEF WithdrawalInv, ReconMoves
  <2> QED
    BY <2>1 DEF ReconInv, NeverSent
<1> QED
  BY <1>1, <1>2, <1>3 DEF WithdrawalInv, WithdrawalType, ReconMoves

LEMMA ScanKeeps ==
  ASSUME WithdrawalInv, WithdrawalType, NEW c \in Reconcilers, Scan(c)
  PROVE  WithdrawalInv' /\ WithdrawalType'
<1>1. UNCHANGED <<handler, rows, rowAge, chain, debits, refunds, broken>>
  BY DEF Scan
<1>2. PICK found \in SUBSET Requests :
        /\ \A r \in found : rows[r].status = "pending"
        /\ recon' = [recon EXCEPT ![c] =
             [pc |-> "pick", todo |-> {[req |-> r, hash |-> rows[r].hash] : r \in found},
              req |-> Nobody]]
  BY DEF Scan
<1> DEFINE todo == {[req |-> r, hash |-> rows[r].hash] : r \in found}
           x == [pc |-> "pick", todo |-> todo, req |-> Nobody]
<1>3. todo \subseteq [req : Requests, hash : BOOLEAN]
  BY DEF WithdrawalType, RowRecords
<1>4. x \in ReconRecords /\ x.pc = "pick" /\ x.todo = todo
  BY <1>3 DEF ReconRecords
<1>5. recon' = [recon EXCEPT ![c] = x]
  BY <1>2
<1>6. \A copy \in todo : ~copy.hash => chain[copy.req] = "none"
  <2>1. \A r \in found : ~rows[r].hash => chain[r] = "none"
    BY <1>2 DEF WithdrawalInv, RequestInv
  <2> QED
    BY <2>1
<1> HIDE DEF todo, x
<1>7. ReconMoves(c) /\ recon'[c] = x
  BY <1>4, <1>5, ReconFacts
<1>8. ReconInv(c)'
  BY <1>1, <1>4, <1>6, <1>7 DEF ReconInv
<1> QED
  BY <1>1, <1>7, <1>8, ReconcilerKeeps DEF WithdrawalType, Undone

\* A copy without a hash whose row is old was never sent.
LEMMA PickKeeps ==
  ASSUME WithdrawalInv, WithdrawalType, NEW c \in Reconcilers, NEW copy \in recon[c].todo,
         Pick(c, copy)
  PROVE  WithdrawalInv' /\ WithdrawalType'
<1>1. UNCHANGED <<handler, rows, rowAge, chain, debits, refunds, broken>>
  BY DEF Pick
<1> DEFINE pc == IF copy.hash THEN "lookup" ELSE IF OldEnough(copy.req) THEN "fail" ELSE "pick"
           x == [pc |-> pc, todo |-> recon[c].todo \ {copy}, req |-> copy.req]
<1>2. recon[c].todo \subseteq [req : Requests, hash : BOOLEAN]
  BY DEF WithdrawalType, ReconRecords
<1>3. copy.req \in Requests
  BY <1>2
<1>4. x \in ReconRecords /\ x.req = copy.req /\ x.todo \subseteq recon[c].todo
      /\ x.pc \in {"lookup", "fail", "pick"}
  BY <1>2, <1>3 DEF ReconRecords
<1>5. x.pc = "fail" => ~copy.hash /\ rowAge[copy.req] = "old"
  BY DEF OldEnough
<1>6. recon' = [recon EXCEPT ![c] = x]
  BY DEF Pick
<1> HIDE DEF x, pc
<1>7. ReconMoves(c) /\ recon'[c] = x
  BY <1>4, <1>6, ReconFacts
<1>8. ReconInv(c) /\ RequestInv(copy.req)
  BY <1>3 DEF WithdrawalInv
<1>9. x.pc = "fail" => NeverSent(copy.req)
  BY <1>5, <1>8 DEF ReconInv, RequestInv, NeverSent
<1>10. ReconInv(c)'
  BY <1>1, <1>3, <1>4, <1>7, <1>8, <1>9 DEF ReconInv, NeverSent
<1> QED
  BY <1>1, <1>7, <1>10, ReconcilerKeeps DEF WithdrawalType, Undone

LEMMA EndPassKeeps ==
  ASSUME WithdrawalInv, WithdrawalType, NEW c \in Reconcilers, EndPass(c)
  PROVE  WithdrawalInv' /\ WithdrawalType'
<1>1. UNCHANGED <<handler, rows, rowAge, chain, debits, refunds, broken>>
  BY DEF EndPass
<1>2. IdleReconciler \in ReconRecords
  BY DEF IdleReconciler, ReconRecords
<1>3. ReconMoves(c) /\ recon'[c] = IdleReconciler
  BY <1>2, ReconFacts DEF EndPass
<1>4. ReconInv(c)'
  BY <1>3 DEF ReconInv, IdleReconciler
<1> QED
  BY <1>1, <1>3, <1>4, ReconcilerKeeps DEF WithdrawalType, Undone

LEMMA LookUpKeeps ==
  ASSUME WithdrawalInv, WithdrawalType, NEW c \in Reconcilers, LookUp(c)
  PROVE  WithdrawalInv' /\ WithdrawalType'
<1>1. UNCHANGED <<handler, rows, rowAge, chain, debits, refunds, broken>>
  BY DEF LookUp
<1>2. PICK pc \in {"complete", "fail"} :
        /\ recon' = [recon EXCEPT ![c].pc = pc]
        /\ pc = "fail" => chain[recon[c].req] = "reverted"
        /\ pc = "complete" => chain[recon[c].req] = "mined"
  BY DEF LookUp
<1>3. ReconMoves(c) /\ recon'[c].pc = pc /\ recon'[c].req = recon[c].req
      /\ recon'[c].todo = recon[c].todo
  BY <1>2, ReconGoto
<1>4. ReconInv(c) /\ recon[c].pc = "lookup"
  BY DEF WithdrawalInv, LookUp, ReconAt
<1>5. ReconInv(c)'
  BY <1>1, <1>2, <1>3, <1>4 DEF ReconInv
<1> QED
  BY <1>1, <1>3, <1>5, ReconcilerKeeps DEF WithdrawalType, Undone

LEMMA LookUpUnknownKeeps ==
  ASSUME WithdrawalInv, WithdrawalType, NEW c \in Reconcilers, LookUpUnknown(c)
  PROVE  WithdrawalInv' /\ WithdrawalType'
<1>1. UNCHANGED <<handler, rows, rowAge, chain, debits, refunds, broken>>
  BY DEF LookUpUnknown
<1>2. ReconMoves(c) /\ recon'[c].pc = "pick" /\ recon'[c].todo = recon[c].todo
  BY BackToPickFacts DEF LookUpUnknown
<1>3. ReconInv(c)'
  BY <1>1, <1>2 DEF WithdrawalInv, ReconInv
<1> QED
  BY <1>1, <1>2, <1>3, ReconcilerKeeps DEF WithdrawalType, Undone

LEMMA CompleteRowKeeps ==
  ASSUME WithdrawalInv, WithdrawalType, NEW c \in Reconcilers, CompleteRow(c)
  PROVE  WithdrawalInv' /\ WithdrawalType'
<1>1. UNCHANGED <<handler, rowAge, chain, debits, refunds, broken>>
  BY DEF CompleteRow
<1>2. ReconMoves(c) /\ recon'[c].pc = "pick" /\ recon'[c].todo = recon[c].todo
  BY BackToPickFacts DEF CompleteRow
<1>3. ReconInv(c)'
  BY <1>1, <1>2 DEF WithdrawalInv, ReconInv
<1>4. recon[c].req \in Requests /\ chain[recon[c].req] = "mined"
  BY DEF CompleteRow, ReconAt, WithdrawalInv, ReconInv
<1>5. /\ rows' \in [Requests -> RowRecords]
      /\ \A r \in Requests :
           /\ rows'[r].status = "none" <=> rows[r].status = "none"
           /\ rows[r].hash => rows'[r].hash
           /\ rows'[r].status = "completed" => rows[r].status = "completed" \/ chain[r] = "mined"
  BY <1>4 DEF CompleteRow, CasWins, WithdrawalType, RowRecords
<1> QED
  BY <1>1, <1>2, <1>3, <1>5, ReconcilerKeeps DEF WithdrawalType, Undone

LEMMA FailRowKeeps ==
  ASSUME WithdrawalInv, WithdrawalType, NEW c \in Reconcilers, FailRow(c)
  PROVE  WithdrawalInv' /\ WithdrawalType'
<1>1. UNCHANGED <<handler, rowAge, chain, debits, refunds, broken>>
  BY DEF FailRow
<1>2. PICK pc \in {"refund", "pick"} : recon' = [recon EXCEPT ![c].pc = pc]
  BY DEF FailRow
<1>3. ReconMoves(c) /\ recon'[c].pc = pc /\ recon'[c].req = recon[c].req
      /\ recon'[c].todo = recon[c].todo
  BY <1>2, ReconGoto
<1>4. ReconInv(c) /\ recon[c].pc = "fail" /\ recon[c].req \in Requests
  BY DEF FailRow, ReconAt, WithdrawalInv, ReconInv
<1>5. ReconInv(c)'
  BY <1>1, <1>3, <1>4 DEF ReconInv, NeverSent
<1>6. /\ rows' \in [Requests -> RowRecords]
      /\ \A r \in Requests :
           /\ rows'[r].status = "none" <=> rows[r].status = "none"
           /\ rows[r].hash => rows'[r].hash
           /\ rows'[r].status = "completed" => rows[r].status = "completed"
  BY <1>4 DEF FailRow, CasWins, WithdrawalType, RowRecords
<1> QED
  BY <1>1, <1>3, <1>5, <1>6, ReconcilerKeeps DEF WithdrawalType, Undone

LEMMA ReconRefundReadKeeps ==
  ASSUME WithdrawalInv, WithdrawalType, NEW c \in Reconcilers, ReconRefundRead(c)
  PROVE  WithdrawalInv' /\ WithdrawalType'
<1>1. UNCHANGED <<handler, rows, rowAge, chain, debits, refunds, broken>>
  BY DEF ReconRefundRead
<1>2. ReconMoves(c) /\ recon'[c].pc = "credit" /\ recon'[c].req = recon[c].req
      /\ recon'[c].todo = recon[c].todo
  BY ReconGoto DEF ReconRefundRead
<1>3. ReconInv(c) /\ recon[c].pc = "refund"
  BY DEF WithdrawalInv, ReconRefundRead, ReconAt
<1>4. ReconInv(c)'
  BY <1>1, <1>2, <1>3 DEF ReconInv, NeverSent
<1> QED
  BY <1>1, <1>2, <1>4, ReconcilerKeeps DEF WithdrawalType, Undone

LEMMA ReconRefundWriteKeeps ==
  ASSUME WithdrawalInv, WithdrawalType, NEW c \in Reconcilers, ReconRefundWrite(c)
  PROVE  WithdrawalInv' /\ WithdrawalType'
<1>1. UNCHANGED <<handler, rows, rowAge, chain, debits, broken>>
  BY DEF ReconRefundWrite
<1>2. ReconMoves(c) /\ recon'[c].pc = "pick" /\ recon'[c].todo = recon[c].todo
  BY BackToPickFacts DEF ReconRefundWrite
<1>3. ReconInv(c)'
  BY <1>1, <1>2 DEF WithdrawalInv, ReconInv
<1>4. /\ recon[c].req \in Requests
      /\ chain[recon[c].req] = "reverted" \/ NeverSent(recon[c].req)
  BY DEF ReconRefundWrite, ReconAt, WithdrawalInv, ReconInv
<1>5. /\ refunds' \in [Requests -> Nat]
      /\ \A r \in Requests : r # recon[c].req => refunds'[r] = refunds[r]
  BY <1>4 DEF ReconRefundWrite, WithdrawalType
<1> QED
  BY <1>1, <1>2, <1>3, <1>4, <1>5, ReconcilerKeeps DEF WithdrawalType, Undone

LEMMA CasErrorKeeps ==
  ASSUME WithdrawalInv, WithdrawalType, NEW c \in Reconcilers, CasError(c)
  PROVE  WithdrawalInv' /\ WithdrawalType'
<1>1. UNCHANGED <<handler, rows, rowAge, chain, debits, refunds, broken>>
  BY DEF CasError
<1>2. ReconMoves(c) /\ recon'[c].pc = "pick" /\ recon'[c].todo = recon[c].todo
  BY BackToPickFacts DEF CasError
<1>3. ReconInv(c)'
  BY <1>1, <1>2 DEF WithdrawalInv, ReconInv
<1> QED
  BY <1>1, <1>2, <1>3, ReconcilerKeeps DEF WithdrawalType, Undone

LEMMA ReconRefundErrorKeeps ==
  ASSUME WithdrawalInv, WithdrawalType, NEW c \in Reconcilers, ReconRefundError(c)
  PROVE  WithdrawalInv' /\ WithdrawalType'
<1>1. UNCHANGED <<handler, rows, rowAge, chain, debits, refunds>>
  BY DEF ReconRefundError
<1>2. ReconMoves(c) /\ recon'[c].pc = "pick" /\ recon'[c].todo = recon[c].todo
  BY BackToPickFacts DEF ReconRefundError
<1>3. ReconInv(c)'
  BY <1>1, <1>2 DEF WithdrawalInv, ReconInv
<1>4. recon[c].req \in Requests /\ Breaks(recon[c].req, "recon") /\ "recon" \in BreakingSteps
  BY DEF ReconRefundError, ReconAt, WithdrawalInv, ReconInv, BreakingSteps
<1>5. /\ broken' \subseteq Requests \X BreakingSteps
      /\ \A r \in Requests : Undone(r)' <=> Undone(r)
  BY <1>4, BreaksFacts DEF Undone
<1> QED
  BY <1>1, <1>2, <1>3, <1>5, ReconcilerKeeps DEF WithdrawalType

-----------------------------------------------------------------------------
(* The death of a process.                                                 *)

\* What the death of process p does to the coroutines.
LEMMA CrashFacts ==
  ASSUME WithdrawalType, NEW p \in Processes, WithdrawalCrash(p)
  PROVE  /\ handler' \in [Requests -> HandlerRecords]
         /\ \A r \in Requests :
              \/ handler'[r] = handler[r]
              \/ /\ Deployed(r) /\ home[r] = p /\ InFlight(r) /\ handler'[r].pc = "over"
                 /\ handler'[r].key = handler[r].key /\ handler'[r].lost = handler[r].lost
         /\ \A r \in Requests : Deployed(r) /\ home[r] = p => ~InFlight(r)'
         /\ recon' \in [Reconcilers -> ReconRecords]
         /\ \A c \in Reconcilers : recon'[c] = recon[c] \/ recon'[c] = IdleReconciler
         /\ \A c \in Reconcilers : Deployed(c) /\ home[c] = p => recon'[c] = IdleReconciler
         /\ broken \subseteq broken'
         /\ \A r \in Requests : handler'[r] # handler[r] => <<r, handler[r].pc>> \in broken'
         /\ \A c \in Reconcilers :
              recon'[c] # recon[c] /\ recon[c].pc \in {"refund", "credit"} =>
                <<recon[c].req, "recon">> \in broken'
         /\ \A r \in Requests : Undone(r)' <=> Undone(r)
<1>1. ASSUME NEW r \in Requests
      PROVE  /\ [handler[r] EXCEPT !.pc = "over"] \in HandlerRecords
             /\ [handler[r] EXCEPT !.pc = "over"].pc = "over"
             /\ [handler[r] EXCEPT !.pc = "over"].key = handler[r].key
             /\ [handler[r] EXCEPT !.pc = "over"].lost = handler[r].lost
             /\ handler[r] \in HandlerRecords
  <2>1. handler[r] \in HandlerRecords /\ "over" \in HandlerPC
    BY DEF WithdrawalType, HandlerPC
  <2> QED
    BY <2>1 DEF HandlerRecords
<1>2. handler' \in [Requests -> HandlerRecords]
  BY <1>1 DEF WithdrawalCrash
<1>3. \A r \in Requests :
        handler'[r] = IF Deployed(r) /\ home[r] = p /\ InFlight(r)
                      THEN [handler[r] EXCEPT !.pc = "over"] ELSE handler[r]
  BY DEF WithdrawalCrash, DiesWith
<1>4. \A r \in Requests :
        \/ handler'[r] = handler[r]
        \/ /\ Deployed(r) /\ home[r] = p /\ InFlight(r) /\ handler'[r].pc = "over"
           /\ handler'[r].key = handler[r].key /\ handler'[r].lost = handler[r].lost
  BY <1>1, <1>3
<1>5. \A r \in Requests : Deployed(r) /\ home[r] = p => ~InFlight(r)'
  BY <1>1, <1>3 DEF InFlight
<1>6. IdleReconciler \in ReconRecords
  BY DEF IdleReconciler, ReconRecords
<1>7. \A c \in Reconcilers :
        recon'[c] = IF Deployed(c) /\ home[c] = p THEN IdleReconciler ELSE recon[c]
  BY DEF WithdrawalCrash, DiesWith
<1>8. recon' \in [Reconcilers -> ReconRecords]
  BY <1>6 DEF WithdrawalCrash, WithdrawalType
<1>9. broken' = broken \cup CutOff(p)
  BY DEF WithdrawalCrash
<1>10. \A r \in Requests : handler'[r] # handler[r] => <<r, handler[r].pc>> \in CutOff(p)
  BY <1>3 DEF CutOff, DiesWith
<1>11. \A c \in Reconcilers :
         recon'[c] # recon[c] /\ recon[c].pc \in {"refund", "credit"} =>
           <<recon[c].req, "recon">> \in CutOff(p)
  BY <1>7 DEF CutOff, DiesWith
<1>12. \A r \in Requests : <<r, "undone">> \notin CutOff(p)
  <2>1. \A r \in Requests : handler[r].pc # "undone"
    BY DEF WithdrawalType, HandlerRecords, HandlerPC
  <2> QED
    BY <2>1 DEF CutOff
<1> QED
  BY <1>2, <1>4, <1>5, <1>7, <1>8, <1>9, <1>10, <1>11, <1>12 DEF Undone

\* What is cut off is a step of a request.
LEMMA CutOffType ==
  ASSUME WithdrawalInv, WithdrawalType, NEW p \in Processes
  PROVE  CutOff(p) \subseteq Requests \X BreakingSteps
<1>1. \A r \in Requests : InFlight(r) => <<r, handler[r].pc>> \in Requests \X BreakingSteps
  BY DEF WithdrawalType, HandlerRecords, InFlight, BreakingSteps
<1>2. \A c \in Reconcilers : recon[c].pc \in {"refund", "credit"} =>
        <<recon[c].req, "recon">> \in Requests \X BreakingSteps
  BY DEF WithdrawalInv, ReconInv, BreakingSteps
<1> QED
  BY <1>1, <1>2 DEF CutOff

LEMMA CrashKeeps ==
  ASSUME WithdrawalInv, WithdrawalType, NEW p \in Processes, WithdrawalCrash(p)
  PROVE  WithdrawalInv' /\ WithdrawalType'
<1>1. UNCHANGED <<rows, rowAge, chain, debits, refunds>>
  BY DEF WithdrawalCrash
<1>2. ASSUME NEW r \in Requests
      PROVE  RequestInv(r)'
  <2>1. RequestInv(r)
    BY DEF WithdrawalInv
  <2>2. /\ Undone(r)' <=> Undone(r)
        /\ \/ handler'[r] = handler[r]
           \/ /\ InFlight(r) /\ handler'[r].pc = "over"
              /\ handler'[r].key = handler[r].key
    BY CrashFacts
  <2> QED
    BY <1>1, <2>1, <2>2 DEF RequestInv, InFlight, Claimed, Signed, SentPC, UndoPC
<1>3. \A r \in Requests : handler'[r].key = handler[r].key
  BY CrashFacts
<1>4. OneRowPerKey'
  BY <1>1, <1>3 DEF WithdrawalInv, OneRowPerKey
<1>5. ASSUME NEW c \in Reconcilers
      PROVE  ReconInv(c)'
  <2>1. ReconInv(c)
    BY DEF WithdrawalInv
  <2>2. \A r \in Requests : NeverSent(r) => NeverSent(r)'
    BY <1>1, CrashFacts DEF NeverSent, InFlight
  <2>3. CASE recon'[c] = recon[c]
    BY <1>1, <2>1, <2>2, <2>3 DEF ReconInv
  <2>4. CASE recon'[c] = IdleReconciler
    BY <2>4 DEF ReconInv, IdleReconciler
  <2> QED
    BY <2>3, <2>4, CrashFacts
<1>6. broken' \subseteq Requests \X BreakingSteps
  BY CutOffType DEF WithdrawalCrash, WithdrawalType
<1> QED
  BY <1>1, <1>2, <1>4, <1>5, <1>6, CrashFacts DEF WithdrawalInv, WithdrawalType

LEMMA WithdrawalNextKeeps ==
  ASSUME WithdrawalInv, WithdrawalType, [Next]_vars
  PROVE  WithdrawalInv' /\ WithdrawalType'
<1>1. CASE UNCHANGED withdrawalVars
  <2>1. UNCHANGED <<handler, rows, rowAge, chain, recon, debits, refunds, broken>>
    BY <1>1 DEF withdrawalVars
  <2>2. \A r \in Requests : RequestInv(r)' <=> RequestInv(r)
    BY <2>1 DEF RequestInv, Undone
  <2>3. \A c \in Reconcilers : ReconInv(c)' <=> ReconInv(c)
    BY <2>1 DEF ReconInv, NeverSent
  <2>4. OneRowPerKey' <=> OneRowPerKey
    BY <2>1 DEF OneRowPerKey
  <2> QED
    BY <2>1, <2>2, <2>3, <2>4 DEF WithdrawalInv, WithdrawalType
<1>2. ASSUME NEW r \in Requests, HandlerStep(r) \/ Grow(r)
      PROVE  WithdrawalInv' /\ WithdrawalType'
  BY <1>2, ClaimKeeps, ReserveReadKeeps, ReserveSwapKeeps, SendFailsStep, StampHashKeeps,
     BroadcastKeeps, RecordPendingHashKeeps, FinalizeKeeps, RefundReadKeeps, RefundWriteKeeps,
     ReleaseKeeps, NotifyKeeps, DatabaseErrorKeeps, UndoAfterSendKeeps, GrowKeeps DEF HandlerStep
<1>3. ASSUME NEW c \in Reconcilers, ReconcilerStep(c)
      PROVE  WithdrawalInv' /\ WithdrawalType'
  BY <1>3, ScanKeeps, PickKeeps, EndPassKeeps, LookUpKeeps, LookUpUnknownKeeps,
     CompleteRowKeeps, FailRowKeeps, ReconRefundReadKeeps, ReconRefundWriteKeeps,
     CasErrorKeeps, ReconRefundErrorKeeps DEF ReconcilerStep
<1>4. CASE WithdrawalNext
  BY <1>2, <1>3, <1>4, MineKeeps DEF WithdrawalNext
<1>5. CASE \E p \in Processes : Crash(p)
  BY <1>5, CrashKeeps DEF Crash
<1>6. CASE UNCHANGED vars
  BY <1>1, <1>6 DEF vars, withdrawalVars
<1> QED
  BY <1>1, <1>4, <1>5, <1>6 DEF Next

LEMMA WithdrawalInitInv ==
  ASSUME Init
  PROVE  WithdrawalInv /\ WithdrawalType
<1>1. /\ \A r \in Requests :
           /\ handler[r] = [pc |-> "start", key |-> NoKey, lost |-> 0]
           /\ rows[r] = NoRow /\ rowAge[r] = "fresh" /\ chain[r] = "none" /\ refunds[r] = 0
      /\ \A c \in Reconcilers : recon[c] = IdleReconciler
      /\ debits = {} /\ broken = {}
  BY DEF Init, WithdrawalInit
<1>2. \A r \in Requests : RequestInv(r)
  BY <1>1 DEF RequestInv, Claimed, Signed, SentPC, UndoPC, Undone, NoRow
<1>3. OneRowPerKey
  BY <1>1 DEF OneRowPerKey, NoRow
<1>4. \A c \in Reconcilers : ReconInv(c)
  BY <1>1 DEF ReconInv, IdleReconciler
<1>5. /\ handler \in [Requests -> HandlerRecords]
      /\ rows \in [Requests -> RowRecords]
  BY WithdrawalAssumption
     DEF Init, WithdrawalInit, NoRow, HandlerRecords, RowRecords, HandlerPC
<1>6. recon \in [Reconcilers -> ReconRecords]
  BY DEF Init, WithdrawalInit, IdleReconciler, ReconRecords
<1>7. /\ rowAge \in [Requests -> {"fresh", "stale", "old"}]
      /\ chain \in [Requests -> ChainStates]
      /\ debits \subseteq Requests
      /\ refunds \in [Requests -> Nat]
      /\ broken \subseteq Requests \X BreakingSteps
  BY DEF Init, WithdrawalInit, ChainStates
<1> QED
  BY <1>2, <1>3, <1>4, <1>5, <1>6, <1>7 DEF WithdrawalInv, WithdrawalType

-----------------------------------------------------------------------------
(* The refunds: handlers.                                                  *)

\* The handler of r moves, at most its own row, transaction, debit and refund with
\* it; if r stays calm while a reconciler refunds it, its row stays settled and
\* unrefunded.
LEMMA CalmHandlerKeeps ==
  ASSUME CalmInv, NEW r \in Requests, broken \subseteq broken', recon' = recon,
         \A q \in Requests : q # r =>
           /\ handler'[q] = handler[q] /\ rows'[q] = rows[q] /\ chain'[q] = chain[q]
           /\ refunds'[q] = refunds[q] /\ (q \in debits' <=> q \in debits),
         (Returning(r)' <=> Returning(r)) => CalmRequest(r)',
         \A c \in Reconcilers : Refunding(c, r) /\ Calm(r)' =>
           rows'[r].status # "pending" /\ refunds'[r] = 0 /\ r \in debits'
  PROVE  CalmInv'
<1>1. \A q \in Requests : Calm(q)' => Calm(q)
  BY DEF Calm, RowLeftBehind, Undone
<1>2. \A c \in Reconcilers, q \in Requests : Refunding(c, q)' <=> Refunding(c, q)
  BY DEF Refunding
<1>3. \A q \in Requests : Returning(q)' <=> Returning(q)
  BY <1>2 DEF Returning
<1>4. ASSUME NEW q \in Requests
      PROVE  CalmRequest(q)'
  <2>1. CASE q = r
    BY <1>3, <2>1
  <2>2. CASE q # r
    <3>1. CalmRequest(q)
      BY DEF CalmInv
    <3> QED
      BY <1>1, <1>3, <2>2, <3>1 DEF CalmRequest, NeverSent
  <2> QED
    BY <2>1, <2>2
<1>5. ASSUME NEW c \in Reconcilers, NEW q \in Requests, Refunding(c, q)', Calm(q)'
      PROVE  /\ rows'[q].status # "pending" /\ refunds'[q] = 0 /\ q \in debits'
             /\ \A d \in Reconcilers : Refunding(d, q)' => d = c
  <2>1. Refunding(c, q) /\ Calm(q)
    BY <1>1, <1>2, <1>5
  <2>2. /\ rows[q].status # "pending" /\ refunds[q] = 0 /\ q \in debits
        /\ \A d \in Reconcilers : Refunding(d, q) => d = c
    BY <2>1 DEF CalmInv, CalmRecon
  <2> QED
    BY <1>2, <1>5, <2>1, <2>2
<1> QED
  BY <1>4, <1>5 DEF CalmInv, CalmRecon

\* A handler's next program counter, when that is all of it that changes.
LEMMA CalmGotoKeeps ==
  ASSUME WithdrawalType, CalmInv, NEW r \in Requests, NEW pc \in HandlerPC,
         Goto(r, pc), broken \subseteq broken', recon' = recon,
         \A q \in Requests : q # r =>
           /\ rows'[q] = rows[q] /\ chain'[q] = chain[q]
           /\ refunds'[q] = refunds[q] /\ (q \in debits' <=> q \in debits),
         handler'[r].pc = pc /\ (Returning(r)' <=> Returning(r)) => CalmRequest(r)',
         \A c \in Reconcilers : Refunding(c, r) /\ Calm(r)' =>
           rows'[r].status # "pending" /\ refunds'[r] = 0 /\ r \in debits'
  PROVE  CalmInv'
<1>1. handler'[r].pc = pc /\ \A q \in Requests : q # r => handler'[q] = handler[q]
  BY GotoFacts
<1> QED
  BY <1>1, CalmHandlerKeeps

\* A handler that has not sent anything is alone with its row; only the undo of the
\* bot's handler comes after the send.
LEMMA Alone ==
  ASSUME WithdrawalInv, WithdrawalType, CalmInv, NEW r \in Requests,
         handler[r].pc \notin SentPC
  PROVE  /\ RequestInv(r) /\ CalmRequest(r)
         /\ handler[r].pc \notin UndoPC => ~Undone(r)
         /\ ~Undone(r) =>
              /\ chain[r] = "none" /\ rows[r].status # "failed"
              /\ refunds[r] = 0 \/ handler[r].pc = "release"
              /\ \A c \in Reconcilers : ~Refunding(c, r)
<1>1. RequestInv(r) /\ CalmRequest(r) /\ refunds[r] \in Nat
  BY DEF WithdrawalInv, CalmInv, WithdrawalType
<1>2. handler[r].pc \notin UndoPC => ~Undone(r)
  BY <1>1 DEF RequestInv
<1>3. ASSUME ~Undone(r)
      PROVE  /\ chain[r] = "none" /\ rows[r].status # "failed"
             /\ refunds[r] = 0 \/ handler[r].pc = "release"
             /\ \A c \in Reconcilers : ~Refunding(c, r)
  <2>1. chain[r] = "none" /\ ~NeverSent(r)
    BY <1>1, <1>3 DEF RequestInv, NeverSent, SentPC
  <2>2. rows[r].status # "failed"
    BY <1>1, <2>1 DEF CalmRequest
  <2>3. refunds[r] = 0 \/ handler[r].pc = "release"
    BY <1>1, <1>3, <2>1 DEF RequestInv, SentPC
  <2>4. ASSUME NEW c \in Reconcilers, Refunding(c, r)
        PROVE  FALSE
    <3>1. ReconInv(c)
      BY DEF WithdrawalInv
    <3> QED
      BY <2>1, <2>4, <3>1 DEF ReconInv, Refunding
  <2> QED
    BY <2>1, <2>2, <2>3, <2>4
<1> QED
  BY <1>1, <1>2, <1>3

LEMMA CalmClaim ==
  ASSUME WithdrawalInv, WithdrawalType, CalmInv, NEW r \in Requests, NEW k \in Keys, Claim(r, k)
  PROVE  CalmInv'
<1>1. handler[r].pc = "start"
  BY DEF Claim, At
<1>2. UNCHANGED <<chain, recon, debits, refunds, broken>>
  BY DEF Claim
<1>3. "start" \notin SentPC /\ "start" \notin UndoPC
  BY DEF SentPC, UndoPC
<1>4. /\ r \notin debits /\ refunds[r] = 0 /\ rows[r].status = "none"
      /\ \A c \in Reconcilers : ~Refunding(c, r)
  BY <1>1, <1>3, Alone DEF RequestInv
<1>5. CASE Goto(r, "over") /\ UNCHANGED rows
  <2>1. "over" \in HandlerPC
    BY DEF HandlerPC
  <2>2. CalmRequest(r)'
    BY <1>2, <1>4, <1>5 DEF CalmRequest
  <2> QED
    BY <1>2, <1>4, <1>5, <2>1, <2>2, CalmGotoKeeps
<1>6. CASE /\ handler' = [handler EXCEPT ![r].pc = "reserve", ![r].key = k]
           /\ rows' = [rows EXCEPT ![r] = PendingRow]
  <2> DEFINE x == [handler[r] EXCEPT !.pc = "reserve", !.key = k]
  <2>1. x.pc = "reserve"
    BY DEF WithdrawalType, HandlerRecords
  <2>2. handler' = [handler EXCEPT ![r] = x]
    BY <1>6
  <2> HIDE DEF x
  <2>3. handler'[r] = x /\ \A q \in Requests : q # r => handler'[q] = handler[q]
    BY <2>2 DEF WithdrawalType
  <2>4. rows'[r].status = "pending" /\ \A q \in Requests : q # r => rows'[q] = rows[q]
    BY <1>6 DEF WithdrawalType, PendingRow
  <2>5. CalmRequest(r)'
    BY <1>2, <1>4, <2>1, <2>3, <2>4 DEF CalmRequest
  <2> QED
    BY <1>2, <1>4, <2>3, <2>4, <2>5, CalmHandlerKeeps
<1> QED
  BY <1>5, <1>6 DEF Claim

LEMMA CalmReserveRead ==
  ASSUME WithdrawalInv, WithdrawalType, CalmInv, NEW r \in Requests, ReserveRead(r)
  PROVE  CalmInv'
<1>1. UNCHANGED <<rows, chain, recon, debits, refunds, broken>>
  BY DEF ReserveRead
<1>2. handler[r].pc = "reserve"
  BY DEF ReserveRead, At
<1>3. PICK pc \in {"release", "swap"} : Goto(r, pc)
  BY DEF ReserveRead
<1>4. pc \in HandlerPC /\ "reserve" \notin SentPC /\ "reserve" \notin UndoPC
  BY DEF HandlerPC, SentPC, UndoPC
<1>5. /\ r \notin debits /\ refunds[r] = 0 /\ rows[r].status # "failed"
      /\ \A c \in Reconcilers : ~Refunding(c, r)
  BY <1>2, <1>4, Alone DEF RequestInv
<1>6. handler'[r].pc = pc => CalmRequest(r)'
  BY <1>1, <1>3, <1>5 DEF CalmRequest
<1> QED
  BY <1>1, <1>3, <1>4, <1>5, <1>6, CalmGotoKeeps

LEMMA CalmReserveSwap ==
  ASSUME WithdrawalInv, WithdrawalType, CalmInv, NEW r \in Requests, ReserveSwap(r)
  PROVE  CalmInv'
<1>1. UNCHANGED <<rows, chain, recon, refunds, broken>>
  BY DEF ReserveSwap
<1>2. handler[r].pc = "swap"
  BY DEF ReserveSwap, At
<1>3. "swap" \in Claimed /\ "swap" \notin SentPC /\ "swap" \notin UndoPC
  BY DEF Claimed, HandlerPC, SentPC, UndoPC
<1>4. /\ r \notin debits /\ refunds[r] = 0 /\ rows[r].status \notin {"none", "failed"}
      /\ \A c \in Reconcilers : ~Refunding(c, r)
  BY <1>2, <1>3, Alone DEF RequestInv
<1>5. CASE Goto(r, "sign") /\ debits' = debits \cup {r}
  <2>1. "sign" \in HandlerPC
    BY DEF HandlerPC
  <2>2. handler'[r].pc = "sign" => CalmRequest(r)'
    BY <1>1, <1>4, <1>5 DEF CalmRequest
  <2> QED
    BY <1>1, <1>4, <1>5, <2>1, <2>2, CalmGotoKeeps
<1>6. CASE /\ handler' = [handler EXCEPT
                ![r].pc = IF handler[r].lost + 1 < MaxRetries THEN "reserve" ELSE "release",
                ![r].lost = @ + 1]
           /\ UNCHANGED debits
  <2>1. \A q \in Requests : q # r => handler'[q] = handler[q]
    BY <1>6 DEF WithdrawalType
  <2>2. handler'[r].pc \in {"reserve", "release"}
    <3>1. handler[r] \in HandlerRecords
      BY DEF WithdrawalType
    <3> QED
      BY <1>6, <3>1 DEF WithdrawalType, HandlerRecords
  <2>3. CalmRequest(r)'
    BY <1>1, <1>4, <1>6, <2>2 DEF CalmRequest
  <2> QED
    BY <1>1, <1>4, <1>6, <2>1, <2>3, CalmHandlerKeeps
<1> QED
  BY <1>5, <1>6 DEF ReserveSwap

\* A step on the way to the broadcast: the row keeps its status.
LEMMA CalmSending ==
  ASSUME WithdrawalInv, WithdrawalType, CalmInv, NEW r \in Requests,
         handler[r].pc \in {"sign", "broadcast"},
         NEW pc \in {"refund", "broadcast", "finalize", "ambiguous"}, Goto(r, pc),
         UNCHANGED <<recon, debits, refunds, broken>>,
         rows'[r].status = rows[r].status,
         \A q \in Requests : q # r => rows'[q] = rows[q] /\ chain'[q] = chain[q]
  PROVE  CalmInv'
<1>1. /\ pc \in HandlerPC /\ handler[r].pc \in Claimed
      /\ handler[r].pc \notin SentPC /\ handler[r].pc \notin UndoPC
  BY DEF HandlerPC, Claimed, SentPC, UndoPC
<1>2. /\ refunds[r] = 0 /\ rows[r].status \notin {"none", "failed"}
      /\ \A c \in Reconcilers : ~Refunding(c, r)
  BY <1>1, Alone DEF RequestInv
<1>3. handler'[r].pc = pc => CalmRequest(r)'
  BY <1>2 DEF CalmRequest
<1> QED
  BY <1>1, <1>2, <1>3, CalmGotoKeeps

LEMMA CalmSends ==
  ASSUME WithdrawalInv, WithdrawalType, CalmInv, NEW r \in Requests,
         SendFails(r) \/ StampHash(r) \/ Broadcast(r)
  PROVE  CalmInv'
<1>1. CASE SendFails(r)
  BY <1>1, CalmSending DEF SendFails, At
<1>2. CASE StampHash(r)
  <2>1. rows'[r].status = rows[r].status /\ \A q \in Requests : q # r => rows'[q] = rows[q]
    BY <1>2 DEF StampHash, WithdrawalType, RowRecords
  <2>2. Goto(r, "broadcast") /\ handler[r].pc = "sign"
    BY <1>2 DEF StampHash, At
  <2>3. UNCHANGED <<chain, recon, debits, refunds, broken>>
    BY <1>2 DEF StampHash
  <2> QED
    BY <2>1, <2>2, <2>3, CalmSending
<1>3. CASE Broadcast(r)
  <2>1. PICK pc \in {"finalize", "ambiguous"} : Goto(r, pc)
    BY <1>3 DEF Broadcast
  <2>2. \A q \in Requests : q # r => chain'[q] = chain[q]
    BY <1>3 DEF Broadcast, WithdrawalType
  <2>3. UNCHANGED <<rows, recon, debits, refunds, broken>> /\ handler[r].pc = "broadcast"
    BY <1>3 DEF Broadcast, At
  <2> QED
    BY <2>1, <2>2, <2>3, CalmSending
<1> QED
  BY <1>1, <1>2, <1>3

\* A step after the broadcast, on the way out: the row keeps its status or is
\* completed, the money stays where it is.
LEMMA CalmSent ==
  ASSUME WithdrawalInv, WithdrawalType, CalmInv, NEW r \in Requests,
         handler[r].pc \in {"finalize", "notify", "ambiguous"},
         NEW pc \in {"notify", "over"}, Goto(r, pc),
         UNCHANGED <<chain, recon, debits, refunds, broken>>,
         rows'[r].status \in {rows[r].status, "completed"},
         \A q \in Requests : q # r => rows'[q] = rows[q]
  PROVE  CalmInv'
<1>1. pc \in HandlerPC /\ handler[r].pc \in Signed
  BY DEF HandlerPC, Signed
<1>2. RequestInv(r) /\ CalmRequest(r)
  BY DEF WithdrawalInv, CalmInv
<1>3. r \in debits /\ (Calm(r)' <=> Calm(r))
  BY <1>1, <1>2 DEF RequestInv, Calm, RowLeftBehind, Undone
<1>4. handler'[r].pc = pc /\ (Returning(r)' <=> Returning(r)) => CalmRequest(r)'
  BY <1>2, <1>3 DEF CalmRequest, NeverSent
<1>5. \A c \in Reconcilers : Refunding(c, r) /\ Calm(r)' =>
        rows'[r].status # "pending" /\ refunds'[r] = 0 /\ r \in debits'
  BY <1>3 DEF CalmInv, CalmRecon
<1> QED
  BY <1>1, <1>4, <1>5, CalmGotoKeeps

LEMMA CalmEnds ==
  ASSUME WithdrawalInv, WithdrawalType, CalmInv, NEW r \in Requests,
         RecordPendingHash(r) \/ Finalize(r) \/ Notify(r)
  PROVE  CalmInv'
<1>1. CASE RecordPendingHash(r)
  <2>1. rows'[r].status = rows[r].status /\ \A q \in Requests : q # r => rows'[q] = rows[q]
    BY <1>1 DEF RecordPendingHash, WithdrawalType, RowRecords
  <2>2. Goto(r, "over") /\ handler[r].pc = "ambiguous"
    BY <1>1 DEF RecordPendingHash, At
  <2>3. UNCHANGED <<chain, recon, debits, refunds, broken>>
    BY <1>1 DEF RecordPendingHash
  <2> QED
    BY <2>1, <2>2, <2>3, CalmSent
<1>2. CASE Finalize(r)
  <2>1. rows'[r].status \in {rows[r].status, "completed"}
        /\ \A q \in Requests : q # r => rows'[q] = rows[q]
    BY <1>2 DEF Finalize, WithdrawalType
  <2>2. PICK pc \in {"notify", "over"} : Goto(r, pc)
    BY <1>2 DEF Finalize
  <2>3. UNCHANGED <<chain, recon, debits, refunds, broken>> /\ handler[r].pc = "finalize"
    BY <1>2 DEF Finalize, At
  <2> QED
    BY <2>1, <2>2, <2>3, CalmSent
<1>3. CASE Notify(r)
  BY <1>3, CalmSent DEF Notify, At
<1> QED
  BY <1>1, <1>2, <1>3

LEMMA CalmRefundRead ==
  ASSUME WithdrawalInv, WithdrawalType, CalmInv, NEW r \in Requests, RefundRead(r)
  PROVE  CalmInv'
<1>1. UNCHANGED <<rows, chain, recon, debits, refunds, broken>>
  BY DEF RefundRead
<1>2. handler[r].pc = "refund" /\ "refund" \notin SentPC
  BY DEF RefundRead, At, SentPC
<1>3. Goto(r, "credit") /\ "credit" \in HandlerPC
  BY DEF RefundRead, HandlerPC
<1>4. /\ CalmRequest(r) /\ (Calm(r)' <=> Calm(r))
      /\ Calm(r) => refunds[r] = 0 /\ \A c \in Reconcilers : ~Refunding(c, r)
  BY <1>1, <1>2, Alone DEF Calm, RowLeftBehind, Undone
<1>5. handler'[r].pc = "credit" /\ (Returning(r)' <=> Returning(r)) => CalmRequest(r)'
  BY <1>1, <1>2, <1>4 DEF CalmRequest, NeverSent
<1> QED
  BY <1>1, <1>3, <1>4, <1>5, CalmGotoKeeps

LEMMA CalmRefundWrite ==
  ASSUME WithdrawalInv, WithdrawalType, CalmInv, NEW r \in Requests, RefundWrite(r)
  PROVE  CalmInv'
<1>1. UNCHANGED <<rows, chain, recon, debits, broken>>
  BY DEF RefundWrite
<1>2. handler[r].pc = "credit" /\ "credit" \notin SentPC
  BY DEF RefundWrite, At, SentPC
<1>3. Goto(r, "release") /\ "release" \in HandlerPC
  BY DEF RefundWrite, HandlerPC
<1>4. /\ CalmRequest(r) /\ RequestInv(r) /\ (Calm(r)' <=> Calm(r))
      /\ Calm(r) => refunds[r] = 0 /\ \A c \in Reconcilers : ~Refunding(c, r)
  BY <1>1, <1>2, Alone DEF Calm, RowLeftBehind, Undone
<1>5. /\ refunds[r] \in Nat /\ refunds'[r] = refunds[r] + 1 /\ r \in debits
      /\ \A q \in Requests : q # r => refunds'[q] = refunds[q]
  BY <1>2, <1>4 DEF RefundWrite, WithdrawalType, RequestInv
<1>6. handler'[r].pc = "release" => CalmRequest(r)'
  BY <1>1, <1>2, <1>4, <1>5 DEF CalmRequest, NeverSent
<1> QED
  BY <1>1, <1>3, <1>4, <1>5, <1>6, CalmGotoKeeps

LEMMA CalmRelease ==
  ASSUME WithdrawalInv, WithdrawalType, CalmInv, NEW r \in Requests, Release(r)
  PROVE  CalmInv'
<1>1. UNCHANGED <<chain, recon, debits, refunds, broken>>
  BY DEF Release
<1>2. handler[r].pc = "release" /\ "release" \notin SentPC
  BY DEF Release, At, SentPC
<1>3. Goto(r, "over") /\ "over" \in HandlerPC
  BY DEF Release, HandlerPC
<1>4. rows'[r].status = "none" /\ \A q \in Requests : q # r => rows'[q] = rows[q]
  BY DEF Release, NoRow, WithdrawalType
<1>5. /\ CalmRequest(r) /\ (Calm(r)' <=> Calm(r))
      /\ Calm(r) => \A c \in Reconcilers : ~Refunding(c, r)
  BY <1>1, <1>2, Alone DEF Calm, RowLeftBehind, Undone
<1>6. handler'[r].pc = "over" => CalmRequest(r)'
  BY <1>1, <1>2, <1>4, <1>5 DEF CalmRequest
<1> QED
  BY <1>1, <1>3, <1>4, <1>5, <1>6, CalmGotoKeeps

\* A step that raises where the row is pending without a reservation, or beside a
\* refund, leaves the request behind.
LEMMA CalmDatabaseError ==
  ASSUME WithdrawalInv, WithdrawalType, CalmInv, NEW r \in Requests, DatabaseError(r)
  PROVE  CalmInv'
<1>1. UNCHANGED <<rows, chain, recon, debits, refunds>> /\ Goto(r, "over") /\ "over" \in HandlerPC
  BY DEF DatabaseError, HandlerPC
<1>2. /\ handler[r].pc \in
           {"reserve", "swap", "release", "refund", "credit", "ambiguous", "finalize"}
      /\ broken' = broken \cup {<<r, handler[r].pc>>}
  BY DEF DatabaseError, Breaks
<1>3. RequestInv(r) /\ CalmRequest(r)
  BY DEF WithdrawalInv, CalmInv
<1>4. Calm(r)' => Calm(r) /\ handler[r].pc \in {"refund", "credit", "ambiguous", "finalize"}
  BY <1>2 DEF Calm, RowLeftBehind, Undone
<1>5. Calm(r)' => r \in debits /\ Calm(r) /\ handler[r].pc # "release"
  BY <1>3, <1>4 DEF RequestInv, Signed
<1>6. <<r, "recon">> \in broken => <<r, "recon">> \in broken'
  BY <1>2
<1>7. handler[r].pc # "over"
  BY <1>2
<1>8. handler'[r].pc = "over" /\ (Returning(r)' <=> Returning(r)) => CalmRequest(r)'
  BY <1>1, <1>3, <1>5, <1>6, <1>7 DEF CalmRequest, NeverSent
<1>9. \A c \in Reconcilers : Refunding(c, r) /\ Calm(r)' =>
        rows'[r].status # "pending" /\ refunds'[r] = 0 /\ r \in debits'
  BY <1>1, <1>5 DEF CalmInv, CalmRecon
<1> QED
  BY <1>1, <1>2, <1>8, <1>9, CalmGotoKeeps

LEMMA CalmUndoAfterSend ==
  ASSUME WithdrawalInv, WithdrawalType, CalmInv, NEW r \in Requests, UndoAfterSend(r)
  PROVE  CalmInv'
<1>1. UNCHANGED <<rows, chain, recon, debits, refunds>> /\ Goto(r, "refund")
      /\ "refund" \in HandlerPC
  BY DEF UndoAfterSend, HandlerPC
<1>2. handler[r].pc \in {"finalize", "notify"} /\ broken' = broken \cup {<<r, "undone">>}
  BY DEF UndoAfterSend, Breaks, At
<1>3. CalmRequest(r) /\ ~Calm(r)'
  BY <1>2 DEF CalmInv, Calm, Undone
<1>4. <<r, "recon">> \in broken => <<r, "recon">> \in broken'
  BY <1>2
<1>5. handler'[r].pc = "refund" /\ (Returning(r)' <=> Returning(r)) => CalmRequest(r)'
  BY <1>1, <1>2, <1>3, <1>4 DEF CalmRequest, NeverSent
<1> QED
  BY <1>1, <1>2, <1>3, <1>5, CalmGotoKeeps

-----------------------------------------------------------------------------
(* The refunds: the chain, the clock, deaths and the reconciler.           *)

LEMMA CalmMine ==
  ASSUME WithdrawalInv, WithdrawalType, CalmInv, NEW r \in Requests,
         NEW outcome \in {"mined", "reverted"}, Mine(r, outcome)
  PROVE  CalmInv'
<1>1. UNCHANGED <<handler, rows, recon, debits, refunds, broken>> /\ chain[r] = "mempool"
  BY DEF Mine
<1>2. \A q \in Requests : chain[q] # "mempool" => chain'[q] = chain[q]
  BY <1>1 DEF Mine, WithdrawalType
<1>3. \A q \in Requests : /\ Returning(q)' <=> Returning(q)
                          /\ Calm(q)' <=> Calm(q)
  BY <1>1 DEF Returning, Refunding, Calm, RowLeftBehind, Undone
<1>4. \A q \in Requests : CalmRequest(q)'
  <2>1. \A q \in Requests : CalmRequest(q)
    BY DEF CalmInv
  <2> QED
    BY <1>1, <1>2, <1>3, <2>1 DEF CalmRequest, NeverSent
<1>5. \A c \in Reconcilers : CalmRecon(c)'
  BY <1>1, <1>3 DEF CalmInv, CalmRecon, Refunding
<1> QED
  BY <1>4, <1>5 DEF CalmInv

\* Nothing that the refunds depend on changes.
LEMMA CalmStutter ==
  ASSUME CalmInv, UNCHANGED <<handler, rows, chain, recon, debits, refunds, broken>>
  PROVE  CalmInv'
<1>1. \A q \in Requests : CalmRequest(q)' <=> CalmRequest(q)
  BY DEF CalmRequest, Returning, Refunding, Calm, RowLeftBehind, Undone, NeverSent
<1>2. \A c \in Reconcilers : CalmRecon(c)' <=> CalmRecon(c)
  BY DEF CalmRecon, Refunding, Calm, RowLeftBehind, Undone
<1> QED
  BY <1>1, <1>2 DEF CalmInv

\* A death drops handlers and reconcilers where they are.
LEMMA CalmCrash ==
  ASSUME WithdrawalInv, WithdrawalType, CalmInv, NEW p \in Processes, WithdrawalCrash(p)
  PROVE  CalmInv'
<1>1. UNCHANGED <<rows, chain, debits, refunds>>
  BY DEF WithdrawalCrash
<1>2. broken \subseteq broken'
  BY CrashFacts
<1>3. \A q \in Requests : Calm(q)' => Calm(q)
  BY <1>2 DEF Calm, RowLeftBehind, Undone
<1>4. \A c \in Reconcilers, q \in Requests : Refunding(c, q)' => Refunding(c, q)
  BY CrashFacts DEF Refunding, IdleReconciler
<1>5. ASSUME NEW q \in Requests
      PROVE  CalmRequest(q)'
  <2>1. RequestInv(q) /\ CalmRequest(q)
    BY DEF WithdrawalInv, CalmInv
  <2>2. Returning(q) => Returning(q)' \/ <<q, "recon">> \in broken'
    BY CrashFacts DEF Returning, Refunding
  <2>3. CASE handler'[q] = handler[q]
    BY <1>1, <1>2, <1>3, <2>1, <2>2, <2>3 DEF CalmRequest, NeverSent
  <2>4. CASE handler'[q] # handler[q]
    <3>1. InFlight(q) /\ handler'[q].pc = "over" /\ <<q, handler[q].pc>> \in broken'
      BY <2>4, CrashFacts
    <3>2. handler[q].pc \in HandlerPC \ {"start", "over"}
      BY <3>1 DEF InFlight, WithdrawalType, HandlerRecords
    <3>3. Calm(q)' => handler[q].pc \notin {"reserve", "swap", "release"}
      BY <3>1 DEF Calm, RowLeftBehind
    <3>4. Calm(q)' => q \in debits
      BY <2>1, <3>2, <3>3 DEF RequestInv, Signed, HandlerPC
    <3> QED
      BY <1>1, <1>2, <1>3, <2>1, <2>2, <3>1, <3>2, <3>3, <3>4 DEF CalmRequest, NeverSent
  <2> QED
    BY <2>3, <2>4
<1>6. \A c \in Reconcilers : CalmRecon(c)'
  BY <1>1, <1>3, <1>4 DEF CalmInv, CalmRecon
<1> QED
  BY <1>5, <1>6 DEF CalmInv

\* Reconciler c moves on without starting or ending a refund.
LEMMA CalmReconMoves ==
  ASSUME CalmInv, NEW c \in Reconcilers, ReconMoves(c),
         UNCHANGED <<handler, rows, chain, debits, refunds, broken>>,
         recon[c].pc \notin {"refund", "credit"},
         recon'[c].pc \notin {"refund", "credit"}
  PROVE  CalmInv'
<1>1. \A d \in Reconcilers, r \in Requests : Refunding(d, r)' <=> Refunding(d, r)
  BY DEF ReconMoves, Refunding
<1>2. \A r \in Requests : (Returning(r)' <=> Returning(r)) /\ (Calm(r)' <=> Calm(r))
  BY <1>1 DEF Returning, Calm, RowLeftBehind, Undone
<1>3. \A q \in Requests : CalmRequest(q)'
  BY <1>2 DEF CalmInv, CalmRequest, NeverSent
<1>4. \A d \in Reconcilers : CalmRecon(d)'
  BY <1>1, <1>2 DEF CalmInv, CalmRecon
<1> QED
  BY <1>3, <1>4 DEF CalmInv

LEMMA CalmPasses ==
  ASSUME WithdrawalType, CalmInv, NEW c \in Reconcilers,
         Scan(c) \/ (\E copy \in recon[c].todo : Pick(c, copy)) \/ EndPass(c)
  PROVE  CalmInv'
<1>1. CASE Scan(c)
  <2> DEFINE todo == {[req |-> r, hash |-> rows[r].hash] :
                        r \in {q \in Requests : rows[q].status = "pending" /\ rowAge[q] # "fresh"}}
             x == [pc |-> "pick", todo |-> todo, req |-> Nobody]
  <2>1. recon' = [recon EXCEPT ![c] = x] /\ recon[c].pc = "idle"
        /\ UNCHANGED <<handler, rows, chain, debits, refunds, broken>>
    BY <1>1 DEF Scan, ReconAt
  <2>2. todo \subseteq [req : Requests, hash : BOOLEAN]
    BY DEF WithdrawalType, RowRecords
  <2>3. x \in ReconRecords /\ x.pc = "pick"
    BY <2>2 DEF ReconRecords
  <2> HIDE DEF todo, x
  <2>4. ReconMoves(c) /\ recon'[c] = x
    BY <2>1, <2>3, ReconFacts
  <2> QED
    BY <2>1, <2>3, <2>4, CalmReconMoves
<1>2. ASSUME NEW copy \in recon[c].todo, Pick(c, copy)
      PROVE  CalmInv'
  <2> DEFINE pc == IF copy.hash THEN "lookup" ELSE IF OldEnough(copy.req) THEN "fail" ELSE "pick"
             x == [pc |-> pc, todo |-> recon[c].todo \ {copy}, req |-> copy.req]
  <2>1. recon' = [recon EXCEPT ![c] = x] /\ recon[c].pc = "pick"
        /\ UNCHANGED <<handler, rows, chain, debits, refunds, broken>>
    BY <1>2 DEF Pick, ReconAt
  <2>2. recon[c].todo \subseteq [req : Requests, hash : BOOLEAN]
    BY DEF WithdrawalType, ReconRecords
  <2>3. x \in ReconRecords /\ x.pc \in {"lookup", "fail", "pick"}
    BY <2>2 DEF ReconRecords
  <2> HIDE DEF pc, x
  <2>4. ReconMoves(c) /\ recon'[c] = x
    BY <2>1, <2>3, ReconFacts
  <2> QED
    BY <2>1, <2>3, <2>4, CalmReconMoves
<1>3. CASE EndPass(c)
  <2>1. IdleReconciler \in ReconRecords /\ IdleReconciler.pc = "idle"
    BY DEF IdleReconciler, ReconRecords
  <2>2. ReconMoves(c) /\ recon'[c] = IdleReconciler
    BY <1>3, <2>1, ReconFacts DEF EndPass
  <2>3. UNCHANGED <<handler, rows, chain, debits, refunds, broken>> /\ recon[c].pc = "pick"
    BY <1>3 DEF EndPass, ReconAt
  <2> QED
    BY <2>1, <2>2, <2>3, CalmReconMoves
<1> QED
  BY <1>1, <1>2, <1>3

LEMMA CalmLooks ==
  ASSUME WithdrawalType, CalmInv, NEW c \in Reconcilers,
         LookUp(c) \/ LookUpUnknown(c) \/ CasError(c)
  PROVE  CalmInv'
<1>1. UNCHANGED <<handler, rows, chain, debits, refunds, broken>>
      /\ recon[c].pc \in {"lookup", "complete", "fail"}
  BY DEF LookUp, LookUpUnknown, CasError, ReconAt
<1>2. CASE LookUp(c)
  <2>1. PICK pc \in {"complete", "fail"} : recon' = [recon EXCEPT ![c].pc = pc]
    BY <1>2 DEF LookUp
  <2>2. ReconMoves(c) /\ recon'[c].pc = pc
    BY <2>1, ReconGoto
  <2> QED
    BY <1>1, <2>2, CalmReconMoves
<1>3. CASE LookUpUnknown(c) \/ CasError(c)
  <2>1. ReconMoves(c) /\ recon'[c].pc = "pick"
    BY <1>3, BackToPickFacts DEF LookUpUnknown, CasError
  <2> QED
    BY <1>1, <2>1, CalmReconMoves
<1> QED
  BY <1>2, <1>3

LEMMA CalmReconRefundRead ==
  ASSUME WithdrawalType, CalmInv, NEW c \in Reconcilers, ReconRefundRead(c)
  PROVE  CalmInv'
<1>1. UNCHANGED <<handler, rows, chain, debits, refunds, broken>> /\ recon[c].pc = "refund"
  BY DEF ReconRefundRead, ReconAt
<1>2. ReconMoves(c) /\ recon'[c].pc = "credit" /\ recon'[c].req = recon[c].req
  BY ReconGoto DEF ReconRefundRead
<1>3. \A d \in Reconcilers, r \in Requests : Refunding(d, r)' <=> Refunding(d, r)
  BY <1>1, <1>2 DEF ReconMoves, Refunding
<1>4. \A r \in Requests : (Returning(r)' <=> Returning(r)) /\ (Calm(r)' <=> Calm(r))
  BY <1>1, <1>3 DEF Returning, Calm, RowLeftBehind, Undone
<1>5. \A q \in Requests : CalmRequest(q)'
  BY <1>1, <1>4 DEF CalmInv, CalmRequest, NeverSent
<1>6. \A d \in Reconcilers : CalmRecon(d)'
  BY <1>1, <1>3, <1>4 DEF CalmInv, CalmRecon
<1> QED
  BY <1>5, <1>6 DEF CalmInv

\* Reconciler c moves row r, which it has at hand.
LEMMA CalmRowMoves ==
  ASSUME CalmInv, NEW c \in Reconcilers, NEW r \in Requests, recon[c].req = r, ReconMoves(c),
         UNCHANGED <<handler, chain, debits>>, broken \subseteq broken',
         recon'[c].pc \in {"refund", "credit"} => recon'[c].req = r,
         \A q \in Requests : q # r => rows'[q] = rows[q] /\ refunds'[q] = refunds[q],
         CalmRequest(r)',
         \A d \in Reconcilers : Refunding(d, r)' /\ Calm(r)' =>
           /\ rows'[r].status # "pending" /\ refunds'[r] = 0 /\ r \in debits
           /\ \A e \in Reconcilers : Refunding(e, r)' => e = d
  PROVE  CalmInv'
<1>1. \A d \in Reconcilers, q \in Requests : q # r => (Refunding(d, q)' <=> Refunding(d, q))
  BY DEF ReconMoves, Refunding
<1>2. \A q \in Requests : Calm(q)' => Calm(q)
  BY DEF Calm, RowLeftBehind, Undone
<1>3. ASSUME NEW q \in Requests, q # r
      PROVE  CalmRequest(q)'
  <2>1. Returning(q)' <=> Returning(q)
    BY <1>1, <1>3 DEF Returning
  <2>2. rows'[q] = rows[q] /\ refunds'[q] = refunds[q] /\ CalmRequest(q)
    BY <1>3 DEF CalmInv
  <2> QED
    BY <1>2, <2>1, <2>2 DEF CalmRequest, NeverSent
<1>4. ASSUME NEW d \in Reconcilers, NEW q \in Requests, q # r, Refunding(d, q)', Calm(q)'
      PROVE  /\ rows'[q].status # "pending" /\ refunds'[q] = 0 /\ q \in debits
             /\ \A e \in Reconcilers : Refunding(e, q)' => e = d
  <2>1. Refunding(d, q) /\ Calm(q) /\ CalmRecon(d)
    BY <1>1, <1>2, <1>4 DEF CalmInv
  <2> QED
    BY <1>1, <1>4, <2>1 DEF CalmRecon
<1> QED
  BY <1>3, <1>4 DEF CalmInv, CalmRecon

LEMMA CalmCompleteRow ==
  ASSUME WithdrawalInv, WithdrawalType, CalmInv, NEW c \in Reconcilers, CompleteRow(c)
  PROVE  CalmInv'
<1>1. UNCHANGED <<handler, chain, debits, refunds, broken>> /\ recon[c].pc = "complete"
  BY DEF CompleteRow, ReconAt
<1>2. ReconMoves(c) /\ recon'[c].pc = "pick"
  BY BackToPickFacts DEF CompleteRow
<1>3. PICK r \in Requests : r = recon[c].req /\ chain[r] = "mined"
  BY <1>1 DEF WithdrawalInv, ReconInv
<1>4. CASE ~CasWins(r)
  <2>1. UNCHANGED rows
    BY <1>3, <1>4 DEF CompleteRow
  <2> QED
    BY <1>1, <1>2, <2>1, CalmReconMoves
<1>5. CASE CasWins(r)
  <2>1. rows'[r].status = "completed" /\ \A q \in Requests : q # r => rows'[q] = rows[q]
    BY <1>3, <1>5 DEF CompleteRow, WithdrawalType
  <2>2. \A d \in Reconcilers : ~Refunding(d, r)'
    <3>1. \A d \in Reconcilers : ~Refunding(d, r)
      BY <1>3 DEF WithdrawalInv, ReconInv, Refunding, NeverSent
    <3> QED
      BY <1>2, <3>1 DEF Refunding, ReconMoves
  <2>3. CalmRequest(r) /\ (Calm(r)' <=> Calm(r)) /\ rows[r].status = "pending"
    BY <1>1, <1>5 DEF CalmInv, Calm, RowLeftBehind, Undone, CasWins
  <2>4. CalmRequest(r)'
    BY <1>1, <2>1, <2>3 DEF CalmRequest
  <2> QED
    BY <1>1, <1>2, <1>3, <2>1, <2>2, <2>4, CalmRowMoves
<1> QED
  BY <1>4, <1>5

\* Winning the swap of the status gives the reconciler the refund, alone.
LEMMA CalmFailRow ==
  ASSUME WithdrawalInv, WithdrawalType, CalmInv, NEW c \in Reconcilers, FailRow(c)
  PROVE  CalmInv'
<1>1. UNCHANGED <<handler, chain, debits, refunds, broken>> /\ recon[c].pc = "fail"
  BY DEF FailRow, ReconAt
<1>2. PICK r \in Requests : r = recon[c].req /\ (chain[r] = "reverted" \/ NeverSent(r))
  BY <1>1 DEF WithdrawalInv, ReconInv
<1>3. RequestInv(r) /\ CalmRequest(r) /\ refunds[r] \in Nat /\ (Calm(r)' <=> Calm(r))
  BY <1>1 DEF WithdrawalInv, CalmInv, WithdrawalType, Calm, RowLeftBehind, Undone
<1>4. CASE ~CasWins(r)
  <2>1. UNCHANGED rows /\ recon' = [recon EXCEPT ![c].pc = "pick"]
    BY <1>2, <1>4 DEF FailRow
  <2>2. ReconMoves(c) /\ recon'[c].pc = "pick"
    BY <2>1, ReconGoto
  <2> QED
    BY <1>1, <2>1, <2>2, CalmReconMoves
<1>5. CASE CasWins(r)
  <2>1. rows' = [rows EXCEPT ![r].status = "failed"] /\ recon' = [recon EXCEPT ![c].pc = "refund"]
    BY <1>2, <1>5 DEF FailRow
  <2>2. ReconMoves(c) /\ recon'[c].pc = "refund" /\ recon'[c].req = r
    BY <1>2, <2>1, ReconGoto
  <2>3. rows'[r].status = "failed" /\ \A q \in Requests : q # r => rows'[q] = rows[q]
    BY <2>1 DEF WithdrawalType, RowRecords
  <2>4. rows[r].status = "pending"
    BY <1>5 DEF CasWins
  <2>5. Calm(r) => handler[r].pc # "release" /\ r \in debits
    BY <1>2, <1>3, <2>4 DEF Calm, RequestInv, CalmRequest, NeverSent, SentPC
  <2>6. Calm(r) => refunds[r] = 0
    BY <1>3, <2>4, <2>5 DEF CalmRequest
  <2>7. Calm(r) => \A d \in Reconcilers : Refunding(d, r)' => d = c
    <3>1. Calm(r) => \A d \in Reconcilers : ~Refunding(d, r)
      BY <2>4 DEF CalmInv, CalmRecon
    <3> QED
      BY <3>1, <2>2 DEF Refunding, ReconMoves
  <2>8. Returning(r)'
    BY <2>2 DEF Returning, Refunding
  <2>9. NeverSent(r)' <=> NeverSent(r)
    BY <1>1 DEF NeverSent
  <2>10. handler[r].pc = "release" /\ r \in debits => refunds[r] > 0
    BY <1>3 DEF CalmRequest
  <2>11. CalmRequest(r)'
    BY <1>1, <1>2, <1>3, <2>3, <2>5, <2>6, <2>8, <2>9, <2>10 DEF CalmRequest
  <2> QED
    BY <1>1, <1>2, <1>3, <2>2, <2>3, <2>5, <2>6, <2>7, <2>11, CalmRowMoves
<1> QED
  BY <1>4, <1>5

LEMMA CalmReconRefundWrite ==
  ASSUME WithdrawalInv, WithdrawalType, CalmInv, NEW c \in Reconcilers, ReconRefundWrite(c)
  PROVE  CalmInv'
<1>1. UNCHANGED <<handler, rows, chain, debits, broken>> /\ recon[c].pc = "credit"
  BY DEF ReconRefundWrite, ReconAt
<1>2. ReconMoves(c) /\ recon'[c].pc = "pick"
  BY BackToPickFacts DEF ReconRefundWrite
<1>3. PICK r \in Requests : r = recon[c].req /\ Refunding(c, r)
  BY <1>1 DEF WithdrawalInv, ReconInv, Refunding
<1>4. CalmRequest(r) /\ CalmRecon(c) /\ (Calm(r)' <=> Calm(r))
  BY <1>1 DEF CalmInv, Calm, RowLeftBehind, Undone
<1>5. Calm(r) => /\ rows[r].status # "pending" /\ refunds[r] = 0 /\ r \in debits
                 /\ \A d \in Reconcilers : Refunding(d, r) => d = c
  BY <1>3, <1>4 DEF CalmRecon
<1>6. /\ refunds[r] \in Nat /\ refunds'[r] = refunds[r] + 1
      /\ \A q \in Requests : q # r => refunds'[q] = refunds[q]
  BY <1>3 DEF ReconRefundWrite, WithdrawalType
<1>7. Calm(r) => \A d \in Reconcilers : ~Refunding(d, r)'
  BY <1>2, <1>5 DEF Refunding, ReconMoves
<1>8. CalmRequest(r)'
  BY <1>1, <1>4, <1>5, <1>6 DEF CalmRequest, NeverSent
<1> QED
  BY <1>1, <1>2, <1>3, <1>4, <1>6, <1>7, <1>8, CalmRowMoves

LEMMA CalmReconRefundError ==
  ASSUME WithdrawalInv, WithdrawalType, CalmInv, NEW c \in Reconcilers, ReconRefundError(c)
  PROVE  CalmInv'
<1>1. UNCHANGED <<handler, rows, chain, debits, refunds>> /\ recon[c].pc \in {"refund", "credit"}
  BY DEF ReconRefundError, ReconAt
<1>2. ReconMoves(c) /\ recon'[c].pc = "pick"
  BY BackToPickFacts DEF ReconRefundError
<1>3. PICK r \in Requests : r = recon[c].req /\ Refunding(c, r)
  BY <1>1 DEF WithdrawalInv, ReconInv, Refunding
<1>4. broken' = broken \cup {<<r, "recon">>}
  BY <1>3 DEF ReconRefundError, Breaks
<1>5. CalmRequest(r) /\ CalmRecon(c) /\ (Calm(r)' <=> Calm(r))
  BY <1>4 DEF CalmInv, Calm, RowLeftBehind, Undone
<1>6. CalmRequest(r)'
  BY <1>1, <1>4, <1>5 DEF CalmRequest, NeverSent
<1>7. Calm(r) => \A d \in Reconcilers : ~Refunding(d, r)'
  BY <1>2, <1>3, <1>5 DEF CalmRecon, Refunding, ReconMoves
<1> QED
  BY <1>1, <1>2, <1>3, <1>4, <1>5, <1>6, <1>7, CalmRowMoves

LEMMA CalmNextKeeps ==
  ASSUME WithdrawalInv, WithdrawalType, CalmInv, [Next]_vars
  PROVE  CalmInv'
<1>1. CASE UNCHANGED withdrawalVars
  BY <1>1, CalmStutter DEF withdrawalVars
<1>2. ASSUME NEW r \in Requests, HandlerStep(r)
      PROVE  CalmInv'
  BY <1>2, CalmClaim, CalmReserveRead, CalmReserveSwap, CalmSends, CalmEnds, CalmRefundRead,
     CalmRefundWrite, CalmRelease, CalmDatabaseError, CalmUndoAfterSend DEF HandlerStep
<1>3. ASSUME NEW r \in Requests, Grow(r)
      PROVE  CalmInv'
  BY <1>3, CalmStutter DEF Grow
<1>4. ASSUME NEW c \in Reconcilers, ReconcilerStep(c)
      PROVE  CalmInv'
  BY <1>4, CalmPasses, CalmLooks, CalmCompleteRow, CalmFailRow, CalmReconRefundRead,
     CalmReconRefundWrite, CalmReconRefundError DEF ReconcilerStep
<1>5. CASE WithdrawalNext
  BY <1>2, <1>3, <1>4, <1>5, CalmMine DEF WithdrawalNext
<1>6. CASE \E p \in Processes : Crash(p)
  BY <1>6, CalmCrash DEF Crash
<1>7. CASE UNCHANGED vars
  BY <1>1, <1>7 DEF vars, withdrawalVars
<1> QED
  BY <1>1, <1>5, <1>6, <1>7 DEF Next

LEMMA CalmInitInv ==
  ASSUME Init
  PROVE  CalmInv
<1>1. /\ \A r \in Requests :
           handler[r].pc = "start" /\ rows[r].status = "none" /\ refunds[r] = 0
      /\ \A c \in Reconcilers : recon[c] = IdleReconciler
      /\ debits = {}
  BY DEF Init, WithdrawalInit, NoRow
<1>2. \A r \in Requests : CalmRequest(r)
  BY <1>1 DEF CalmRequest
<1>3. \A c \in Reconcilers : CalmRecon(c)
  BY <1>1 DEF CalmRecon, Refunding, IdleReconciler
<1> QED
  BY <1>2, <1>3 DEF CalmInv

-----------------------------------------------------------------------------
(* Deposits.                                                               *)

LEMMA DepositConstants ==
  /\ Chunks \in Nat /\ CONFIRMATIONS \in Nat /\ MAX_BLOCK_RANGE \in Nat /\ MIN_DEPOSIT \in Nat
  /\ COLD_START_LOOKBACK \in Nat /\ InitialHead \in Nat /\ MaxHead \in Nat
  /\ MAX_BLOCK_RANGE > 0 /\ InitialHead <= MaxHead /\ NoCursor \notin Nat
  /\ \A d \in DepositSet : d.block \in Nat /\ d.chunk \in 1..Chunks /\ d.value \in Nat
<1>1. {Chunks, CONFIRMATIONS, MAX_BLOCK_RANGE, MIN_DEPOSIT, COLD_START_LOOKBACK,
       InitialHead, MaxHead, MaxErrors} \subseteq Nat
  BY DepositAssumption
<1>2. \A d \in DepositSet : d.block \in Nat /\ d.chunk \in 1..Chunks /\ d.value \in Nat
  BY DepositAssumption
<1> QED
  BY <1>1, <1>2, DepositAssumption

LEMMA IdleWatcherType == IdleWatcher \in WatcherRecords
  BY DepositConstants DEF IdleWatcher, WatcherRecords

\* The range of a scan is not empty, and confirmed.
LEMMA ScanRange ==
  ASSUME DepositType, ScanFrom < SafeHead, SafeHead > 0
  PROVE  LET to == Smaller(SafeHead, ScanFrom + MAX_BLOCK_RANGE)
         IN  /\ ScanFrom \in 0..MaxHead /\ to \in 0..MaxHead
             /\ ScanFrom <= to /\ to + CONFIRMATIONS <= head
<1>1. head \in Nat /\ head <= MaxHead
  BY DepositConstants DEF DepositType
<1>2. SafeHead \in Int /\ SafeHead <= MaxHead /\ SafeHead + CONFIRMATIONS = head
  BY <1>1, DepositConstants DEF SafeHead
<1>3. ScanFrom \in 0..MaxHead
  <2>1. CASE cursor = NoCursor
    BY <1>2, <2>1, DepositConstants DEF ScanFrom, Larger
  <2>2. CASE cursor # NoCursor
    BY <2>2 DEF ScanFrom, DepositType
  <2> QED
    BY <2>1, <2>2
<1> QED
  BY <1>1, <1>2, <1>3, DepositConstants DEF Smaller

\* Watcher w goes on to x; what it books is the log it was crediting.
LEMMA WatcherKeeps ==
  ASSUME DepositInv, DepositType, NEW w \in Watchers, NEW x \in WatcherRecords,
         watcher' = [watcher EXCEPT ![w] = x], head' = head, credited' \subseteq DepositSet,
         \A d \in credited' : d \in credited \/ (watcher[w].pc = "credit" /\ d = watcher[w].log),
         x.pc # "idle" => x.to + CONFIRMATIONS <= head,
         x.pc \in {"handle", "credit"} => x.chunk <= Chunks,
         \A d \in x.logs : InRange(d, x.from, x.to),
         x.pc \in {"idle", "fetch"} => x.logs = {},
         x.pc = "credit" =>
           /\ x.log \in x.logs /\ Creditable(x.log) /\ x.log \notin credited'
           /\ ~BeingBooked(w, x.log)
  PROVE  DepositInv' /\ watcher' \in [Watchers -> WatcherRecords]
<1>1. /\ watcher' \in [Watchers -> WatcherRecords] /\ watcher'[w] = x
      /\ \A v \in Watchers : v # w => watcher'[v] = watcher[v]
  BY DEF DepositType
<1>2. \A d \in DepositSet : BeingBooked(w, d)' <=> BeingBooked(w, d)
  BY <1>1 DEF BeingBooked
<1>3. x.pc = "credit" => x.log \in DepositSet
  BY DEF WatcherRecords
<1>4. WatcherInv(w)'
  BY <1>1, <1>2, <1>3 DEF WatcherInv, InRange, Creditable
<1>5. WatcherInv(w)
  BY DEF DepositInv
<1>6. ASSUME NEW v \in Watchers, v # w
      PROVE  WatcherInv(v)'
  <2>1. WatcherInv(v) /\ watcher'[v] = watcher[v]
    BY <1>1, <1>6 DEF DepositInv
  <2>2. ASSUME watcher[v].pc = "credit"
        PROVE  watcher[v].log \notin credited' /\ ~BeingBooked(v, watcher[v].log)'
    <3>1. watcher[v].log \notin credited'
      BY <1>5, <1>6, <2>1, <2>2 DEF WatcherInv, BeingBooked
    <3>2. ASSUME NEW u \in Watchers \ {v}, watcher'[u].pc = "credit",
                 watcher'[u].log = watcher[v].log
          PROVE  FALSE
      <4>1. CASE u = w
        BY <1>1, <1>6, <2>2, <3>2, <4>1 DEF BeingBooked
      <4>2. CASE u # w
        BY <1>1, <2>1, <2>2, <3>2, <4>2 DEF WatcherInv, BeingBooked
      <4> QED
        BY <4>1, <4>2
    <3> QED
      BY <2>1, <3>1, <3>2 DEF BeingBooked
  <2> QED
    BY <2>1, <2>2 DEF WatcherInv, InRange, Creditable
<1>7. ASSUME NEW d \in credited'
      PROVE  Creditable(d) /\ d.block + CONFIRMATIONS <= head
  <2>1. CASE d \in credited
    BY <2>1 DEF DepositInv
  <2>2. CASE watcher[w].pc = "credit" /\ d = watcher[w].log
    <3>1. /\ d \in DepositSet /\ Creditable(d) /\ d.block <= watcher[w].to
          /\ watcher[w].to + CONFIRMATIONS <= head
      BY <1>5, <2>2 DEF WatcherInv, InRange
    <3>2. watcher[w].to \in Nat /\ head \in Nat /\ d.block \in Nat
      BY <3>1, DepositConstants DEF DepositType, WatcherRecords
    <3> QED
      BY <3>1, <3>2, DepositConstants
  <2> QED
    BY <1>7, <2>1, <2>2
<1> QED
  BY <1>1, <1>4, <1>6, <1>7 DEF DepositInv, Creditable

LEMMA NewBlockKeeps ==
  ASSUME DepositInv, DepositType, NewBlock
  PROVE  DepositInv' /\ DepositType'
<1>1. head' = head + 1 /\ UNCHANGED <<cursor, credited, watcher, failed>> /\ head < MaxHead
  BY DEF NewBlock
<1>2. head \in Nat /\ head' \in InitialHead..MaxHead /\ head <= head'
  BY <1>1, DepositConstants DEF DepositType
<1>3. ASSUME NEW w \in Watchers
      PROVE  WatcherInv(w)'
  <2>1. WatcherInv(w)
    BY DEF DepositInv
  <2>2. watcher[w].to \in Nat
    BY DEF DepositType, WatcherRecords
  <2>3. watcher[w].pc # "idle" => watcher[w].to + CONFIRMATIONS <= head'
    BY <1>2, <2>1, <2>2, DepositConstants DEF WatcherInv
  <2> QED
    BY <1>1, <2>1, <2>3 DEF WatcherInv, BeingBooked, InRange, Creditable
<1>4. ASSUME NEW d \in credited
      PROVE  Creditable(d) /\ d.block + CONFIRMATIONS <= head'
  <2>1. d \in DepositSet /\ Creditable(d) /\ d.block + CONFIRMATIONS <= head
    BY DEF DepositInv, DepositType
  <2> QED
    BY <1>2, <2>1, DepositConstants
<1> QED
  BY <1>1, <1>2, <1>3, <1>4 DEF DepositInv, DepositType, Creditable

\* A watcher alone goes on to x and does not move the cursor.
LEMMA CoverageKeeps ==
  ASSUME DepositType, OneWatcher, ScanInv, NEW w \in Watchers, NEW x,
         watcher' = [watcher EXCEPT ![w] = x], UNCHANGED <<cursor, origin>>,
         Booking \subseteq Booking',
         x.pc # "idle" =>
           (cursor # NoCursor => x.from = cursor) /\ Scanned(x, Booking')
  PROVE  ScanInv'
<1>1. watcher'[w] = x /\ \A v \in Watchers : v = w
  BY DEF DepositType, OneWatcher
<1>2. cursor # NoCursor => origin \in Nat /\ Covered(origin, cursor)'
  BY DEF ScanInv, Covered, Creditable, InRange
<1>3. \A v \in Watchers : watcher'[v].pc # "idle" =>
        (cursor # NoCursor => watcher'[v].from = cursor) /\ Scanned(watcher'[v], Booking')
  BY <1>1
<1> QED
  BY <1>2, <1>3 DEF ScanInv, Scanned, Covered

\* What a step of the watcher w promises.
WatcherGood ==
  /\ DepositInv' /\ DepositType'
  /\ OneWatcher /\ ScanInv => ScanInv'

LEMMA BeginScanKeeps ==
  ASSUME DepositInv, DepositType, NEW w \in Watchers, BeginScan(w)
  PROVE  WatcherGood
<1> DEFINE to == Smaller(SafeHead, ScanFrom + MAX_BLOCK_RANGE)
           x == [IdleWatcher EXCEPT !.pc = "fetch", !.from = ScanFrom, !.to = to]
<1>1. UNCHANGED <<head, cursor, credited, origin, failed>>
      /\ watcher' = [watcher EXCEPT ![w] = x]
  BY DEF BeginScan
<1>2. /\ ScanFrom \in 0..MaxHead /\ to \in 0..MaxHead
      /\ ScanFrom <= to /\ to + CONFIRMATIONS <= head
  BY ScanRange DEF BeginScan
<1> HIDE DEF to
<1>3. /\ x \in WatcherRecords /\ x.pc = "fetch" /\ x.from = ScanFrom /\ x.to = to
      /\ x.chunk = 1 /\ x.logs = {}
  <2>1. IdleWatcher.chunk = 1 /\ IdleWatcher.logs = {}
    BY DEF IdleWatcher
  <2> QED
    BY <1>2, <2>1, IdleWatcherType DEF WatcherRecords
<1> HIDE DEF x
<1>4. DepositInv' /\ watcher' \in [Watchers -> WatcherRecords]
  BY <1>1, <1>2, <1>3, WatcherKeeps DEF DepositType
<1>5. Scanned(x, Booking')
  BY <1>3, DepositConstants DEF Scanned
<1>6. cursor # NoCursor => x.from = cursor
  BY <1>3 DEF ScanFrom
<1>7. OneWatcher /\ ScanInv => ScanInv'
  BY <1>1, <1>5, <1>6, CoverageKeeps DEF Booking
<1> QED
  BY <1>1, <1>4, <1>7 DEF WatcherGood, DepositType

\* What a watcher's record satisfies.
LEMMA WatcherFacts ==
  ASSUME DepositInv, DepositType, NEW w \in Watchers
  PROVE  /\ watcher[w] \in WatcherRecords /\ WatcherInv(w)
         /\ ScanInv /\ watcher[w].pc # "idle" =>
              /\ cursor # NoCursor => watcher[w].from = cursor
              /\ Scanned(watcher[w], Booking)
  BY DEF DepositInv, DepositType, ScanInv

LEMMA FetchLogsKeeps ==
  ASSUME DepositInv, DepositType, NEW w \in Watchers, FetchLogs(w)
  PROVE  WatcherGood
<1> DEFINE old == watcher[w]
           logs == {d \in DepositSet : d.chunk = old.chunk /\ InRange(d, old.from, old.to)}
           x == [old EXCEPT !.pc = "handle", !.logs = logs]
<1>1. /\ UNCHANGED <<head, cursor, credited, origin, failed>>
      /\ watcher' = [watcher EXCEPT ![w] = x]
      /\ old.pc = "fetch" /\ old.chunk <= Chunks
  BY DEF FetchLogs, WatcherAt
<1>2. old \in WatcherRecords /\ WatcherInv(w)
  BY WatcherFacts
<1>3. /\ x \in WatcherRecords /\ x.pc = "handle" /\ x.from = old.from /\ x.to = old.to
      /\ x.chunk = old.chunk /\ x.logs = logs
  BY <1>2 DEF WatcherRecords
<1> HIDE DEF x
<1>4. DepositInv' /\ watcher' \in [Watchers -> WatcherRecords]
  BY <1>1, <1>2, <1>3, WatcherKeeps DEF DepositType, WatcherInv
<1>5. Scanned(old, Booking) => Scanned(x, Booking)
  BY <1>3 DEF Scanned
<1>6. OneWatcher /\ ScanInv => ScanInv'
  BY <1>1, <1>3, <1>5, WatcherFacts, CoverageKeeps DEF Booking
<1> QED
  BY <1>1, <1>4, <1>6 DEF WatcherGood, DepositType

LEMMA FetchErrorKeeps ==
  ASSUME DepositInv, DepositType, NEW w \in Watchers, FetchError(w)
  PROVE  WatcherGood
<1>1. /\ UNCHANGED <<head, cursor, credited, origin, failed>>
      /\ watcher' = [watcher EXCEPT ![w] = IdleWatcher]
  BY DEF FetchError
<1>2. IdleWatcher.pc = "idle" /\ IdleWatcher.logs = {}
  BY DEF IdleWatcher
<1>3. DepositInv' /\ watcher' \in [Watchers -> WatcherRecords]
  BY <1>1, <1>2, IdleWatcherType, WatcherKeeps DEF DepositType
<1>4. OneWatcher /\ ScanInv => ScanInv'
  BY <1>1, <1>2, CoverageKeeps DEF Booking
<1> QED
  BY <1>1, <1>3, <1>4 DEF WatcherGood, DepositType

LEMMA SkipLogKeeps ==
  ASSUME DepositInv, DepositType, NEW w \in Watchers, NEW d \in watcher[w].logs, SkipLog(w, d)
  PROVE  WatcherGood
<1> DEFINE old == watcher[w]
           x == [old EXCEPT !.logs = old.logs \ {d}]
<1>1. /\ UNCHANGED <<head, cursor, credited, origin, failed>>
      /\ watcher' = [watcher EXCEPT ![w] = x]
      /\ old.pc = "handle" /\ ~Creditable(d)
  BY DEF SkipLog, WatcherAt
<1>2. old \in WatcherRecords /\ WatcherInv(w)
  BY WatcherFacts
<1>3. /\ x \in WatcherRecords /\ x.pc = "handle" /\ x.from = old.from /\ x.to = old.to
      /\ x.chunk = old.chunk /\ x.logs = old.logs \ {d}
  BY <1>1, <1>2 DEF WatcherRecords
<1> HIDE DEF x
<1>4. DepositInv' /\ watcher' \in [Watchers -> WatcherRecords]
  BY <1>1, <1>2, <1>3, WatcherKeeps DEF DepositType, WatcherInv
<1>5. Scanned(old, Booking) => Scanned(x, Booking)
  BY <1>1, <1>3 DEF Scanned
<1>6. OneWatcher /\ ScanInv => ScanInv'
  BY <1>1, <1>3, <1>5, WatcherFacts, CoverageKeeps DEF Booking
<1> QED
  BY <1>1, <1>4, <1>6 DEF WatcherGood, DepositType

\* A deposit found booked is dropped; another is credited by this watcher alone.
LEMMA BeginCreditKeeps ==
  ASSUME DepositInv, DepositType, NEW w \in Watchers, NEW d \in watcher[w].logs,
         BeginCredit(w, d)
  PROVE  WatcherGood
<1> DEFINE old == watcher[w]
<1>1. /\ UNCHANGED <<head, cursor, credited, origin, failed>>
      /\ old.pc = "handle" /\ Creditable(d) /\ ~BeingBooked(w, d)
  BY DEF BeginCredit, WatcherAt
<1>2. old \in WatcherRecords /\ WatcherInv(w)
  BY WatcherFacts
<1>3. CASE Booked(d)
  <2> DEFINE x == [old EXCEPT !.logs = old.logs \ {d}]
  <2>1. watcher' = [watcher EXCEPT ![w] = x]
    BY <1>3 DEF BeginCredit
  <2>2. /\ x \in WatcherRecords /\ x.pc = "handle" /\ x.from = old.from /\ x.to = old.to
        /\ x.chunk = old.chunk /\ x.logs = old.logs \ {d}
    BY <1>1, <1>2 DEF WatcherRecords
  <2> HIDE DEF x
  <2>3. DepositInv' /\ watcher' \in [Watchers -> WatcherRecords]
    BY <1>1, <1>2, <2>1, <2>2, WatcherKeeps DEF DepositType, WatcherInv
  <2>4. Scanned(old, Booking) => Scanned(x, Booking)
    BY <1>1, <1>3, <2>2 DEF Scanned, Booked, Booking
  <2>5. OneWatcher /\ ScanInv => ScanInv'
    BY <1>1, <2>1, <2>2, <2>4, WatcherFacts, CoverageKeeps DEF Booking
  <2> QED
    BY <1>1, <2>3, <2>5 DEF WatcherGood, DepositType
<1>4. CASE ~Booked(d)
  <2> DEFINE x == [old EXCEPT !.pc = "credit", !.log = d]
  <2>1. watcher' = [watcher EXCEPT ![w] = x]
    BY <1>4 DEF BeginCredit
  <2>2. /\ x \in WatcherRecords /\ x.pc = "credit" /\ x.from = old.from /\ x.to = old.to
        /\ x.chunk = old.chunk /\ x.logs = old.logs /\ x.log = d
    BY <1>1, <1>2 DEF WatcherRecords
  <2> HIDE DEF x
  <2>3. DepositInv' /\ watcher' \in [Watchers -> WatcherRecords]
    BY <1>1, <1>2, <1>4, <2>1, <2>2, WatcherKeeps DEF DepositType, WatcherInv, Booked
  <2>4. Scanned(old, Booking) => Scanned(x, Booking)
    BY <1>1, <2>2 DEF Scanned
  <2>5. OneWatcher /\ ScanInv => ScanInv'
    BY <1>1, <2>1, <2>2, <2>4, WatcherFacts, CoverageKeeps DEF Booking
  <2> QED
    BY <1>1, <2>3, <2>5 DEF WatcherGood, DepositType
<1> QED
  BY <1>3, <1>4

\* The deposit at hand is booked, or its transaction failed.
LEMMA HandledKeeps ==
  ASSUME DepositInv, DepositType, NEW w \in Watchers, watcher[w].pc = "credit", Handled(w),
         UNCHANGED <<head, cursor, origin>>,
         credited' \subseteq DepositSet, failed' \subseteq DepositSet,
         \A d \in credited' : d \in credited \/ d = watcher[w].log,
         Booking' = Booking \cup {watcher[w].log}
  PROVE  WatcherGood
<1> DEFINE old == watcher[w]
           x == [old EXCEPT !.pc = "handle", !.logs = old.logs \ {old.log}, !.log = NoCursor]
<1>1. watcher' = [watcher EXCEPT ![w] = x]
  BY DEF Handled
<1>2. old \in WatcherRecords /\ WatcherInv(w)
  BY WatcherFacts
<1>3. /\ x \in WatcherRecords /\ x.pc = "handle" /\ x.from = old.from /\ x.to = old.to
      /\ x.chunk = old.chunk /\ x.logs = old.logs \ {old.log}
  BY <1>2 DEF WatcherRecords
<1> HIDE DEF x
<1>4. DepositInv' /\ watcher' \in [Watchers -> WatcherRecords]
  BY <1>1, <1>2, <1>3, WatcherKeeps DEF WatcherInv
<1>5. Scanned(old, Booking) => Scanned(x, Booking')
  BY <1>3 DEF Scanned
<1>6. OneWatcher /\ ScanInv => ScanInv'
  BY <1>1, <1>3, <1>5, WatcherFacts, CoverageKeeps
<1> QED
  BY <1>4, <1>6 DEF WatcherGood, DepositType

LEMMA CommitCreditKeeps ==
  ASSUME DepositInv, DepositType, NEW w \in Watchers, CommitCredit(w)
  PROVE  WatcherGood
<1>1. watcher[w].pc = "credit" /\ Handled(w) /\ UNCHANGED <<head, cursor, origin, failed>>
      /\ credited' = credited \cup {watcher[w].log}
  BY DEF CommitCredit, WatcherAt
<1>2. watcher[w].log \in DepositSet
  BY <1>1, WatcherFacts DEF WatcherInv, WatcherRecords
<1> QED
  BY <1>1, <1>2, HandledKeeps DEF DepositType, Booking

LEMMA CreditErrorKeeps ==
  ASSUME DepositInv, DepositType, NEW w \in Watchers, CreditError(w)
  PROVE  WatcherGood
<1>1. watcher[w].pc = "credit" /\ Handled(w) /\ UNCHANGED <<head, cursor, origin, credited>>
      /\ failed' = failed \cup {watcher[w].log}
  BY DEF CreditError, WatcherAt
<1>2. watcher[w].log \in DepositSet
  BY <1>1, WatcherFacts DEF WatcherInv, WatcherRecords
<1> QED
  BY <1>1, <1>2, HandledKeeps DEF DepositType, Booking

LEMMA NextChunkKeeps ==
  ASSUME DepositInv, DepositType, NEW w \in Watchers, NextChunk(w)
  PROVE  WatcherGood
<1> DEFINE old == watcher[w]
           x == [old EXCEPT !.pc = "fetch", !.chunk = old.chunk + 1]
<1>1. /\ UNCHANGED <<head, cursor, credited, origin, failed>>
      /\ watcher' = [watcher EXCEPT ![w] = x]
      /\ old.pc = "handle" /\ old.logs = {}
  BY DEF NextChunk, WatcherAt
<1>2. old \in WatcherRecords /\ WatcherInv(w)
  BY WatcherFacts
<1>3. old.chunk \in Nat /\ old.chunk + 1 \in 1..(Chunks + 1)
  BY <1>1, <1>2, DepositConstants DEF WatcherInv, WatcherRecords
<1>4. /\ x \in WatcherRecords /\ x.pc = "fetch" /\ x.from = old.from /\ x.to = old.to
      /\ x.chunk = old.chunk + 1 /\ x.logs = {}
  BY <1>1, <1>2, <1>3 DEF WatcherRecords
<1> HIDE DEF x
<1>5. DepositInv' /\ watcher' \in [Watchers -> WatcherRecords]
  BY <1>1, <1>2, <1>4, WatcherKeeps DEF DepositType, WatcherInv
<1>6. Scanned(old, Booking) => Scanned(x, Booking)
  <2>1. SUFFICES ASSUME Scanned(old, Booking), NEW d \in DepositSet, Creditable(d),
                        InRange(d, x.from, x.to), d.chunk < x.chunk
                 PROVE  d \in Booking
    BY <1>4 DEF Scanned
  <2>2. d.chunk < old.chunk \/ d.chunk = old.chunk
    BY <1>3, <1>4, <2>1, DepositConstants
  <2> QED
    BY <1>1, <1>4, <2>1, <2>2 DEF Scanned
<1>7. OneWatcher /\ ScanInv => ScanInv'
  BY <1>1, <1>4, <1>6, WatcherFacts, CoverageKeeps DEF Booking
<1> QED
  BY <1>1, <1>5, <1>7 DEF WatcherGood, DepositType

\* The cursor passes a range of which every chunk was handled.
LEMMA SetCursorKeeps ==
  ASSUME DepositInv, DepositType, NEW w \in Watchers, SetCursor(w)
  PROVE  WatcherGood
<1> DEFINE old == watcher[w]
<1>1. /\ UNCHANGED <<head, credited, failed>>
      /\ watcher' = [watcher EXCEPT ![w] = IdleWatcher]
      /\ old.pc = "fetch" /\ old.chunk > Chunks
      /\ cursor' = old.to /\ origin' = IF cursor = NoCursor THEN old.from ELSE origin
  BY DEF SetCursor, WatcherAt
<1>2. IdleWatcher.pc = "idle" /\ IdleWatcher.logs = {}
  BY DEF IdleWatcher
<1>3. DepositInv' /\ watcher' \in [Watchers -> WatcherRecords]
  BY <1>1, <1>2, IdleWatcherType, WatcherKeeps DEF DepositType
<1>4. old \in WatcherRecords /\ old.from \in Nat /\ old.to \in Nat /\ old.to \in 0..MaxHead
      /\ old.chunk \in Nat
  BY WatcherFacts, DepositConstants DEF WatcherRecords
<1>5. ASSUME OneWatcher, ScanInv
      PROVE  ScanInv'
  <2>1. Scanned(old, Booking) /\ (cursor # NoCursor => old.from = cursor)
    BY <1>1, <1>5, WatcherFacts
  <2>2. Covered(old.from, old.to)
    <3>1. \A d \in DepositSet : d.chunk < old.chunk
      BY <1>1, <1>4, DepositConstants
    <3> QED
      BY <2>1, <3>1 DEF Scanned, Covered
  <2>3. cursor # NoCursor => origin \in Nat /\ Covered(origin, cursor)
    BY <1>5 DEF ScanInv
  <2>4. origin' \in Nat /\ Covered(origin', old.to)
    <3>1. CASE cursor = NoCursor
      BY <1>1, <1>4, <2>2, <3>1
    <3>2. CASE cursor # NoCursor
      <4>1. origin' = origin /\ old.from = cursor /\ origin \in Nat /\ Covered(origin, cursor)
        BY <1>1, <2>1, <2>3, <3>2
      <4>2. ASSUME NEW d \in DepositSet, Creditable(d), InRange(d, origin, old.to)
            PROVE  d \in Booking
        <5>1. d.block \in Nat
          BY DepositConstants
        <5>2. InRange(d, origin, old.from) \/ InRange(d, old.from, old.to)
          BY <1>4, <4>1, <4>2, <5>1 DEF InRange
        <5> QED
          BY <2>2, <4>1, <4>2, <5>2 DEF Covered
      <4> QED
        BY <4>1, <4>2 DEF Covered
    <3> QED
      BY <3>1, <3>2
  <2>5. Covered(origin, cursor)'
    BY <1>1, <2>4 DEF Covered, Booking, Creditable, InRange
  <2>6. \A v \in Watchers : watcher'[v].pc = "idle"
    BY <1>1, <1>2, <1>5 DEF OneWatcher, DepositType
  <2> QED
    BY <2>4, <2>5, <2>6 DEF ScanInv
<1> QED
  BY <1>1, <1>3, <1>4, <1>5 DEF WatcherGood, DepositType

\* The death of a process ends scans where they are, and the cursor stays.
LEMMA DepositCrashKeeps ==
  ASSUME DepositInv, DepositType, NEW p \in Processes, DepositCrash(p)
  PROVE  WatcherGood
<1>1. UNCHANGED <<head, cursor, credited, origin, failed>>
  BY DEF DepositCrash
<1>2. \A w \in Watchers : watcher'[w] \in {watcher[w], IdleWatcher}
  BY DEF DepositCrash
<1>3. watcher' \in [Watchers -> WatcherRecords]
  BY IdleWatcherType DEF DepositCrash, DepositType
<1>4. IdleWatcher.pc = "idle" /\ IdleWatcher.logs = {}
  BY DEF IdleWatcher
<1>5. ASSUME NEW w \in Watchers
      PROVE  WatcherInv(w)'
  <2>1. WatcherInv(w)
    BY DEF DepositInv
  <2>2. CASE watcher'[w] = watcher[w]
    <3>1. \A d \in DepositSet : BeingBooked(w, d)' => BeingBooked(w, d)
      BY <1>2, <1>4 DEF BeingBooked
    <3>2. watcher[w].logs \subseteq DepositSet
      BY DEF DepositType, WatcherRecords
    <3> QED
      BY <1>1, <2>1, <2>2, <3>1, <3>2 DEF WatcherInv, InRange, Creditable
  <2>3. CASE watcher'[w] = IdleWatcher
    BY <1>4, <2>3 DEF WatcherInv
  <2> QED
    BY <1>2, <2>2, <2>3
<1>6. DepositInv'
  BY <1>1, <1>5 DEF DepositInv, Creditable
<1>7. OneWatcher /\ ScanInv => ScanInv'
  BY <1>1, <1>2, <1>4 DEF ScanInv, Scanned, Covered, Booking, Creditable, InRange
<1> QED
  BY <1>1, <1>3, <1>6, <1>7 DEF WatcherGood, DepositType

LEMMA DepositNextKeeps ==
  ASSUME DepositInv, DepositType, [Next]_vars
  PROVE  WatcherGood
<1>1. CASE UNCHANGED depositVars
  <2>1. UNCHANGED <<head, cursor, credited, watcher, origin, failed>>
    BY <1>1 DEF depositVars
  <2>2. \A w \in Watchers : WatcherInv(w)' <=> WatcherInv(w)
    BY <2>1 DEF WatcherInv, BeingBooked, InRange, Creditable
  <2>3. DepositInv' /\ DepositType'
    BY <2>1, <2>2 DEF DepositInv, DepositType, Creditable
  <2>4. ScanInv' <=> ScanInv
    BY <2>1 DEF ScanInv, Scanned, Covered, Booking, Creditable, InRange
  <2> QED
    BY <2>3, <2>4 DEF WatcherGood
<1>2. CASE NewBlock
  <2>1. DepositInv' /\ DepositType'
    BY <1>2, NewBlockKeeps
  <2>2. UNCHANGED <<cursor, credited, watcher, origin, failed>>
    BY <1>2 DEF NewBlock
  <2>3. ScanInv' <=> ScanInv
    BY <2>2 DEF ScanInv, Scanned, Covered, Booking, Creditable, InRange
  <2> QED
    BY <2>1, <2>3 DEF WatcherGood
<1>3. ASSUME NEW w \in Watchers, WatcherStep(w)
      PROVE  WatcherGood
  BY <1>3, BeginScanKeeps, FetchLogsKeeps, FetchErrorKeeps, SkipLogKeeps, BeginCreditKeeps,
     CommitCreditKeeps, CreditErrorKeeps, NextChunkKeeps, SetCursorKeeps DEF WatcherStep
<1>4. CASE \E p \in Processes : Crash(p)
  BY <1>4, DepositCrashKeeps DEF Crash
<1>5. CASE UNCHANGED vars
  BY <1>1, <1>5 DEF vars, depositVars
<1> QED
  BY <1>1, <1>2, <1>3, <1>4, <1>5 DEF Next, DepositNext

LEMMA DepositInitInv ==
  ASSUME Init
  PROVE  DepositInv /\ DepositType /\ ScanInv
<1>1. /\ head = InitialHead /\ cursor = NoCursor /\ credited = {} /\ failed = {}
      /\ watcher = [w \in Watchers |-> IdleWatcher]
  BY DEF Init, DepositInit
<1>2. IdleWatcher.pc = "idle" /\ IdleWatcher.logs = {}
  BY DEF IdleWatcher
<1>3. \A w \in Watchers : watcher[w] = IdleWatcher
  BY <1>1
<1>4. DepositInv
  BY <1>1, <1>2, <1>3 DEF DepositInv, WatcherInv
<1>5. DepositType
  BY <1>1, IdleWatcherType, DepositConstants DEF DepositType
<1>6. ScanInv
  BY <1>1, <1>2, <1>3 DEF ScanInv
<1> QED
  BY <1>4, <1>5, <1>6

-----------------------------------------------------------------------------
(* The balance.                                                            *)

\* The balance moves by what is recorded: nothing, a debit that was not made
\* before, a refund, or a deposit that was not booked before.
Movement ==
  \/ UNCHANGED <<balance, debits, refunds, credited>>
  \/ \E r \in Requests \ debits :
       /\ balance' = balance - Amount[r] /\ debits' = debits \cup {r}
       /\ UNCHANGED <<refunds, credited>>
  \/ \E r \in Requests :
       /\ balance' = balance + Amount[r] /\ refunds' = [refunds EXCEPT ![r] = @ + 1]
       /\ UNCHANGED <<debits, credited>>
  \/ \E d \in DepositSet \ credited :
       /\ balance' = balance + d.value /\ credited' = credited \cup {d}
       /\ UNCHANGED <<debits, refunds>>

\* What a step promises about the balance.
BalanceGood == BalanceInv' /\ BalanceType' /\ (OneProcess => Movement)

\* Actor a alone moves: if it is then about to write, it holds its process and
\* has read the balance.
LEMMA ActorKeeps ==
  ASSUME BalanceInv, BalanceType, NEW a \in Actors, CanRun(a), Continue(a) \/ Yield(a),
         cached' \in [Actors -> Nat], balance' \in Nat,
         \A b \in Actors : b # a => cached'[b] = cached[b] /\ (Writing(b)' => Writing(b)),
         Writing(a)' => Continue(a) /\ cached'[a] = balance',
         \A r \in Requests : handler'[r].pc = "swap" =>
           IF r = a THEN cached'[r] >= Amount[r] ELSE handler[r].pc = "swap"
  PROVE  BalanceInv' /\ BalanceType'
<1>1. home' = home /\ home[a] \in Processes /\ Deployed(a) /\ running[home[a]] \in {a, Nobody}
  BY ActorFacts DEF CanRun, Continue, Yield
<1>2. /\ running'[home[a]] \in {a, Nobody} /\ (Continue(a) => running'[home[a]] = a)
      /\ running' \in [Processes -> Actors \cup {Nobody}]
      /\ \A p \in Processes : p # home[a] => running'[p] = running[p]
  BY <1>1 DEF Continue, Yield, BalanceType
<1>3. ASSUME NEW b \in Actors, b # a, Writing(b)
      PROVE  Deployed(b) /\ home[b] \in Processes /\ home[b] # home[a] /\ running[home[b]] = b
  <2>1. Deployed(b) /\ running[home[b]] = b
    BY <1>3 DEF BalanceInv
  <2> QED
    BY <1>1, <1>3, <2>1, ActorFacts
<1>4. \A b \in Actors : Writing(b)' => Deployed(b)' /\ running'[home'[b]] = b
  BY <1>1, <1>2, <1>3 DEF Deployed
<1>5. \A r \in Requests : handler'[r].pc = "swap" => cached'[r] >= Amount[r]
  BY ActorFacts DEF BalanceInv
<1>6. OneProcess' => \A b \in Actors : Writing(b)' => cached'[b] = balance'
  BY <1>1, <1>3 DEF OneProcess, Deployed
<1> QED
  BY <1>1, <1>2, <1>4, <1>5, <1>6 DEF BalanceInv, BalanceType

\* The three kinds of actors, each alone.
LEMMA HandlerMoves ==
  ASSUME BalanceInv, BalanceType, NEW r \in Requests, CanRun(r), Continue(r) \/ Yield(r),
         UNCHANGED <<recon, watcher>>, \A q \in Requests : q # r => handler'[q] = handler[q],
         cached' \in [Actors -> Nat], balance' \in Nat,
         \A b \in Actors : b # r => cached'[b] = cached[b],
         handler'[r].pc \in {"swap", "credit"} => Continue(r) /\ cached'[r] = balance',
         handler'[r].pc = "swap" => cached'[r] >= Amount[r]
  PROVE  BalanceInv' /\ BalanceType'
<1>1. r \in Actors /\ r \notin Reconcilers /\ r \notin Watchers
  BY ActorFacts
<1>2. \A b \in Actors : b # r => (Writing(b)' => Writing(b))
  BY DEF Writing
<1>3. Writing(r)' => Continue(r) /\ cached'[r] = balance'
  BY <1>1 DEF Writing
<1> QED
  BY <1>1, <1>2, <1>3, ActorKeeps

LEMMA ReconcilerMoves ==
  ASSUME BalanceInv, BalanceType, NEW c \in Reconcilers, CanRun(c), Continue(c) \/ Yield(c),
         UNCHANGED <<handler, watcher>>, ReconMoves(c),
         cached' \in [Actors -> Nat], balance' \in Nat,
         \A b \in Actors : b # c => cached'[b] = cached[b],
         recon'[c].pc = "credit" => Continue(c) /\ cached'[c] = balance'
  PROVE  BalanceInv' /\ BalanceType'
<1>1. c \in Actors /\ c \notin Requests /\ c \notin Watchers
  BY ActorFacts
<1>2. \A b \in Actors : b # c => (Writing(b)' => Writing(b))
  BY DEF Writing, ReconMoves
<1>3. Writing(c)' => Continue(c) /\ cached'[c] = balance'
  BY <1>1 DEF Writing
<1> QED
  BY <1>1, <1>2, <1>3, ActorKeeps

LEMMA WatcherMoves ==
  ASSUME BalanceInv, BalanceType, NEW w \in Watchers, CanRun(w), Continue(w) \/ Yield(w),
         UNCHANGED <<handler, recon>>, \A v \in Watchers : v # w => watcher'[v] = watcher[v],
         cached' \in [Actors -> Nat], balance' \in Nat,
         \A b \in Actors : b # w => cached'[b] = cached[b],
         watcher'[w].pc = "credit" => Continue(w) /\ cached'[w] = balance'
  PROVE  BalanceInv' /\ BalanceType'
<1>1. w \in Actors /\ w \notin Requests /\ w \notin Reconcilers
  BY ActorFacts
<1>2. \A b \in Actors : b # w => (Writing(b)' => Writing(b))
  BY DEF Writing
<1>3. Writing(w)' => Continue(w) /\ cached'[w] = balance'
  BY <1>1 DEF Writing
<1> QED
  BY <1>1, <1>2, <1>3, ActorKeeps

\* Reading and forgetting, as the actors do it.
LEMMA ReadFacts ==
  ASSUME BalanceType, NEW a \in Actors, ReadBalance(a)
  PROVE  /\ balance' = balance /\ cached' \in [Actors -> Nat] /\ cached'[a] = balance'
         /\ \A b \in Actors : b # a => cached'[b] = cached[b]
  BY DEF ReadBalance, BalanceType

LEMMA ForgetFacts ==
  ASSUME BalanceType, NEW a \in Actors, Forget(a)
  PROVE  /\ cached' \in [Actors -> Nat]
         /\ \A b \in Actors : b # a => cached'[b] = cached[b]
  BY DEF Forget, BalanceType

LEMMA SameCache ==
  ASSUME BalanceType, UNCHANGED <<balance, cached>>
  PROVE  /\ balance' \in Nat /\ cached' \in [Actors -> Nat]
         /\ \A b \in Actors : cached'[b] = cached[b]
  BY DEF BalanceType

-----------------------------------------------------------------------------
(* The balance: requests.                                                  *)

\* The steps of a handler that leave the balance alone.
LEMMA QuietHandler ==
  ASSUME BalanceInv, BalanceType, WithdrawalType, NEW r \in Requests, CanRun(r),
         Continue(r) \/ Yield(r), UNCHANGED <<recon, watcher, balance, cached>>,
         UNCHANGED <<debits, refunds, credited>>,
         NEW pc \in HandlerPC \ {"swap", "credit"}, Goto(r, pc)
  PROVE  BalanceGood
<1>1. handler'[r].pc = pc /\ \A q \in Requests : q # r => handler'[q] = handler[q]
  BY GotoFacts
<1>2. BalanceInv' /\ BalanceType'
  BY <1>1, SameCache, HandlerMoves
<1> QED
  BY <1>2 DEF BalanceGood, Movement

LEMMA QuietHandlerSteps ==
  ASSUME BalanceInv, BalanceType, WithdrawalType, NEW r \in Requests,
         UNCHANGED <<watcher, credited>>,
         \/ SendFails(r) \/ StampHash(r) \/ Broadcast(r) \/ RecordPendingHash(r)
         \/ Finalize(r) \/ Notify(r) \/ Release(r) \/ UndoAfterSend(r)
  PROVE  BalanceGood
<1> DEFINE Quiet(pc) ==
      /\ CanRun(r) /\ (Continue(r) \/ Yield(r)) /\ Goto(r, pc)
      /\ UNCHANGED <<recon, balance, cached, debits, refunds>>
<1>1. \E pc \in {"refund", "broadcast", "finalize", "ambiguous", "notify", "over"} : Quiet(pc)
  BY DEF SendFails, StampHash, Broadcast, RecordPendingHash, Finalize, Notify, Release,
         UndoAfterSend, At
<1>2. PICK pc \in {"refund", "broadcast", "finalize", "ambiguous", "notify", "over"} : Quiet(pc)
  BY <1>1
<1>3. pc \in HandlerPC \ {"swap", "credit"}
  BY DEF HandlerPC
<1> QED
  BY <1>2, <1>3, QuietHandler

\* A handler whose database call raises forgets what it read.
LEMMA DatabaseErrorBalance ==
  ASSUME BalanceInv, BalanceType, WithdrawalType, NEW r \in Requests,
         UNCHANGED <<watcher, credited>>, DatabaseError(r)
  PROVE  BalanceGood
<1>1. CanRun(r) /\ Yield(r) /\ Goto(r, "over") /\ Forget(r)
      /\ UNCHANGED <<recon, debits, refunds, balance>>
  BY DEF DatabaseError
<1>2. "over" \in HandlerPC /\ r \in Actors /\ balance' \in Nat
  BY <1>1, ActorFacts DEF HandlerPC, BalanceType
<1>3. handler'[r].pc = "over" /\ \A q \in Requests : q # r => handler'[q] = handler[q]
  BY <1>1, <1>2, GotoFacts
<1>4. cached' \in [Actors -> Nat] /\ \A b \in Actors : b # r => cached'[b] = cached[b]
  BY <1>1, <1>2, ForgetFacts
<1>5. BalanceInv' /\ BalanceType'
  BY <1>1, <1>2, <1>3, <1>4, HandlerMoves
<1> QED
  BY <1>1, <1>5 DEF BalanceGood, Movement

LEMMA ClaimBalance ==
  ASSUME BalanceInv, BalanceType, WithdrawalType, NEW r \in Requests, NEW k \in Keys,
         UNCHANGED <<watcher, credited>>, Claim(r, k)
  PROVE  BalanceGood
<1>1. CanRun(r) /\ UNCHANGED <<recon, balance, cached, debits, refunds>>
  BY DEF Claim, At
<1>2. CASE Goto(r, "over") /\ Yield(r)
  <2>1. "over" \in HandlerPC \ {"swap", "credit"}
    BY DEF HandlerPC
  <2> QED
    BY <1>1, <1>2, <2>1, QuietHandler
<1>3. CASE handler' = [handler EXCEPT ![r].pc = "reserve", ![r].key = k] /\ Continue(r)
  <2>1. handler[r] \in HandlerRecords
    BY DEF WithdrawalType
  <2>2. handler'[r].pc = "reserve" /\ \A q \in Requests : q # r => handler'[q] = handler[q]
    BY <1>3, <2>1 DEF WithdrawalType, HandlerRecords
  <2>3. BalanceInv' /\ BalanceType'
    BY <1>1, <1>3, <2>2, SameCache, HandlerMoves
  <2> QED
    BY <1>1, <2>3 DEF BalanceGood, Movement
<1> QED
  BY <1>2, <1>3 DEF Claim

\* The funds are checked against what was read.
LEMMA ReserveReadBalance ==
  ASSUME BalanceInv, BalanceType, WithdrawalType, NEW r \in Requests,
         UNCHANGED <<watcher, credited>>, ReserveRead(r)
  PROVE  BalanceGood
<1>1. CanRun(r) /\ Continue(r) /\ UNCHANGED <<recon, debits, refunds>>
  BY DEF ReserveRead, At
<1>2. {"release", "swap"} \subseteq HandlerPC
  BY DEF HandlerPC
<1>3. CASE Goto(r, "release") /\ UNCHANGED <<balance, cached>>
  BY <1>1, <1>2, <1>3, QuietHandler
<1>4. CASE ~Insufficient(r) /\ Goto(r, "swap") /\ ReadBalance(r)
  <2>1. handler'[r].pc = "swap" /\ \A q \in Requests : q # r => handler'[q] = handler[q]
    BY <1>2, <1>4, GotoFacts
  <2>2. r \in Actors /\ Amount[r] \in Nat /\ balance \in Nat
    BY ActorFacts, WithdrawalAssumption DEF BalanceType
  <2>3. /\ balance' = balance /\ cached' \in [Actors -> Nat] /\ cached'[r] = balance'
        /\ \A b \in Actors : b # r => cached'[b] = cached[b]
    BY <1>4, <2>2, ReadFacts
  <2>4. cached'[r] >= Amount[r]
    BY <1>4, <2>2, <2>3 DEF Insufficient
  <2>5. BalanceInv' /\ BalanceType'
    BY <1>1, <2>1, <2>2, <2>3, <2>4, HandlerMoves
  <2> QED
    BY <1>1, <2>3, <2>5 DEF BalanceGood, Movement
<1> QED
  BY <1>3, <1>4 DEF ReserveRead

\* The swap moves the balance only if it still is what was read, and by an amount
\* that was there; this needs no assumption on the processes.
LEMMA ReserveSwapBalance ==
  ASSUME BalanceInv, BalanceType, WithdrawalType, WithdrawalInv, NEW r \in Requests,
         UNCHANGED <<watcher, credited>>, ReserveSwap(r)
  PROVE  BalanceGood
<1>1. /\ CanRun(r) /\ (Continue(r) \/ Yield(r)) /\ UNCHANGED <<recon, refunds>>
      /\ handler[r].pc = "swap" /\ SwapBalance(r, Amount[r])
  BY DEF ReserveSwap, At
<1>2. r \in Actors /\ Amount[r] \in Nat /\ balance \in Nat /\ cached[r] \in Nat
      /\ cached[r] >= Amount[r] /\ r \notin debits
  BY <1>1, ActorFacts, WithdrawalAssumption
     DEF BalanceType, BalanceInv, WithdrawalInv, RequestInv
<1>3. /\ cached' \in [Actors -> Nat]
      /\ \A b \in Actors : b # r => cached'[b] = cached[b]
  BY <1>1, <1>2, ForgetFacts DEF SwapBalance
<1>4. balance' \in Nat
  BY <1>1, <1>2 DEF SwapBalance
<1>5. handler'[r].pc \in {"sign", "reserve", "release"}
      /\ \A q \in Requests : q # r => handler'[q] = handler[q]
  <2>1. handler[r] \in HandlerRecords
    BY DEF WithdrawalType
  <2>2. CASE Goto(r, "sign")
    <3>1. "sign" \in HandlerPC
      BY DEF HandlerPC
    <3> QED
      BY <2>2, <3>1, GotoFacts
  <2>3. CASE handler' = [handler EXCEPT
                ![r].pc = IF handler[r].lost + 1 < MaxRetries THEN "reserve" ELSE "release",
                ![r].lost = @ + 1]
    BY <2>1, <2>3 DEF WithdrawalType, HandlerRecords
  <2> QED
    BY <2>2, <2>3 DEF ReserveSwap
<1>6. BalanceInv' /\ BalanceType'
  BY <1>1, <1>3, <1>4, <1>5, HandlerMoves
<1>7. Movement
  BY <1>1, <1>2 DEF Movement, ReserveSwap, SwapBalance, Swaps
<1> QED
  BY <1>6, <1>7 DEF BalanceGood

LEMMA RefundReadBalance ==
  ASSUME BalanceInv, BalanceType, WithdrawalType, NEW r \in Requests,
         UNCHANGED <<watcher, credited>>, RefundRead(r)
  PROVE  BalanceGood
<1>1. CanRun(r) /\ Continue(r) /\ Goto(r, "credit") /\ UNCHANGED <<recon, debits, refunds>>
      /\ ReadBalance(r)
  BY DEF RefundRead, At
<1>2. "credit" \in HandlerPC /\ r \in Actors /\ balance \in Nat
  BY ActorFacts DEF HandlerPC, BalanceType
<1>3. handler'[r].pc = "credit" /\ \A q \in Requests : q # r => handler'[q] = handler[q]
  BY <1>1, <1>2, GotoFacts
<1>4. /\ balance' = balance /\ cached' \in [Actors -> Nat] /\ cached'[r] = balance'
      /\ \A b \in Actors : b # r => cached'[b] = cached[b]
  BY <1>1, <1>2, ReadFacts
<1>5. BalanceInv' /\ BalanceType'
  BY <1>1, <1>2, <1>3, <1>4, HandlerMoves
<1> QED
  BY <1>1, <1>4, <1>5 DEF BalanceGood, Movement

\* With one process nobody has written since the refund read the balance.
LEMMA RefundWriteBalance ==
  ASSUME BalanceInv, BalanceType, WithdrawalType, NEW r \in Requests,
         UNCHANGED <<watcher, credited>>, RefundWrite(r)
  PROVE  BalanceGood
<1>1. CanRun(r) /\ Continue(r) /\ Goto(r, "release") /\ UNCHANGED <<recon, debits>>
      /\ handler[r].pc = "credit" /\ AddToBalance(r, Amount[r])
      /\ refunds' = [refunds EXCEPT ![r] = @ + 1]
  BY DEF RefundWrite, At
<1>2. "release" \in HandlerPC /\ r \in Actors /\ cached[r] \in Nat /\ Amount[r] \in Nat
  BY ActorFacts, WithdrawalAssumption DEF HandlerPC, BalanceType
<1>3. handler'[r].pc = "release" /\ \A q \in Requests : q # r => handler'[q] = handler[q]
  BY <1>1, <1>2, GotoFacts
<1>4. /\ cached' \in [Actors -> Nat] /\ balance' \in Nat
      /\ \A b \in Actors : b # r => cached'[b] = cached[b]
  BY <1>1, <1>2, ForgetFacts DEF AddToBalance
<1>5. BalanceInv' /\ BalanceType'
  BY <1>1, <1>3, <1>4, HandlerMoves
<1>6. OneProcess => Movement
  <2>1. Writing(r)
    BY <1>1 DEF Writing
  <2>2. OneProcess => cached[r] = balance
    BY <1>2, <2>1 DEF BalanceInv
  <2> QED
    BY <1>1, <2>2 DEF Movement, AddToBalance
<1> QED
  BY <1>5, <1>6 DEF BalanceGood

-----------------------------------------------------------------------------
(* The balance: reconcilers and watchers.                                  *)

LEMMA QuietReconciler ==
  ASSUME BalanceInv, BalanceType, NEW c \in Reconcilers, CanRun(c), Continue(c) \/ Yield(c),
         UNCHANGED <<handler, watcher, balance, cached>>, UNCHANGED <<debits, refunds, credited>>,
         ReconMoves(c), recon'[c].pc # "credit"
  PROVE  BalanceGood
<1>1. BalanceInv' /\ BalanceType'
  BY SameCache, ReconcilerMoves
<1> QED
  BY <1>1 DEF BalanceGood, Movement

LEMMA QuietReconcilerSteps ==
  ASSUME BalanceInv, BalanceType, WithdrawalType, WithdrawalInv, NEW c \in Reconcilers,
         UNCHANGED <<watcher, credited>>,
         \/ Scan(c) \/ (\E copy \in recon[c].todo : Pick(c, copy)) \/ EndPass(c)
         \/ LookUp(c) \/ LookUpUnknown(c) \/ CompleteRow(c) \/ FailRow(c) \/ CasError(c)
  PROVE  BalanceGood
<1>1. /\ CanRun(c) /\ (Continue(c) \/ Yield(c))
      /\ UNCHANGED <<handler, balance, cached, debits, refunds>>
  BY DEF Scan, Pick, EndPass, LookUp, LookUpUnknown, CompleteRow, FailRow, CasError, ReconAt
<1>2. WithdrawalType'
  BY ScanKeeps, PickKeeps, EndPassKeeps, LookUpKeeps, LookUpUnknownKeeps, CompleteRowKeeps,
     FailRowKeeps, CasErrorKeeps
<1>3. recon' \in [Reconcilers -> ReconRecords] /\ recon[c] \in ReconRecords
  BY <1>2 DEF WithdrawalType
<1>4. /\ \A d \in Reconcilers : d # c => recon'[d] = recon[d]
      /\ recon'[c].pc # "credit"
  <2>1. CASE Scan(c)
    BY <2>1 DEF Scan, WithdrawalType
  <2>2. ASSUME NEW copy \in recon[c].todo, Pick(c, copy)
        PROVE  /\ \A d \in Reconcilers : d # c => recon'[d] = recon[d]
               /\ recon'[c].pc # "credit"
    BY <2>2 DEF Pick, WithdrawalType
  <2>3. CASE EndPass(c)
    BY <2>3 DEF EndPass, IdleReconciler, WithdrawalType
  <2>4. CASE LookUpUnknown(c) \/ CompleteRow(c) \/ CasError(c)
    BY <2>4, BackToPickFacts DEF LookUpUnknown, CompleteRow, CasError, ReconMoves
  <2>5. CASE LookUp(c) \/ FailRow(c)
    <3>1. PICK pc \in {"complete", "fail", "refund", "pick"} :
            recon' = [recon EXCEPT ![c].pc = pc]
      BY <2>5 DEF LookUp, FailRow
    <3> QED
      BY <3>1, ReconGoto DEF ReconMoves
  <2> QED
    BY <2>1, <2>2, <2>3, <2>4, <2>5
<1> QED
  BY <1>1, <1>3, <1>4, QuietReconciler DEF ReconMoves

LEMMA ReconRefundReadBalance ==
  ASSUME BalanceInv, BalanceType, WithdrawalType, NEW c \in Reconcilers,
         UNCHANGED <<watcher, credited>>, ReconRefundRead(c)
  PROVE  BalanceGood
<1>1. CanRun(c) /\ Continue(c) /\ UNCHANGED <<handler, debits, refunds>> /\ ReadBalance(c)
      /\ recon' = [recon EXCEPT ![c].pc = "credit"]
  BY DEF ReconRefundRead, ReconAt
<1>2. c \in Actors /\ balance \in Nat
  BY ActorFacts DEF BalanceType
<1>3. ReconMoves(c)
  BY <1>1, ReconGoto
<1>4. /\ balance' = balance /\ cached' \in [Actors -> Nat] /\ cached'[c] = balance'
      /\ \A b \in Actors : b # c => cached'[b] = cached[b]
  BY <1>1, <1>2, ReadFacts
<1>5. BalanceInv' /\ BalanceType'
  BY <1>1, <1>2, <1>3, <1>4, ReconcilerMoves
<1> QED
  BY <1>1, <1>4, <1>5 DEF BalanceGood, Movement

LEMMA ReconRefundWriteBalance ==
  ASSUME BalanceInv, BalanceType, WithdrawalType, WithdrawalInv, NEW c \in Reconcilers,
         UNCHANGED <<watcher, credited>>, ReconRefundWrite(c)
  PROVE  BalanceGood
<1>1. /\ CanRun(c) /\ Continue(c) /\ UNCHANGED <<handler, debits>> /\ BackToPick(c)
      /\ recon[c].pc = "credit" /\ AddToBalance(c, Amount[recon[c].req])
      /\ refunds' = [refunds EXCEPT ![recon[c].req] = @ + 1]
  BY DEF ReconRefundWrite, ReconAt
<1>2. PICK r \in Requests : r = recon[c].req
  BY <1>1 DEF WithdrawalInv, ReconInv
<1>3. c \in Actors /\ cached[c] \in Nat /\ Amount[r] \in Nat
  BY ActorFacts, WithdrawalAssumption DEF BalanceType
<1>4. ReconMoves(c) /\ recon'[c].pc = "pick"
  BY <1>1, BackToPickFacts
<1>5. /\ cached' \in [Actors -> Nat] /\ balance' \in Nat
      /\ \A b \in Actors : b # c => cached'[b] = cached[b]
  BY <1>1, <1>2, <1>3, ForgetFacts DEF AddToBalance
<1>6. BalanceInv' /\ BalanceType'
  BY <1>1, <1>4, <1>5, ReconcilerMoves
<1>7. OneProcess => Movement
  <2>1. Writing(c)
    BY <1>1 DEF Writing
  <2>2. OneProcess => cached[c] = balance
    BY <1>3, <2>1 DEF BalanceInv
  <2> QED
    BY <1>1, <1>2, <2>2 DEF Movement, AddToBalance
<1> QED
  BY <1>6, <1>7 DEF BalanceGood

LEMMA ReconRefundErrorBalance ==
  ASSUME BalanceInv, BalanceType, WithdrawalType, NEW c \in Reconcilers,
         UNCHANGED <<watcher, credited>>, ReconRefundError(c)
  PROVE  BalanceGood
<1>1. CanRun(c) /\ Continue(c) /\ BackToPick(c) /\ Forget(c)
      /\ UNCHANGED <<handler, debits, refunds, balance>>
  BY DEF ReconRefundError, ReconAt
<1>2. c \in Actors /\ balance' \in Nat
  BY <1>1, ActorFacts DEF BalanceType
<1>3. ReconMoves(c) /\ recon'[c].pc = "pick"
  BY <1>1, BackToPickFacts
<1>4. cached' \in [Actors -> Nat] /\ \A b \in Actors : b # c => cached'[b] = cached[b]
  BY <1>1, <1>2, ForgetFacts
<1>5. BalanceInv' /\ BalanceType'
  BY <1>1, <1>2, <1>3, <1>4, ReconcilerMoves
<1> QED
  BY <1>1, <1>5 DEF BalanceGood, Movement

LEMMA QuietWatcher ==
  ASSUME BalanceInv, BalanceType, NEW w \in Watchers, CanRun(w), Continue(w) \/ Yield(w),
         UNCHANGED <<handler, recon, balance, cached>>, UNCHANGED <<debits, refunds, credited>>,
         NEW x, x.pc # "credit", watcher' = [watcher EXCEPT ![w] = x], DepositType
  PROVE  BalanceGood
<1>1. watcher'[w] = x /\ \A v \in Watchers : v # w => watcher'[v] = watcher[v]
  BY DEF DepositType
<1>2. BalanceInv' /\ BalanceType'
  BY <1>1, SameCache, WatcherMoves
<1> QED
  BY <1>2 DEF BalanceGood, Movement

LEMMA QuietWatcherSteps ==
  ASSUME BalanceInv, BalanceType, DepositType, NEW w \in Watchers,
         UNCHANGED <<handler, recon, debits, refunds>>,
         \/ BeginScan(w) \/ FetchLogs(w) \/ FetchError(w)
         \/ (\E d \in watcher[w].logs : SkipLog(w, d)) \/ NextChunk(w) \/ SetCursor(w)
  PROVE  BalanceGood
<1>1. CanRun(w) /\ (Continue(w) \/ Yield(w)) /\ UNCHANGED <<balance, cached, credited>>
  BY DEF BeginScan, FetchLogs, FetchError, SkipLog, NextChunk, SetCursor, WatcherAt
<1>2. watcher[w] \in WatcherRecords
  BY DEF DepositType
<1>3. CASE BeginScan(w)
  BY <1>1, <1>3, QuietWatcher DEF BeginScan, IdleWatcher
<1>4. CASE FetchLogs(w)
  <2> DEFINE logs == {d \in DepositSet : /\ d.chunk = watcher[w].chunk
                                         /\ InRange(d, watcher[w].from, watcher[w].to)}
             x == [watcher[w] EXCEPT !.pc = "handle", !.logs = logs]
  <2>1. watcher' = [watcher EXCEPT ![w] = x]
    BY <1>4 DEF FetchLogs
  <2>2. x.pc = "handle"
    BY <1>2 DEF WatcherRecords
  <2> HIDE DEF x
  <2> QED
    BY <1>1, <2>1, <2>2, QuietWatcher
<1>5. CASE FetchError(w) \/ SetCursor(w)
  BY <1>1, <1>5, QuietWatcher DEF FetchError, SetCursor, IdleWatcher
<1>6. ASSUME NEW d \in watcher[w].logs, SkipLog(w, d)
      PROVE  BalanceGood
  <2> DEFINE x == [watcher[w] EXCEPT !.logs = watcher[w].logs \ {d}]
  <2>1. watcher' = [watcher EXCEPT ![w] = x]
    BY <1>6 DEF SkipLog
  <2>2. x.pc = "handle"
    BY <1>2, <1>6 DEF WatcherRecords, SkipLog, WatcherAt
  <2> HIDE DEF x
  <2> QED
    BY <1>1, <2>1, <2>2, QuietWatcher
<1>7. CASE NextChunk(w)
  <2> DEFINE x == [watcher[w] EXCEPT !.pc = "fetch", !.chunk = watcher[w].chunk + 1]
  <2>1. watcher' = [watcher EXCEPT ![w] = x]
    BY <1>7 DEF NextChunk
  <2>2. x.pc = "fetch"
    BY <1>2 DEF WatcherRecords
  <2> HIDE DEF x
  <2> QED
    BY <1>1, <2>1, <2>2, QuietWatcher
<1> QED
  BY <1>3, <1>4, <1>5, <1>6, <1>7

LEMMA BeginCreditBalance ==
  ASSUME BalanceInv, BalanceType, DepositType, NEW w \in Watchers, NEW d \in watcher[w].logs,
         UNCHANGED <<handler, recon, debits, refunds>>, BeginCredit(w, d)
  PROVE  BalanceGood
<1>1. CanRun(w) /\ Continue(w) /\ UNCHANGED credited /\ watcher[w].pc = "handle"
  BY DEF BeginCredit, WatcherAt
<1>2. watcher[w] \in WatcherRecords /\ w \in Actors
  BY ActorFacts DEF DepositType
<1>3. CASE watcher' = [watcher EXCEPT ![w].logs = @ \ {d}] /\ UNCHANGED <<balance, cached>>
  <2> DEFINE x == [watcher[w] EXCEPT !.logs = watcher[w].logs \ {d}]
  <2>1. watcher' = [watcher EXCEPT ![w] = x]
    BY <1>3
  <2>2. x.pc = "handle"
    BY <1>1, <1>2 DEF WatcherRecords
  <2> HIDE DEF x
  <2> QED
    BY <1>1, <1>3, <2>1, <2>2, QuietWatcher
<1>4. CASE watcher' = [watcher EXCEPT ![w].pc = "credit", ![w].log = d] /\ ReadBalance(w)
  <2>1. \A v \in Watchers : v # w => watcher'[v] = watcher[v]
    BY <1>4 DEF DepositType
  <2>2. /\ balance' = balance /\ cached' \in [Actors -> Nat] /\ cached'[w] = balance'
        /\ \A b \in Actors : b # w => cached'[b] = cached[b]
    BY <1>2, <1>4, ReadFacts
  <2>3. balance' \in Nat
    BY <2>2 DEF BalanceType
  <2>4. BalanceInv' /\ BalanceType'
    BY <1>1, <2>1, <2>2, <2>3, WatcherMoves
  <2> QED
    BY <1>1, <2>2, <2>4 DEF BalanceGood, Movement
<1> QED
  BY <1>3, <1>4 DEF BeginCredit

\* The end of a credit: the watcher is back at its logs.
LEMMA HandledMoves ==
  ASSUME DepositType, NEW w \in Watchers, Handled(w)
  PROVE  watcher'[w].pc = "handle" /\ \A v \in Watchers : v # w => watcher'[v] = watcher[v]
<1>1. watcher[w] \in WatcherRecords
  BY DEF DepositType
<1> QED
  BY <1>1 DEF Handled, DepositType, WatcherRecords

LEMMA CommitCreditBalance ==
  ASSUME BalanceInv, BalanceType, DepositType, DepositInv, NEW w \in Watchers,
         UNCHANGED <<handler, recon, debits, refunds>>, CommitCredit(w)
  PROVE  BalanceGood
<1>1. /\ CanRun(w) /\ Continue(w) /\ watcher[w].pc = "credit" /\ Handled(w)
      /\ credited' = credited \cup {watcher[w].log} /\ AddToBalance(w, watcher[w].log.value)
  BY DEF CommitCredit, WatcherAt
<1>2. PICK d \in DepositSet \ credited : d = watcher[w].log
  BY <1>1, WatcherFacts DEF WatcherInv, WatcherRecords
<1>3. w \in Actors /\ cached[w] \in Nat /\ d.value \in Nat
  BY ActorFacts, DepositConstants DEF BalanceType
<1>4. /\ cached' \in [Actors -> Nat] /\ balance' = cached[w] + d.value
      /\ \A b \in Actors : b # w => cached'[b] = cached[b]
  BY <1>1, <1>2, <1>3, ForgetFacts DEF AddToBalance
<1>5. BalanceInv' /\ BalanceType'
  BY <1>1, <1>3, <1>4, HandledMoves, WatcherMoves
<1>6. OneProcess => Movement
  <2>1. Writing(w)
    BY <1>1 DEF Writing
  <2>2. OneProcess => cached[w] = balance
    BY <1>3, <2>1 DEF BalanceInv
  <2> QED
    BY <1>1, <1>2, <1>4, <2>2 DEF Movement
<1> QED
  BY <1>5, <1>6 DEF BalanceGood

LEMMA CreditErrorBalance ==
  ASSUME BalanceInv, BalanceType, DepositType, NEW w \in Watchers,
         UNCHANGED <<handler, recon, debits, refunds>>, CreditError(w)
  PROVE  BalanceGood
<1>1. CanRun(w) /\ Continue(w) /\ Handled(w) /\ UNCHANGED <<credited, balance>> /\ Forget(w)
  BY DEF CreditError, WatcherAt
<1>2. w \in Actors /\ balance' \in Nat
  BY <1>1, ActorFacts DEF BalanceType
<1>3. /\ cached' \in [Actors -> Nat]
      /\ \A b \in Actors : b # w => cached'[b] = cached[b]
  BY <1>1, <1>2, ForgetFacts
<1>4. BalanceInv' /\ BalanceType'
  BY <1>1, <1>2, <1>3, HandledMoves, WatcherMoves
<1> QED
  BY <1>1, <1>4 DEF BalanceGood, Movement

-----------------------------------------------------------------------------
(* The balance: the rest.                                                  *)

\* No actor moves.
LEMMA NoActorMoves ==
  ASSUME BalanceInv, BalanceType, UNCHANGED <<home, balance, cached, running>>,
         UNCHANGED <<handler, recon, watcher>>, UNCHANGED <<debits, refunds, credited>>
  PROVE  BalanceGood
<1>1. \A a \in Actors : Writing(a)' <=> Writing(a)
  BY DEF Writing
<1>2. BalanceInv'
  BY <1>1 DEF BalanceInv, Deployed, OneProcess
<1> QED
  BY <1>2 DEF BalanceGood, BalanceType, Movement

\* The coroutines of a dead process write nothing; those of others go on.
LEMMA CrashBalance ==
  ASSUME BalanceInv, BalanceType, WithdrawalType, DepositType, NEW p \in Processes, Crash(p)
  PROVE  BalanceGood
<1>1. /\ WithdrawalCrash(p) /\ DepositCrash(p) /\ UNCHANGED <<home, balance>>
      /\ running' = [running EXCEPT ![p] = Nobody]
      /\ cached' = [a \in Actors |-> IF Deployed(a) /\ home[a] = p THEN 0 ELSE cached[a]]
  BY DEF Crash
<1>2. UNCHANGED <<debits, refunds, credited>>
  BY <1>1 DEF WithdrawalCrash, DepositCrash
<1>3. \A r \in Requests : /\ handler'[r] = handler[r] \/ handler'[r].pc = "over"
                          /\ Deployed(r) /\ home[r] = p => ~InFlight(r)'
  BY <1>1, CrashFacts
<1>4. \A c \in Reconcilers : /\ recon'[c] = recon[c] \/ recon'[c] = IdleReconciler
                             /\ Deployed(c) /\ home[c] = p => recon'[c] = IdleReconciler
  BY <1>1, CrashFacts
<1>5. \A w \in Watchers : watcher'[w] = IF Deployed(w) /\ home[w] = p THEN IdleWatcher
                                        ELSE watcher[w]
  BY <1>1 DEF DepositCrash
<1>6. ASSUME NEW a \in Actors, Writing(a)'
      PROVE  Writing(a) /\ ~(Deployed(a) /\ home[a] = p)
  <2>1. CASE a \in Requests /\ handler'[a].pc \in {"swap", "credit"}
    BY <1>3, <2>1 DEF Writing, InFlight
  <2>2. CASE a \in Reconcilers /\ recon'[a].pc = "credit"
    BY <1>4, <2>2 DEF Writing, IdleReconciler
  <2>3. CASE a \in Watchers /\ watcher'[a].pc = "credit"
    BY <1>5, <2>3 DEF Writing, IdleWatcher
  <2> QED
    BY <1>6, <2>1, <2>2, <2>3 DEF Writing
<1>7. running' \in [Processes -> Actors \cup {Nobody}]
      /\ \A q \in Processes : q # p => running'[q] = running[q]
  BY <1>1 DEF BalanceType
<1>8. cached' \in [Actors -> Nat]
      /\ \A a \in Actors : ~(Deployed(a) /\ home[a] = p) => cached'[a] = cached[a]
  BY <1>1 DEF BalanceType
<1>9. ASSUME NEW a \in Actors, Writing(a)'
      PROVE  /\ Deployed(a)' /\ running'[home'[a]] = a
             /\ OneProcess' => cached'[a] = balance'
  <2>1. Writing(a) /\ Deployed(a) /\ running[home[a]] = a /\ home[a] # p /\ home[a] \in Processes
    BY <1>6, <1>9, ActorFacts DEF BalanceInv
  <2>2. cached'[a] = cached[a] /\ running'[home[a]] = a
    BY <1>7, <1>8, <2>1
  <2>3. OneProcess' <=> OneProcess
    BY <1>1 DEF OneProcess
  <2> QED
    BY <1>1, <2>1, <2>2, <2>3 DEF BalanceInv, Deployed
<1>10. ASSUME NEW r \in Requests, handler'[r].pc = "swap"
       PROVE  cached'[r] >= Amount[r]
  <2>1. r \in Actors /\ Writing(r)' /\ handler[r].pc = "swap"
    BY <1>3, <1>10, ActorFacts DEF Writing
  <2> QED
    BY <1>6, <1>8, <2>1 DEF BalanceInv
<1>11. BalanceInv'
  BY <1>9, <1>10 DEF BalanceInv
<1> QED
  BY <1>1, <1>2, <1>7, <1>8, <1>11 DEF BalanceGood, BalanceType, Movement

LEMMA BalanceNextKeeps ==
  ASSUME BalanceInv, BalanceType, WithdrawalType, WithdrawalInv, DepositType, DepositInv,
         [Next]_vars
  PROVE  BalanceGood
<1>1. CASE WithdrawalNext /\ UNCHANGED depositVars
  <2>1. UNCHANGED <<watcher, credited>>
    BY <1>1 DEF depositVars
  <2>2. ASSUME NEW r \in Requests, HandlerStep(r)
        PROVE  BalanceGood
    BY <2>1, <2>2, ClaimBalance, ReserveReadBalance, ReserveSwapBalance, RefundReadBalance,
       RefundWriteBalance, QuietHandlerSteps, DatabaseErrorBalance DEF HandlerStep
  <2>3. ASSUME NEW r \in Requests, Grow(r)
        PROVE  BalanceGood
    BY <2>1, <2>3, NoActorMoves DEF Grow
  <2>4. ASSUME NEW r \in Requests, NEW outcome \in {"mined", "reverted"}, Mine(r, outcome)
        PROVE  BalanceGood
    BY <2>1, <2>4, NoActorMoves DEF Mine
  <2>5. ASSUME NEW c \in Reconcilers, ReconcilerStep(c)
        PROVE  BalanceGood
    BY <2>1, <2>5, QuietReconcilerSteps, ReconRefundReadBalance, ReconRefundWriteBalance,
       ReconRefundErrorBalance DEF ReconcilerStep
  <2> QED
    BY <1>1, <2>2, <2>3, <2>4, <2>5 DEF WithdrawalNext
<1>2. CASE DepositNext /\ UNCHANGED withdrawalVars
  <2>1. UNCHANGED <<handler, recon, debits, refunds>>
    BY <1>2 DEF withdrawalVars
  <2>2. CASE NewBlock
    BY <2>1, <2>2, NoActorMoves DEF NewBlock
  <2>3. ASSUME NEW w \in Watchers, WatcherStep(w)
        PROVE  BalanceGood
    BY <2>1, <2>3, QuietWatcherSteps, BeginCreditBalance, CommitCreditBalance,
       CreditErrorBalance DEF WatcherStep
  <2> QED
    BY <1>2, <2>2, <2>3 DEF DepositNext
<1>3. CASE \E p \in Processes : Crash(p)
  BY <1>3, CrashBalance
<1>4. CASE UNCHANGED vars
  BY <1>4, NoActorMoves DEF vars
<1> QED
  BY <1>1, <1>2, <1>3, <1>4 DEF Next

LEMMA BalanceInitInv ==
  ASSUME Init
  PROVE  BalanceInv /\ BalanceType
<1>1. /\ home \in Topologies /\ balance = InitialBalance
      /\ cached = [a \in Actors |-> 0] /\ running = [p \in Processes |-> Nobody]
  BY DEF Init, BalanceInit
<1>2. /\ \A r \in Requests : handler[r].pc = "start"
      /\ \A c \in Reconcilers : recon[c].pc = "idle"
      /\ \A w \in Watchers : watcher[w].pc = "idle"
  BY DEF Init, WithdrawalInit, DepositInit, IdleReconciler, IdleWatcher
<1> QED
  BY <1>1, <1>2, BalanceAssumption DEF BalanceInv, BalanceType, Writing

-----------------------------------------------------------------------------
(* The theorems.                                                           *)

LEMMA IInvAlways == Spec => []IInv
<1>1. Init => IInv
  <2>1. SUFFICES ASSUME Init
                 PROVE  IInv
    OBVIOUS
  <2>2. crashes \in 0..MaxCrashes
    BY <2>1, CustodyAssumption DEF Init
  <2> QED
    BY <2>1, <2>2, WithdrawalInitInv, CalmInitInv, DepositInitInv, BalanceInitInv, TypeParts
       DEF IInv
<1>2. IInv /\ [Next]_vars => IInv'
  <2>1. SUFFICES ASSUME IInv, [Next]_vars
                 PROVE  IInv'
    OBVIOUS
  <2>2. WithdrawalInv /\ WithdrawalType /\ CalmInv /\ DepositInv /\ DepositType
        /\ BalanceInv /\ BalanceType /\ crashes \in 0..MaxCrashes /\ (OneWatcher => ScanInv)
    BY <2>1, TypeParts DEF IInv
  <2>3. crashes' \in 0..MaxCrashes
    BY <2>1, <2>2, CustodyAssumption DEF Next, Crash, vars
  <2>4. WithdrawalInv' /\ WithdrawalType' /\ CalmInv'
    BY <2>1, <2>2, <2>3, WithdrawalNextKeeps, CalmNextKeeps
  <2>5. DepositInv' /\ DepositType' /\ (OneWatcher' => ScanInv')
    <3>1. WatcherGood
      BY <2>1, <2>2, DepositNextKeeps
    <3> QED
      BY <2>2, <3>1 DEF WatcherGood, OneWatcher
  <2>6. BalanceInv' /\ BalanceType'
    BY <2>1, <2>2, BalanceNextKeeps DEF BalanceGood
  <2>7. TypeOK'
    BY <2>3, <2>4, <2>5, <2>6 DEF TypeOK, WithdrawalType, DepositType, BalanceType,
       HandlerRecords, RowRecords, ChainStates, ReconRecords, WatcherRecords
  <2> QED
    BY <2>4, <2>5, <2>6, <2>7 DEF IInv
<1> QED
  BY <1>1, <1>2, PTL DEF Spec

\* Every row and coroutine is well-formed, and the balance never goes below zero,
\* in any deployment: a reservation takes only what the check of the funds saw,
\* and is made only if the balance still is what was read.
THEOREM CustodyTypeCorrect == Spec => []TypeOK
<1>1. IInv => TypeOK
  BY DEF IInv
<1> QED
  BY <1>1, IInvAlways, PTL

\* One idempotency key pays out at most once, what was paid out is not also
\* refunded, and was debited, unless the bot's handler undid what it had sent: the
\* unique index of claim_idempotency_key, the hash stamped before the broadcast and
\* the reconciler's age limit between them, for any requests, reconcilers,
\* processes, deaths and database errors.
THEOREM CustodyPaidOnce == Spec => []PaidOnce
<1>1. IInv => PaidOnce
  <2> SUFFICES ASSUME IInv
               PROVE  PaidOnce
    OBVIOUS
  <2>1. ASSUME NEW r \in Requests
        PROVE  /\ chain[r] # "none" => r \in debits
               /\ chain[r] # "none" => Undone(r) \/ rows[r].status # "none"
               /\ chain[r] = "mined" => refunds[r] = 0 \/ Undone(r)
    <3>1. RequestInv(r) /\ refunds[r] \in Nat
      BY DEF IInv, WithdrawalInv, TypeOK
    <3> QED
      BY <3>1 DEF RequestInv
  <2>2. ASSUME NEW r \in Requests, NEW q \in Requests, handler[r].key = handler[q].key,
               chain[r] # "none", chain[q] # "none"
        PROVE  r = q \/ Undone(r) \/ Undone(q)
    BY <2>1, <2>2 DEF IInv, WithdrawalInv, OneRowPerKey
  <2> QED
    BY <2>1, <2>2 DEF PaidOnce
<1> QED
  BY <1>1, IInvAlways, PTL

\* A refund is of a reserved amount, and made once, whatever the interleaving of
\* handlers and reconcilers and whoever dies or raises: unless the request's own
\* handler was stopped between its claim and its reservation or between its refund
\* and the release, or undid what it had sent.
THEOREM CustodyRefundIsOwed == Spec => []RefundIsOwedUnlessLeftBehind
<1>1. IInv => RefundIsOwedUnlessLeftBehind
  <2>1. SUFFICES ASSUME IInv, NEW r \in Requests, Calm(r)
                 PROVE  refunds[r] <= IF r \in debits THEN 1 ELSE 0
    BY DEF RefundIsOwedUnlessLeftBehind, Calm
  <2>2. CalmRequest(r) /\ refunds[r] \in Nat
    BY <2>1 DEF CalmInv, IInv, TypeOK
  <2> QED
    BY <2>1, <2>2 DEF CalmRequest
<1> QED
  BY <1>1, IInvAlways, PTL

\* A reserved amount is refunded or about to be, or its transaction was accepted and
\* its row completed, or its row is pending with something left to decide on: for
\* any deaths and errors, but for the three ways of Stranded.
THEOREM CustodyDebitIsAccounted == Spec => []DebitIsAccounted
<1>1. IInv => DebitIsAccounted
  <2>1. SUFFICES ASSUME IInv, NEW r \in debits
                 PROVE  \/ Stranded(r)
                        \/ refunds[r] > 0
                        \/ BeingRefunded(r)
                        \/ rows[r].status = "completed" /\ chain[r] \in {"mempool", "mined"}
                        \/ /\ rows[r].status = "pending"
                           /\ InFlight(r) \/ ~rows[r].hash \/ chain[r] # "none"
    BY DEF DebitIsAccounted
  <2>2. CalmRequest(r) /\ RequestInv(r)
    BY <2>1 DEF CalmInv, WithdrawalInv, IInv, TypeOK
  <2>3. rows[r] \in RowRecords /\ chain[r] \in ChainStates /\ refunds[r] \in Nat
    BY <2>1, TypeParts DEF IInv, TypeOK, WithdrawalType
  <2>4. CASE rows[r].status = "none"
    BY <2>1, <2>2, <2>4 DEF CalmRequest
  <2>5. CASE rows[r].status = "pending"
    BY <2>5 DEF Stranded
  <2>6. CASE rows[r].status = "completed"
    BY <2>2, <2>3, <2>6 DEF RequestInv, ChainStates, Stranded
  <2>7. CASE rows[r].status = "failed"
    BY <2>1, <2>2, <2>7 DEF CalmRequest, Returning, Refunding, BeingRefunded, Stranded
  <2> QED
    BY <2>3, <2>4, <2>5, <2>6, <2>7 DEF RowRecords
<1> QED
  BY <1>1, IInvAlways, PTL

\* Every creditable deposit the cursor of a lone watcher has passed was booked,
\* unless its transaction failed, and what was booked is confirmed: an error of
\* get_logs or a crash in mid-scan leaves the cursor where it was.  (Two watchers
\* that both start cold, at different heights, could leave a gap between them.)
THEOREM CustodyScannedIsBooked ==
  ASSUME OneWatcher
  PROVE  Spec => []ScannedIsBooked
<1>1. IInv => ScannedIsBooked
  <2> SUFFICES ASSUME IInv
               PROVE  ScannedIsBooked
    OBVIOUS
  <2>1. \A d \in credited : d.listed /\ d.value >= MIN_DEPOSIT /\ d.block + CONFIRMATIONS <= head
    BY DEF IInv, DepositInv, Creditable
  <2>2. ScanInv
    BY DEF IInv
  <2> QED
    <3>1. ASSUME cursor # NoCursor, NEW d \in DepositSet, Creditable(d),
                 d.block \in (origin + 1)..cursor
          PROVE  d \in credited \cup failed
      BY <2>2, <3>1 DEF ScanInv, Covered, Booking, InRange
    <3> QED
      BY <2>1, <3>1 DEF ScannedIsBooked
<1> QED
  BY <1>1, IInvAlways, PTL

\* As long as one event loop runs everything, every step moves the balance by
\* exactly what it records: a debit made once, a refund, or a deposit booked
\* once.  No writer overwrites another, because update_custodial_balance does not
\* await between its read and its write.
THEOREM CustodyEveryMoveRecorded == Spec => [][OneProcess => Movement]_vars
<1>1. IInv /\ [Next]_vars => [OneProcess => Movement]_vars
  <2>1. SUFFICES ASSUME IInv, [Next]_vars
                 PROVE  OneProcess => Movement
    OBVIOUS
  <2>2. WithdrawalInv /\ WithdrawalType /\ DepositInv /\ DepositType /\ BalanceInv /\ BalanceType
    BY <2>1, TypeParts DEF IInv
  <2> QED
    BY <2>1, <2>2, BalanceNextKeeps DEF BalanceGood
<1> QED
  BY <1>1, IInvAlways, PTL DEF Spec

-----------------------------------------------------------------------------
(* The sum of the movements.                                               *)

\* An actor stays in its process.
LEMMA HomeStays ==
  ASSUME [Next]_vars
  PROVE  UNCHANGED home
<1>1. CASE WithdrawalNext
  <2>1. ASSUME NEW r \in Requests, HandlerStep(r) \/ Grow(r)
        PROVE  UNCHANGED home
    BY <2>1 DEF HandlerStep, Claim, ReserveRead, ReserveSwap, SendFails, StampHash, Broadcast,
       RecordPendingHash, Finalize, Notify, RefundRead, RefundWrite, Release, DatabaseError,
       UndoAfterSend, Grow, Continue, Yield
  <2>2. ASSUME NEW r \in Requests, NEW outcome, Mine(r, outcome)
        PROVE  UNCHANGED home
    BY <2>2 DEF Mine
  <2>3. ASSUME NEW c \in Reconcilers, ReconcilerStep(c)
        PROVE  UNCHANGED home
    BY <2>3 DEF ReconcilerStep, Scan, Pick, EndPass, LookUp, LookUpUnknown, CompleteRow, FailRow,
       ReconRefundRead, ReconRefundWrite, CasError, ReconRefundError, BackToPick, Continue, Yield
  <2> QED
    BY <1>1, <2>1, <2>2, <2>3 DEF WithdrawalNext
<1>2. CASE DepositNext
  <2>1. ASSUME NEW w \in Watchers, WatcherStep(w)
        PROVE  UNCHANGED home
    BY <2>1 DEF WatcherStep, BeginScan, FetchLogs, FetchError, SkipLog, BeginCredit, CommitCredit,
       CreditError, NextChunk, SetCursor, Continue, Yield
  <2> QED
    BY <1>2, <2>1 DEF DepositNext, NewBlock
<1>3. CASE \E p \in Processes : Crash(p)
  BY <1>3 DEF Crash
<1>4. CASE UNCHANGED vars
  BY <1>4 DEF vars
<1> QED
  BY <1>1, <1>2, <1>3, <1>4 DEF Next

\* The value of every deposit, and what each request was refunded.
Value    == [d \in DepositSet |-> d.value]
Refunded == [r \in Requests |-> refunds[r] * Amount[r]]

Ledger ==
  InitialBalance + SumFunctionOnSet(Value, credited) - SumFunctionOnSet(Amount, debits)
    + SumFunctionOnSet(Refunded, Requests)

LEMMA LedgerIsLedger == BalanceIsLedger <=> balance = Ledger
<1>1. SumFunction(Refunded) = SumFunctionOnSet(Refunded, Requests)
  BY DEF SumFunction, Refunded
<1> QED
  BY <1>1 DEF BalanceIsLedger, Ledger, Value, Refunded

\* What has moved can be added up, and the balance is the sum.
LedgerInv ==
  /\ IsFiniteSet(credited)
  /\ IsFiniteSet(debits)
  /\ balance = Ledger

\* What is summed up are numbers, and so are the sums.
LEMMA MovedAmounts ==
  ASSUME WithdrawalType, DepositType, IsFiniteSet(Requests), IsFiniteSet(credited), IsFiniteSet(debits)
  PROVE  /\ \A d \in DepositSet : Value[d] = d.value /\ Value[d] \in Int
         /\ \A r \in Requests : Amount[r] \in Int /\ refunds[r] \in Int /\ Refunded[r] \in Int
         /\ SumFunctionOnSet(Value, credited) \in Int
         /\ SumFunctionOnSet(Amount, debits) \in Int
         /\ SumFunctionOnSet(Refunded, Requests) \in Int
<1>1. \A d \in DepositSet : Value[d] = d.value /\ Value[d] \in Int
  BY DepositAssumption DEF Value
<1>2. \A r \in Requests : Amount[r] \in Int /\ refunds[r] \in Int /\ Refunded[r] \in Int
  <2> TAKE r \in Requests
  <2>1. Amount[r] \in Int /\ refunds[r] \in Int
    BY WithdrawalAssumption DEF WithdrawalType
  <2>2. refunds[r] * Amount[r] \in Int
    BY <2>1
  <2> QED
    BY <2>1, <2>2 DEF Refunded
<1>3. credited \subseteq DepositSet /\ debits \subseteq Requests
  BY DEF DepositType, WithdrawalType
<1>4. SumFunctionOnSet(Value, credited) \in Int
  BY <1>1, <1>3, SumOfMember
<1>5. SumFunctionOnSet(Amount, debits) \in Int
  BY <1>2, <1>3, SumOfMember
<1>6. SumFunctionOnSet(Refunded, Requests) \in Int
  BY <1>2, SumOfMember
<1> QED
  BY <1>1, <1>2, <1>4, <1>5, <1>6

\* A movement changes the sum by as much as the balance.
LEMMA MovementKeepsLedger ==
  ASSUME WithdrawalType, DepositType, WithdrawalType', balance \in Nat, Movement, LedgerInv,
         IsFiniteSet(Requests)
  PROVE  LedgerInv'
<1>0. /\ IsFiniteSet(credited) /\ IsFiniteSet(debits) /\ balance = Ledger
      /\ InitialBalance \in Int /\ balance \in Int
  BY BalanceAssumption DEF LedgerInv
<1> DEFINE In  == SumFunctionOnSet(Value, credited)
           Out == SumFunctionOnSet(Amount, debits)
           Ret == SumFunctionOnSet(Refunded, Requests)
<1>1. /\ \A d \in DepositSet : Value[d] = d.value /\ Value[d] \in Int
      /\ \A r \in Requests : Amount[r] \in Int /\ refunds[r] \in Int /\ Refunded[r] \in Int
      /\ In \in Int /\ Out \in Int /\ Ret \in Int
  BY <1>0, MovedAmounts
<1>2. Ledger = InitialBalance + In - Out + Ret /\ Ledger' = InitialBalance + In' - Out' + Ret'
  BY DEF Ledger
<1>3. debits \subseteq Requests /\ credited \subseteq DepositSet
  BY DEF DepositType, WithdrawalType
<1>4. /\ UNCHANGED credited => In' = In
      /\ UNCHANGED debits => Out' = Out
      /\ UNCHANGED refunds => Ret' = Ret
  BY DEF Value, Refunded
<1>5. CASE UNCHANGED <<balance, debits, refunds, credited>>
  <2>1. In' = In /\ Out' = Out /\ Ret' = Ret
    BY <1>4, <1>5
  <2> HIDE DEF In, Out, Ret
  <2>2. balance' = Ledger'
    BY <1>0, <1>2, <1>5, <2>1
  <2> QED
    BY <1>0, <1>5, <2>2 DEF LedgerInv
<1>6. ASSUME NEW r \in Requests \ debits,
             balance' = balance - Amount[r], debits' = debits \cup {r},
             UNCHANGED <<refunds, credited>>
      PROVE  LedgerInv'
  <2>1. \A q \in debits \cup {r} : Amount[q] \in Int
    BY <1>1, <1>3
  <2>2. Out' = Out + Amount[r]
    BY <1>0, <1>6, <2>1, SumOfOneMore
  <2>3. In' = In /\ Ret' = Ret
    BY <1>4, <1>6
  <2>4. Amount[r] \in Int
    BY <1>1
  <2>5. IsFiniteSet(debits') /\ IsFiniteSet(credited')
    BY <1>0, <1>6, FS_AddElement
  <2> HIDE DEF In, Out, Ret
  <2>6. balance' = Ledger'
    BY <1>0, <1>1, <1>2, <1>6, <2>2, <2>3, <2>4
  <2> QED
    BY <2>5, <2>6 DEF LedgerInv
<1>7. ASSUME NEW r \in Requests,
             balance' = balance + Amount[r], refunds' = [refunds EXCEPT ![r] = @ + 1],
             UNCHANGED <<debits, credited>>
      PROVE  LedgerInv'
  <2>1. refunds'[r] = refunds[r] + 1 /\ \A q \in Requests \ {r} : refunds'[q] = refunds[q]
    BY <1>7 DEF WithdrawalType
  <2>2. \A q \in Requests \ {r} : Refunded'[q] = Refunded[q]
    BY <2>1 DEF Refunded
  <2>3. Refunded'[r] = Refunded[r] + Amount[r]
    <3>1. \A n, a \in Int : (n + 1) * a = n * a + a
      OBVIOUS
    <3>2. refunds[r] \in Int /\ Amount[r] \in Int
      BY <1>1
    <3>3. Refunded'[r] = (refunds[r] + 1) * Amount[r] /\ Refunded[r] = refunds[r] * Amount[r]
      BY <2>1 DEF Refunded
    <3> QED
      BY <3>1, <3>2, <3>3
  <2>4. \A q \in Requests : Refunded[q] \in Int /\ Refunded'[q] \in Int
    BY <1>1, <2>2, <2>3
  <2>5. Ret' = Ret + (Refunded'[r] - Refunded[r])
    BY <2>2, <2>4, SumOfOneChanged
  <2>6. In' = In /\ Out' = Out
    BY <1>4, <1>7
  <2>7. Amount[r] \in Int /\ Refunded[r] \in Int
    BY <1>1
  <2> HIDE DEF In, Out, Ret
  <2>8. balance' = Ledger'
    BY <1>0, <1>1, <1>2, <1>7, <2>3, <2>5, <2>6, <2>7
  <2> QED
    BY <1>0, <1>7, <2>8 DEF LedgerInv
<1>8. ASSUME NEW d \in DepositSet \ credited,
             balance' = balance + d.value, credited' = credited \cup {d},
             UNCHANGED <<debits, refunds>>
      PROVE  LedgerInv'
  <2>1. \A e \in credited \cup {d} : Value[e] \in Int
    BY <1>1, <1>3
  <2>2. In' = In + Value[d]
    <3>1. Value' = Value
      BY DEF Value
    <3> QED
      BY <1>0, <1>8, <2>1, <3>1, SumOfOneMore
  <2>3. Out' = Out /\ Ret' = Ret
    BY <1>4, <1>8
  <2>4. Value[d] = d.value /\ Value[d] \in Int
    BY <1>1
  <2>5. IsFiniteSet(debits') /\ IsFiniteSet(credited')
    BY <1>0, <1>8, FS_AddElement
  <2> HIDE DEF In, Out, Ret
  <2>6. balance' = Ledger'
    BY <1>0, <1>1, <1>2, <1>8, <2>2, <2>3, <2>4
  <2> QED
    BY <2>5, <2>6 DEF LedgerInv
<1> QED
  BY <1>5, <1>6, <1>7, <1>8 DEF Movement

\* Before anything moved the balance is what it was.
LEMMA LedgerInitInv ==
  ASSUME Init, IsFiniteSet(Requests)
  PROVE  LedgerInv
<1>1. credited = {} /\ debits = {} /\ balance = InitialBalance /\ refunds = [r \in Requests |-> 0]
  BY DEF Init, BalanceInit, WithdrawalInit, DepositInit
<1>2. SumFunctionOnSet(Value, credited) = 0 /\ SumFunctionOnSet(Amount, debits) = 0
  BY <1>1, SumOfNothing
<1>3. SumFunctionOnSet(Refunded, Requests) = 0
  <2>1. \A r \in Requests : Refunded[r] = 0
    <3> TAKE r \in Requests
    <3>1. Amount[r] \in Int
      BY WithdrawalAssumption
    <3>2. 0 * Amount[r] = 0
      BY <3>1
    <3> QED
      BY <1>1, <3>2 DEF Refunded
  <2> QED
    BY <2>1, SumOfZeros
<1>4. InitialBalance \in Int
  BY BalanceAssumption
<1>5. IsFiniteSet(credited) /\ IsFiniteSet(debits)
  BY <1>1, FS_EmptySet
<1> QED
  BY <1>1, <1>2, <1>3, <1>4, <1>5 DEF LedgerInv, Ledger

\* As long as one event loop runs everything, the balance is what its movements
\* add up to: what there was, the deposits booked, less the debits, plus the
\* refunds; no read-modify-write loses another's.  The requests of a run are
\* finitely many.
THEOREM CustodyLedgerInOneProcess ==
  ASSUME IsFiniteSet(Requests)
  PROVE  Spec => []LedgerInOneProcess
<1>1. ASSUME Init
      PROVE  OneProcess => LedgerInv
  BY <1>1, LedgerInitInv
<1>2. ASSUME IInv, IInv', [Next]_vars, OneProcess => LedgerInv
      PROVE  (OneProcess => LedgerInv)'
  <2>1. SUFFICES ASSUME OneProcess'
                 PROVE  LedgerInv'
    OBVIOUS
  <2>2. OneProcess
    BY <1>2, <2>1, HomeStays DEF OneProcess
  <2>3. /\ WithdrawalInv /\ WithdrawalType /\ DepositInv /\ DepositType /\ BalanceInv /\ BalanceType
        /\ WithdrawalType'
    BY <1>2, TypeParts DEF IInv, TypeOK, WithdrawalType, HandlerRecords, RowRecords, ChainStates,
       ReconRecords
  <2>4. Movement
    BY <1>2, <2>2, <2>3, BalanceNextKeeps DEF BalanceGood
  <2>5. balance \in Nat
    BY <2>3 DEF BalanceType
  <2> QED
    BY <1>2, <2>2, <2>3, <2>4, <2>5, MovementKeepsLedger
<1>3. (OneProcess => LedgerInv) => LedgerInOneProcess
  BY LedgerIsLedger DEF LedgerInv, LedgerInOneProcess, OneProcess
<1> QED
  BY <1>1, <1>2, <1>3, IInvAlways, PTL DEF Spec

=============================================================================
